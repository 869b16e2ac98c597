------------------------------ MODULE PlanTurn ------------------------------
(***************************************************************************)
(* The plan turns of one session, of patterns/plan_execute.py and          *)
(* patterns/synthesize.py inside the turn of runtime/agent.py: a plan is   *)
(* executed as one call, and what happened is then told to the reader of   *)
(* the stream event by event.  The plan and its steps are PlanCompose's;   *)
(* here a finished plan is a result.  The reader may leave at any event;   *)
(* the memory of the turn is then dropped.                                 *)
(***************************************************************************)
EXTENDS Integers, Sequences, FiniteSets, SequencesExt, FiniteSetsExt

CONSTANTS
  PlanResults,   \* what execute_adaptive may return: [stop, steps, known, cost]
  PlanCosts,     \* what a synthesis may cost
  PriorCount,    \* PLAN_PRIOR_REFLECTION_COUNT: the notes a plan is given
  MaxJudged,     \* bound: events the judges of one plan emit
  MaxPlanTurns   \* bound on the turns of the session

StepKinds == {"ok", "error", "empty"}

ASSUME PlanTurnAssumption ==
  /\ \A r \in PlanResults :
       /\ r.steps \in Seq([kind : StepKinds, tool : BOOLEAN])
       /\ r.known \in BOOLEAN /\ r.cost \in Nat
  /\ PlanCosts \subseteq Nat
  /\ PriorCount \in Nat \ {0}

VARIABLES
  stored,    \* the REFLECTION section of the session, as it was last saved
  pturn,     \* the turn in progress
  stream,    \* the events its reader received
  ran        \* how many turns began

planTurnVars == <<stored, pturn, stream, ran>>

\* The stops of a plan that the budget of the plan explains (budget_kinds).
BudgetStops == {"max_cost", "max_tokens", "max_steps", "max_replans", "max_wall_clock"}

\* A result that is worth telling: it is not empty and not an error.
Usable(step) == step.kind = "ok"

NoResult == [stop |-> "none", steps |-> <<>>, known |-> TRUE, cost |-> 0]

IdleTurn ==
  [phase |-> "idle", held |-> <<>>, prior |-> <<>>, result |-> NoResult, seq |-> 0,
   at |-> 1, text |-> "none", judged |-> 0, synthesis |-> 0]

PlanTurnInit ==
  stored = <<>> /\ pturn = IdleTurn /\ stream = <<>> /\ ran = 0

LastN(s, n) == SubSeq(s, IF Len(s) > n THEN Len(s) - n + 1 ELSE 1, Len(s))

-----------------------------------------------------------------------------
\* The turn loads the memory of the session; the plan is given the last notes.
BeginPlan ==
  /\ pturn.phase = "idle" /\ ran < MaxPlanTurns
  /\ pturn' = [IdleTurn EXCEPT !.phase = "running", !.held = stored,
                               !.prior = LastN(stored, PriorCount)]
  /\ ran' = ran + 1
  /\ UNCHANGED <<stored, stream>>

\* A judge or a router of the plan emits a span: the emitter numbers it, and nobody
\* yields it to the stream.
JudgeEmits ==
  /\ pturn.phase = "running" /\ pturn.judged < MaxJudged
  /\ pturn' = [pturn EXCEPT !.seq = @ + 1, !.judged = @ + 1]
  /\ UNCHANGED <<stored, stream, ran>>

\* One event is numbered and yielded: the fields of the turn change with `turn`.
Yields(kind, of, turn) ==
  /\ stream' = Append(stream, [seq |-> pturn.seq, kind |-> kind, of |-> of])
  /\ pturn' = [turn EXCEPT !.seq = pturn.seq + 1]
  /\ UNCHANGED <<stored, ran>>

Composed ==
  /\ pturn.phase = "running"
  /\ \E r \in PlanResults :
       Yields("usage", r.cost, [pturn EXCEPT !.phase = "proposing", !.result = r])

\* The plan raises: the turn reports the error and is saved with no answer.
ComposeRaises ==
  /\ pturn.phase = "running"
  /\ Yields("run_error", 0, [pturn EXCEPT !.phase = "answered"])

\* The proposed steps, or the executed ones when the plan cannot be read back.
\* `known` says that it can, and then it holds at least the steps that ran.
Propose ==
  /\ pturn.phase = "proposing"
  /\ LET shown == Len(pturn.result.steps) IN
       IF shown > 0 \/ pturn.result.known
       THEN Yields("plan_proposed", shown, [pturn EXCEPT !.phase = "steps"])
       ELSE /\ pturn' = [pturn EXCEPT !.phase = "steps"]
            /\ UNCHANGED <<stored, stream, ran>>

\* The tool of a step, which only the plan that was read back names.
ToolOf(result, i) == result.known /\ result.steps[i].tool

StepStarts ==
  /\ pturn.phase = "steps" /\ pturn.at <= Len(pturn.result.steps)
  /\ Yields("step_start", pturn.at,
            [pturn EXCEPT !.phase = IF ToolOf(pturn.result, pturn.at) THEN "tool" ELSE "closing"])

ToolStarts ==
  /\ pturn.phase = "tool"
  /\ Yields("tool_start", pturn.at, [pturn EXCEPT !.phase = "tool_done"])

ToolCompletes ==
  /\ pturn.phase = "tool_done"
  /\ Yields("tool_complete", pturn.at, [pturn EXCEPT !.phase = "closing"])

StepCompletes ==
  /\ pturn.phase = "closing"
  /\ Yields("step_complete", pturn.at, [pturn EXCEPT !.phase = "steps", !.at = @ + 1])

\* A stop that the budget explains is reported; then the answer is written.
ReportBudget ==
  /\ pturn.phase = "steps" /\ pturn.at > Len(pturn.result.steps)
  /\ IF pturn.result.stop \in BudgetStops
     THEN Yields("budget_exceeded", 0, [pturn EXCEPT !.phase = "answer"])
     ELSE /\ pturn' = [pturn EXCEPT !.phase = "answer"]
          /\ UNCHANGED <<stored, stream, ran>>

-----------------------------------------------------------------------------
\* should_attempt_llm_synthesis: a model is asked only for something worth telling.
WorthTelling(result) == \E i \in DOMAIN result.steps : Usable(result.steps[i])

\* _format_plan_response, with _synthesize_results: what the formatter can tell.
Formatted(result) ==
  CASE result.steps = <<>> -> "status"
    [] WorthTelling(result) -> "findings"
    [] OTHER -> "nothing_usable"

\* The memory of the turn after its plan: one that did not succeed leaves a note, and a
\* section that is full forgets its oldest notes for it.
NoteOf(result) == IF result.steps # <<>> THEN "stopped" ELSE "failed"

Noted(turn) ==
  IF turn.result.stop = "success" THEN {turn.held}
  ELSE {Append(LastN(turn.held, kept), NoteOf(turn.result)) : kept \in 0..Len(turn.held)}

\* The model answers, perhaps with nothing, and is paid for either way.
Synthesize ==
  /\ pturn.phase = "answer" /\ WorthTelling(pturn.result)
  /\ \E cost \in PlanCosts, told \in {"narrative", Formatted(pturn.result)} :
       Yields("usage", cost,
              [pturn EXCEPT !.phase = "deliver", !.text = told, !.synthesis = cost])

\* There is nothing to synthesize, or the call raises: the formatter answers.
Format ==
  /\ pturn.phase = "answer"
  /\ pturn' = [pturn EXCEPT !.phase = "deliver", !.text = Formatted(pturn.result)]
  /\ UNCHANGED <<stored, stream, ran>>

Deliver ==
  /\ pturn.phase = "deliver"
  /\ \E held \in Noted(pturn) :
       Yields("text", 0, [pturn EXCEPT !.phase = "answered", !.held = held])

\* summarize_turn: of two notes or more a summary is made, which replaces them, or nothing
\* when it does not fit the section; the notes stay when none can be had.
SummarizeMinItems == 2

Summarized(held) ==
  {held} \cup (IF Len(held) < SummarizeMinItems THEN {} ELSE {<<"summary">>, <<>>})

\* The turn ends: its notes are summarized, and the memory it holds is saved.
SaveTurn ==
  /\ pturn.phase = "answered"
  /\ stored' \in Summarized(pturn.held)
  /\ pturn' = IdleTurn /\ stream' = <<>>
  /\ UNCHANGED ran

\* The reader leaves, or the turn is cancelled: nothing is saved.
LeavePlan ==
  /\ pturn.phase # "idle"
  /\ pturn' = IdleTurn /\ stream' = <<>>
  /\ UNCHANGED <<stored, ran>>

PlanTurnNext ==
  \/ BeginPlan \/ JudgeEmits \/ Composed \/ ComposeRaises \/ Propose
  \/ StepStarts \/ ToolStarts \/ ToolCompletes \/ StepCompletes \/ ReportBudget
  \/ Synthesize \/ Format \/ Deliver \/ SaveTurn \/ LeavePlan

-----------------------------------------------------------------------------
EventsOf(kind) == {i \in DOMAIN stream : stream[i].kind = kind}

\* What _handle_plan makes of the stream: the calls it reports and what they cost.
Collected ==
  [calls |-> Cardinality(EventsOf("step_complete")),
   cost |-> MapThenSumSet(LAMBDA i : stream[i].of, EventsOf("usage")),
   texts |-> Cardinality(EventsOf("text"))]

\* Whatever a finished plan was, the reader who stays is told all of it in order: the
\* numbers of the events grow, every step that ran is opened and closed around its tool
\* call and makes one call of the collected record, the budget's stop is told, the money
\* is the plan's and the synthesis's, exactly one text closes the stream, which tells
\* the findings when there are any, and the memory of the turn ends with a note on its own
\* plan when that did not succeed, and is as it was found when it did
\* (plan_execute.py:152-461, 463-512; its comments at 388-393 and 413-415).
PlanTurnSound ==
  /\ \A i \in 1..(Len(stream) - 1) : stream[i].seq < stream[i + 1].seq
  /\ (pturn.phase = "answered" /\ pturn.result # NoResult) =>
       LET r == pturn.result n == Len(r.steps) IN
       /\ Collected = [calls |-> n, cost |-> r.cost + pturn.synthesis, texts |-> 1]
       /\ Last(stream).kind = "text"
       /\ WorthTelling(r) = (pturn.text \in {"narrative", "findings"})
       /\ (r.stop \in BudgetStops) = (EventsOf("budget_exceeded") # {})
       /\ IF r.stop = "success" THEN pturn.held = stored
          ELSE pturn.held # <<>> /\ Last(pturn.held) = NoteOf(r)
       /\ \A k \in 1..n :
            \E i, j \in DOMAIN stream :
              /\ stream[i].kind = "step_start" /\ stream[i].of = k
              /\ stream[j].kind = "step_complete" /\ stream[j].of = k
              /\ SubSeq(stream, i + 1, j - 1) # <<>> <=> ToolOf(r, k)
              /\ j - i \in {1, 3}

\* What the comment at plan_execute.py:234-240 says of the judges and routes of a plan:
\* "SSE consumers see judge inputs/outputs + route decisions live".
JudgesSeenLive == pturn.phase = "answered" => Len(stream) = pturn.seq
=============================================================================
