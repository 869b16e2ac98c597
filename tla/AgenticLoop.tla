----------------------------- MODULE AgenticLoop -----------------------------
(***************************************************************************)
(* run_agentic_turn (patterns/agentic_loop.py): plan the tool groups,      *)
(* elevate what the session's policy lets through, run the worker, check    *)
(* the goal, let the grounding critics override, and go round again, until  *)
(* a verdict or one of the limiters ends the turn.  With it, what it calls: *)
(* plan_turn_tool_policy, check_goal and SessionPolicy.                     *)
(*                                                                         *)
(* An action ends where the code awaits a model, the worker or a critic.    *)
(* A draft is a member of Texts, cost is counted in units, and the wall     *)
(* clock is the flag late, which any await may raise.  A cancellation may   *)
(* arrive at every await.                                                   *)
(***************************************************************************)
EXTENDS Integers, Sequences, FiniteSets

CONSTANTS
  Groups,         \* available_groups
  Allowed,        \* allowed_groups as the turn starts
  SoftCeiling, Green,  \* of the SessionPolicy: what it may elevate, and what without asking
  AutoElevate,
  Texts,          \* what the worker may answer
  None,           \* the empty answer
  Substantive,    \* answers of at least _MIN_WORKER_DRAFT_CHARS
  HeaderOnly,     \* answers that end on the heading of a deliverable
  Same(_, _),     \* identical, one within the other, or near-identical by 3-grams
  ToolRuns,       \* the tool calls a worker may make: each is <<tool, did it fail>>
  Tools,
  Critics,        \* the grounding critics the caller asked for
  Strict,         \* those that override at any confidence (M3, M5)
  CitationGate,   \* citation_verification_enabled
  GoalModel,      \* is a goal_check_model configured for the completeness check
  MaxIterations, CostCap, CallCap, Threshold, ToolCap,
  Costs           \* what a planner, goal-check or worker call may cost

ASSUME GroupsAssumption ==
  Allowed \subseteq Groups /\ SoftCeiling \subseteq Groups
ASSUME TextsAssumption ==
  None \in Texts /\ Substantive \cup HeaderOnly \subseteq Texts \ {None}
ASSUME BoundsAssumption ==
  /\ {MaxIterations, CostCap, Threshold, ToolCap} \subseteq Nat \ {0}
  /\ CallCap \in Nat /\ Costs \subseteq Nat
  /\ \A r \in ToolRuns : r \in Seq(Tools \X BOOLEAN)
  /\ Strict \subseteq Critics
  /\ \E most \in Costs : \A c \in Costs : c <= most

Caps == {"cost_exceeded", "wall_clock_exceeded", "circuit_breaker_tripped",
         "tool_call_cap_exceeded"}
Reasons == Caps \cup {"satisfied", "insufficient_evidence", "stuck_no_progress",
                      "max_iterations", "user_interrupt"}
Intents == {"none", "respond", "respond_with_caveat", "refuse"}

VARIABLES
  pc,          \* plan, work, check, criticise, refuse, ended, raised
  iteration, cost, late,
  allowed,     \* policy.allowed_groups
  effective,   \* the groups the worker is given
  draft,       \* current_iter_text
  calls,       \* last_tool_calls_made
  lastText, lastCalls,   \* of the iteration before, for stuck detection
  verdict,     \* last_terminal_verdict
  failures,    \* consecutive_tool_failures
  tripped,     \* has a tool crossed the threshold
  reason,      \* why the turn ends
  intent,      \* of the TurnSummary the loop itself emits
  terminated,  \* LoopTerminated events emitted
  note,        \* whose directives state.thinking_note holds: of the citation gate, of a critic
  cited,       \* history: had draft a citation that CourtListener does not confirm
  judged,      \* history: what was said of Preserved, the text kept: none, accepted, rejected
  checked      \* history: did the completeness check accept what is shipped

vars == <<pc, iteration, cost, late, allowed, effective, draft, calls, lastText, lastCalls,
          verdict, failures, tripped, reason, intent, terminated, note, cited, judged, checked>>
loopVars == <<lastText, lastCalls, verdict, note>>
toolVars == <<failures, tripped>>
endVars == <<intent, terminated, checked>>

\* A mutant of Over: the cap may be spent before it stops anything.
MutOver(c) == c > CostCap
Over(c) == c >= CostCap

\* Any await may take the turn over its time.
Clock == late' \in {late, TRUE}

-----------------------------------------------------------------------------
(* Leaving the loop *)

\* A limiter: the turn goes on to _emit_failure_refusal.
Refuse(why) == pc' = "refuse" /\ reason' = why
Terminate(why) == pc' = "ended" /\ reason' = why /\ terminated' = terminated + 1

\* _draft_for_preserve: the draft of this iteration, or else of the one before.
Preserved == IF draft # None THEN draft ELSE lastText
\* _should_preserve_worker_draft
Preserves == Preserved \in Substantive /\ verdict \in {"none", "satisfied"}

\* check_goal never accepts a draft that stops on its heading.
Acceptable(text) == text \notin HeaderOnly

\* _emit_failure_refusal with _draft_is_complete, and LoopTerminated after it.
EmitRefusal ==
  /\ pc = "refuse"
  /\ \/ /\ ~Preserves
        /\ intent' = "refuse" /\ UNCHANGED <<cost, checked>>
     \/ /\ Preserves
        /\ intent' = "respond_with_caveat"
        /\ \E c \in IF GoalModel THEN Costs ELSE {0} : cost' = cost + c
        /\ UNCHANGED checked
     \/ /\ Preserves /\ GoalModel /\ Acceptable(Preserved)
        /\ intent' = "respond" /\ checked' = TRUE
        /\ \E c \in Costs : cost' = cost + c
  /\ Terminate(reason)
  /\ UNCHANGED <<iteration, late, allowed, effective, draft, calls, toolVars, loopVars,
                 cited, judged>>

-----------------------------------------------------------------------------
(* One iteration *)

\* The groups a planner's answer keeps and drops (plan_turn_tool_policy).
Kept(wanted, confident) ==
  IF confident /\ wanted \cap allowed # {} THEN wanted \cap allowed ELSE allowed
\* What it says: the groups kept, those dropped, and its cost.  It is not asked when nothing
\* is allowed, and keeps everything when it fails.
PlannerSays ==
  {<<allowed, {}, 0>>} \cup
    IF allowed = {} THEN {}
    ELSE {<<Kept(wanted, confident), wanted \ allowed, c>> :
            wanted \in SUBSET Groups, confident \in BOOLEAN, c \in Costs}

\* _consider_elevation: what the policy elevates without asking.
Elevated(dropped) == IF AutoElevate THEN dropped \cap SoftCeiling \cap Green ELSE {}

\* A new iteration: the verdict is reset, the planner asked, the caps checked, and the
\* worker started with what was kept and what has been elevated.
Plan ==
  /\ pc = "plan" /\ iteration < MaxIterations
  /\ iteration' = iteration + 1
  /\ verdict' = "none"
  /\ Clock
  /\ \E says \in PlannerSays :
       LET kept == says[1] dropped == says[2] total == cost + says[3]
       IN /\ cost' = total
          /\ \/ /\ Over(total) /\ Refuse("cost_exceeded")
                /\ UNCHANGED <<allowed, effective>>
             \/ /\ ~Over(total) /\ late' /\ Refuse("wall_clock_exceeded")
                /\ UNCHANGED <<allowed, effective>>
             \/ /\ ~Over(total) /\ ~late'
                /\ pc' = "work" /\ UNCHANGED reason
                /\ allowed' = allowed \cup Elevated(dropped)
                /\ effective' = kept \cup (allowed' \cap dropped)
  /\ UNCHANGED <<draft, calls, lastText, lastCalls, toolVars, endVars, note, cited, judged>>

\* max_loop_iterations rounds have passed without a terminal verdict.
MutOutOfIterations == FALSE
OutOfIterations ==
  /\ pc = "plan" /\ iteration = MaxIterations
  /\ Refuse("max_iterations")
  /\ UNCHANGED <<iteration, cost, late, allowed, effective, draft, calls, loopVars, toolVars,
                 endVars, cited, judged>>

\* _observe_for_circuit_breaker over the tool spans of one run: [failures, tripped].
Observed(was, call) ==
  LET tool == call[1]
      n == IF call[2] THEN was.failures[tool] + 1 ELSE 0
  IN IF was.tripped THEN was
     ELSE [failures |-> [was.failures EXCEPT ![tool] = n], tripped |-> n >= Threshold]
Watched(run) ==
  LET after[k \in 0..Len(run)] ==
        IF k = 0 THEN [failures |-> failures, tripped |-> tripped] ELSE Observed(after[k - 1], run[k])
  IN after[Len(run)]

\* The worker returns: its draft is kept, its tool spans watched, and the caps
\* checked in the order of the code.  A buffered worker's spans are only watched
\* when its own cost passes, a streaming one's always.  Before that the citation
\* gate replaces the note when verify_citations_in_text names a problem; it ends nothing.
\* An empty draft is not kept: the one before still is, with what was said of it.
Work ==
  /\ pc = "work"
  /\ Clock
  /\ \E text \in Texts, run \in ToolRuns, c \in Costs :
       LET total == cost + c
           costly == CallCap > 0 /\ c > CallCap
           unseen == [failures |-> failures, tripped |-> tripped]
       IN \E seen \in IF costly THEN {unseen, Watched(run)} ELSE {Watched(run)} :
          /\ draft' = text /\ calls' = run /\ cost' = total
          /\ cited' \in (IF CitationGate /\ text # None /\ ~costly THEN BOOLEAN ELSE {FALSE})
          /\ note' = IF cited' THEN {"citations"} ELSE note
          /\ failures' = seen.failures /\ tripped' = seen.tripped
          /\ IF costly THEN Refuse("cost_exceeded")
             ELSE IF seen.tripped THEN Refuse("circuit_breaker_tripped")
             ELSE IF Len(run) >= ToolCap THEN Refuse("tool_call_cap_exceeded")
             ELSE IF Over(total) THEN Refuse("cost_exceeded")
             ELSE IF late' THEN Refuse("wall_clock_exceeded")
             ELSE pc' = "check" /\ UNCHANGED reason
          /\ judged' = IF text = None THEN judged ELSE "none"
  /\ UNCHANGED <<iteration, allowed, effective, lastText, lastCalls, verdict, endVars>>

\* _is_stuck
Stuck ==
  /\ iteration > 1 /\ Len(calls) <= lastCalls
  /\ lastText # None /\ draft # None /\ Same(lastText, draft)

\* The draft is rejected: the turn is stuck, or another iteration is prepared, with the
\* critic's directive as its note.
Reject(why) ==
  /\ judged' = "rejected"
  /\ \/ Stuck /\ Refuse("stuck_no_progress") /\ UNCHANGED loopVars
     \/ /\ ~Stuck
        /\ pc' = "plan" /\ UNCHANGED reason
        /\ lastText' = draft /\ lastCalls' = Len(calls)
        /\ verdict' = why
        /\ note' = {"critic"}
  /\ UNCHANGED endVars

Accept(why) == judged' = "accepted" /\ Terminate(why) /\ UNCHANGED <<loopVars, intent, checked>>

\* The goal check answers.  An error, or a draft that stops on its heading, is needs_more_work.
Check ==
  /\ pc = "check"
  /\ Clock
  /\ \E c \in Costs : cost' = cost + c
  /\ \/ Reject("needs_more_work")
     \/ Acceptable(draft) /\ Accept("insufficient_evidence")
     \/ Acceptable(draft) /\ Critics = {} /\ Accept("satisfied")
     \/ /\ Acceptable(draft) /\ Critics # {}
        /\ pc' = "criticise"
        /\ UNCHANGED <<reason, judged, loopVars, endVars>>
  /\ UNCHANGED <<iteration, allowed, effective, draft, calls, toolVars, cited>>

\* _critic_override: a verdict counts when the critic answered and is sure, or is a strict one.
Overrides(critic, says) == says = "sure" \/ (says = "unsure" /\ critic \in Strict)

Criticise ==
  /\ pc = "criticise"
  /\ Clock
  /\ \E says \in [Critics -> {"pass", "fell_back", "unsure", "sure"}], c \in Costs :
       /\ cost' = cost + c
       /\ IF \E critic \in Critics : Overrides(critic, says[critic])
          THEN Reject("override") ELSE Accept("satisfied")
  /\ UNCHANGED <<iteration, allowed, effective, draft, calls, toolVars, cited>>

\* The task is cancelled at an await: the loop says so and lets the cancellation through.
Cancel ==
  /\ \/ pc \in {"plan", "work", "check", "criticise"}
     \/ (pc = "refuse" /\ Preserves /\ GoalModel)
  /\ Terminate("user_interrupt")
  /\ UNCHANGED <<iteration, cost, late, allowed, effective, draft, calls, loopVars, toolVars,
                 intent, cited, judged, checked>>

\* The worker raises, or streams to its end without a result, or the citation gate raises:
\* nothing catches it.
WorkerRaises ==
  /\ pc = "work"
  /\ pc' = "raised"
  /\ UNCHANGED <<iteration, cost, late, allowed, effective, draft, calls, loopVars, toolVars,
                 reason, endVars, cited, judged>>

-----------------------------------------------------------------------------
Init ==
  /\ pc = "plan" /\ iteration = 0 /\ cost = 0 /\ late = FALSE
  /\ allowed = Allowed /\ effective = {}
  /\ draft = None /\ calls = <<>> /\ lastText = None /\ lastCalls = 0 /\ verdict = "none"
  /\ failures = [t \in Tools |-> 0] /\ tripped = FALSE
  /\ reason = "none" /\ intent = "none" /\ terminated = 0
  /\ note = {} /\ cited = FALSE /\ judged = "none" /\ checked = FALSE

Step == Plan \/ OutOfIterations \/ Work \/ Check \/ Criticise \/ EmitRefusal
Next == Step \/ Cancel \/ WorkerRaises

\* What the loop awaits answers; nothing obliges anyone to cancel it.
Spec == Init /\ [][Next]_vars /\ WF_vars(Step)
-----------------------------------------------------------------------------
\* The types, and how far a turn can overspend its cost cap: by one round of calls, which
\* is a goal check, the critics, the next planner and the refusal's completeness check.
MaxCost == CHOOSE c \in Costs : \A d \in Costs : d <= c
TypeOK ==
  /\ pc \in {"plan", "work", "check", "criticise", "refuse", "ended", "raised"}
  /\ iteration \in 0..MaxIterations /\ cost \in 0..(CostCap + 4 * MaxCost - 1) /\ late \in BOOLEAN
  /\ allowed \subseteq Groups /\ effective \subseteq Groups
  /\ draft \in Texts /\ calls \in ToolRuns \cup {<<>>} /\ lastText \in Texts /\ lastCalls \in Nat
  /\ verdict \in {"none", "needs_more_work", "override"}
  /\ failures \in [Tools -> 0..Threshold] /\ tripped \in BOOLEAN
  /\ reason \in Reasons \cup {"none"} /\ intent \in Intents /\ terminated \in 0..1
  /\ note \subseteq {"citations", "critic"} /\ cited \in BOOLEAN
  /\ judged \in {"none", "accepted", "rejected"} /\ checked \in BOOLEAN

\* What a turn may leave the user with.  It ends satisfied only on a draft that the
\* goal check and every critic let pass; out of iterations it refuses; and what is
\* shipped of a turn that a limiter ends was not judged, but for three cases from the
\* second iteration on: the turn is stuck on a draft like the rejected one before, its
\* cost or time runs out before the worker drafts again, or a cap fires after the worker
\* drafted nothing, and the rejected draft before is shipped in its place.  A turn that
\* ends says so once (run_agentic_turn, _draft_for_preserve, _emit_failure_refusal).
Shipped == intent \in {"respond", "respond_with_caveat"}
ShipsRejected == iteration > 1 /\
  \/ reason = "stuck_no_progress" /\ Same(lastText, draft)
  \/ reason \in {"cost_exceeded", "wall_clock_exceeded"} /\ draft = lastText
  \/ reason \in Caps /\ draft = None
ShipsJudged ==
  /\ pc \in {"ended", "raised"} => terminated = (IF pc = "ended" THEN 1 ELSE 0)
  /\ reason = "satisfied" => judged = "accepted" /\ Acceptable(draft)
  /\ pc = "ended" /\ reason = "max_iterations" => intent = "refuse"
  /\ Shipped => judged # "accepted" /\ (judged = "rejected" => ShipsRejected)
  /\ intent = "respond" => Acceptable(Preserved) /\ checked

\* Whatever the planner asks for, and however often, the worker is only given what the
\* session allowed at the start and what its policy elevates by itself: the green groups
\* of the soft ceiling, and those only when auto_elevate is on (SessionPolicy.tier_for).
ElevatesOnlyGreen ==
  allowed \cup effective \subseteq Allowed \cup (IF AutoElevate THEN SoftCeiling \cap Green ELSE {})

\* The worker is never started over the cost cap, out of time, after a tool tripped its
\* breaker, on a draft that its own critics let pass, or once too often
\* (_budget_exceeded, _wall_clock_exceeded, _observe_for_circuit_breaker).
StartsWithinCaps == [][pc # "work" /\ pc' = "work" =>
  cost' < CostCap /\ ~late' /\ ~tripped' /\ judged # "accepted" /\ iteration' <= MaxIterations]_vars

\* The worker is started within the caps and given only what is granted, and the cost
\* passes its cap by at most one round of calls (TypeOK).
CapsHold == StartsWithinCaps /\ [](TypeOK /\ ElevatesOnlyGreen)

\* What leaves a turn was let pass or is owned up to, and what went into it was allowed and
\* paid for, along every path of an iteration.
IterationsSound == []ShipsJudged /\ CapsHold

\* Every turn ends, with a verdict, by a limiter or by the worker's exception, as long as
\* what the loop awaits answers or raises (run_agentic_turn).
LoopEnds == iteration > 0 ~> pc \in {"ended", "raised"}

-----------------------------------------------------------------------------
(* What the code says of itself and does not hold. *)

\* agentic_loop.py:1019-1025: a draft that the goal check or a critic rejected is not
\* shipped.  What was said of a draft is forgotten with the next one and set only after the
\* stuck check, so a stuck turn ships the very draft just rejected, and a cap after the next
\* planner call, or after a worker that drafts nothing, the one before.
RejectedNeverShips == ~(Shipped /\ judged = "rejected")

\* agentic_loop.py:498-502: a citation that is not confirmed is folded into the note, so
\* that the next iteration sees it.  The critic's directive takes the place of the note.
CitationsReachWorker == pc = "work" /\ iteration > 1 /\ cited => "citations" \in note

\* agentic_loop.py:274: a turn always ends with exactly one LoopTerminated event.
AlwaysTerminated == pc = "raised" => terminated = 1
=============================================================================
