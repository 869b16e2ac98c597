------------------------------ MODULE Tracing ------------------------------
(* OTelHook (hooks/otel.py), one object that the turns of a process share, and    *)
(* what feeds it: dispatch_hook (hooks/dispatch.py), awaited by the Runner on     *)
(* every event of a turn, and the adapter of kaos-llm-core's hooks                *)
(* (hooks/adapter.py), which the ReAct programs of the v2 loop call and which     *)
(* schedules a dispatch of its own for each event.  The v2 loop hands its hooks   *)
(* to ReActPlanner and to nothing else (agent_loop.py:1134-1138).  The span of a   *)
(* classified intent starts and ends within one callback and is left out.         *)
(*                                                                                *)
(* An OTel span is a record in order of creation; a dictionary of the hook is a   *)
(* function from keys to the position of a span, 0 for an absent key.             *)
EXTENDS Naturals, Sequences, SequencesExt

CONSTANTS
  Turns,       \* turns of BaseAgent whose Runner has the hook
  Programs,    \* ReAct programs of v2 turns, each with the adapter built for it
  Ids,         \* call ids and step ids; a plan's are those its planner chose
  MaxSpans,    \* bound: spans created
  MaxLLMCalls, \* bound: model calls of one program
  MaxPending   \* bound: dispatches scheduled and not yet run

\* The key of every program span: the adapter's attributes have no step_id.
NoId == ""

ASSUME TraceAssumption == Turns \cap Programs = {} /\ NoId \notin Ids

VARIABLES
  turn,       \* new, open, errored (RunError was told), done (TurnSummary was), left
  active,     \* per turn, the <<kind, id>> that were started and not completed
  program,    \* per program: idle, running, done, failed, cancelled
  calls,      \* per program: model calls made
  spanIds,    \* the two span_ids dictionaries of its adapter; <<>> for an absent key
  unit,       \* history: which call of its program is in progress, 0 for none
  pending,    \* _PENDING_TASKS in order of creation
  open,       \* _turn_spans, _tool_spans and _step_spans
  spans,
  version,    \* the loop of this process, by KAOS_AGENT_LOOP: v1 tells the hook of its turns,
              \* v2 of its programs
  slow,       \* does another hook of the tuple suspend before this one
  mixed       \* history: was a key taken while in use, or a span ended before its start

runVars == <<turn, active>>
adapterVars == <<program, calls, spanIds, unit, pending>>
hookVars == <<open, spans, mixed>>
regime == <<version, slow>>
traceVars == <<runVars, adapterVars, hookVars, regime>>

\* What the three dictionaries are keyed by.
Keys == ({"turn"} \X Turns) \cup ({"tool"} \X Ids) \cup ({"step"} \X (Ids \cup {NoId}))

TraceInit ==
  /\ turn = [t \in Turns |-> "new"] /\ active = [t \in Turns |-> {}]
  /\ program = [p \in Programs |-> "idle"] /\ calls = [p \in Programs |-> 0]
  /\ spanIds = [p \in Programs |-> [program |-> <<>>, call |-> <<>>]]
  /\ unit = [p \in Programs |-> 0] /\ pending = <<>>
  /\ open = [k \in Keys |-> 0] /\ spans = <<>>
  /\ version \in {"v1", "v2"} /\ slow \in (IF version = "v2" THEN BOOLEAN ELSE {FALSE})
  /\ mixed = FALSE

-----------------------------------------------------------------------------
(* The hook *)

\* The span a child is started under: that of its own turn, as long as it is there.
ParentOf(owner) == IF owner \in Turns THEN open[<<"turn", owner>>] ELSE 0

\* on_turn_start, on_tool_call_start, on_step_start
StartSpan(key, owner) ==
  /\ Len(spans) < MaxSpans
  /\ spans' = Append(spans, [key |-> key, owner |-> owner, state |-> "open", endedBy |-> owner,
                             parent |-> IF key[1] = "turn" THEN 0 ELSE ParentOf(owner)])
  /\ open' = [open EXCEPT ![key] = Len(spans) + 1]
  /\ mixed' = (mixed \/ open[key] # 0)

\* on_tool_call_result, on_step_complete, on_turn_summary and on_error: dict.pop, and
\* nothing when the key is absent.
EndedSpan(key, by, how) ==
  IF open[key] = 0 THEN spans
  ELSE [spans EXCEPT ![open[key]].state = how, ![open[key]].endedBy = by]
\* A mutant of EndSpan: the entry is looked up and kept.
MutEndSpan(key, by, how) == spans' = EndedSpan(key, by, how) /\ UNCHANGED open
EndSpan(key, by, how) ==
  spans' = EndedSpan(key, by, how) /\ open' = [open EXCEPT ![key] = 0]

-----------------------------------------------------------------------------
(* A turn of BaseAgent: the Runner awaits the hook before it goes on.  Two turns   *)
(* interleave at every await.                                                     *)

Live(t) == turn[t] \in {"open", "errored"}

StartTurn(t) ==
  /\ turn[t] = "new" /\ turn' = [turn EXCEPT ![t] = "open"]
  /\ StartSpan(<<"turn", t>>, t)
  /\ UNCHANGED <<active, adapterVars, regime>>

\* A TOOL_CALL or STEP span of the turn begins.  Its id is the provider's, or the step's,
\* or the tool's name; here a turn has one use of an id in progress at a time.
StartWork(t, kind, id) ==
  /\ turn[t] = "open" /\ <<kind, id>> \notin active[t]
  /\ active' = [active EXCEPT ![t] = @ \cup {<<kind, id>>}]
  /\ StartSpan(<<kind, id>>, t)
  /\ UNCHANGED <<turn, adapterVars, regime>>

\* It completes.  A tool call that times out ends in the ERROR phase, of which
\* dispatch_hook tells no typed callback: for the hook it goes on.
CompleteWork(t, kind, id) ==
  /\ turn[t] = "open" /\ <<kind, id>> \in active[t]
  /\ active' = [active EXCEPT ![t] = @ \ {<<kind, id>>}]
  /\ EndSpan(<<kind, id>>, t, "ended")
  /\ UNCHANGED <<turn, adapterVars, mixed, regime>>

\* RunError: the classifier or the pattern raised.
TellError(t) ==
  /\ turn[t] = "open" /\ turn' = [turn EXCEPT ![t] = "errored"]
  /\ EndSpan(<<"turn", t>>, t, "failed")
  /\ UNCHANGED <<active, adapterVars, mixed, regime>>

\* TurnSummary, which an errored turn emits as well.
Summarise(t) ==
  /\ Live(t) /\ turn' = [turn EXCEPT ![t] = "done"]
  /\ EndSpan(<<"turn", t>>, t, "ended")
  /\ UNCHANGED <<active, adapterVars, mixed, regime>>

\* The stream ends before its summary: a pause, a closed reader, a save that raises.
LeaveTurn(t) ==
  /\ Live(t) /\ turn' = [turn EXCEPT ![t] = "left"]
  /\ UNCHANGED <<active, adapterVars, hookVars, regime>>

-----------------------------------------------------------------------------
(* A program of a v2 turn, and the adapter *)

\* _dispatch: a task that runs dispatch_hook on the event.
Dispatch(p, subject, phase, id, no) ==
  /\ Len(pending) < MaxPending
  /\ pending' = Append(pending, [program |-> p, subject |-> subject, phase |-> phase, id |-> id, no |-> no])

\* A fresh span id: the program and the count of its model calls at the time.
Fresh(p, dict) == <<dict, p, calls[p]>>
\* What an end or a retry carries: the START's id, or a fresh one when it is not there.
IdOf(p, dict) == IF spanIds[p][dict] # <<>> THEN spanIds[p][dict] ELSE <<"stray", p, calls[p]>>

StartProgram(p) ==
  /\ program[p] = "idle" /\ program' = [program EXCEPT ![p] = "running"]
  /\ spanIds' = [spanIds EXCEPT ![p].program = Fresh(p, "program")]
  /\ Dispatch(p, "program", "start", Fresh(p, "program"), 0)
  /\ UNCHANGED <<runVars, calls, unit, hookVars, regime>>

Running(p) == program[p] = "running" /\ unit[p] = 0

Iterate(p) ==
  /\ Running(p) /\ calls[p] > 0
  /\ Dispatch(p, "program", "progress", IdOf(p, "program"), 0)
  /\ UNCHANGED <<runVars, program, calls, spanIds, unit, hookVars, regime>>

StartCall(p) ==
  /\ Running(p) /\ calls[p] < MaxLLMCalls
  /\ calls' = [calls EXCEPT ![p] = @ + 1] /\ unit' = [unit EXCEPT ![p] = calls[p] + 1]
  /\ spanIds' = [spanIds EXCEPT ![p].call = <<"call", p, calls[p] + 1>>]
  /\ Dispatch(p, "call", "start", <<"call", p, calls[p] + 1>>, calls[p] + 1)
  /\ UNCHANGED <<runVars, program, hookVars, regime>>

\* on_validation_retry keeps the entry: the call goes on under its id.
AfterRetry(entry) == entry
RetryCall(p) ==
  /\ unit[p] # 0
  /\ spanIds' = [spanIds EXCEPT ![p].call = AfterRetry(@)]
  /\ Dispatch(p, "call", "progress", IdOf(p, "call"), unit[p])
  /\ UNCHANGED <<runVars, program, calls, unit, hookVars, regime>>

\* on_call_end or on_call_error.
FinishCall(p) ==
  /\ unit[p] # 0 /\ unit' = [unit EXCEPT ![p] = 0]
  /\ spanIds' = [spanIds EXCEPT ![p].call = <<>>]
  /\ \E phase \in {"complete", "error"} : Dispatch(p, "call", phase, IdOf(p, "call"), unit[p])
  /\ UNCHANGED <<runVars, program, calls, hookVars, regime>>

\* on_program_end or on_program_error.
FinishProgram(p, end, phase) ==
  /\ Running(p) /\ program' = [program EXCEPT ![p] = end]
  /\ spanIds' = [spanIds EXCEPT ![p].program = <<>>]
  /\ Dispatch(p, "program", phase, IdOf(p, "program"), 0)
  /\ UNCHANGED <<runVars, calls, unit, hookVars, regime>>

\* The turn of the program is cancelled: neither callback is called.
CancelProgram(p) ==
  /\ program[p] = "running" /\ program' = [program EXCEPT ![p] = "cancelled"]
  /\ unit' = [unit EXCEPT ![p] = 0]
  /\ UNCHANGED <<runVars, calls, spanIds, pending, hookVars, regime>>

\* A scheduled dispatch reaches the hook: in order, unless a hook before this one
\* suspends.  A program is a STEP to it; LLM_CALL spans, PROGRESS and the ERROR phase
\* have no typed callback.
Reach(i) ==
  /\ i \in DOMAIN pending /\ (i = 1 \/ slow)
  /\ pending' = RemoveAt(pending, i)
  /\ LET e == pending[i] IN
       /\ e.subject = "program" /\ e.phase = "start" => StartSpan(<<"step", NoId>>, e.program)
       /\ e.subject = "program" /\ e.phase = "complete" =>
            /\ EndSpan(<<"step", NoId>>, e.program, "ended")
            /\ mixed' = (mixed \/ \E j \in DOMAIN pending : pending[j].program = e.program
                                     /\ pending[j].subject = "program" /\ pending[j].phase = "start")
       /\ e.subject = "call" \/ e.phase \in {"progress", "error"} => UNCHANGED hookVars
  /\ UNCHANGED <<runVars, program, calls, spanIds, unit, regime>>

-----------------------------------------------------------------------------
TurnOf(t) ==
  \/ StartTurn(t) \/ TellError(t) \/ Summarise(t) \/ LeaveTurn(t)
  \/ \E kind \in {"tool", "step"}, id \in Ids : StartWork(t, kind, id) \/ CompleteWork(t, kind, id)

ProgramOf(p) ==
  \/ StartProgram(p) \/ Iterate(p) \/ StartCall(p) \/ RetryCall(p) \/ FinishCall(p)
  \/ FinishProgram(p, "done", "complete") \/ FinishProgram(p, "failed", "error") \/ CancelProgram(p)

TraceNext ==
  \/ version = "v1" /\ \E t \in Turns : TurnOf(t)
  \/ version = "v2" /\ \E p \in Programs : ProgramOf(p)
  \/ \E i \in DOMAIN pending : Reach(i)

TraceSpec == TraceInit /\ [][TraceNext]_traceVars
-----------------------------------------------------------------------------
\* What of its owner keeps a span open: it has not been told that the work ended.
Untold(span) ==
  LET kind == span.key[1] o == span.owner IN
  IF o \in Turns
  THEN IF kind = "turn" THEN turn[o] \notin {"errored", "done"} ELSE span.key \in active[o]
  ELSE program[o] # "done" \/
         \E i \in DOMAIN pending : pending[i].program = o /\ pending[i].phase = "complete"
                                     /\ pending[i].subject = "program"

\* The dictionaries of the hook hold spans that are open and filed under their own key,
\* whatever overtakes what.  As long as no id is in use twice and nothing overtakes its
\* start, no span is lost: one that is open belongs to work whose end was not told, and
\* work that ended took no other span with it (the three dictionaries of OTelHook).
NoSpanLost ==
  /\ \A k \in Keys : open[k] # 0 => spans[open[k]].state = "open" /\ spans[open[k]].key = k
  /\ ~mixed => \A s \in DOMAIN spans :
       /\ spans[s].state = "open" => open[spans[s].key] = s /\ Untold(spans[s])
       /\ spans[s].endedBy = spans[s].owner

\* A child hangs under the turn it belongs to or under none, also when turns interleave
\* and one of them fails; and an event of the adapter carries the id its call or program
\* started with, however often it is retried (the span_ids dictionaries).
Correlated ==
  /\ \A s \in DOMAIN spans : LET up == spans[s].parent IN
       up # 0 => up < s /\ spans[up].key = <<"turn", spans[s].owner>>
  /\ \A i \in DOMAIN pending : LET e == pending[i] IN
       IF e.subject = "call" THEN e.id = <<"call", e.program, e.no>> ELSE e.id[1] = "program"

TraceSound == NoSpanLost /\ Correlated

-----------------------------------------------------------------------------
(* What the code says of itself and does not hold; README, "Further disagreements". *)

\* otel.py:231-234: when no TurnSummary comes, on_error ends the span of the turn.
EveryTurnEnds == \A t \in Turns : turn[t] = "left" => open[<<"turn", t>>] = 0

\* otel.py:56: a span is ended on the complete or error event of its work.
ErrorEndsToo == (pending = <<>> /\ \A p \in Programs : program[p] = "failed") =>
                  \A s \in DOMAIN spans : spans[s].owner \in Turns \/ spans[s].state # "open"

\* react_planner.py:142-147, agent_loop.py:1129-1134: one OTelHook observes both layers, so
\* that the span of a program hangs under its turn.
ProgramsUnderTurns == \A s \in DOMAIN spans : spans[s].key[1] # "turn" => spans[s].parent # 0

\* otel.py:50-51: a tool call is a child span within its turn, and ended by it.
EndsItsOwn == \A s \in DOMAIN spans : spans[s].endedBy = spans[s].owner
=============================================================================
