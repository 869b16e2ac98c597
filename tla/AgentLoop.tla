------------------------------ MODULE AgentLoop ------------------------------
(***************************************************************************)
(* Turns of the eight-step AgentLoop (loop/agent_loop.py) with what it     *)
(* composes: the event collector and its context variable, the            *)
(* hierarchical planner that runs whole sub-turns, the TerminationJudge    *)
(* with its loop detector, the EscalationPolicy and the stream that reads  *)
(* a turn through a queue.                                                 *)
(*                                                                         *)
(* Every root turn runs in a task of its own; its sub-turns run in the     *)
(* same task, one at a time.  The roots share one judge, as the turns of   *)
(* one AgentLoop do.  A step ends where the code awaits: what happens      *)
(* between two awaits is one action.  An LLM call costs 1, an event is a   *)
(* record of its kind, the turn whose emitter made it and the usage it     *)
(* reports, and an answer is a member of Answers.                          *)
(***************************************************************************)
EXTENDS Integers, Sequences, FiniteSets, SequencesExt, FiniteSetsExt

CONSTANTS
  Roots,        \* turns that callers open, each in its own task
  Subs,         \* turns that the hierarchical planner opens
  NoTurn,
  Streaming,    \* roots opened by stream(), the others by invoke()
  Reacting,     \* roots whose loop was built with a ReActPlanner: no auto-selection
  Answers,      \* what planners answer
  Empty,        \* the empty answer
  Joined,       \* the answers of sub-agents put together
  ResultRepr,   \* what is shown of a result without an answer: its repr
  Long,         \* answers of at least min_partial_chars
  PlannerResults,  \* of a ReActPlanner: answer, usage, tool executions, and failure told on the way
  SubResults,   \* those of sub-agents
  MaxSubs,      \* sub-agents of a hierarchical plan
  MaxDepth,     \* max_delegation_depth
  StreamMode,   \* what a planner forwards of its sub-agents: full, summary-only, value-only
  MaxTurnCost,  \* max_cost_usd
  Window,       \* window_size of the loop detector
  Earlier,      \* what turns before these may have left in it
  Recent,       \* the events the failure axis looks at (20)
  Never         \* never_escalate of the policy

LoopTurns == Roots \cup Subs

ASSUME TurnsAssumption ==
  /\ Roots \cap Subs = {} /\ NoTurn \notin LoopTurns
  /\ Streaming \subseteq Roots /\ Reacting \subseteq Roots /\ IsFiniteSet(Subs)
ASSUME AnswersAssumption ==
  {Empty, Joined} \subseteq Answers /\ ResultRepr \in Answers \ {Empty} /\ Long \subseteq Answers \ {Empty}
ASSUME TurnBoundsAssumption ==
  /\ PlannerResults \cup SubResults \subseteq
       [text : Answers, use : Nat, tools : Nat, during : {"none", "RunError", "EvidenceInsufficient"}]
  /\ {MaxSubs, MaxDepth, MaxTurnCost, Recent} \subseteq Nat \ {0}
  /\ Window \in Nat /\ Window >= 2
  /\ \A w \in Earlier : w \in Seq(Answers) /\ Len(w) <= Window

Spans == {"turn", "step", "tool"}
Failures == {"RunError", "EvidenceInsufficient"}
EventKinds == {"SpanStart", "SpanComplete", "SpanError", "IntentClassified", "UsageObserved",
          "TurnSummary", "EscalationRequired"} \cup Failures
Events == [kind : EventKinds, by : LoopTurns, span : Spans \cup {"none"}, use : Nat]
End == [kind |-> "End", by |-> NoTurn, span |-> "none", use |-> 0]

Planners == {"skeleton", "react", "hierarchical"}
Decisions == {"none", "COMPLETE", "INCOMPLETE", "DEGRADED", "BUDGET_EXCEEDED",
              "FAILURE", "LOOP_DETECTED"}

VARIABLES
  turn,      \* TurnInvocation and local state of each turn
  active,    \* _active_collector_var of each task: the collectors it has open, innermost last
  depth,     \* _hierarchical_depth of each task
  queue,     \* what a stream's collectors have put on its queue
  taken,     \* how much of it the consumer has taken
  consumer,  \* of each stream: before, reading, closing, ended
  window,    \* signatures of the shared loop detector
  answered   \* history: every signature the detector has observed

agentVars == <<turn, active, depth, queue, taken, consumer, window, answered>>

Unopened ==
  [pc |-> "idle", parent |-> NoTurn, task |-> NoTurn, clarify |-> FALSE, planner |-> "skeleton",
   left |-> 0, outputs |-> <<>>, subUse |-> 0, events |-> <<>>, child |-> <<>>, usage |-> 0,
   output |-> Empty, decision |-> "none", escalations |-> 0, spent |-> 0]

Finished == {"done", "failed"}

-----------------------------------------------------------------------------
(* Events *)

Event(t, kind, span, use) == [kind |-> kind, by |-> t, span |-> span, use |-> use]
Opens(t, span) == <<Event(t, "SpanStart", span, 0)>>
Closes(t, span) == <<Event(t, "SpanComplete", span, 0)>>
Note(t, kind) == <<Event(t, kind, "none", 0)>>

\* _emit_planner_usage: nothing is emitted for usage that is all zero.
Usage(t, n) == IF n = 0 THEN <<>> ELSE <<Event(t, "UsageObserved", "none", n)>>

\* _sum_usage_from_collector
UsageOf(es) ==
  LET sum[k \in 0..Len(es)] ==
        IF k = 0 THEN 0
        ELSE sum[k - 1] + IF es[k].kind = "UsageObserved" THEN es[k].use ELSE 0
  IN sum[Len(es)]

\* _emit_tool_call_spans_from_trajectory
ToolSpans(t, n) == [i \in 1..(2 * n) |->
  Event(t, IF i % 2 = 1 THEN "SpanStart" ELSE "SpanComplete", "tool", 0)]

\* A collector is a turn's own, or the scope a planner opens around a sub-agent.
ChildScope(t) == [of |-> t, child |-> TRUE]
Innermost(t) == Last(active[turn[t].task])
Own(t) == [of |-> t, child |-> FALSE]

\* EventCollector.append, through the active collector.
Collected(T, c, es) ==
  IF c.child THEN [T EXCEPT ![c.of].child = @ \o es] ELSE [T EXCEPT ![c.of].events = @ \o es]

\* _open_collector taps the queue in every turn of a stream's task, sub-turns too.
Queued(t, c, es) ==
  LET r == turn[t].task IN
  IF r \in Streaming /\ ~c.child THEN [queue EXCEPT ![r] = @ \o es] ELSE queue

\* The span stack of a collector behind an event: a close takes all that was opened in it.
Stacked(stack, e) ==
  LET places == {i \in DOMAIN stack : stack[i] = e.span}
  IN CASE e.kind = "SpanStart" -> Append(stack, e.span)
       [] e.kind \in {"SpanComplete", "SpanError"} /\ places # {}
            -> SubSeq(stack, 1, Min(places) - 1)
       [] OTHER -> stack

\* ... and from all it has collected.
OpenSpans(es) ==
  LET stack[k \in 0..Len(es)] == IF k = 0 THEN <<>> ELSE Stacked(stack[k - 1], es[k])
  IN stack[Len(es)]

-----------------------------------------------------------------------------
(* Judging and escalating *)

\* The loop detector compares every pair of its window.
Repeats(w) == \E i, j \in 1..Len(w) : i < j /\ w[i] = w[j]
Observed(w, text) ==
  LET all == Append(w, text) IN SubSeq(all, Max({1, Len(all) - Window + 1}), Len(all))

\* The failure axis: the newest failure among the last events.
\* Mutant: the oldest events are looked at.
MutFailureIn(es) ==
  LET fs == {i \in 1..Min({Recent, Len(es)}) : es[i].kind \in Failures}
  IN IF fs = {} THEN "none" ELSE es[Max(fs)].kind
FailureIn(es) ==
  LET fs == {i \in Max({1, Len(es) - Recent + 1})..Len(es) : es[i].kind \in Failures}
  IN IF fs = {} THEN "none" ELSE es[Max(fs)].kind

\* A turn's text: the planner's answer, or the repr of its result when that is empty.
PlanText(text) == IF text = Empty THEN ResultRepr ELSE text

\* TerminationJudge.forward: budget, failure, loop, and then what there is.  It weighs the
\* turn's text, and looks for loops in the planner's answers, an empty one among them.
\* Iterations are always 1 here, and quality is not judged without criteria.
Verdict(es, text) ==
  LET over == UsageOf(es) >= MaxTurnCost
      failure == FailureIn(es)
      w == Observed(window, text)
      Decide(kind, escalate, seen) == [kind |-> kind, escalate |-> escalate, seen |-> seen]
  IN CASE over /\ PlanText(text) \in Long -> Decide("DEGRADED", FALSE, FALSE)
       [] over /\ PlanText(text) \notin Long -> Decide("BUDGET_EXCEEDED", TRUE, FALSE)
       [] ~over /\ failure # "none" -> Decide("FAILURE", failure = "EvidenceInsufficient", FALSE)
       [] ~over /\ failure = "none" /\ Repeats(w) -> Decide("LOOP_DETECTED", TRUE, TRUE)
       [] OTHER -> Decide(IF PlanText(text) = Empty THEN "INCOMPLETE" ELSE "COMPLETE", FALSE, TRUE)

\* EscalationPolicy.evaluate_decision
Escalates(v) == v.escalate /\ v.kind \notin Never

\* Turns a judge looks at: those of the shared loop that a planner answered.
Judged(t) == t \in Roots /\ turn[t].planner # "skeleton"

-----------------------------------------------------------------------------
(* How a turn ends *)

\* forward's way out: the context variables are reset to what they were before the turn
\* opened its collector, and a stream's runner puts the sentinel.
Leave(t) == active' = [active EXCEPT ![turn[t].task] = Front(@)]
Sentinel(t, q) == IF t \in Streaming THEN [q EXCEPT ![t] = Append(@, End)] ELSE q

\* Steps 3 to 8 once the planner has answered text.  own is what the turn's own calls cost.
Settle(t, text, use, during, tools, own) ==
  LET c == Innermost(t)
      told == during \o Usage(t, use) \o tools
      before == turn[t].events \o told
      v == IF Judged(t) THEN Verdict(before, text)
           ELSE [kind |-> "none", escalate |-> FALSE, seen |-> FALSE]
      es == told \o (IF Escalates(v) THEN Note(t, "EscalationRequired") ELSE <<>>)
                 \o Note(t, "TurnSummary") \o Closes(t, "turn")
      ended == [turn[t] EXCEPT !.pc = "done", !.output = PlanText(text), !.decision = v.kind,
                  !.usage = UsageOf(before), !.escalations = @ + (IF Escalates(v) THEN 1 ELSE 0),
                  !.spent = @ + own]
  IN /\ turn' = Collected([turn EXCEPT ![t] = ended], c, es)
     /\ queue' = Sentinel(t, Queued(t, c, es))
     /\ window' = IF v.seen THEN Observed(window, text) ELSE window
     /\ answered' = IF v.seen THEN Append(answered, text) ELSE answered

\* An exception leaves this turn and every turn that waits for it.
Above(t) == {a \in LoopTurns : turn[a].task = turn[t].task /\ turn[a].pc \notin Finished \cup {"added"}}
\* Mutant: the sentinel is not put in a finally.
MutRaise(t) ==
  LET r == turn[t].task IN
  /\ turn' = [a \in LoopTurns |-> IF a \in Above(t) THEN [turn[a] EXCEPT !.pc = "failed", !.output = Empty]
                              ELSE turn[a]]
  /\ active' = [active EXCEPT ![r] = <<>>]
  /\ depth' = [depth EXCEPT ![r] = 0]
  /\ UNCHANGED <<queue, taken, consumer, window, answered>>
Raise(t) ==
  LET r == turn[t].task IN
  /\ turn' = [a \in LoopTurns |-> IF a \in Above(t) THEN [turn[a] EXCEPT !.pc = "failed", !.output = Empty]
                              ELSE turn[a]]
  /\ active' = [active EXCEPT ![r] = <<>>]
  /\ depth' = [depth EXCEPT ![r] = 0]
  /\ queue' = Sentinel(r, queue)
  /\ UNCHANGED <<taken, consumer, window, answered>>

-----------------------------------------------------------------------------
(* Turns *)

\* A caller invokes the loop, or takes the first event of a stream.
Start(r) ==
  /\ turn[r].pc = "idle"
  /\ turn' = [turn EXCEPT ![r].pc = "classify", ![r].task = r]
  /\ consumer' = IF r \in Streaming THEN [consumer EXCEPT ![r] = "reading"] ELSE consumer
  /\ UNCHANGED <<active, depth, queue, taken, window, answered>>

\* The classifier answers, and the turn runs to its planner's first await.  A
\* request for clarification ends it here; confident says the policy does not ask.
\* The classifier's usage is told inside the turn, for no collector was open before.
Opening(t) == Opens(t, "turn") \o Note(t, "IntentClassified") \o Usage(t, 1)
Classified(t) ==
  LET classified == [turn[t] EXCEPT !.spent = 1]
      c == Own(t)
  IN /\ turn[t].pc = "classify"
     /\ UNCHANGED <<depth, taken, consumer, window, answered>>
     /\ \/ \E confident \in BOOLEAN :
             LET asks == t \in Roots /\ ~confident
                 es == Opening(t) \o Opens(t, "step")
                       \o (IF asks THEN Note(t, "EscalationRequired") ELSE <<>>)
                       \o <<Event(t, "SpanError", "step", 0)>> \o Closes(t, "turn")
             IN /\ turn' = Collected([turn EXCEPT ![t] =
                     [classified EXCEPT !.clarify = TRUE, !.pc = "done",
                                        !.escalations = IF asks THEN 1 ELSE 0]], c, es)
                /\ queue' = Sentinel(t, Queued(t, c, es))
                /\ UNCHANGED active
        \/ \E planner \in IF t \in Reacting THEN {"react"} ELSE Planners \ {"skeleton"} :
             /\ turn' = Collected([turn EXCEPT ![t] = [classified EXCEPT !.pc = "plan", !.planner = planner]],
                                  c, Opening(t))
             /\ active' = [active EXCEPT ![turn[t].task] = Append(@, c)]
             /\ queue' = Queued(t, c, Opening(t))
        \/ \* A pattern no planner is selected for.
           LET es == Opening(t) \o Note(t, "TurnSummary") \o Closes(t, "turn") IN
           /\ t \in Roots \ Reacting
           /\ turn' = Collected([turn EXCEPT ![t] = [classified EXCEPT !.pc = "done", !.usage = 1]], c, es)
           /\ queue' = Sentinel(t, Queued(t, c, es))
           /\ UNCHANGED active

\* The bound on sub-turns: the ones not opened and not promised to a plan.
FreeSubs == Cardinality({s \in Subs : turn[s].pc = "idle"})
            - MapThenSumSet(LAMBDA t : turn[t].left, {t \in LoopTurns : turn[t].pc # "failed"})

\* planner.plan returns; the hierarchical plan has its sub-agents, and execute checks the depth.
Planned(t) ==
  /\ turn[t].pc = "plan"
  /\ \/ /\ turn[t].planner = "react"
        /\ turn' = [turn EXCEPT ![t].pc = "react"]
        /\ UNCHANGED <<active, depth, queue, taken, consumer, window, answered>>
     \/ /\ turn[t].planner = "hierarchical"
        /\ depth[turn[t].task] >= MaxDepth
        /\ Raise(t)
     \/ /\ turn[t].planner = "hierarchical"
        /\ depth[turn[t].task] < MaxDepth
        /\ depth' = [depth EXCEPT ![turn[t].task] = @ + 1]
        /\ \E n \in 0..Min({MaxSubs, FreeSubs}) :
             turn' = [turn EXCEPT ![t].pc = "subs", ![t].left = n]
        /\ UNCHANGED <<active, queue, taken, consumer, window, answered>>

\* The ReAct program returns; a tool that failed on the way told the turn's emitter.
Reacted(t) ==
  /\ turn[t].pc = "react"
  /\ \E r \in IF t \in Roots THEN PlannerResults ELSE SubResults :
       Settle(t, r.text, r.use, IF r.during = "none" THEN <<>> ELSE Note(t, r.during),
              ToolSpans(t, r.tools), r.use)
  /\ Leave(t)
  /\ UNCHANGED <<depth, taken, consumer>>

\* A sub-agent runs in a collector scope of its own and in the planner's task.
OpenSub(t) ==
  /\ turn[t].pc = "subs" /\ turn[t].left > 0
  /\ \E s \in Subs : turn[s].pc = "idle"
  /\ LET s == CHOOSE s \in Subs : turn[s].pc = "idle" IN
       turn' = [turn EXCEPT ![t].pc = "waits", ![t].left = @ - 1, ![t].child = <<>>,
                  ![s].pc = "classify", ![s].parent = t, ![s].task = turn[t].task]
  /\ active' = [active EXCEPT ![turn[t].task] = Append(@, ChildScope(t))]
  /\ UNCHANGED <<depth, queue, taken, consumer, window, answered>>

\* _should_forward, and what it keeps, in its order.
ShouldForward(e) ==
  CASE StreamMode = "full" -> TRUE
    [] StreamMode = "summary-only" -> e.kind = "TurnSummary"
    [] OTHER -> e.kind \notin {"RunError", "EscalationRequired"}
Forwarded(es) ==
  LET kept == {i \in DOMAIN es : ShouldForward(es[i])}
      place(i) == 1 + Cardinality({j \in kept : j < i})
  IN [k \in 1..Cardinality(kept) |-> es[CHOOSE i \in kept : place(i) = k]]

\* The sub-turn returns: its scope closes, what it collected is forwarded, its usage added.
CurrentSub(t) == CHOOSE s \in Subs : turn[s].parent = t /\ turn[s].pc # "added"
SubReturns(t) ==
  LET s == CurrentSub(t)
      r == turn[t].task
      told == Forwarded(turn[t].child)
      outer == active[r][Len(active[r]) - 1]
  IN /\ turn[t].pc = "waits"
     /\ turn[s].pc = "done"
     /\ turn' = Collected([turn EXCEPT ![t].pc = "subs", ![t].subUse = @ + turn[s].usage,
                             ![t].outputs = Append(@, turn[s].output), ![t].child = <<>>,
                             ![s].pc = "added"], outer, told)
     /\ active' = [active EXCEPT ![r] = Front(@)]
     /\ queue' = Queued(t, outer, told)
     /\ UNCHANGED <<depth, taken, consumer, window, answered>>

\* _aggregate: the first answer there is, or all of them joined, as JSON even when there is none.
Aggregates(outputs) ==
  LET some == {i \in DOMAIN outputs : outputs[i] # Empty}
  IN {IF some = {} THEN Empty ELSE outputs[Min(some)], Joined}

\* Every sub-agent has run: the plan's result is settled with the sum of their usage.
Aggregated(t) ==
  /\ turn[t].pc = "subs" /\ turn[t].left = 0
  /\ \E text \in Aggregates(turn[t].outputs) :
       Settle(t, text, turn[t].subUse, <<>>, <<>>, 0)
  /\ depth' = [depth EXCEPT ![turn[t].task] = @ - 1]
  /\ Leave(t)
  /\ UNCHANGED <<taken, consumer>>

\* Whatever a turn awaits may raise, a cancellation among it.
Raises(t) == turn[t].pc \in {"classify", "plan", "react"} /\ Raise(t)

LoopStep(t) ==
  \/ Classified(t) \/ Planned(t) \/ Reacted(t) \/ OpenSub(t) \/ SubReturns(t) \/ Aggregated(t)
  \/ Raises(t)

-----------------------------------------------------------------------------
(* The consumer of a stream *)

\* The consumer reads what there is, or closes the stream at one of the events:
\* the generator then waits for the task to end.
Take(r) ==
  /\ consumer[r] = "reading" /\ taken[r] < Len(queue[r])
  /\ taken' = [taken EXCEPT ![r] = Len(queue[r])]
  /\ \/ consumer' = IF Last(queue[r]) = End THEN [consumer EXCEPT ![r] = "ended"] ELSE consumer
     \/ consumer' = [consumer EXCEPT ![r] = "closing"]
  /\ UNCHANGED <<turn, active, depth, queue, window, answered>>

Closed(r) ==
  /\ consumer[r] = "closing" /\ turn[r].pc \in Finished
  /\ consumer' = [consumer EXCEPT ![r] = "ended"]
  /\ UNCHANGED <<turn, active, depth, queue, taken, window, answered>>

-----------------------------------------------------------------------------
LoopInit ==
  /\ turn = [t \in LoopTurns |-> Unopened]
  /\ active = [r \in Roots |-> <<>>]
  /\ depth = [r \in Roots |-> 0]
  /\ queue = [r \in Roots |-> <<>>]
  /\ taken = [r \in Roots |-> 0]
  /\ consumer = [r \in Roots |-> "before"]
  /\ window \in Earlier
  /\ answered = window

LoopNext ==
  \/ \E r \in Roots : Start(r) \/ Take(r) \/ Closed(r)
  \/ \E t \in LoopTurns : LoopStep(t)

\* A turn's task or the consumer of its stream goes on.
LoopRuns == (\E t \in LoopTurns : LoopStep(t)) \/ \E r \in Roots : Take(r) \/ Closed(r)

\* As long as a task can run, the event loop runs one; a consumer that has not closed its
\* stream reads on.
Fairness == WF_agentVars(LoopRuns)

LoopSpec == LoopInit /\ [][LoopNext]_agentVars /\ Fairness

-----------------------------------------------------------------------------
(* Properties *)

\* What the state holds: a turn's record, the collectors open in a task, the
\* queue and the consumer of a stream, and the window.
LoopTypeOK ==
  /\ \A t \in LoopTurns :
       /\ turn[t].pc \in {"idle", "classify", "plan", "react", "subs", "waits", "added"} \cup Finished
       /\ turn[t].planner \in Planners /\ turn[t].decision \in Decisions
       /\ {turn[t].output} \cup Range(turn[t].outputs) \subseteq Answers
       /\ Range(turn[t].events) \cup Range(turn[t].child) \subseteq Events
  /\ \A r \in Roots :
       /\ depth[r] \in 0..MaxDepth
       /\ taken[r] \in 0..Len(queue[r])
       /\ consumer[r] \in {"before", "reading", "closing", "ended"}
  /\ Len(window) <= Window

\* A turn's record holds the events its own emitter made and no other's, also
\* while sub-turns run inside it, and a turn that completed closed every span
\* it opened.  What a stream's consumer is sent of the root's events is the
\* root's record, in its order; when the stream has ended, the turn has, and
\* a consumer that never closed has been sent all of it
\* (AgentLoop.forward and stream, EventCollector, collect_events).
RecordIsOwn ==
  /\ \A t \in LoopTurns :
       /\ \A i \in 1..Len(turn[t].events) : turn[t].events[i].by = t
       /\ turn[t].pc \in {"done", "added"} => OpenSpans(turn[t].events) = <<>>
  /\ \A r \in Streaming :
       /\ LET sent(i) == {j \in 1..i : queue[r][j].by = r} IN
            /\ Cardinality(sent(Len(queue[r]))) = Len(turn[r].events)
            /\ \A i \in sent(Len(queue[r])) : queue[r][i] = turn[r].events[Cardinality(sent(i))]
       /\ consumer[r] = "ended" => turn[r].pc \in Finished
       /\ turn[r].pc \in Finished => Contains(queue[r], End)


\* The usage of a turn that completed is what its classifier and its planner spent and
\* the usage of its sub-agents' turns, each of them once, of which the same holds.  A
\* sub-agent that asked for clarification never sets its usage, and its classifier's call
\* is not counted (AgentLoop._emit_planner_usage, HierarchicalPlanner._run_sub_agents).
SubsOf(t) == {s \in Subs : turn[s].parent = t /\ turn[s].pc = "added" /\ ~turn[s].clarify}
UsageOnce == \A t \in LoopTurns :
  turn[t].pc \in {"done", "added"} /\ ~turn[t].clarify =>
    LET usage == [s \in Subs |-> turn[s].usage]
    IN turn[t].usage = turn[t].spent + MapThenSumSet(LAMBDA s : usage[s], SubsOf(t))

\* A turn's record holds what that turn told, and its usage what it spent.
RecordSound == LoopTypeOK /\ RecordIsOwn /\ UsageOnce

\* How a turn of the shared loop is judged as it completes.  It is COMPLETE only
\* when no failure was told in it, unless Recent events followed the failure, and
\* when its planner does not repeat the answer before it; its text is the answer,
\* or what is shown of a result without one.  LOOP_DETECTED means two equal answers
\* among the last Window ones, whichever turns gave them, and FAILURE one told in
\* this turn.  A person is asked exactly once when the budget is spent with little to
\* show, when a loop is detected and when the newest failure is a lack of evidence,
\* unless the policy never escalates that verdict, and not asked otherwise
\* (AgentLoop._run_8_step_turn, TerminationJudge.forward, LoopDetector.observe,
\* EscalationPolicy.evaluate_decision).
Completes(t) == turn[t].pc \notin Finished /\ turn'[t].pc = "done" /\ ~turn'[t].clarify
VerdictEarned(t) == Completes(t) /\ turn'[t].decision # "none" =>
  LET now == turn'[t]
      asked == {i \in DOMAIN now.events : now.events[i].kind = "EscalationRequired"}
      failed == {i \in DOMAIN now.events : now.events[i].kind \in Failures}
      \* what was told from i on before the judge was asked, and the end of the turn
      behind(i) == {j \in DOMAIN now.events :
                     j > i /\ now.events[j].kind \notin {"EscalationRequired", "TurnSummary"}}
      unproved == \E i \in failed : /\ now.events[i].kind = "EvidenceInsufficient"
                                    /\ \A j \in failed : j <= i
      escalated == \/ now.decision \in {"BUDGET_EXCEEDED", "LOOP_DETECTED"}
                   \/ now.decision = "FAILURE" /\ unproved
  IN /\ now.decision = "COMPLETE" =>
          /\ \A i \in failed : Cardinality(behind(i)) > Recent
          /\ now.output = PlanText(Last(answered'))
          /\ answered # <<>> => Last(answered) # Last(answered')
     /\ now.decision = "LOOP_DETECTED" =>
          \E i, j \in Max({1, Len(answered') - Window + 1})..Len(answered') :
            i < j /\ answered'[i] = answered'[j]
     /\ now.decision = "FAILURE" => failed # {}
     /\ Cardinality(asked) = IF escalated /\ now.decision \notin Never THEN 1 ELSE 0
VerdictsEarned == \A t \in Roots : VerdictEarned(t)
VerdictSound == [][VerdictsEarned]_agentVars

\* Both: a record is of its own turn and usage, and each verdict is earned by the turn it
\* judges, whatever other turns and sub-agents of the loop did meanwhile.
TurnsSound == []RecordSound /\ VerdictSound

\* A stream that was opened ends: its turn completes or fails, the sentinel is
\* put whatever the turn raises, and a consumer that closed early is let go.
\* The runtime's scheduling justifies the fairness: a task that can run does, and
\* every awaited call answers or raises (AgentLoop.stream).
StreamEnds == \A r \in Streaming : consumer[r] = "reading" ~> consumer[r] = "ended"

\* Not so: what a consumer that reads to the end is sent is the turn's record.
\* A sub-turn taps the same queue, so a stream carries all that its sub-agents
\* tell, a second TurnSummary among it, whatever the stream mode.
StreamIsRecord == \A r \in Streaming :
  turn[r].pc = "done" => queue[r] = Append(turn[r].events, End)

\* Not so: a turn in which a tool told of a failure is not COMPLETE.
FailureIsSeen == \A t \in Roots :
  turn[t].decision = "COMPLETE" => \A i \in 1..Len(turn[t].events) : turn[t].events[i].kind \notin Failures

\* Not so: LOOP_DETECTED says that this turn repeats an earlier answer.
LoopIsThisTurns == [][\A t \in Roots : Completes(t) /\ turn'[t].decision = "LOOP_DETECTED" =>
  turn'[t].output \in Range(answered)]_agentVars

\* Not so: a turn without an answer is not complete ("no result produced; replan").
EmptyIsIncomplete == \A t \in Roots :
  turn[t].decision = "COMPLETE" => turn[t].output # ResultRepr

=============================================================================
