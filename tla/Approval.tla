------------------------------ MODULE Approval ------------------------------
(***************************************************************************)
(* Approval of tool calls: PermissionPolicy, its gate in tool_bridge, the  *)
(* check Runner.run makes on the TOOL_CALL spans it is handed, the pause   *)
(* it persists (runtime/interrupts.py), Runner.resume and the approve      *)
(* endpoint, for the runs of one session.                                  *)
(*                                                                         *)
(* A stream is one answer to one request: the events of a new message, or  *)
(* of an approved run.  Clients of a session wait for each other, as in    *)
(* SessionStore, and a save is atomic here (SessionStore and AtomicWrite   *)
(* say when that is so).  The chat pattern runs ReAct in a task of its     *)
(* own, which nobody cancels when the stream that drains its events stops. *)
(***************************************************************************)
EXTENDS Integers, Sequences, FiniteSets, FiniteSetsExt

CONSTANTS
  Streams,      \* one per request; a paused run is named by its stream
  Tools,
  Extra,        \* delegation and handoff tools: not bridged, not in the registry
  Hooked,       \* the tools a hook answers REQUIRE_APPROVAL for
  Policies,     \* the rule sequences a request's PermissionPolicy may have
  Hintings,     \* the annotations the tools may have
  Patterns,     \* the patterns the agent may have: "chat", "plan"
  Isolated,     \* TRUE: the VFS keeps a namespace per context_id
  Faults,       \* what may go wrong
  MaxCalls,     \* bound of the model on the tool calls of all streams together
  NoFile, NoTool

Hints == {"plain", "destructive", "confirm"}   \* "plain" covers readOnlyHint
Decisions == {"allow", "deny", "ask"}
AllFaults == {"snapshot", "log", "state", "restore", "crash"}

Rules == [tools : SUBSET Tools, action : Decisions]
Bag == [Streams -> Nat]         \* how often the session holds a message

ASSUME ApprovalAssumption ==
  /\ Extra \subseteq Tools /\ Hooked \subseteq Tools
  /\ Policies \subseteq Seq(Rules)
  /\ Hintings \subseteq [Tools -> Hints]
  /\ Patterns \subseteq {"chat", "plan"} /\ Isolated \in BOOLEAN
  /\ Faults \subseteq AllFaults
  /\ MaxCalls \in Nat
  /\ NoTool \notin Tools
  /\ NoFile \notin Bag

VARIABLES
  rules,      \* the rules of the request's policy
  hint,       \* the tools' annotations
  pattern,    \* the agent's pattern
  pc,         \* where stream s is
  origin,     \* origin[s]: the stream whose message s answers
  resumed,    \* resumed[s]: the paused run s continues, s itself for a new message
  policy,     \* policy[s]: "request", or "safe" for the approve endpoint's Runner
  held,       \* held[s]: the messages of the SessionMemory s works on
  react,      \* the streams whose ReAct loop (plan: walk) is still running
  calls,      \* calls[s]: the tools called so far, in order
  drained,    \* drained[s]: how many of them the Runner has seen the START span of
  ran,        \* <<s, t>>: tool t was executed in stream s
  refused,    \* <<s, t>>: the gate answered that t needs approval
  pending,    \* pending[s]: the tool s paused on
  session,    \* the session's memory.json
  memoryFile, eventsFile, stateFile,  \* the files under kaos-agents/runs/{run_id}
  refs,       \* refs[s]: which of the other two files the RunState refers to
  told,       \* told[s]: "path" or "inline", the run_state_ref the client was given
  answered,   \* the streams that ended their turn with a save
  approved,   \* the paused runs that have been approved
  erased,     \* the messages saved before a DELETE
  degraded    \* whether a run ever went on without its snapshot

fixed == <<rules, hint, pattern>>
stream == <<origin, resumed, policy>>
turn == <<held, react, calls, drained, ran, refused>>
files == <<memoryFile, eventsFile, stateFile>>
client == <<told, answered, approved, erased>>
vars == <<fixed, pc, stream, turn, pending, session, files, refs, client, degraded>>

Points == {"new", "restore", "load", "turn", "memory", "events", "state",
           "announce", "over"}

TypeOK ==
  /\ rules \in Seq(Rules) /\ hint \in [Tools -> Hints] /\ pattern \in {"chat", "plan"}
  /\ pc \in [Streams -> Points]
  /\ origin \in [Streams -> Streams] /\ resumed \in [Streams -> Streams]
  /\ policy \in [Streams -> {"request", "safe"}]
  /\ held \in [Streams -> Bag]
  /\ react \subseteq Streams \ answered
  /\ calls \in [Streams -> Seq(Tools)]
  /\ drained \in [Streams -> Nat] /\ \A s \in Streams : drained[s] <= Len(calls[s])
  /\ ran \subseteq Streams \X Tools /\ refused \subseteq Streams \X Tools
  /\ pending \in [Streams -> Tools \cup {NoTool}]
  /\ session \in Bag \cup {NoFile}
  /\ memoryFile \in [Streams -> Bag \cup {NoFile}]
  /\ eventsFile \in [Streams -> BOOLEAN]
  /\ stateFile \in [Streams -> BOOLEAN]
  /\ refs \in [Streams -> [memory : BOOLEAN, events : BOOLEAN]]
  /\ told \in [Streams -> {"none", "path", "inline"}]
  /\ answered \subseteq Streams /\ approved \subseteq Streams /\ erased \subseteq Streams
  /\ degraded \in BOOLEAN

Nothing == [m \in Streams |-> 0]

Init ==
  /\ rules \in Policies /\ hint \in Hintings /\ pattern \in Patterns
  /\ pc = [s \in Streams |-> "new"]
  /\ origin = [s \in Streams |-> s] /\ resumed = [s \in Streams |-> s]
  /\ policy = [s \in Streams |-> "request"]
  /\ held = [s \in Streams |-> Nothing]
  /\ react = {}
  /\ calls = [s \in Streams |-> <<>>] /\ drained = [s \in Streams |-> 0]
  /\ ran = {} /\ refused = {}
  /\ pending = [s \in Streams |-> NoTool]
  /\ session = NoFile
  /\ memoryFile = [s \in Streams |-> NoFile]
  /\ eventsFile = [s \in Streams |-> FALSE]
  /\ stateFile = [s \in Streams |-> FALSE]
  /\ refs = [s \in Streams |-> [memory |-> FALSE, events |-> FALSE]]
  /\ told = [s \in Streams |-> "none"]
  /\ answered = {} /\ approved = {} /\ erased = {} /\ degraded = FALSE

Active == {s \in Streams : pc[s] \notin {"new", "over"}}
Goto(s, point) == pc' = [pc EXCEPT ![s] = point]
Fault(f) == f \in Faults

-----------------------------------------------------------------------------
(* PermissionPolicy.                                                         *)

RulesOf(p) == IF p = "request" THEN rules ELSE <<>>
Matching(rs, t) == {i \in DOMAIN rs : t \in rs[i].tools}

\* evaluate(): humanConfirmationRequired, then the first rule that matches, then
\* readOnlyHint and destructiveHint, then ALLOW.
Evaluate(rs, t, h) ==
  IF h = "confirm" THEN "ask"
  ELSE IF Matching(rs, t) # {} THEN rs[Min(Matching(rs, t))].action
  ELSE IF h = "destructive" THEN "ask" ELSE "allow"

\* The executor tool_bridge puts around a tool asks the policy before it calls the
\* tool; a delegation tool has no such executor.
CallGate(s, t) ==
  IF t \in Extra THEN "allow" ELSE Evaluate(RulesOf(policy[s]), t, hint[t])

\* What Runner.run makes of a TOOL_CALL START span: the hooks, then the policy with
\* the annotations of the registry.  The endpoint's Runner has no such hook.
SpanGate(s, t) ==
  IF t \in Hooked /\ policy[s] = "request" THEN "ask"
  ELSE Evaluate(RulesOf(policy[s]), t, IF t \in Extra THEN "plain" ELSE hint[t])

-----------------------------------------------------------------------------
(* How a stream begins.                                                      *)

\* POST .../messages, or Runner.run.
Send(s) ==
  /\ pc[s] = "new" /\ Active = {}
  /\ Goto(s, "load")
  /\ UNCHANGED <<fixed, stream, turn, pending, session, files, refs, client, degraded>>

\* The approve endpoint finds a RunState without giving its session id.
Found(p) == stateFile[p] /\ ~Isolated

\* A new stream continues the paused run p: through the endpoint, which builds its
\* own Runner with the default policy, or through resume() on the first one.
Continue(s, p, runner) ==
  /\ pc[s] = "new" /\ Active = {}
  /\ IF runner = "safe" THEN Found(p) ELSE told[p] # "none"
  /\ origin' = [origin EXCEPT ![s] = origin[p]]
  /\ resumed' = [resumed EXCEPT ![s] = p]
  /\ policy' = [policy EXCEPT ![s] = runner]
  /\ approved' = approved \cup {p}
  /\ Goto(s, "restore")
  /\ UNCHANGED <<fixed, turn, pending, session, files, refs, told, answered, erased, degraded>>

\* The run is denied (one RunError), or the endpoint answers 404.
TurnDown(s, p) ==
  /\ pc[s] = "new" /\ Active = {}
  /\ told[p] # "none"
  /\ Goto(s, "over")
  /\ UNCHANGED <<fixed, stream, turn, pending, session, files, refs, client, degraded>>

RestoreAs(s, memory) ==
  /\ pc[s] = "restore"
  /\ session' = memory
  /\ Goto(s, "load")
  /\ UNCHANGED <<fixed, stream, turn, pending, files, refs, client>>

\* Mutant of Restore: the run continues on the session as it is.
MutRestore(s) == RestoreAs(s, session) /\ UNCHANGED degraded

\* The snapshot resume() reads, if it was written and is still there.
Snapshot(p) == IF refs[p].memory THEN memoryFile[p] ELSE NoFile

\* resume() writes the snapshot over the session's memory.json; a failure is logged.
Restore(s) ==
  \/ /\ RestoreAs(s, IF Snapshot(resumed[s]) = NoFile THEN session ELSE Snapshot(resumed[s]))
     /\ degraded' = (degraded \/ Snapshot(resumed[s]) = NoFile)
  \/ Fault("restore") /\ RestoreAs(s, session) /\ degraded' = TRUE

-----------------------------------------------------------------------------
(* The turn.                                                                 *)

Stored == IF session = NoFile THEN Nothing ELSE session

\* The turn loads the session, adds the message and starts its loop.
Load(s) ==
  /\ pc[s] = "load"
  /\ held' = [held EXCEPT ![s] = [Stored EXCEPT ![origin[s]] = @ + 1]]
  /\ react' = react \cup {s}
  /\ Goto(s, "turn")
  /\ UNCHANGED <<fixed, stream, calls, drained, ran, refused, pending, session, files, refs, client, degraded>>

CallsMade == MapThenSumSet(LAMBDA r : Len(calls[r]), Streams)

\* The loop calls a tool.  A snapshot of the agent has no delegation tools.
Call(s, t) ==
  /\ s \in react
  /\ CallsMade < MaxCalls
  /\ policy[s] = "safe" => t \notin Extra
  /\ calls' = [calls EXCEPT ![s] = Append(@, t)]
  /\ ran' = IF CallGate(s, t) = "allow" THEN ran \cup {<<s, t>>} ELSE ran
  /\ refused' = IF CallGate(s, t) = "ask" THEN refused \cup {<<s, t>>} ELSE refused
  /\ UNCHANGED <<fixed, pc, stream, held, react, drained, pending, session, files, refs, client, degraded>>

\* The loop has its answer.
Settle(s) ==
  /\ s \in react
  /\ react' = react \ {s}
  /\ UNCHANGED <<fixed, pc, stream, held, calls, drained, ran, refused, pending, session, files, refs, client, degraded>>

NextCall(s) == calls[s][drained[s] + 1]

DrainWhen(s, ready) ==
  /\ pc[s] = "turn"
  /\ drained[s] < Len(calls[s])
  /\ ready
  /\ drained' = [drained EXCEPT ![s] = @ + 1]
  /\ UNCHANGED <<fixed, stream, held, react, calls, ran, refused, session, files, refs, client, degraded>>

\* Mutant of Drain: a plan's spans are handed on while it is walked.
MutDrain(s) == DrainWhen(s, TRUE)

\* The spans of a call reach the Runner: in chat while the loop goes on, in a plan
\* once the walk is over and only for the steps that completed.
Drain(s) == DrainWhen(s, pattern = "plan" => s \notin react)

\* Mutant of Pass: the spans of a refused call are dropped in chat as well.
MutPass(s) ==
  /\ Drain(s)
  /\ pattern = "plan" \/ SpanGate(s, NextCall(s)) # "ask" \/ <<s, NextCall(s)>> \in refused
  /\ UNCHANGED <<pc, pending>>

\* The event goes on to the consumer, or there is none: the step failed, as that of a
\* refused call does, whose result reads as an error.
Pass(s) ==
  /\ Drain(s)
  /\ pattern = "plan" \/ SpanGate(s, NextCall(s)) # "ask"
  /\ UNCHANGED <<pc, pending>>

\* The Runner leaves its loop over the events to pause.
Pause(s) ==
  /\ Drain(s)
  /\ SpanGate(s, NextCall(s)) = "ask"
  /\ pattern = "plan" => <<s, NextCall(s)>> \notin refused
  /\ pending' = [pending EXCEPT ![s] = NextCall(s)]
  /\ Goto(s, "memory")

SaveWhen(s, ready) ==
  /\ pc[s] = "turn"
  /\ ready /\ drained[s] = Len(calls[s])
  /\ session' = held[s]
  /\ answered' = answered \cup {s}
  /\ Goto(s, "over")
  /\ UNCHANGED <<fixed, stream, turn, pending, files, refs, told, approved, erased, degraded>>

\* The loop has ended and its last event is out: the turn ends and is saved.
Save(s) == SaveWhen(s, s \notin react)

-----------------------------------------------------------------------------
(* _pause_for_approval: three files, each of which may fail to be written.   *)

SaveMemoryAs(s, ok) ==
  /\ pc[s] = "memory"
  /\ memoryFile' = IF ok THEN [memoryFile EXCEPT ![s] = Stored] ELSE memoryFile
  /\ Goto(s, "events")
  /\ UNCHANGED <<fixed, stream, turn, pending, session, eventsFile, stateFile, client, degraded>>

\* The session as it is stored, not as the turn holds it.
SaveMemory(s) ==
  \E ok \in BOOLEAN :
    /\ ok \/ Fault("snapshot")
    /\ SaveMemoryAs(s, ok)
    /\ refs' = [refs EXCEPT ![s].memory = ok]

SaveEvents(s) ==
  /\ pc[s] = "events"
  /\ \E ok \in BOOLEAN :
       /\ ok \/ Fault("log")
       /\ eventsFile' = [eventsFile EXCEPT ![s] = ok]
       /\ refs' = [refs EXCEPT ![s].events = ok]
  /\ Goto(s, "state")
  /\ UNCHANGED <<fixed, stream, turn, pending, session, memoryFile, stateFile, client, degraded>>

SaveState(s) ==
  /\ pc[s] = "state"
  /\ \E ok \in BOOLEAN :
       /\ ok \/ Fault("state")
       /\ stateFile' = [stateFile EXCEPT ![s] = ok]
  /\ Goto(s, "announce")
  /\ UNCHANGED <<fixed, stream, turn, pending, session, memoryFile, eventsFile, refs, client, degraded>>

\* ToolCallApprovalRequired: with the path, or the whole RunState if it was not
\* written.  The stream ends; the loop it drained does not.
Announce(s) ==
  /\ pc[s] = "announce"
  /\ told' = [told EXCEPT ![s] = IF stateFile[s] THEN "path" ELSE "inline"]
  /\ Goto(s, "over")
  /\ UNCHANGED <<fixed, stream, turn, pending, session, files, refs, answered, approved, erased, degraded>>

-----------------------------------------------------------------------------

\* What cleanup_context leaves under kaos-agents/runs: what is not in the namespace
\* of the session, which is everything when there are no namespaces.
SweepRuns ==
  IF ~Isolated THEN UNCHANGED files
  ELSE /\ memoryFile' = [s \in Streams |-> NoFile]
       /\ eventsFile' = [s \in Streams |-> FALSE]
       /\ stateFile' = [s \in Streams |-> FALSE]

\* The session is deleted: its two files, then its namespace.
Delete ==
  /\ Active = {} /\ session # NoFile
  /\ session' = NoFile
  /\ erased' = erased \cup {m \in Streams : session[m] > 0}
  /\ SweepRuns
  /\ UNCHANGED <<fixed, pc, stream, turn, pending, refs, told, answered, approved, degraded>>

\* The process dies, with the loops of paused runs, and restarts.
Crash ==
  /\ Fault("crash")
  /\ Active \cup react # {}
  /\ pc' = [s \in Streams |-> IF s \in Active THEN "over" ELSE pc[s]]
  /\ react' = {}
  /\ UNCHANGED <<fixed, stream, held, calls, drained, ran, refused, pending, session, files, refs, client, degraded>>

Begin(s) ==
  \/ Send(s)
  \/ \E p \in Streams : TurnDown(s, p) \/ \E r \in {"request", "safe"} : Continue(s, p, r)

Step(s) ==
  \/ Restore(s) \/ Load(s) \/ Settle(s) \/ Pass(s) \/ Pause(s) \/ Save(s)
  \/ SaveMemory(s) \/ SaveEvents(s) \/ SaveState(s) \/ Announce(s)
  \/ \E t \in Tools : Call(s, t)

Next == Delete \/ Crash \/ \E s \in Streams : Begin(s) \/ Step(s)

Spec == Init /\ [][Next]_vars

-----------------------------------------------------------------------------

\* The RunState is written last, so the files it refers to are there: whatever fails
\* or crashes in the middle of a pause, a run whose RunState is on disk can be restored.
StateNamesFiles ==
  \A s \in Streams : stateFile[s] =>
    /\ refs[s].memory => memoryFile[s] # NoFile
    /\ refs[s].events => eventsFile[s]

\* tool_bridge.py:16-20: a tool that needs approval runs in no stream of a message
\* before a run of that message was approved, the loops that outlive a pause included.
AskedWaits ==
  \A e \in ran : e[2] \notin Extra /\ Evaluate(rules, e[2], hint[e[2]]) = "ask" =>
    \E p \in approved : origin[p] = origin[e[1]]

\* A refusal the model was told of ("the run will pause and resume after approval")
\* is not swallowed: the turn does not go on to an answer.
RefusalPauses == \A e \in refused : e[1] \notin answered

\* That is so in chat, also when the loop goes on behind the pause.
AskPauses == pattern = "chat" => RefusalPauses


\* What "ask" means: the tool waits for the approval of its message in every stream, and
\* in chat a turn that was refused one does not end in an answer (tool_bridge.py, runner.py).
AskHolds == AskedWaits /\ AskPauses

\* However often a run is paused, approved again, or crashes on the way, its message
\* is in the conversation at most once, as long as snapshots are there to restore.
MessageOnce == ~degraded /\ session # NoFile => \A m \in Streams : session[m] <= 1

\* What the files of a pause are for: a run can be restored from them, and restoring it
\* does not record its message again (runner.py, the pause, and server.py, the approval).
PauseSound == StateNamesFiles /\ MessageOnce

\* A turn that was saved stays in the session until it is deleted.
NoLostTurn ==
  \A s \in answered : origin[s] \notin erased => session # NoFile /\ session[origin[s]] > 0

\* SECURITY.md: a DELETE must actually delete.  A snapshot outlives it.
Forgotten == session # NoFile => \A m \in erased : session[m] = 0

\* What resume() says of the tools that were asked about: they "will execute normally
\* on this resume", so the continuation does not pause on the approved tool.
ApprovedRuns ==
  \A s \in Streams : pending[s] # NoTool /\ resumed[s] # s => pending[s] # pending[resumed[s]]

\* Every tool listed in require_approval_for_tools waits for an approval of its own.
EachApproved ==
  \A e \in ran : e[2] \notin Extra /\ Evaluate(rules, e[2], hint[e[2]]) = "ask" =>
    \E p \in approved : origin[p] = origin[e[1]] /\ pending[p] = e[2]

\* A pause the client was told of can be approved through the endpoint.
Approvable == \A s \in Streams : told[s] # "none" => Found(s)

\* "The run pauses after yielding this event": nothing of it runs any more.
StopsAtPause == [][\A e \in ran' \ ran : told[e[1]] = "none"]_vars

\* That is so of a plan, whose walk is over when its first span reaches the Runner.
PlanStops == [][pattern = "plan" => \A e \in ran' \ ran : told[e[1]] = "none"]_vars

\* on_tool_call_start "control[s] whether the tool executes": one a hook or a rule asks
\* about has not run when its stream pauses.
AskedBeforeRun == \A e \in ran : pending[e[1]] # e[2]

\* SECURITY.md's order: an explicit deny rule wins over an allow rule.
DenyWins ==
  \A e \in ran : e[2] \notin Extra /\ policy[e[1]] = "request" =>
    \A i \in Matching(rules, e[2]) : rules[i].action # "deny"
=============================================================================
