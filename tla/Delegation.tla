----------------------------- MODULE Delegation -----------------------------
(***************************************************************************)
(* Agents that call agents (kaos_agents/runtime/delegation.py and          *)
(* runner.py): a turn whose tools are sub-agents, on sessions of their     *)
(* own, and hand-offs, on the session of the caller.  Each is a whole turn *)
(* of a Runner of its own: load, calls, save.  Nesting is counted in a     *)
(* context variable, which a task inherits from the task that made it.     *)
(* Which hooks and which policy a Runner has, and what a hook's answer     *)
(* does to a tool call, is part of the model; a turn that pauses is        *)
(* followed up to its pause (Approval follows the rest).                   *)
(***************************************************************************)
EXTENDS Integers, Sequences, FiniteSets, SequencesExt, FiniteSetsExt

CONSTANTS
  Runs,        \* slots of turns
  Agents,
  Root,        \* the agent whose Runner the application made
  Delegates,   \* Delegates[a]: the agents that a carries as sub-agents
  Handoffs,    \* Handoffs[a]: those it can hand off to
  Cap,         \* Cap[a]: Agent.max_delegation_depth
  Own,         \* Own[a]: max_depth of the DelegatedAgent that wraps a
  Tools,
  RootRules,   \* RootRules[t]: what the Runner's policy says of a tool
  SafeRules,   \* SafeRules[t]: what PermissionPolicy.default_safe() says
  HookSays,    \* HookSays[h][t]: what the hook h of the root Runner answers, or "raise"
  NoRun,       \* no turn: the parent of one the application started
  MaxCalls     \* bound: tool calls of one turn

Decisions == {"allow", "ask", "deny"}
Answers == {"continue", "skip", "approval", "raise"}
Hooks == DOMAIN HookSays

ASSUME DelegationAssumption ==
  /\ Root \in Agents /\ NoRun \notin Runs /\ IsFiniteSet(Runs)
  /\ Delegates \in [Agents -> SUBSET Agents] /\ Handoffs \in [Agents -> SUBSET Agents]
  /\ Cap \in [Agents -> Nat] /\ Own \in [Agents -> Nat]
  /\ RootRules \in [Tools -> Decisions] /\ SafeRules \in [Tools -> Decisions]
  /\ HookSays \in [Hooks -> [Tools -> Answers]]
  /\ MaxCalls \in Nat

VARIABLES
  state,     \* "free", "running", "done", "paused" (ended at a pause), "failed"
  agent,     \* agent[r]: whose turn it is
  parent,    \* parent[r]: the turn that called it, or NoRun
  line,      \* line[r]: the turn, its caller, the caller of that and so on (history)
  task,      \* task[r]: the task it runs in, named for the first turn of the task
  depth,     \* depth[t]: _delegation_depth in the context of the task
  token,     \* token[r]: what the variable held when r was entered
  session,   \* session[r]: the names that make up its session id
  held,      \* held[r]: the turns in its copy of the session
  policy,    \* policy[r]: "root" or "safe"
  hooked,    \* hooked[r]: the hooks of the root Runner that its Runner has
  calls,     \* calls[r]: tool calls so far
  store,     \* the turns each session has on disk
  used,      \* <<r, tool>>: r called the tool
  shared     \* sessions that two turns held at once (history)

turnVars == <<agent, parent, line, task, token, session, policy, hooked>>
vars == <<state, turnVars, depth, held, calls, store, used, shared>>

Running == {r \in Runs : state[r] = "running"}
Children(r) == {c \in Running : parent[c] = r}

\* A turn goes on when nothing it awaits is under way.
Awake(r) == r \in Running /\ Children(r) = {}

\* A caller that awaits a child in its own task is suspended; of children in tasks of
\* their own it may have made several.
MayCall(r) ==
  /\ r \in Running /\ calls[r] < MaxCalls
  /\ \A c \in Children(r) : task[c] # task[r]

OnDisk(s) == IF s \in DOMAIN store THEN store[s] ELSE {}

Init ==
  /\ state = [r \in Runs |-> "free"] /\ agent = [r \in Runs |-> Root]
  /\ parent = [r \in Runs |-> NoRun] /\ line = [r \in Runs |-> {r}]
  /\ task = [r \in Runs |-> r]
  /\ depth = [r \in Runs |-> 0] /\ token = [r \in Runs |-> 0]
  /\ session = [r \in Runs |-> <<>>] /\ held = [r \in Runs |-> {}]
  /\ policy = [r \in Runs |-> "root"] /\ hooked = [r \in Runs |-> {}]
  /\ calls = [r \in Runs |-> 0] /\ store = [s \in {<<>>} |-> {}]
  /\ used = {} /\ shared = {}

\* A turn begins: it reads its session.
Begin(r, s) ==
  /\ state' = [state EXCEPT ![r] = "running"]
  /\ session' = [session EXCEPT ![r] = s]
  /\ held' = [held EXCEPT ![r] = OnDisk(s)]
  /\ shared' = IF \E q \in Running : session[q] = s THEN shared \cup {s} ELSE shared

\* Runner.turn of the application: one root turn after another.
Start(r) ==
  /\ Running = {} /\ state[r] = "free"
  /\ Begin(r, <<>>)
  /\ hooked' = [hooked EXCEPT ![r] = Hooks]
  /\ UNCHANGED <<agent, parent, line, task, token, policy, depth, calls, store, used>>

\* What _build_delegation_tools puts into the tool of a sub-agent and of a hand-off.
SubagentLimit(a, d) == Min({Own[d], Cap[a]})
HandoffLimit(a, d) == Cap[a]

\* The call of agent d by turn r as turn c, in the task of r or in a new one, which
\* starts with a copy of the context.
Enter(r, c, d, inline) ==
  LET t == IF inline THEN task[r] ELSE c
  IN /\ MayCall(r) /\ state[c] = "free"
     /\ inline => Children(r) = {}
     /\ agent' = [agent EXCEPT ![c] = d]
     /\ parent' = [parent EXCEPT ![c] = r]
     /\ line' = [line EXCEPT ![c] = line[r] \cup {c}]
     /\ task' = [task EXCEPT ![c] = t]
     /\ token' = [token EXCEPT ![c] = depth[task[r]]]
     /\ depth' = [depth EXCEPT ![t] = depth[task[r]] + 1]
     /\ calls' = [calls EXCEPT ![r] = @ + 1]
     /\ policy' = [policy EXCEPT ![c] = "safe"]
     /\ UNCHANGED <<store, used>>

\* DelegatedAgent.call: a session below that of the caller, a Runner without its hooks.
Delegate(r, c, d, inline) ==
  /\ d \in Delegates[agent[r]] /\ depth[task[r]] < SubagentLimit(agent[r], d)
  /\ Enter(r, c, d, inline)
  /\ Begin(c, Append(session[r], d))
  /\ hooked' = [hooked EXCEPT ![c] = {}]

MutHandedOver(r) == {}   \* mutant: hooks=parent_hooks is forgotten
HandedOver(r) == hooked[r]

\* The tool handoff_to_<d>: the session of the caller, and its hooks.
Handoff(r, c, d, inline) ==
  /\ d \in Handoffs[agent[r]] /\ depth[task[r]] < HandoffLimit(agent[r], d)
  /\ Enter(r, c, d, inline)
  /\ Begin(c, session[r])
  /\ hooked' = [hooked EXCEPT ![c] = HandedOver(r)]

\* DelegationDepthExceeded: the tool call is an error and the turn goes on.
TooDeep(r) ==
  /\ MayCall(r)
  /\ \/ \E d \in Delegates[agent[r]] : depth[task[r]] >= SubagentLimit(agent[r], d)
     \/ \E d \in Handoffs[agent[r]] : depth[task[r]] >= HandoffLimit(agent[r], d)
  /\ calls' = [calls EXCEPT ![r] = @ + 1]
  /\ UNCHANGED <<state, turnVars, depth, held, store, used, shared>>

\* The caller of c gets the variable back as the token has it: the finally of both
\* closures, also when c is cancelled.
Leave(c) == depth' = [depth EXCEPT ![task[c]] = token[c]]

\* A turn ends and writes its copy of the session with its own turn added.
Saved(r) == held[r] \cup {r}

FinishAwaits(r) == Awake(r)

Finish(r) ==
  /\ FinishAwaits(r)
  /\ state' = [state EXCEPT ![r] = "done"]
  /\ store' = [s \in DOMAIN store \cup {session[r]} |->
                 IF s = session[r] THEN Saved(r) ELSE store[s]]
  /\ Leave(r)
  /\ UNCHANGED <<turnVars, held, calls, used, shared>>

\* The turn and those it is a caller of, at whatever remove.
Below(r) == {q \in Runs : r \in line[q]}

\* A turn is cancelled (a timeout of the request, of the tool call): it and all turns
\* below it end where they are, and save nothing.  An error inside a turn is an event
\* of it, and the turn goes on to its save.
Unwind(r) ==
  /\ r \in Running
  /\ LET gone == Below(r) \cap Running
     IN /\ state' = [q \in Runs |-> IF q \in gone THEN "failed" ELSE state[q]]
        /\ Leave(r)
  /\ UNCHANGED <<turnVars, held, calls, store, used, shared>>

-----------------------------------------------------------------------------
\* dispatch_hook: the most restrictive answer; a hook that raises is logged and has none.
HookAction(hs, t) ==
  LET says == {HookSays[h][t] : h \in hs} \ {"raise"}
  IN IF "approval" \in says THEN "approval" ELSE IF "skip" \in says THEN "skip" ELSE "continue"

Rule(r, t) == IF policy[r] = "root" THEN RootRules[t] ELSE SafeRules[t]

\* The executor runs the tool of a call the policy allows.
Ran(r, t) == <<r, t>> \in used /\ Rule(r, t) = "allow"

\* A tool call of turn r: the executor asks the policy; the Runner sees the span after,
\* asks the hooks and the policy, and pauses: the turn ends there without a save, and a
\* caller takes what text there was for its answer.
Use(r, t) ==
  /\ MayCall(r) /\ Awake(r)
  /\ calls' = [calls EXCEPT ![r] = @ + 1]
  /\ used' = used \cup {<<r, t>>}
  /\ LET action == HookAction(hooked[r], t)
     IN IF action = "approval" \/ (action # "skip" /\ Rule(r, t) = "ask")
        THEN /\ state' = [state EXCEPT ![r] = "paused"]
             /\ Leave(r)
        ELSE UNCHANGED <<state, depth>>
  /\ UNCHANGED <<turnVars, held, store, shared>>

Next ==
  \E r \in Runs :
    \/ Start(r)
    \/ \E c \in Runs, d \in Agents, inline \in BOOLEAN :
         Delegate(r, c, d, inline) \/ Handoff(r, c, d, inline)
    \/ TooDeep(r)
    \/ Finish(r)
    \/ Unwind(r)
    \/ \E t \in Tools : Use(r, t)

Spec == Init /\ [][Next]_vars

-----------------------------------------------------------------------------
\* Types of the variables.
TypeOK ==
  /\ state \in [Runs -> {"free", "running", "done", "paused", "failed"}]
  /\ agent \in [Runs -> Agents] /\ parent \in [Runs -> Runs \cup {NoRun}]
  /\ line \in [Runs -> SUBSET Runs] /\ task \in [Runs -> Runs]
  /\ depth \in [Runs -> Nat] /\ token \in [Runs -> Nat]
  /\ session \in [Runs -> Seq(Agents)] /\ held \in [Runs -> SUBSET Runs]
  /\ policy \in [Runs -> {"root", "safe"}] /\ hooked \in [Runs -> SUBSET Hooks]
  /\ calls \in [Runs -> 0..MaxCalls]
  /\ store \in [DOMAIN store -> SUBSET Runs] /\ DOMAIN store \subseteq Seq(Agents)
  /\ used \subseteq Runs \X Tools /\ shared \subseteq Seq(Agents)

Nesting(r) == Cardinality(line[r]) - 1

\* The context variable that bounds recursion says how deep the turn is nested, in
\* every task, whatever turns before it finished, paused or were cancelled, in the same
\* task or in others (delegation.py, runner.py: set, and reset of the token).
DepthIsNesting ==
  \A r \in Running : Children(r) = {} => depth[task[r]] = Nesting(r)

\* No turn runs deeper than the agent that called it allows, nor than the sub-agent
\* itself does (Agent.max_delegation_depth, DelegatedAgent.max_depth).
LimitsHold ==
  \A c \in Running : parent[c] # NoRun =>
    /\ Nesting(c) <= Cap[agent[parent[c]]]
    /\ session[c] # session[parent[c]] => Nesting(c) <= Own[agent[c]]


\* The depth that bounds recursion is the nesting of the turns in every task, and no turn
\* is nested deeper than allowed (delegation.py, runner.py).
NestingSound == TypeOK /\ DepthIsNesting /\ LimitsHold

\* The turns of a session that one turn at a time held are all in its file, the
\* repeated calls of a sub-agent too (sub-sessions of DelegatedAgent.call).
RecordedUnlessShared ==
  \A r \in Runs : state[r] = "done" /\ session[r] \notin shared => r \in OnDisk(session[r])

\* A turn that the application made and that finished stays in the session, whatever
\* hand-offs below it or below later turns write there (runner.py, _handoff_invoke).
RootTurnsRecorded ==
  \A r \in Runs : state[r] = "done" /\ parent[r] = NoRun => r \in OnDisk(<<>>)


\* Depth is the nesting of turns, and a turn that finished is in the file of its session
\* unless turns of the session overlapped, and one the application made is whatever was
\* handed off below it.
TurnsRecorded == NestingSound /\ RecordedUnlessShared /\ RootTurnsRecorded

\* A tool call for which a hook of the application asks for approval ends its turn,
\* on the application's own session also behind any number of hand-offs, and whatever
\* other hooks say or raise (dispatch_hook, hooks=parent_hooks).
AskedIsPaused ==
  \A r \in Runs, t \in Tools :
    <<r, t>> \in used /\ session[r] = <<>> /\ (\E h \in Hooks : HookSays[h][t] = "approval")
      => state[r] = "paused"

\* Nested turns neither lose what the outer one records nor get round its hooks.
DelegationSound == TurnsRecorded /\ AskedIsPaused

\* Refuted: a turn handed off to is in the session of its caller when that has ended.
HandoffRecorded ==
  \A r \in Runs : state[r] = "done" /\ Running = {} => r \in OnDisk(session[r])

\* Refuted: a tool call that the matter isolation hook refuses does not run.
RefusedNeverRuns ==
  \A r \in Runs, t \in Tools : Ran(r, t) => \A h \in hooked[r] : HookSays[h][t] # "raise"

\* Refuted: a pause of a turn below pauses the turn of the application.
PauseReachesRoot ==
  \A r \in Runs : state[r] = "paused" => \A q \in line[r] : state[q] # "done"

\* Refuted: what the policy of the application does not allow, no turn runs.
PolicyReachesAll ==
  \A r \in Runs, t \in Tools : Ran(r, t) => RootRules[t] = "allow"

\* Refuted: the cap of the root agent bounds all nesting.
RootCapIsGlobal == \A r \in Running : Nesting(r) <= Cap[Root]
=============================================================================
