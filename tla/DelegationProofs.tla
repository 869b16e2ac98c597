-------------------------- MODULE DelegationProofs --------------------------
(***************************************************************************)
(* Proofs about Delegation: in every task, with any number of turns, agents *)
(* and hooks, the depth variable is the nesting of the turn that runs there, *)
(* sessions that no two turns held at once are complete on disk, and no turn *)
(* gets round a hook of the application on its own session.  And about       *)
(* Reflexion, whose loop goes around the turns of a specialist.             *)
(***************************************************************************)
EXTENDS Delegation, Reflexion, FiniteSetTheorems, TLAPS

\* The line of a turn is the turn and the line of its caller; free turns have no caller.
LineOfCaller ==
  \A r \in Runs :
    /\ state[r] = "free" => (parent[r] = NoRun /\ task[r] = r /\ depth[r] = 0)
    /\ parent[r] = NoRun => (line[r] = {r} /\ token[r] = 0)
    /\ parent[r] # NoRun =>
         /\ state[r] # "free" /\ state[parent[r]] # "free" /\ r \notin line[parent[r]]
         /\ line[r] = line[parent[r]] \cup {r}
         /\ token[r] = Nesting(parent[r])

\* Lines are closed, two turns are not each above the other, and from a turn to one
\* above it there is a step.
LineIsOrder ==
  \A q \in Runs :
    /\ q \in line[q]
    /\ \A x \in line[q] :
         /\ line[x] \subseteq line[q]
         /\ q \in line[x] => x = q
         /\ x = q \/ state[x] # "free"
         /\ x = q \/ \E k \in line[q] : parent[k] = x

\* What a running turn was called by still runs.
CallersRun == \A q \in Running : line[q] \subseteq Running

\* A turn is in the task of its caller or in one named for it.
TaskOfCaller ==
  \A q \in Runs :
    /\ task[q] \in line[q]
    /\ task[q] = q \/ (parent[q] # NoRun /\ task[q] = task[parent[q]])

\* The turns of one task lie next to each other on a line.
TaskIsStretch ==
  \A q \in Runs : \A x \in line[q] : \A a \in line[x] :
    task[a] = task[q] => task[x] = task[q]

\* The running turns of a task are on one line.
TaskIsChain ==
  \A q, r \in Running : task[q] = task[r] => q \in line[r] \/ r \in line[q]

\* The depth of a task is the nesting of its last running turn.
DepthOfTask ==
  \A r \in Running :
    (\A c \in Children(r) : task[c] # task[r]) => depth[task[r]] = Nesting(r)

Nested ==
  /\ LineOfCaller /\ LineIsOrder /\ CallersRun /\ TaskOfCaller
  /\ TaskIsStretch /\ TaskIsChain /\ DepthOfTask

\* Turns that run at once on one session are known to share it; one that does not share
\* has read all that its session holds.
SessionsRead ==
  /\ \A q, r \in Running : q # r /\ session[q] = session[r] => session[q] \in shared
  /\ \A q \in Running : session[q] \notin shared => OnDisk(session[q]) \subseteq held[q]

\* One turn of the application at a time, on its own session, with everything below it;
\* what works on that session has read all earlier ones.
RootsRead ==
  /\ <<>> \in DOMAIN store
  /\ \A r \in Runs : parent[r] = NoRun => session[r] = <<>>
  /\ \A r, q \in Running : parent[r] = NoRun => r \in line[q]
  /\ \A q \in Running, r \in Runs :
       session[q] = <<>> /\ state[r] = "done" /\ parent[r] = NoRun => r \in held[q]

\* Turns on the session of the application have its hooks.
HooksKept ==
  /\ \A r \in Runs : state[r] # "free" /\ session[r] = <<>> => hooked[r] = Hooks
  /\ \A r \in Runs, t \in Tools : <<r, t>> \in used => state[r] # "free"

IInv ==
  /\ TypeOK /\ Nested /\ LimitsHold /\ SessionsRead /\ RecordedUnlessShared
  /\ RootsRead /\ RootTurnsRecorded /\ HooksKept /\ AskedIsPaused

-----------------------------------------------------------------------------
(***************************************************************************)
(* Types.                                                                  *)
(***************************************************************************)

\* A call adds the called turn to the line of the caller.
LEMMA NestingOfCalled ==
  ASSUME NEW R, IsFiniteSet(R), NEW L \in SUBSET R, NEW c \in R, c \notin L
  PROVE  /\ Cardinality(L) \in Nat
         /\ Cardinality(L \cup {c}) = Cardinality(L) + 1
<1>1. IsFiniteSet(L) BY FS_Subset
<1>2. QED BY <1>1, FS_AddElement, FS_CardinalityType

\* The line of a turn is a finite set with the turn in it.
LEMMA NestingNat ==
  ASSUME TypeOK, LineIsOrder, NEW r \in Runs
  PROVE  Nesting(r) \in Nat
<1>1. line[r] \in SUBSET Runs /\ r \in line[r] BY DEF TypeOK, LineIsOrder
<1>2. IsFiniteSet(line[r]) BY <1>1, FS_Subset, DelegationAssumption
<1>3. Cardinality(line[r]) \in Nat /\ Cardinality(line[r]) # 0
  BY <1>1, <1>2, FS_CardinalityType, FS_EmptySet
<1>4. QED BY <1>3 DEF Nesting

LEMMA InitType == Init => TypeOK
<1> SUFFICES ASSUME Init PROVE TypeOK OBVIOUS
<1>1. calls \in [Runs -> 0..MaxCalls] BY DelegationAssumption DEF Init
<1>2. store \in [DOMAIN store -> SUBSET Runs] /\ DOMAIN store \subseteq Seq(Agents) BY DEF Init
<1>3. QED BY <1>1, <1>2, DelegationAssumption DEF Init, TypeOK, Hooks

LEMMA BeginType ==
  ASSUME TypeOK, NEW r \in Runs, NEW s \in Seq(Agents), Begin(r, s)
  PROVE  /\ state' \in [Runs -> {"free", "running", "done", "paused", "failed"}]
         /\ session' \in [Runs -> Seq(Agents)] /\ held' \in [Runs -> SUBSET Runs]
         /\ shared' \subseteq Seq(Agents)
<1>1. OnDisk(s) \in SUBSET Runs BY DEF TypeOK, OnDisk
<1>2. QED BY <1>1 DEF TypeOK, Begin

LEMMA CallsType ==
  ASSUME TypeOK, NEW r \in Runs, MayCall(r), calls' = [calls EXCEPT ![r] = @ + 1]
  PROVE  calls' \in [Runs -> 0..MaxCalls]
<1>1. MaxCalls \in Nat /\ calls \in [Runs -> 0..MaxCalls] BY DelegationAssumption DEF TypeOK
<1>2. calls[r] \in 0..MaxCalls /\ calls[r] < MaxCalls BY <1>1 DEF MayCall
<1>3. calls[r] + 1 \in 0..MaxCalls BY <1>1, <1>2
<1>4. QED BY <1>1, <1>3

LEMMA EnterType ==
  ASSUME TypeOK, NEW r \in Runs, NEW c \in Runs, NEW d \in Agents, NEW inline \in BOOLEAN,
         Enter(r, c, d, inline)
  PROVE  /\ agent' \in [Runs -> Agents] /\ parent' \in [Runs -> Runs \cup {NoRun}]
         /\ line' \in [Runs -> SUBSET Runs] /\ task' \in [Runs -> Runs]
         /\ depth' \in [Runs -> Nat] /\ token' \in [Runs -> Nat]
         /\ policy' \in [Runs -> {"root", "safe"}] /\ calls' \in [Runs -> 0..MaxCalls]
         /\ store' = store /\ used' = used
<1>1. agent' \in [Runs -> Agents] /\ parent' \in [Runs -> Runs \cup {NoRun}]
      /\ line' \in [Runs -> SUBSET Runs] /\ task' \in [Runs -> Runs]
      /\ token' \in [Runs -> Nat] /\ policy' \in [Runs -> {"root", "safe"}]
  BY DEF TypeOK, Enter
<1>2. depth' \in [Runs -> Nat] BY DEF TypeOK, Enter
<1>3. calls' \in [Runs -> 0..MaxCalls] BY CallsType DEF Enter
<1>4. QED BY <1>1, <1>2, <1>3 DEF Enter

LEMMA NextType == TypeOK /\ [Next]_vars => TypeOK'
<1> SUFFICES ASSUME TypeOK, [Next]_vars PROVE TypeOK' OBVIOUS
<1>1. ASSUME NEW r \in Runs, Start(r) PROVE TypeOK'
  <2>1. <<>> \in Seq(Agents) OBVIOUS
  <2>2. hooked' \in [Runs -> SUBSET Hooks] BY <1>1 DEF TypeOK, Start
  <2>3. QED BY <1>1, <2>1, <2>2, BeginType DEF TypeOK, Start
<1>2. ASSUME NEW r \in Runs, NEW c \in Runs, NEW d \in Agents, NEW inline \in BOOLEAN,
             Delegate(r, c, d, inline)
      PROVE  TypeOK'
  <2>1. Append(session[r], d) \in Seq(Agents) BY DEF TypeOK
  <2>2. hooked' \in [Runs -> SUBSET Hooks] BY <1>2 DEF TypeOK, Delegate
  <2>3. Enter(r, c, d, inline) /\ Begin(c, Append(session[r], d)) BY <1>2 DEF Delegate
  <2>4. /\ state' \in [Runs -> {"free", "running", "done", "paused", "failed"}]
        /\ session' \in [Runs -> Seq(Agents)] /\ held' \in [Runs -> SUBSET Runs]
        /\ shared' \subseteq Seq(Agents)
    BY <2>1, <2>3, BeginType
  <2>5. /\ agent' \in [Runs -> Agents] /\ parent' \in [Runs -> Runs \cup {NoRun}]
        /\ line' \in [Runs -> SUBSET Runs] /\ task' \in [Runs -> Runs]
        /\ depth' \in [Runs -> Nat] /\ token' \in [Runs -> Nat]
        /\ policy' \in [Runs -> {"root", "safe"}] /\ calls' \in [Runs -> 0..MaxCalls]
        /\ store' = store /\ used' = used
    BY <2>3, EnterType
  <2>6. QED BY <2>2, <2>4, <2>5 DEF TypeOK
<1>3. ASSUME NEW r \in Runs, NEW c \in Runs, NEW d \in Agents, NEW inline \in BOOLEAN,
             Handoff(r, c, d, inline)
      PROVE  TypeOK'
  <2>1. session[r] \in Seq(Agents) BY DEF TypeOK
  <2>2. hooked' \in [Runs -> SUBSET Hooks] BY <1>3 DEF TypeOK, Handoff, HandedOver
  <2>3. Enter(r, c, d, inline) /\ Begin(c, session[r]) BY <1>3 DEF Handoff
  <2>4. /\ state' \in [Runs -> {"free", "running", "done", "paused", "failed"}]
        /\ session' \in [Runs -> Seq(Agents)] /\ held' \in [Runs -> SUBSET Runs]
        /\ shared' \subseteq Seq(Agents)
    BY <2>1, <2>3, BeginType
  <2>5. /\ agent' \in [Runs -> Agents] /\ parent' \in [Runs -> Runs \cup {NoRun}]
        /\ line' \in [Runs -> SUBSET Runs] /\ task' \in [Runs -> Runs]
        /\ depth' \in [Runs -> Nat] /\ token' \in [Runs -> Nat]
        /\ policy' \in [Runs -> {"root", "safe"}] /\ calls' \in [Runs -> 0..MaxCalls]
        /\ store' = store /\ used' = used
    BY <2>3, EnterType
  <2>6. QED BY <2>2, <2>4, <2>5 DEF TypeOK
<1>4. ASSUME NEW r \in Runs, TooDeep(r) PROVE TypeOK'
  <2>1. calls' \in [Runs -> 0..MaxCalls]
    BY <1>4, CallsType DEF TooDeep
  <2>2. QED BY <1>4, <2>1 DEF TypeOK, TooDeep, turnVars
<1>5. ASSUME NEW r \in Runs, Finish(r) PROVE TypeOK'
  <2>1. store' \in [DOMAIN store' -> SUBSET Runs] /\ DOMAIN store' \subseteq Seq(Agents)
    BY <1>5 DEF TypeOK, Finish, Saved
  <2>2. depth' \in [Runs -> Nat] BY <1>5 DEF TypeOK, Finish, Leave
  <2>3. QED BY <1>5, <2>1, <2>2 DEF TypeOK, Finish, turnVars
<1>6. ASSUME NEW r \in Runs, Unwind(r) PROVE TypeOK'
  <2>1. state' \in [Runs -> {"free", "running", "done", "paused", "failed"}]
    BY <1>6 DEF TypeOK, Unwind
  <2>2. depth' \in [Runs -> Nat] BY <1>6 DEF TypeOK, Unwind, Leave
  <2>3. QED BY <1>6, <2>1, <2>2 DEF TypeOK, Unwind, turnVars
<1>7. ASSUME NEW r \in Runs, NEW t \in Tools, Use(r, t) PROVE TypeOK'
  <2>1. calls' \in [Runs -> 0..MaxCalls]
    BY <1>7, CallsType DEF Use
  <2>2. /\ depth' \in [Runs -> Nat]
        /\ state' \in [Runs -> {"free", "running", "done", "paused", "failed"}]
    <3>1. CASE UNCHANGED <<state, depth>> BY <3>1 DEF TypeOK
    <3>2. CASE state' = [state EXCEPT ![r] = "paused"] /\ Leave(r) BY <3>2 DEF TypeOK, Leave
    <3>3. QED BY <1>7, <3>1, <3>2 DEF Use
  <2>3. used' \subseteq Runs \X Tools BY <1>7 DEF TypeOK, Use
  <2>4. QED BY <1>7, <2>1, <2>2, <2>3 DEF TypeOK, Use, turnVars
<1>8. ASSUME UNCHANGED vars PROVE TypeOK' BY <1>8 DEF TypeOK, vars, turnVars
<1>9. QED BY <1>1, <1>2, <1>3, <1>4, <1>5, <1>6, <1>7, <1>8 DEF Next

-----------------------------------------------------------------------------
(***************************************************************************)
(* The depth variable is the nesting.                                      *)
(***************************************************************************)

LEMMA InitNested == Init => Nested
<1> SUFFICES ASSUME Init PROVE Nested OBVIOUS
<1>1. Running = {} BY DEF Init, Running
<1>2. LineOfCaller /\ LineIsOrder /\ TaskOfCaller /\ TaskIsStretch
  BY DEF Init, LineOfCaller, LineIsOrder, TaskOfCaller, TaskIsStretch
<1>3. QED BY <1>1, <1>2 DEF Nested, CallersRun, TaskIsChain, DepthOfTask

\* A running turn above another one that runs has a child that runs, in its own task if
\* the other one is in it.
LEMMA ChildOnLine ==
  ASSUME TypeOK, Nested, NEW q \in Running, NEW x \in line[q], x # q
  PROVE  \E k \in Children(x) : k \in line[q] /\ (task[x] = task[q] => task[k] = task[x])
<1>1. PICK k \in line[q] : parent[k] = x BY DEF Nested, LineIsOrder, Running
<1>2. k \in Running BY DEF Nested, CallersRun
<1>3. k \in Runs /\ x \in Runs /\ q \in Runs BY <1>2 DEF Running, TypeOK
<1>4. x \in line[k] BY <1>1, <1>3, DelegationAssumption DEF Nested, LineOfCaller, LineIsOrder
<1>5. task[x] = task[q] => task[k] = task[q] BY <1>1, <1>3, <1>4 DEF Nested, TaskIsStretch
<1>6. QED BY <1>1, <1>2, <1>5 DEF Children

\* The turn that may call is the last one of its task.
LEMMA LastOfTask ==
  ASSUME TypeOK, Nested, NEW r \in Running, \A c \in Children(r) : task[c] # task[r],
         NEW q \in Running, task[q] = task[r]
  PROVE  q \in line[r]
<1>1. SUFFICES ASSUME r \in line[q], r # q PROVE FALSE BY DEF Nested, TaskIsChain, LineIsOrder, Running
<1>2. QED BY <1>1, ChildOnLine

LEMMA StartNested ==
  ASSUME TypeOK, Nested, NEW r \in Runs, Start(r)
  PROVE  Nested'
<1>1. Running = {} /\ state[r] = "free" /\ state' = [state EXCEPT ![r] = "running"]
      /\ UNCHANGED <<parent, line, task, token, depth>>
  BY DEF Start, Begin
<1>2. Running' = {r} BY <1>1 DEF Running, TypeOK
<1>3. parent[r] = NoRun /\ task[r] = r /\ depth[r] = 0 /\ line[r] = {r}
  BY <1>1 DEF Nested, LineOfCaller
<1>4. LineOfCaller'
  BY <1>1, <1>3 DEF Nested, LineOfCaller, TypeOK, Nesting
<1>5. LineIsOrder' BY <1>1 DEF Nested, LineIsOrder, TypeOK
<1>6. CallersRun' BY <1>1, <1>2, <1>3 DEF CallersRun
<1>7. TaskOfCaller' /\ TaskIsStretch' BY <1>1 DEF Nested, TaskOfCaller, TaskIsStretch
<1>8. TaskIsChain' BY <1>1, <1>2, <1>3 DEF TaskIsChain
<1>9. Cardinality({r}) = 1 BY FS_Singleton
<1>10. DepthOfTask' BY <1>1, <1>2, <1>3, <1>9 DEF DepthOfTask, Nesting
<1>11. QED BY <1>4, <1>5, <1>6, <1>7, <1>8, <1>10 DEF Nested

LEMMA EnterNested ==
  ASSUME TypeOK, Nested, NEW r \in Runs, NEW c \in Runs, NEW d \in Agents, NEW inline \in BOOLEAN,
         Enter(r, c, d, inline), state' = [state EXCEPT ![c] = "running"]
  PROVE  Nested' /\ Nesting(c)' = Nesting(r) + 1 /\ depth[task[r]] = Nesting(r)
<1> DEFINE t == IF inline THEN task[r] ELSE c
<1>1. /\ r \in Running /\ state[c] = "free" /\ (inline => Children(r) = {})
      /\ \A k \in Children(r) : task[k] # task[r]
      /\ parent' = [parent EXCEPT ![c] = r]
      /\ line' = [line EXCEPT ![c] = line[r] \cup {c}]
      /\ task' = [task EXCEPT ![c] = t]
      /\ token' = [token EXCEPT ![c] = depth[task[r]]]
      /\ depth' = [depth EXCEPT ![t] = depth[task[r]] + 1]
  BY DEF Enter, MayCall
<1> HIDE DEF t
<1>2. c # r /\ c \notin line[r] /\ parent[c] = NoRun /\ task[c] = c /\ line[c] = {c} /\ c \notin Running
  BY <1>1 DEF Running, Nested, LineOfCaller, LineIsOrder
<1>3. Running' = Running \cup {c} BY <1>1, <1>2 DEF Running, TypeOK
<1>4. parent'[c] = r /\ line'[c] = line[r] \cup {c} /\ task'[c] = t /\ token'[c] = depth[task[r]]
  BY <1>1 DEF TypeOK
<1>5. \A q \in Runs : q # c => /\ parent'[q] = parent[q] /\ line'[q] = line[q] /\ task'[q] = task[q]
                               /\ token'[q] = token[q] /\ state'[q] = state[q] /\ c \notin line[q]
  BY <1>1 DEF TypeOK, Nested, LineIsOrder
<1>6. depth[task[r]] = Nesting(r) BY <1>1 DEF Nested, DepthOfTask
<1>7. t \in Runs /\ state'[t] # "free" /\ depth'[t] = depth[task[r]] + 1
  BY <1>1, <1>2 DEF t, TypeOK, Nested, TaskOfCaller, CallersRun, Running
<1>8. \A q \in Runs : q # t => depth'[q] = depth[q] BY <1>1 DEF TypeOK
<1>9. line[r] \in SUBSET Runs /\ r \in line[r] /\ \A q \in Runs : line[q] \in SUBSET Runs
  BY DEF TypeOK, Nested, LineIsOrder
<1>10. Nesting(c)' = Nesting(r) + 1
  BY <1>2, <1>4, <1>9, NestingOfCalled, DelegationAssumption DEF Nesting
<1>11. \A q \in Runs : q # c => Nesting(q)' = Nesting(q) BY <1>5 DEF Nesting
<1>12. \A q \in Runs : parent[q] # c
  BY <1>1, <1>2, DelegationAssumption DEF Nested, LineOfCaller
<1>13. LineOfCaller'
  <2> SUFFICES ASSUME NEW q \in Runs
               PROVE  /\ state'[q] = "free" => (parent'[q] = NoRun /\ task'[q] = q /\ depth'[q] = 0)
                      /\ parent'[q] = NoRun => (line'[q] = {q} /\ token'[q] = 0)
                      /\ parent'[q] # NoRun =>
                           /\ state'[q] # "free" /\ state'[parent'[q]] # "free" /\ q \notin line'[parent'[q]]
                           /\ line'[q] = line'[parent'[q]] \cup {q}
                           /\ token'[q] = Cardinality(line'[parent'[q]]) - 1
    BY DEF LineOfCaller, Nesting
  <2>1. CASE q = c
    <3>1. state'[c] = "running" /\ state'[r] = "running" BY <1>1, <1>2 DEF TypeOK, Running
    <3>2. line'[r] = line[r] BY <1>2, <1>5
    <3>3. QED BY <2>1, <3>1, <3>2, <1>2, <1>4, <1>6, DelegationAssumption DEF Nesting
  <2>2. CASE q # c
    <3>1. state'[q] = "free" => q # t BY <1>7
    <3>2. state'[q] = "free" => (parent'[q] = NoRun /\ task'[q] = q /\ depth'[q] = 0)
      BY <2>2, <3>1, <1>5, <1>8 DEF Nested, LineOfCaller
    <3>3. parent'[q] = NoRun => (line'[q] = {q} /\ token'[q] = 0)
      BY <2>2, <1>5 DEF Nested, LineOfCaller
    <3>4. ASSUME parent'[q] # NoRun
          PROVE  /\ state'[q] # "free" /\ state'[parent'[q]] # "free" /\ q \notin line'[parent'[q]]
                 /\ line'[q] = line'[parent'[q]] \cup {q}
                 /\ token'[q] = Cardinality(line'[parent'[q]]) - 1
      <4>1. parent[q] # c /\ parent[q] \in Runs /\ parent[q] # NoRun /\ parent'[q] = parent[q]
        BY <2>2, <3>4, <1>5, <1>12 DEF TypeOK
      <4>2. QED BY <4>1, <2>2, <1>5 DEF Nested, LineOfCaller, Nesting
    <3>5. QED BY <3>2, <3>3, <3>4
  <2>3. QED BY <2>1, <2>2
<1>14. LineIsOrder'
  <2> SUFFICES ASSUME NEW q \in Runs
               PROVE  /\ q \in line'[q]
                      /\ \A x \in line'[q] :
                           /\ line'[x] \subseteq line'[q]
                           /\ q \in line'[x] => x = q
                           /\ x = q \/ state'[x] # "free"
                           /\ x = q \/ \E k \in line'[q] : parent'[k] = x
    BY DEF LineIsOrder
  <2>1. CASE q = c
    <3> SUFFICES ASSUME NEW x \in line[r]
                 PROVE  /\ line'[x] \subseteq line'[c]
                        /\ c \notin line'[x]
                        /\ state'[x] # "free"
                        /\ \E k \in line'[c] : parent'[k] = x
      BY <2>1, <1>2, <1>4
    <3>1. x # c /\ x \in Runs /\ line'[x] = line[x] BY <1>2, <1>5, <1>9
    <3>2. line[x] \subseteq line[r] BY DEF Nested, LineIsOrder
    <3>3. x \in Running BY <1>1 DEF Nested, CallersRun
    <3>4. state'[x] # "free" BY <3>1, <3>3, <1>5 DEF Running
    <3>5. \E k \in line'[c] : parent'[k] = x
      <4>1. CASE x = r BY <4>1, <1>4
      <4>2. CASE x # r
        <5>1. PICK k \in line[r] : parent[k] = x BY <4>2 DEF Nested, LineIsOrder
        <5>2. QED BY <5>1, <1>2, <1>4, <1>5, <1>9
      <4>3. QED BY <4>1, <4>2
    <3>6. QED BY <3>1, <3>2, <3>4, <3>5, <1>2, <1>4
  <2>2. CASE q # c
    <3>1. q \in line[q] /\ line'[q] = line[q] BY <2>2, <1>5 DEF Nested, LineIsOrder
    <3>2. ASSUME NEW x \in line[q]
          PROVE  /\ line'[x] \subseteq line[q]
                 /\ q \in line'[x] => x = q
                 /\ x = q \/ state'[x] # "free"
                 /\ x = q \/ \E k \in line[q] : parent'[k] = x
      <4>1. x # c /\ x \in Runs /\ line'[x] = line[x] /\ state'[x] = state[x] BY <2>2, <1>5, <1>9
      <4>2. \A k \in line[q] : parent'[k] = parent[k] BY <2>2, <1>5, <1>9
      <4>3. QED BY <4>1, <4>2 DEF Nested, LineIsOrder
    <3>3. QED BY <3>1, <3>2
  <2>3. QED BY <2>1, <2>2
<1>15. CallersRun' BY <1>1, <1>2, <1>3, <1>4, <1>5 DEF Nested, CallersRun, Running
<1>16. TaskOfCaller'
  <2> SUFFICES ASSUME NEW q \in Runs
               PROVE  /\ task'[q] \in line'[q]
                      /\ task'[q] = q \/ (parent'[q] # NoRun /\ task'[q] = task'[parent'[q]])
    BY DEF TaskOfCaller
  <2>1. CASE q = c
    <3>1. task[r] \in line[r] /\ task'[r] = task[r] BY <1>2, <1>5 DEF Nested, TaskOfCaller
    <3>2. QED BY <2>1, <3>1, <1>4, DelegationAssumption DEF t
  <2>2. CASE q # c
    <3>1. parent[q] # c BY <1>12
    <3>2. parent[q] # NoRun => parent[q] \in Runs BY DEF TypeOK
    <3>3. QED BY <2>2, <3>1, <3>2, <1>5 DEF Nested, TaskOfCaller
  <2>3. QED BY <2>1, <2>2
<1>17. \A q \in Runs : q # c => task[q] # c
  BY <1>5 DEF Nested, TaskOfCaller
<1>18. TaskIsStretch'
  <2> SUFFICES ASSUME NEW q \in Runs, NEW x \in line'[q], NEW a \in line'[x], task'[a] = task'[q]
               PROVE  task'[x] = task'[q]
    BY DEF TaskIsStretch
  <2>1. CASE q = c /\ x = c BY <2>1
  <2>2. CASE q = c /\ x # c
    <3>1. x \in line[r] /\ x \in Runs BY <2>2, <1>4, <1>9
    <3>2. a \in line[x] /\ a # c /\ a \in Runs BY <2>2, <3>1, <1>5, <1>9
    <3>3. task'[a] = task[a] /\ task'[x] = task[x] BY <2>2, <3>1, <3>2, <1>5
    <3>4. task[a] # c BY <3>2, <1>17
    <3>5. task[a] = task[r] BY <2>2, <3>3, <3>4, <1>4 DEF t
    <3>6. task[x] = task[r] BY <3>1, <3>2, <3>5 DEF Nested, TaskIsStretch
    <3>7. QED BY <2>2, <3>3, <3>5, <3>6
  <2>3. CASE q # c
    <3>1. x \in line[q] /\ x # c /\ x \in Runs BY <2>3, <1>5, <1>9
    <3>2. a \in line[x] /\ a # c /\ a \in Runs BY <3>1, <1>5, <1>9
    <3>3. QED BY <2>3, <3>1, <3>2, <1>5 DEF Nested, TaskIsStretch
  <2>4. QED BY <2>1, <2>2, <2>3
<1>19. \A q \in Running : q \in Runs /\ q # c BY <1>2 DEF Running
<1>20. ASSUME NEW q \in Running, task[q] = t PROVE inline /\ q \in line[r]
  <2>1. task[q] # c BY <1>17, <1>19
  <2>2. inline /\ task[q] = task[r] BY <1>20, <2>1 DEF t
  <2>3. QED BY <2>2, <1>1, LastOfTask
<1>21. TaskIsChain'
  <2> SUFFICES ASSUME NEW q \in Running \cup {c}, NEW p \in Running \cup {c}, task'[q] = task'[p]
               PROVE  q \in line'[p] \/ p \in line'[q]
    BY <1>3 DEF TaskIsChain
  <2>1. CASE q \in Running /\ p \in Running BY <2>1, <1>5, <1>19 DEF Nested, TaskIsChain
  <2>2. CASE q = c /\ p = c BY <2>2, <1>4
  <2>3. CASE q \in Running /\ p = c BY <2>3, <1>4, <1>5, <1>19, <1>20
  <2>4. CASE q = c /\ p \in Running BY <2>4, <1>4, <1>5, <1>19, <1>20
  <2>5. QED BY <2>1, <2>2, <2>3, <2>4
<1>22. DepthOfTask'
  <2> SUFFICES ASSUME NEW q \in Running \cup {c},
                      \A k \in Children(q)' : task'[k] # task'[q]
               PROVE  depth'[task'[q]] = Nesting(q)'
    BY <1>3 DEF DepthOfTask
  <2>1. CASE q = c BY <2>1, <1>4, <1>6, <1>7, <1>10
  <2>2. CASE q \in Running /\ task[q] # t
    <3>1. \A k \in Children(q) : k \in Children(q)' /\ task'[k] = task[k]
      BY <1>3, <1>5, <1>19 DEF Children
    <3>2. depth[task[q]] = Nesting(q) BY <2>2, <3>1, <1>5, <1>19 DEF Nested, DepthOfTask
    <3>3. task[q] \in Runs BY <1>19 DEF TypeOK
    <3>4. QED BY <2>2, <3>2, <3>3, <1>5, <1>8, <1>11, <1>19
  <2>3. CASE q \in Running /\ task[q] = t
    <3>1. inline /\ q \in line[r] /\ task[q] = task[r] BY <2>3, <1>20 DEF t
    <3>2. CASE q = r
      <4>1. c \in Children(q)' /\ task'[c] = task'[q]
        BY <3>1, <3>2, <2>3, <1>3, <1>4, <1>5, <1>19 DEF Children
      <4>2. QED BY <4>1
    <3>3. CASE q # r
      <4>1. PICK k \in Children(q) : task[k] = task[q] BY <3>1, <3>3, <1>1, ChildOnLine
      <4>2. k \in Children(q)' /\ task'[k] = task'[q] BY <4>1, <2>3, <1>3, <1>5, <1>19 DEF Children
      <4>3. QED BY <4>2
    <3>4. QED BY <3>2, <3>3
  <2>4. QED BY <2>1, <2>2, <2>3
<1>23. QED BY <1>6, <1>10, <1>13, <1>14, <1>15, <1>16, <1>18, <1>21, <1>22 DEF Nested

\* Nothing runs below a turn that awaits nothing.
LEMMA AwakeIsLast ==
  ASSUME TypeOK, Nested, NEW r, Awake(r), NEW q \in Running, r \in line[q]
  PROVE  q = r
<1>1. SUFFICES ASSUME q # r PROVE FALSE OBVIOUS
<1>2. QED BY <1>1, ChildOnLine DEF Awake

\* A turn ends with all that runs below it.
Ends(r) ==
  /\ r \in Running
  /\ \A q \in Runs : IF q \in Running /\ r \in line[q]
                     THEN state'[q] \notin {"free", "running"} ELSE state'[q] = state[q]
  /\ Leave(r) /\ UNCHANGED turnVars

LEMMA FinishEnds == ASSUME TypeOK, Nested, NEW r \in Runs, Finish(r) PROVE Ends(r)
<1>1. Awake(r) /\ state' = [state EXCEPT ![r] = "done"] /\ Leave(r) /\ UNCHANGED turnVars
  BY DEF Finish, FinishAwaits
<1>2. r \in line[r] BY DEF Nested, LineIsOrder
<1>3. \A q \in Runs : q \in Running /\ r \in line[q] <=> q = r
  BY <1>1, <1>2, AwakeIsLast DEF Awake
<1>4. QED BY <1>1, <1>3 DEF Ends, Awake, TypeOK

LEMMA UnwindEnds == ASSUME TypeOK, NEW r \in Runs, Unwind(r) PROVE Ends(r)
BY DEF Unwind, Ends, Below

LEMMA PauseEnds ==
  ASSUME TypeOK, Nested, NEW r \in Runs, NEW t \in Tools, Use(r, t)
  PROVE  Ends(r) \/ UNCHANGED <<state, turnVars, depth>>
<1>1. Awake(r) /\ UNCHANGED turnVars BY DEF Use
<1>2. r \in line[r] BY DEF Nested, LineIsOrder
<1>3. \A q \in Runs : q \in Running /\ r \in line[q] <=> q = r
  BY <1>1, <1>2, AwakeIsLast DEF Awake
<1>4. CASE state' = [state EXCEPT ![r] = "paused"] /\ Leave(r)
  BY <1>1, <1>3, <1>4 DEF Ends, Awake, TypeOK
<1>5. CASE UNCHANGED <<state, depth>> BY <1>1, <1>5
<1>6. QED BY <1>4, <1>5 DEF Use

LEMMA EndNested ==
  ASSUME TypeOK, Nested, NEW r \in Runs, Ends(r)
  PROVE  Nested'
<1>1. r \in Running /\ UNCHANGED <<parent, line, task, token>>
      /\ depth' = [depth EXCEPT ![task[r]] = token[r]]
  BY DEF Ends, Leave, turnVars
<1>2. \A q \in Running : q \in Runs /\ state[q] = "running" BY DEF Running
<1>3. \A q : q \in Running' <=> q \in Running /\ r \notin line[q]
  BY DEF Ends, Running
<1>4. \A q \in Runs : (state'[q] = "free" <=> state[q] = "free")
  BY <1>2 DEF Ends
<1>5. task[r] \in Runs /\ state[task[r]] # "free"
  BY <1>1, <1>2 DEF TypeOK, Nested, TaskOfCaller, CallersRun
<1>6. \A q \in Runs : q # task[r] => depth'[q] = depth[q] BY <1>1 DEF TypeOK
<1>7. depth'[task[r]] = token[r] BY <1>1, <1>5 DEF TypeOK
<1>8. LineOfCaller'
  <2> SUFFICES ASSUME NEW q \in Runs
               PROVE  /\ state'[q] = "free" => (parent'[q] = NoRun /\ task'[q] = q /\ depth'[q] = 0)
                      /\ parent'[q] = NoRun => (line'[q] = {q} /\ token'[q] = 0)
                      /\ parent'[q] # NoRun =>
                           /\ state'[q] # "free" /\ state'[parent'[q]] # "free" /\ q \notin line'[parent'[q]]
                           /\ line'[q] = line'[parent'[q]] \cup {q}
                           /\ token'[q] = Cardinality(line'[parent'[q]]) - 1
    BY DEF LineOfCaller, Nesting
  <2>1. parent[q] # NoRun => parent[q] \in Runs BY DEF TypeOK
  <2>2. QED BY <1>1, <1>4, <1>5, <1>6, <2>1 DEF Nested, LineOfCaller, Nesting
<1>9. LineIsOrder'
  <2>1. \A q \in Runs : line[q] \in SUBSET Runs BY DEF TypeOK
  <2>2. QED BY <1>1, <1>4, <2>1 DEF Nested, LineIsOrder
<1>10. CallersRun' BY <1>1, <1>2, <1>3 DEF Nested, CallersRun, LineIsOrder
<1>11. TaskOfCaller' /\ TaskIsStretch' BY <1>1 DEF Nested, TaskOfCaller, TaskIsStretch
<1>12. TaskIsChain' BY <1>1, <1>3 DEF Nested, TaskIsChain
<1>13. DepthOfTask'
  <2> SUFFICES ASSUME NEW q \in Running, r \notin line[q],
                      \A k \in Children(q)' : task[k] # task[q]
               PROVE  depth'[task[q]] = Nesting(q)
    BY <1>1, <1>3 DEF DepthOfTask, Nesting
  <2>1. r \in line[r] /\ q # r /\ q \in line[q] BY <1>1, <1>2 DEF Nested, LineIsOrder
  <2>2. ASSUME NEW k \in Children(q), k \notin Children(q)' PROVE k = r
    <3>1. k \in Running /\ parent[k] = q /\ r \in line[k] BY <2>2, <1>1, <1>3 DEF Children
    <3>2. line[k] = line[q] \cup {k} BY <3>1, <1>2, DelegationAssumption DEF Nested, LineOfCaller
    <3>3. QED BY <3>1, <3>2
  <2>3. CASE task[q] = task[r]
    <3>1. q \in line[r] BY <2>3, <1>1 DEF Nested, TaskIsChain
    <3>2. parent[r] # NoRun BY <3>1, <2>1, <1>1, <1>2 DEF Nested, LineOfCaller
    <3>3. q \in line[parent[r]] BY <3>1, <3>2, <2>1 DEF Nested, LineOfCaller
    <3>4. parent[r] \in Running /\ parent[r] \in line[r]
      <4>1. parent[r] \in Runs BY <3>2 DEF TypeOK
      <4>2. parent[r] \in line[parent[r]] BY <4>1 DEF Nested, LineIsOrder
      <4>3. line[r] = line[parent[r]] \cup {r} BY <3>2 DEF Nested, LineOfCaller
      <4>4. QED BY <4>2, <4>3, <1>1 DEF Nested, CallersRun
    <3>5. CASE q = parent[r]
      BY <3>5, <3>2, <2>3, <1>7 DEF Nested, LineOfCaller
    <3>6. CASE q # parent[r]
      <4>1. PICK k \in Children(q) : k \in line[parent[r]] /\ (task[q] = task[parent[r]] => task[k] = task[q])
        BY <3>3, <3>4, <3>6, ChildOnLine
      <4>2. task[parent[r]] = task[r]
        BY <3>3, <3>4, <2>3, <1>2 DEF Nested, TaskIsStretch
      <4>3. k # r BY <4>1, <3>2 DEF Nested, LineOfCaller
      <4>4. QED BY <4>1, <4>2, <4>3, <2>2, <2>3
    <3>7. QED BY <3>5, <3>6
  <2>4. CASE task[q] # task[r]
    <3>1. \A k \in Children(q) : task[k] # task[q] BY <2>2, <2>4
    <3>2. depth[task[q]] = Nesting(q) BY <3>1 DEF Nested, DepthOfTask
    <3>3. task[q] \in Runs BY <1>2 DEF TypeOK
    <3>4. QED BY <3>2, <3>3, <2>4, <1>6
  <2>5. QED BY <2>3, <2>4
<1>14. QED BY <1>8, <1>9, <1>10, <1>11, <1>12, <1>13 DEF Nested

LEMMA StutterNested ==
  ASSUME Nested, UNCHANGED <<state, turnVars, depth>>
  PROVE  Nested'
BY DEF Nested, turnVars, LineOfCaller, LineIsOrder, CallersRun, TaskOfCaller, TaskIsStretch,
       TaskIsChain, DepthOfTask, Children, Running, Nesting

\* A call: of a sub-agent on a session below that of the caller, of a hand-off on its own.
Called(r, c, d, inline, s) ==
  /\ Enter(r, c, d, inline) /\ Begin(c, s)
  /\ \/ /\ s = Append(session[r], d) /\ depth[task[r]] < SubagentLimit(agent[r], d)
        /\ hooked' = [hooked EXCEPT ![c] = {}]
     \/ /\ s = session[r] /\ depth[task[r]] < HandoffLimit(agent[r], d)
        /\ hooked' = [hooked EXCEPT ![c] = hooked[r]]

\* The five ways a step changes the turns.
TurnsChange ==
  \/ \E r \in Runs : Start(r)
  \/ \E r, c \in Runs, d \in Agents, inline \in BOOLEAN, s \in Seq(Agents) :
       Called(r, c, d, inline, s)
  \/ \E r \in Runs : Finish(r)
  \/ \E r \in Runs :
       /\ Ends(r)
       /\ Unwind(r) \/ \E t \in Tools : Use(r, t) /\ state' = [state EXCEPT ![r] = "paused"]
  \/ /\ UNCHANGED <<state, turnVars, depth, held, store, shared>>
     /\ used' = used \/ \E r \in Runs, t \in Tools : Use(r, t)

LEMMA Steps == ASSUME TypeOK, Nested, [Next]_vars PROVE TurnsChange
<1>1. ASSUME NEW r \in Runs, Start(r) PROVE TurnsChange BY <1>1 DEF TurnsChange
<1>2. ASSUME NEW r \in Runs, NEW c \in Runs, NEW d \in Agents, NEW inline \in BOOLEAN,
             Delegate(r, c, d, inline)
      PROVE  TurnsChange
  <2>1. Append(session[r], d) \in Seq(Agents) BY DEF TypeOK
  <2>2. Called(r, c, d, inline, Append(session[r], d)) BY <1>2 DEF Delegate, Called
  <2>3. QED BY <2>1, <2>2 DEF TurnsChange
<1>3. ASSUME NEW r \in Runs, NEW c \in Runs, NEW d \in Agents, NEW inline \in BOOLEAN,
             Handoff(r, c, d, inline)
      PROVE  TurnsChange
  <2>1. session[r] \in Seq(Agents) BY DEF TypeOK
  <2>2. Called(r, c, d, inline, session[r]) BY <1>3 DEF Handoff, Called, HandedOver
  <2>3. QED BY <2>1, <2>2 DEF TurnsChange
<1>4. ASSUME NEW r \in Runs, TooDeep(r) PROVE TurnsChange BY <1>4 DEF TooDeep, TurnsChange
<1>5. ASSUME NEW r \in Runs, Finish(r) PROVE TurnsChange BY <1>5 DEF TurnsChange
<1>6. ASSUME NEW r \in Runs, Unwind(r) PROVE TurnsChange BY <1>6, UnwindEnds DEF TurnsChange
<1>7. ASSUME NEW r \in Runs, NEW t \in Tools, Use(r, t) PROVE TurnsChange
  <2>1. UNCHANGED <<turnVars, held, store, shared>> BY <1>7 DEF Use
  <2>2. CASE state' = [state EXCEPT ![r] = "paused"] /\ Leave(r)
    <3>1. state'[r] # state[r] BY <2>2, <1>7 DEF Use, Awake, Running, TypeOK
    <3>2. Ends(r) BY <3>1, <1>7, PauseEnds
    <3>3. QED BY <2>2, <3>2, <1>7 DEF TurnsChange
  <2>3. CASE UNCHANGED <<state, depth>> BY <1>7, <2>1, <2>3 DEF TurnsChange
  <2>4. QED BY <1>7, <2>2, <2>3 DEF Use
<1>8. ASSUME UNCHANGED vars PROVE TurnsChange BY <1>8 DEF vars, TurnsChange
<1>9. QED BY <1>1, <1>2, <1>3, <1>4, <1>5, <1>6, <1>7, <1>8 DEF Next

LEMMA NextNested == TypeOK /\ Nested /\ [Next]_vars => Nested'
<1> SUFFICES ASSUME TypeOK, Nested, [Next]_vars PROVE Nested' OBVIOUS
<1>1. ASSUME NEW r \in Runs, NEW c \in Runs, NEW d \in Agents, NEW inline \in BOOLEAN,
             NEW s \in Seq(Agents), Called(r, c, d, inline, s)
      PROVE  Nested'
  BY <1>1, EnterNested DEF Called, Begin
<1>2. QED BY <1>1, Steps, StartNested, FinishEnds, EndNested, StutterNested DEF TurnsChange

\* A minimum of two is at most each of them.
LEMMA MinOfTwo == ASSUME NEW m \in Nat, NEW n \in Nat PROVE Min({m, n}) \in Nat /\ Min({m, n}) <= m /\ Min({m, n}) <= n
<1>1. \E x \in {m, n} : \A y \in {m, n} : x <= y
  <2>1. CASE m <= n BY <2>1
  <2>2. CASE n <= m BY <2>2
  <2>3. QED BY <2>1, <2>2
<1>2. QED BY <1>1 DEF Min


\* What a call changes.
LEMMA CallEffect ==
  ASSUME TypeOK, Nested, NEW r \in Runs, NEW c \in Runs, NEW d \in Agents, NEW inline \in BOOLEAN,
         NEW s \in Seq(Agents), Called(r, c, d, inline, s)
  PROVE  /\ r \in Running /\ c \notin Running /\ c # r /\ state[c] = "free" /\ Running' = Running \cup {c}
         /\ parent'[c] = r /\ line'[c] = line[r] \cup {c} /\ agent'[c] = d /\ state'[c] = "running"
         /\ session'[c] = s /\ held'[c] = OnDisk(s)
         /\ \A q \in Runs : q # c =>
              /\ parent'[q] = parent[q] /\ line'[q] = line[q] /\ agent'[q] = agent[q] /\ state'[q] = state[q]
              /\ session'[q] = session[q] /\ held'[q] = held[q] /\ hooked'[q] = hooked[q] /\ parent[q] # c
         /\ store' = store /\ used' = used /\ shared \subseteq shared'
         /\ (\E q \in Running : session[q] = s) => s \in shared'
<1>1. /\ r \in Running /\ state[c] = "free" /\ parent' = [parent EXCEPT ![c] = r]
      /\ line' = [line EXCEPT ![c] = line[r] \cup {c}] /\ agent' = [agent EXCEPT ![c] = d]
      /\ store' = store /\ used' = used
  BY DEF Called, Enter, MayCall
<1>2. /\ state' = [state EXCEPT ![c] = "running"] /\ session' = [session EXCEPT ![c] = s]
      /\ held' = [held EXCEPT ![c] = OnDisk(s)]
      /\ shared' = IF \E q \in Running : session[q] = s THEN shared \cup {s} ELSE shared
  BY DEF Called, Begin
<1>3. \A q \in Runs : q # c => hooked'[q] = hooked[q] BY DEF Called, TypeOK
<1>4. parent[c] = NoRun /\ \A q \in Runs : parent[q] # c
  BY <1>1, DelegationAssumption DEF Nested, LineOfCaller
<1>5. c \notin Running /\ c # r /\ Running' = Running \cup {c} BY <1>1, <1>2 DEF Running, TypeOK
<1>6. QED BY <1>1, <1>2, <1>3, <1>4, <1>5 DEF TypeOK

\* What the start of a turn of the application changes.
LEMMA StartEffect ==
  ASSUME TypeOK, Nested, NEW r \in Runs, Start(r)
  PROVE  /\ Running = {} /\ Running' = {r} /\ state[r] = "free" /\ state'[r] = "running"
         /\ parent' = parent /\ line' = line /\ agent' = agent /\ parent[r] = NoRun /\ line[r] = {r}
         /\ session'[r] = <<>> /\ held'[r] = OnDisk(<<>>) /\ hooked'[r] = Hooks
         /\ \A q \in Runs : q # r =>
              session'[q] = session[q] /\ held'[q] = held[q] /\ state'[q] = state[q] /\ hooked'[q] = hooked[q]
         /\ store' = store /\ used' = used /\ shared' = shared
<1>1. /\ Running = {} /\ state[r] = "free" /\ parent' = parent /\ line' = line /\ agent' = agent
      /\ store' = store /\ used' = used /\ hooked' = [hooked EXCEPT ![r] = Hooks]
  BY DEF Start
<1>2. /\ state' = [state EXCEPT ![r] = "running"] /\ session' = [session EXCEPT ![r] = <<>>]
      /\ held' = [held EXCEPT ![r] = OnDisk(<<>>)] /\ shared' = shared
  BY <1>1 DEF Start, Begin
<1>3. Running' = {r} BY <1>1, <1>2 DEF Running, TypeOK
<1>4. parent[r] = NoRun /\ line[r] = {r} BY <1>1 DEF Nested, LineOfCaller
<1>5. QED BY <1>1, <1>2, <1>3, <1>4 DEF TypeOK

\* What the end of turns changes; a turn that is done by then finished just now or before.
LEMMA EndEffect ==
  ASSUME TypeOK, NEW r \in Runs, Ends(r)
  PROVE  /\ Running' \subseteq Running /\ UNCHANGED turnVars
         /\ \A q \in Runs : (state'[q] = "free" <=> state[q] = "free")
         /\ \A q \in Runs : state[q] # "running" => state'[q] = state[q]
BY DEF Ends, Running

LEMMA NextLimits ==
  ASSUME TypeOK, Nested, LimitsHold, [Next]_vars
  PROVE  LimitsHold'
<1>1. \A q \in Running : q \in Runs BY DEF Running
<1>2. ASSUME NEW r \in Runs, Start(r) PROVE LimitsHold'
  BY <1>2, StartEffect DEF LimitsHold
<1>3. ASSUME NEW r \in Runs, NEW c \in Runs, NEW d \in Agents, NEW inline \in BOOLEAN,
             NEW s \in Seq(Agents), Called(r, c, d, inline, s)
      PROVE  LimitsHold'
  <2>1. Nesting(c)' = Nesting(r) + 1 /\ depth[task[r]] = Nesting(r)
    BY <1>3, EnterNested DEF Called, Begin
  <2>2. Nesting(r) \in Nat BY NestingNat DEF Nested
  <2>3. Cap[agent[r]] \in Nat /\ Own[d] \in Nat BY DelegationAssumption DEF TypeOK
  <2>4. ASSUME depth[task[r]] < SubagentLimit(agent[r], d)
        PROVE  Nesting(c)' <= Cap[agent[r]] /\ Nesting(c)' <= Own[d]
    <3>1. /\ Min({Own[d], Cap[agent[r]]}) <= Cap[agent[r]] /\ Min({Own[d], Cap[agent[r]]}) <= Own[d]
          /\ Min({Own[d], Cap[agent[r]]}) \in Nat
      BY <2>3, MinOfTwo
    <3>2. QED BY <2>1, <2>2, <2>3, <2>4, <3>1 DEF SubagentLimit
  <2>5. ASSUME depth[task[r]] < HandoffLimit(agent[r], d) PROVE Nesting(c)' <= Cap[agent[r]]
    BY <2>5, <2>1, <2>2, <2>3 DEF HandoffLimit
  <2>6. Nesting(c)' <= Cap[agent[r]] /\ (s # session[r] => Nesting(c)' <= Own[d])
    BY <1>3, <2>4, <2>5 DEF Called
  <2> SUFFICES ASSUME NEW q \in Running', parent'[q] # NoRun
               PROVE  /\ Nesting(q)' <= Cap[agent'[parent'[q]]]
                      /\ session'[q] # session'[parent'[q]] => Nesting(q)' <= Own[agent'[q]]
    BY DEF LimitsHold
  <2>7. CASE q = c BY <2>6, <2>7, <1>3, CallEffect
  <2>8. CASE q # c
    <3>1. q \in Running /\ parent[q] # c /\ parent'[q] = parent[q] /\ line'[q] = line[q]
          /\ agent'[q] = agent[q] /\ session'[q] = session[q]
      BY <2>8, <1>1, <1>3, CallEffect
    <3>2. parent[q] \in Runs BY <2>8, <3>1, <1>1 DEF TypeOK
    <3>3. agent'[parent[q]] = agent[parent[q]] /\ session'[parent[q]] = session[parent[q]]
      BY <3>1, <3>2, <1>3, CallEffect
    <3>4. QED BY <3>1, <3>3 DEF LimitsHold, Nesting
  <2>9. QED BY <2>7, <2>8
<1>4. ASSUME NEW r \in Runs, Ends(r) PROVE LimitsHold'
  BY <1>4, EndEffect DEF LimitsHold, turnVars, Nesting
<1>5. ASSUME UNCHANGED <<state, turnVars>> PROVE LimitsHold'
  BY <1>5 DEF LimitsHold, turnVars, Nesting, Running
<1>6. QED BY <1>2, <1>3, <1>4, <1>5, Steps, FinishEnds DEF TurnsChange

-----------------------------------------------------------------------------
(***************************************************************************)
(* Sessions.                                                               *)
(***************************************************************************)

\* A finished turn writes what it read, with itself.
LEMMA FinishEffect ==
  ASSUME TypeOK, NEW r \in Runs, Finish(r)
  PROVE  /\ state' = [state EXCEPT ![r] = "done"] /\ UNCHANGED <<turnVars, held, used, shared>>
         /\ r \in Running /\ DOMAIN store \subseteq DOMAIN store'
         /\ OnDisk(session[r])' = held[r] \cup {r}
         /\ \A s \in Seq(Agents) : s # session[r] => OnDisk(s)' = OnDisk(s)
BY DEF Finish, FinishAwaits, Awake, Saved, OnDisk, TypeOK, turnVars

LEMMA OnDiskSame == ASSUME UNCHANGED store, NEW s PROVE OnDisk(s)' = OnDisk(s)
BY DEF OnDisk

LEMMA NextSessions ==
  ASSUME TypeOK, Nested, SessionsRead, RecordedUnlessShared, [Next]_vars
  PROVE  SessionsRead' /\ RecordedUnlessShared'
<1>1. \A q \in Running : q \in Runs BY DEF Running
<1>2. ASSUME NEW r \in Runs, Start(r) PROVE SessionsRead' /\ RecordedUnlessShared'
  <2>1. \A s : OnDisk(s)' = OnDisk(s) BY <1>2, StartEffect, OnDiskSame
  <2>2. SessionsRead' BY <1>2, <2>1, StartEffect DEF SessionsRead
  <2>3. RecordedUnlessShared' BY <1>2, <2>1, StartEffect DEF RecordedUnlessShared
  <2>4. QED BY <2>2, <2>3
<1>3. ASSUME NEW r \in Runs, NEW c \in Runs, NEW d \in Agents, NEW inline \in BOOLEAN,
             NEW s \in Seq(Agents), Called(r, c, d, inline, s)
      PROVE  SessionsRead' /\ RecordedUnlessShared'
  <2>1. \A x : OnDisk(x)' = OnDisk(x) BY <1>3, CallEffect, OnDiskSame
  <2>2. /\ Running' = Running \cup {c} /\ c \notin Running /\ shared \subseteq shared'
        /\ session'[c] = s /\ held'[c] = OnDisk(s) /\ state'[c] = "running"
        /\ (\E q \in Running : session[q] = s) => s \in shared'
        /\ \A q \in Runs : q # c => session'[q] = session[q] /\ held'[q] = held[q] /\ state'[q] = state[q]
    BY <1>3, CallEffect
  <2>3. SessionsRead'
    <3>1. ASSUME NEW q \in Running', NEW p \in Running', q # p, session'[q] = session'[p]
          PROVE  session'[q] \in shared'
      <4>1. CASE q # c /\ p # c BY <3>1, <4>1, <2>2, <1>1 DEF SessionsRead
      <4>2. CASE q = c BY <3>1, <4>2, <2>2, <1>1
      <4>3. CASE p = c BY <3>1, <4>3, <2>2, <1>1
      <4>4. QED BY <4>1, <4>2, <4>3
    <3>2. ASSUME NEW q \in Running', session'[q] \notin shared'
          PROVE  OnDisk(session[q])' \subseteq held'[q]
      <4>1. store' = store BY <1>3, CallEffect
      <4>2. QED BY <3>2, <4>1, <2>2, <1>1 DEF SessionsRead, OnDisk
    <3>3. QED BY <3>1, <3>2 DEF SessionsRead
  <2>4. RecordedUnlessShared' BY <2>1, <2>2 DEF RecordedUnlessShared
  <2>5. QED BY <2>3, <2>4
<1>4. ASSUME NEW r \in Runs, Finish(r) PROVE SessionsRead' /\ RecordedUnlessShared'
  <2>1. /\ Running' = Running \ {r} /\ r \in Running /\ UNCHANGED <<session, held, shared>>
        /\ state' = [state EXCEPT ![r] = "done"]
    BY <1>4, FinishEffect DEF Running, TypeOK, turnVars
  <2>2. OnDisk(session[r])' = held[r] \cup {r}
        /\ \A s \in Seq(Agents) : s # session[r] => OnDisk(s)' = OnDisk(s)
    BY <1>4, FinishEffect
  <2>3. \A q \in Runs : session[q] \in Seq(Agents) BY DEF TypeOK
  <2>4. SessionsRead'
    <3>1. ASSUME NEW q \in Running', session[q] \notin shared
          PROVE  OnDisk(session[q])' \subseteq held[q]
      <4>1. q \in Running /\ q # r /\ session[q] # session[r] BY <3>1, <2>1 DEF SessionsRead
      <4>2. OnDisk(session[q])' = OnDisk(session[q]) BY <4>1, <2>1, <2>2, <2>3, <1>1 DEF OnDisk
      <4>3. QED BY <4>1, <4>2, <3>1 DEF SessionsRead
    <3>2. QED BY <3>1, <2>1 DEF SessionsRead
  <2>5. RecordedUnlessShared'
    <3> SUFFICES ASSUME NEW q \in Runs, state'[q] = "done", session[q] \notin shared
                 PROVE  q \in OnDisk(session[q])'
      BY <2>1 DEF RecordedUnlessShared
    <3>1. CASE q = r BY <3>1, <2>2
    <3>2. CASE q # r
      <4>1. q \in OnDisk(session[q]) BY <3>2, <2>1 DEF RecordedUnlessShared, TypeOK
      <4>2. QED BY <4>1, <2>1, <2>2, <2>3 DEF SessionsRead
    <3>3. QED BY <3>1, <3>2
  <2>6. QED BY <2>4, <2>5
<1>5. ASSUME NEW r \in Runs, Ends(r), Unwind(r) \/ \E t \in Tools : Use(r, t),
             \A q \in Runs : state'[q] = "done" => state[q] = "done"
      PROVE  SessionsRead' /\ RecordedUnlessShared'
  <2>1. UNCHANGED <<session, held, shared, store>> BY <1>5 DEF Unwind, Use, turnVars
  <2>2. \A s : OnDisk(s)' = OnDisk(s) BY <2>1, OnDiskSame
  <2>3. QED BY <1>5, <2>1, <2>2, EndEffect DEF SessionsRead, RecordedUnlessShared
<1>6. ASSUME NEW r \in Runs, Unwind(r) \/ \E t \in Tools : Use(r, t) /\ state' = [state EXCEPT ![r] = "paused"]
      PROVE  \A q \in Runs : state'[q] = "done" => state[q] = "done"
  BY <1>6 DEF Unwind, TypeOK
<1>7. ASSUME UNCHANGED <<state, turnVars, depth, held, store, shared>>
      PROVE  SessionsRead' /\ RecordedUnlessShared'
  <2>1. \A s : OnDisk(s)' = OnDisk(s) BY <1>7, OnDiskSame
  <2>2. QED BY <1>7, <2>1 DEF SessionsRead, RecordedUnlessShared, Running, turnVars
<1>8. QED BY <1>2, <1>3, <1>4, <1>5, <1>6, <1>7, Steps DEF TurnsChange

LEMMA NextRoots ==
  ASSUME TypeOK, Nested, RootsRead, RootTurnsRecorded, [Next]_vars
  PROVE  RootsRead' /\ RootTurnsRecorded'
<1>1. \A q \in Running : q \in Runs /\ state[q] = "running" BY DEF Running
<1>2. <<>> \in Seq(Agents) OBVIOUS
<1>3. ASSUME NEW r \in Runs, Start(r) PROVE RootsRead' /\ RootTurnsRecorded'
  <2>1. RootsRead'
    <3>1. \A x \in Runs : state'[x] = "done" => state[x] = "done" BY <1>3, StartEffect
    <3>2. \A x \in Runs : state'[x] = "done" /\ parent[x] = NoRun => x \in OnDisk(<<>>)
      BY <3>1 DEF RootTurnsRecorded
    <3>3. QED BY <1>3, <3>2, StartEffect DEF RootsRead
  <2>2. RootTurnsRecorded' BY <1>3, StartEffect DEF RootTurnsRecorded, OnDisk
  <2>3. QED BY <2>1, <2>2
<1>4. ASSUME NEW r \in Runs, NEW c \in Runs, NEW d \in Agents, NEW inline \in BOOLEAN,
             NEW s \in Seq(Agents), Called(r, c, d, inline, s)
      PROVE  RootsRead' /\ RootTurnsRecorded'
  <2>1. /\ r \in Running /\ Running' = Running \cup {c} /\ c \notin Running /\ r \in Runs /\ store' = store
        /\ parent'[c] = r /\ line'[c] = line[r] \cup {c} /\ session'[c] = s /\ held'[c] = OnDisk(s)
        /\ state'[c] = "running"
        /\ \A q \in Runs : q # c => /\ parent'[q] = parent[q] /\ line'[q] = line[q] /\ state'[q] = state[q]
                                    /\ session'[q] = session[q] /\ held'[q] = held[q]
    BY <1>4, CallEffect
  <2>2. parent'[c] # NoRun BY <2>1, DelegationAssumption
  <2>3. <<>> \in DOMAIN store' BY <2>1 DEF RootsRead
  <2>4. \A q \in Runs : parent'[q] = NoRun => session'[q] = <<>> BY <2>1, <2>2 DEF RootsRead
  <2>5. \A p, q \in Running' : parent'[p] = NoRun => p \in line'[q]
    BY <2>1, <2>2, <1>1 DEF RootsRead
  <2>6. ASSUME NEW q \in Running', NEW p \in Runs,
               session'[q] = <<>>, state'[p] = "done", parent'[p] = NoRun
        PROVE  p \in held'[q]
    <3>1. p # c /\ state[p] = "done" /\ parent[p] = NoRun BY <2>1, <2>2, <2>6
    <3>2. CASE q = c BY <3>1, <3>2, <2>1, <2>6 DEF RootTurnsRecorded
    <3>3. CASE q # c BY <3>1, <3>3, <2>1, <2>6, <1>1 DEF RootsRead
    <3>4. QED BY <3>2, <3>3
  <2>7. RootTurnsRecorded' BY <2>1, <2>2 DEF RootTurnsRecorded, OnDisk
  <2>8. QED BY <2>3, <2>4, <2>5, <2>6, <2>7 DEF RootsRead
<1>5. ASSUME NEW r \in Runs, Finish(r) PROVE RootsRead' /\ RootTurnsRecorded'
  <2>1. /\ Running' = Running \ {r} /\ r \in Running /\ UNCHANGED <<session, held, shared, parent, line>>
        /\ state' = [state EXCEPT ![r] = "done"] /\ DOMAIN store \subseteq DOMAIN store'
    BY <1>5, FinishEffect DEF Running, TypeOK, turnVars
  <2>2. OnDisk(session[r])' = held[r] \cup {r}
        /\ \A s \in Seq(Agents) : s # session[r] => OnDisk(s)' = OnDisk(s)
    BY <1>5, FinishEffect
  <2>3. ASSUME NEW q \in Running' PROVE r \notin line[q]
    BY <2>1, <2>3, <1>5, AwakeIsLast DEF Finish, FinishAwaits
  <2>4. <<>> \in DOMAIN store' BY <2>1 DEF RootsRead
  <2>5. \A p, q \in Running' : parent'[p] = NoRun => p \in line'[q] BY <2>1 DEF RootsRead
  <2>6. ASSUME NEW q \in Running', NEW p \in Runs, session[q] = <<>>, state'[p] = "done", parent[p] = NoRun
        PROVE  p \in held[q]
    <3>1. p # r BY <2>1, <2>3, <2>6 DEF RootsRead
    <3>2. state[p] = "done" BY <2>1, <2>6, <3>1 DEF TypeOK
    <3>3. QED BY <2>1, <2>6, <3>2 DEF RootsRead
  <2>7. RootsRead' BY <2>1, <2>4, <2>5, <2>6 DEF RootsRead
  <2>8. ASSUME NEW p \in Runs, state'[p] = "done", parent[p] = NoRun PROVE p \in OnDisk(<<>>)'
    <3>1. CASE session[r] = <<>>
      <4>1. OnDisk(<<>>)' = held[r] \cup {r} BY <2>1, <2>2, <3>1 DEF OnDisk
      <4>2. p # r => state[p] = "done" BY <2>1, <2>8 DEF TypeOK
      <4>3. QED BY <2>1, <2>8, <3>1, <4>1, <4>2 DEF RootsRead
    <3>2. CASE session[r] # <<>>
      <4>1. p # r BY <2>8, <3>2 DEF RootsRead
      <4>2. state[p] = "done" BY <2>1, <2>8, <4>1 DEF TypeOK
      <4>3. OnDisk(<<>>)' = OnDisk(<<>>) BY <1>2, <2>2, <3>2
      <4>4. QED BY <2>8, <4>2, <4>3 DEF RootTurnsRecorded
    <3>3. QED BY <3>1, <3>2
  <2>9. RootTurnsRecorded' BY <2>1, <2>8 DEF RootTurnsRecorded
  <2>10. QED BY <2>7, <2>9
<1>6. ASSUME NEW r \in Runs, Ends(r),
             Unwind(r) \/ \E t \in Tools : Use(r, t) /\ state' = [state EXCEPT ![r] = "paused"]
      PROVE  RootsRead' /\ RootTurnsRecorded'
  <2>1. UNCHANGED <<session, held, store, parent, line>> BY <1>6 DEF Unwind, Use, turnVars
  <2>2. \A q \in Runs : state'[q] = "done" => state[q] = "done" BY <1>6 DEF Unwind, TypeOK
  <2>3. Running' \subseteq Running BY <1>6, EndEffect
  <2>4. RootsRead' BY <2>1, <2>2, <2>3 DEF RootsRead
  <2>5. RootTurnsRecorded' BY <2>1, <2>2 DEF RootTurnsRecorded, OnDisk
  <2>6. QED BY <2>4, <2>5
<1>7. ASSUME UNCHANGED <<state, turnVars, depth, held, store, shared>>
      PROVE  RootsRead' /\ RootTurnsRecorded'
  BY <1>7 DEF RootsRead, RootTurnsRecorded, OnDisk, Running, turnVars
<1>8. QED BY <1>3, <1>4, <1>5, <1>6, <1>7, Steps DEF TurnsChange

-----------------------------------------------------------------------------
(***************************************************************************)
(* Hooks.                                                                  *)
(***************************************************************************)

\* A hook that asks for approval prevails over the others, also over those that raise.
LEMMA AskingPrevails ==
  ASSUME NEW t, NEW h \in Hooks, HookSays[h][t] = "approval"
  PROVE  HookAction(Hooks, t) = "approval"
<1>1. "approval" \in {HookSays[k][t] : k \in Hooks} \ {"raise"} OBVIOUS
<1>2. QED BY <1>1 DEF HookAction

LEMMA NextHooks ==
  ASSUME TypeOK, Nested, HooksKept, AskedIsPaused, [Next]_vars
  PROVE  HooksKept' /\ AskedIsPaused'
<1>1. ASSUME NEW r \in Runs, Start(r) PROVE HooksKept' /\ AskedIsPaused'
  BY <1>1, StartEffect DEF HooksKept, AskedIsPaused
<1>2. ASSUME NEW r \in Runs, NEW c \in Runs, NEW d \in Agents, NEW inline \in BOOLEAN,
             NEW s \in Seq(Agents), Called(r, c, d, inline, s)
      PROVE  HooksKept' /\ AskedIsPaused'
  <2>1. /\ r \in Running /\ r \in Runs /\ state[c] = "free" /\ state'[c] = "running" /\ used' = used
        /\ session'[c] = s
        /\ \A q \in Runs : q # c =>
             state'[q] = state[q] /\ session'[q] = session[q] /\ hooked'[q] = hooked[q]
    BY <1>2, CallEffect
  <2>2. session'[c] = <<>> => hooked'[c] = Hooks
    <3>1. CASE s = Append(session[r], d)
      <4>1. session[r] \in Seq(Agents) BY DEF TypeOK
      <4>2. Append(session[r], d) # <<>> BY <4>1
      <4>3. QED BY <2>1, <3>1, <4>2
    <3>2. CASE s = session[r] /\ hooked' = [hooked EXCEPT ![c] = hooked[r]]
      BY <2>1, <3>2 DEF HooksKept, Running, TypeOK
    <3>3. QED BY <1>2, <3>1, <3>2 DEF Called
  <2>3. HooksKept' BY <2>1, <2>2 DEF HooksKept
  <2>4. AskedIsPaused' BY <2>1 DEF AskedIsPaused, HooksKept
  <2>5. QED BY <2>3, <2>4
<1>3. ASSUME NEW r \in Runs, Finish(r) PROVE HooksKept' /\ AskedIsPaused'
  <2>1. /\ state[r] = "running" /\ state' = [state EXCEPT ![r] = "done"]
        /\ UNCHANGED <<session, hooked, used>>
    BY <1>3, FinishEffect DEF Running, turnVars
  <2>2. QED BY <2>1 DEF HooksKept, AskedIsPaused, TypeOK
<1>4. ASSUME NEW r \in Runs, Unwind(r), Ends(r) PROVE HooksKept' /\ AskedIsPaused'
  <2>1. UNCHANGED <<session, hooked, used>> BY <1>4 DEF Unwind, turnVars
  <2>2. QED BY <1>4, <2>1, EndEffect DEF HooksKept, AskedIsPaused
<1>5. ASSUME NEW r \in Runs, NEW t \in Tools, Use(r, t) PROVE HooksKept' /\ AskedIsPaused'
  <2>1. r \in Running /\ state[r] = "running" /\ UNCHANGED <<session, hooked>> /\ used' = used \cup {<<r, t>>}
    BY <1>5 DEF Use, Awake, Running, turnVars
  <2>2. state' = [state EXCEPT ![r] = "paused"] \/ state' = state BY <1>5 DEF Use
  <2>3. HooksKept' BY <2>1, <2>2 DEF HooksKept, TypeOK
  <2>4. ASSUME session[r] = <<>>, \E h \in Hooks : HookSays[h][t] = "approval"
        PROVE  state' = [state EXCEPT ![r] = "paused"]
    <3>1. hooked[r] = Hooks BY <2>1, <2>4 DEF HooksKept
    <3>2. HookAction(hooked[r], t) = "approval" BY <2>4, <3>1, AskingPrevails
    <3>3. QED BY <1>5, <3>2 DEF Use
  <2>5. AskedIsPaused'
    <3> SUFFICES ASSUME NEW q \in Runs, NEW u \in Tools, <<q, u>> \in used', session[q] = <<>>,
                        \E h \in Hooks : HookSays[h][u] = "approval"
                 PROVE  state'[q] = "paused"
      BY <2>1 DEF AskedIsPaused
    <3>1. CASE q = r /\ u = t BY <3>1, <2>4 DEF TypeOK
    <3>2. CASE <<q, u>> \in used
      BY <3>2, <2>1, <2>2 DEF AskedIsPaused, TypeOK
    <3>3. QED BY <3>1, <3>2, <2>1
  <2>6. QED BY <2>3, <2>5
<1>6. ASSUME UNCHANGED <<state, turnVars>>, used' = used PROVE HooksKept' /\ AskedIsPaused'
  BY <1>6 DEF HooksKept, AskedIsPaused, turnVars
<1>7. QED BY <1>1, <1>2, <1>3, <1>4, <1>5, <1>6, Steps DEF TurnsChange

-----------------------------------------------------------------------------
(***************************************************************************)
(* The theorem.                                                            *)
(***************************************************************************)

LEMMA InitIInv == Init => IInv
<1> SUFFICES ASSUME Init PROVE IInv OBVIOUS
<1>1. Running = {} BY DEF Init, Running
<1>2. LimitsHold /\ SessionsRead BY <1>1 DEF LimitsHold, SessionsRead
<1>3. RecordedUnlessShared /\ RootTurnsRecorded /\ AskedIsPaused /\ HooksKept
  BY DEF Init, RecordedUnlessShared, RootTurnsRecorded, AskedIsPaused, HooksKept
<1>4. RootsRead BY <1>1 DEF Init, RootsRead
<1>5. QED BY <1>2, <1>3, <1>4, InitType, InitNested DEF IInv

LEMMA NextIInv == IInv /\ [Next]_vars => IInv'
BY NextType, NextNested, NextLimits, NextSessions, NextRoots, NextHooks DEF IInv

\* A turn that waits for no one is the last of its task, so the depth there is its own.
LEMMA IInvSound == IInv => DelegationSound
<1> SUFFICES ASSUME IInv PROVE DelegationSound OBVIOUS
<1>1. DepthIsNesting BY DEF IInv, Nested, DepthOfTask, DepthIsNesting
<1>2. QED BY <1>1 DEF IInv, DelegationSound, TurnsRecorded, NestingSound

\* However turns are called, cancelled and paused, in tasks of their own or in those of
\* their callers, and for any agents, limits, rules and hooks: the depth variable is the
\* nesting of the turn that reads it and no turn is nested deeper than allowed; a session
\* that no two turns held at once is complete on disk and the turns of the application are
\* never lost; and a call that a hook of the application asks about ends its turn
\* (delegation.py, DelegatedAgent.call, Runner._handoff_invoke, dispatch_hook).
THEOREM DelegationSoundHolds == Spec => []DelegationSound
<1>1. Spec => []IInv BY InitIInv, NextIInv, PTL DEF Spec
<1>2. QED BY <1>1, IInvSound, PTL

-----------------------------------------------------------------------------
(* Reflexion *)

\* The types of what the loop keeps; while it goes on it has attempts left.
Loops ==
  [phase : {"route", "answer", "criticize", "over"}, max : Attempts,
   default : Specialists \cup {NoDefault}, attempt : Nat \ {0}, best : Nat, score : Int,
   feedback : Seq(Nat), to : Specialists \cup {Unregistered}, fallback : BOOLEAN]
Critiques == [score : Int, text : BOOLEAN, cost : Costs]
Inners == [by : Specialists, fallback : BOOLEAN, asked : Seq(Nat), cost : Costs]

ReflexionTypeOK ==
  /\ loop \in Loops /\ critiques \in Seq(Critiques) /\ inners \in Seq(Inners)
  /\ outcome.state \in {"pending", "raised", "returned"}

\* A phase says how many answers and critiques there are, and that nothing was returned;
\* the specialist it goes to is registered, and the default when the choice was not trusted.
InPhase ==
  /\ Len(critiques) <= Len(inners)
  /\ loop.phase # "over" =>
       /\ outcome = Pending /\ loop.attempt <= loop.max
       /\ Len(critiques) = loop.attempt - 1
       /\ Len(inners) = IF loop.phase = "criticize" THEN loop.attempt ELSE loop.attempt - 1
  /\ loop.phase = "answer" =>
       loop.to \in Specialists /\ (loop.fallback => loop.to = loop.default)

\* a is the first of the best among the critiques.
FirstBest(a, all) ==
  /\ a \in DOMAIN all
  /\ \A i \in DOMAIN all : all[i].score <= all[a].score /\ (i < a => all[i].score < all[a].score)

\* While the loop goes on, nothing was approved and it keeps the first of the best.
BestKept ==
  /\ \A i \in DOMAIN critiques : critiques[i].score >= 0
  /\ \A i \in 1..(Len(critiques) - 1) : critiques[i].score < Threshold
  /\ loop.phase # "over" =>
       /\ \A i \in DOMAIN critiques : critiques[i].score < Threshold
       /\ IF critiques = <<>> THEN loop.score = -1
          ELSE FirstBest(loop.best, critiques) /\ loop.score = critiques[loop.best].score

\* The critiques before n that said something, oldest first.
Told(asked, n) ==
  /\ \A j, k \in DOMAIN asked : j < k => asked[j] < asked[k]
  /\ {asked[j] : j \in DOMAIN asked} = {k \in 1..(n - 1) : critiques[k].text}

\* Every attempt was told, and the next one will be told, all critiques before it.
ToldAll ==
  /\ \A i \in DOMAIN inners : Told(inners[i].asked, i)
  /\ \A i \in DOMAIN inners : inners[i].fallback => inners[i].by = loop.default
  /\ loop.phase # "over" => Told(loop.feedback, loop.attempt)

\* What the caller got.
Returned ==
  outcome.state = "returned" =>
       LET n == Len(critiques) a == outcome.answer IN
       /\ Len(inners) = n /\ n > 0
       /\ FirstBest(a, critiques)
       /\ outcome.trace.accepted = (critiques[n].score >= Threshold)
       /\ ~outcome.trace.accepted => n = loop.max

ReflexionInv == ReflexionTypeOK /\ InPhase /\ BestKept /\ ToldAll /\ Returned

LEMMA ReflexionInvInit == ReflexionInit => ReflexionInv
<1> SUFFICES ASSUME ReflexionInit PROVE ReflexionInv
  OBVIOUS
<1> USE ReflexionAssumption DEF ReflexionInit
<1>0. critiques = <<>> /\ inners = <<>> /\ outcome = Pending
  OBVIOUS
<1>1. PICK max \in Attempts, default \in Specialists \cup {NoDefault} :
        loop = [phase |-> "route", max |-> max, default |-> default, attempt |-> 1,
               best |-> 0, score |-> -1, feedback |-> <<>>, to |-> Unregistered,
               fallback |-> FALSE]
  OBVIOUS
<1>2. ReflexionTypeOK
  BY <1>0, <1>1 DEF ReflexionTypeOK, Loops, Pending
<1>3. InPhase /\ BestKept /\ Returned
  BY <1>0, <1>1 DEF InPhase, BestKept, Returned, Pending
<1>4. ToldAll
  BY <1>0, <1>1 DEF ToldAll, Told
<1> QED
  BY <1>2, <1>3, <1>4 DEF ReflexionInv

\* A score that is clamped is not negative.
LEMMA ClampBounds == \A x \in Int : Clamp(x) \in Int /\ Clamp(x) >= 0
  BY ReflexionAssumption DEF Clamp

\* A further critique leaves what the answers before it were told.
LEMMA ToldStays ==
  ASSUME NEW n \in Nat, NEW asked, Told(asked, n), n - 1 <= Len(critiques),
         critiques \in Seq(Critiques), NEW c \in Critiques, critiques' = Append(critiques, c)
  PROVE  {asked[j] : j \in DOMAIN asked} = {k \in 1..(n - 1) : critiques'[k].text}
<1>1. \A k \in 1..(n - 1) : critiques'[k] = critiques[k]
  OBVIOUS
<1> QED  BY <1>1 DEF Told

\* What ends the loop without an answer.
LEMMA FailsKeeps ==
  ASSUME ReflexionInv, Fails, UNCHANGED <<critiques, inners>>
  PROVE  ReflexionInv'
<1>1. loop \in Loops /\ loop' = [loop EXCEPT !.phase = "over"]
  BY DEF ReflexionInv, ReflexionTypeOK, Fails
<1>2. /\ loop' \in Loops /\ loop'.phase = "over" /\ loop'.max = loop.max
      /\ loop'.default = loop.default
  BY <1>1 DEF Loops
<1>3. outcome'.state = "raised"
  BY DEF Fails, Pending
<1>4. ReflexionTypeOK'
  BY <1>2, <1>3 DEF ReflexionInv, ReflexionTypeOK
<1>5. InPhase' /\ BestKept' /\ Returned'
  BY <1>2, <1>3 DEF ReflexionInv, InPhase, BestKept, Returned
<1>6. ToldAll'
  BY <1>2, <1>3 DEF ReflexionInv, ToldAll, Told
<1> QED
  BY <1>4, <1>5, <1>6 DEF ReflexionInv

\* The router chooses.
LEMMA RouteKeeps == ASSUME ReflexionInv, Route PROVE ReflexionInv'
<1>1. /\ loop \in Loops /\ loop.phase = "route" /\ critiques' = critiques /\ inners' = inners
  BY DEF ReflexionInv, ReflexionTypeOK, Route
<1>2. CASE Fails
  BY <1>1, <1>2, FailsKeeps
<1>3. CASE ~Fails
  <2>1. PICK to \in Specialists, trusted \in BOOLEAN :
          /\ loop' = [loop EXCEPT !.phase = "answer", !.to = to, !.fallback = ~trusted]
          /\ ~trusted => to = loop.default
          /\ outcome' = outcome
    <3>1. PICK name \in Specialists \cup {Unregistered}, raw \in RawScores :
            LET trusted == name \in Specialists /\ Clamp(raw) >= MinConfidence
                to == IF trusted THEN name ELSE loop.default IN
              /\ to # NoDefault
              /\ loop' = [loop EXCEPT !.phase = "answer", !.to = to, !.fallback = ~trusted]
              /\ outcome' = outcome
      BY <1>3 DEF Route
    <3>2. CASE name \in Specialists /\ Clamp(raw) >= MinConfidence
      BY <3>1, <3>2
    <3>3. CASE ~(name \in Specialists /\ Clamp(raw) >= MinConfidence)
      <4>1. loop.default \in Specialists
        BY <1>1, <3>1, <3>3 DEF Loops
      <4> QED  BY <3>1, <3>3, <4>1
    <3> QED  BY <3>2, <3>3
  <2>2. /\ loop' \in Loops /\ loop'.phase = "answer" /\ loop'.max = loop.max
        /\ loop'.default = loop.default /\ loop'.attempt = loop.attempt
        /\ loop'.best = loop.best /\ loop'.score = loop.score
        /\ loop'.feedback = loop.feedback /\ loop'.to \in Specialists
        /\ loop'.fallback => loop'.to = loop.default
    BY <1>1, <2>1 DEF Loops
  <2>3. ReflexionTypeOK'
    BY <1>1, <2>1, <2>2 DEF ReflexionInv, ReflexionTypeOK
  <2>4. InPhase' /\ Returned'
    BY <1>1, <2>1, <2>2 DEF ReflexionInv, InPhase, Returned, Pending
  <2>5. BestKept'
    BY <1>1, <2>1, <2>2 DEF ReflexionInv, BestKept
  <2>6. ToldAll'
    BY <1>1, <2>1, <2>2 DEF ReflexionInv, ToldAll, Told
  <2> QED  BY <2>3, <2>4, <2>5, <2>6 DEF ReflexionInv
<1> QED  BY <1>2, <1>3

\* The specialist answers what it was told.
LEMMA AnswerKeeps == ASSUME ReflexionInv, SpecialistAnswers PROVE ReflexionInv'
<1>1. /\ loop \in Loops /\ loop.phase = "answer" /\ critiques' = critiques /\ outcome' = outcome
      /\ inners \in Seq(Inners) /\ critiques \in Seq(Critiques)
      /\ loop' = [loop EXCEPT !.phase = "criticize"]
  BY DEF ReflexionInv, ReflexionTypeOK, SpecialistAnswers
<1>2. PICK cost \in Costs :
        inners' = Append(inners, [by |-> loop.to, fallback |-> loop.fallback,
                                  asked |-> loop.feedback, cost |-> cost])
  BY DEF SpecialistAnswers
<1> DEFINE r == [by |-> loop.to, fallback |-> loop.fallback, asked |-> loop.feedback, cost |-> cost]
<1>3. loop.to \in Specialists /\ (loop.fallback => loop.to = loop.default)
  BY <1>1 DEF ReflexionInv, InPhase
<1>4. r \in Inners /\ r.asked = loop.feedback /\ (r.fallback => r.by = loop.default)
  BY <1>1, <1>3 DEF Inners, Loops
<1> HIDE DEF r
<1>5. /\ inners' \in Seq(Inners) /\ Len(inners') = Len(inners) + 1
      /\ \A i \in DOMAIN inners : inners'[i] = inners[i]
      /\ DOMAIN inners' = DOMAIN inners \cup {Len(inners) + 1}
      /\ inners'[Len(inners) + 1] = r
  BY <1>1, <1>2, <1>4 DEF r
<1>6. /\ loop' \in Loops /\ loop'.phase = "criticize" /\ loop'.max = loop.max
      /\ loop'.default = loop.default /\ loop'.attempt = loop.attempt
      /\ loop'.best = loop.best /\ loop'.score = loop.score
      /\ loop'.feedback = loop.feedback /\ loop.attempt \in Nat /\ loop.max \in Nat
  BY <1>1, ReflexionAssumption DEF Loops
<1>7. /\ Len(critiques) = loop.attempt - 1 /\ Len(inners) = loop.attempt - 1
      /\ outcome = Pending /\ loop.attempt <= loop.max
  BY <1>1 DEF ReflexionInv, InPhase
<1>8. ReflexionTypeOK'
  BY <1>1, <1>5, <1>6 DEF ReflexionInv, ReflexionTypeOK
<1>9. InPhase'
  BY <1>1, <1>5, <1>6, <1>7 DEF InPhase
<1>10. Returned'
  BY <1>1, <1>7 DEF Returned, Pending
<1>11. BestKept'
  BY <1>1, <1>6 DEF ReflexionInv, BestKept
<1>12. ToldAll'
  BY <1>1, <1>4, <1>5, <1>6, <1>7 DEF ReflexionInv, ToldAll, Told
<1> QED  BY <1>8, <1>9, <1>10, <1>11, <1>12 DEF ReflexionInv

\* The critic scores.
LEMMA CriticizeKeeps == ASSUME ReflexionInv, Criticize PROVE ReflexionInv'
<1>1. /\ loop \in Loops /\ loop.phase = "criticize" /\ inners' = inners
      /\ inners \in Seq(Inners) /\ critiques \in Seq(Critiques)
      /\ outcome.state \in {"pending", "raised", "returned"}
  BY DEF ReflexionInv, ReflexionTypeOK, Criticize
<1>2. /\ Len(critiques) = loop.attempt - 1 /\ Len(inners) = loop.attempt
      /\ outcome = Pending /\ loop.attempt <= loop.max
      /\ loop.attempt \in Nat /\ loop.max \in Nat /\ loop.best \in Nat /\ loop.score \in Int
      /\ loop.feedback \in Seq(Nat)
  BY <1>1, ReflexionAssumption DEF ReflexionInv, InPhase, Loops
<1>3. PICK raw \in RawScores, text \in BOOLEAN, cost \in Costs :
        LET score == Clamp(raw)
            n == loop.attempt
            approved == score >= Threshold
            best == IF Keeps(score) THEN n ELSE loop.best
            all == Append(critiques, [score |-> score, text |-> text /\ ~approved, cost |-> cost])
            over == approved \/ n = loop.max
        IN
        /\ critiques' = all
        /\ loop' = [loop EXCEPT
             !.best = best, !.score = IF Keeps(score) THEN score ELSE @,
             !.attempt = IF over THEN @ ELSE @ + 1,
             !.phase = IF over THEN "over" ELSE "route",
             !.feedback = IF over THEN @ ELSE WithFeedback(@, n, text)]
        /\ outcome' = IF ~over THEN outcome
                      ELSE [state |-> "returned", answer |-> IF approved THEN n ELSE best,
                            trace |-> TraceOf(n, approved, all)]
  BY DEF Criticize
<1>4. PICK score \in Int : score = Clamp(raw) /\ score >= 0
  BY ClampBounds, ReflexionAssumption
<1>5. PICK n \in Nat : n = loop.attempt
  BY <1>2
<1> DEFINE approved == score >= Threshold
<1> DEFINE over == approved \/ n = loop.max
<1> DEFINE keeps == score > loop.score
<1>6. approved \in BOOLEAN
  OBVIOUS
<1>7. (text /\ ~approved) \in BOOLEAN
  OBVIOUS
<1>9. PICK c \in Critiques :
        c = [score |-> score, text |-> text /\ ~approved, cost |-> cost]
  BY <1>7, Zenon DEF Critiques
<1>10. c.score = score /\ c.text = (text /\ ~approved)
  BY <1>9
<1>11. /\ critiques' = Append(critiques, c)
       /\ loop' = [loop EXCEPT
             !.best = IF keeps THEN n ELSE loop.best, !.score = IF keeps THEN score ELSE @,
             !.attempt = IF over THEN @ ELSE @ + 1,
             !.phase = IF over THEN "over" ELSE "route",
             !.feedback = IF over THEN @ ELSE WithFeedback(@, n, text)]
       /\ outcome' = IF ~over THEN outcome
                     ELSE [state |-> "returned",
                           answer |-> IF approved THEN n ELSE IF keeps THEN n ELSE loop.best,
                           trace |-> TraceOf(n, approved, Append(critiques, c))]
  BY <1>3, <1>4, <1>5, <1>9, Zenon DEF Keeps
<1>12. /\ critiques' \in Seq(Critiques) /\ Len(critiques') = n
       /\ \A i \in DOMAIN critiques : critiques'[i] = critiques[i]
       /\ DOMAIN critiques = 1..(n - 1) /\ DOMAIN critiques' = 1..n
       /\ critiques'[n] = c /\ n >= 1 /\ Len(critiques) = n - 1
  BY <1>1, <1>2, <1>5, <1>11 DEF Loops
<1>13. WithFeedback(loop.feedback, n, text) \in Seq(Nat)
  BY <1>2 DEF WithFeedback
<1>14. /\ loop' \in Loops
       /\ loop'.phase = IF over THEN "over" ELSE "route"
       /\ loop'.max = loop.max /\ loop'.default = loop.default
       /\ loop'.attempt = IF over THEN n ELSE n + 1
       /\ loop'.best = IF keeps THEN n ELSE loop.best
       /\ loop'.score = IF keeps THEN score ELSE loop.score
       /\ loop'.feedback = IF over THEN loop.feedback ELSE WithFeedback(loop.feedback, n, text)
  <2> DEFINE wf == WithFeedback(loop.feedback, n, text)
  <2>1. wf \in Seq(Nat)
    BY <1>13
  <2>2. loop' = [loop EXCEPT
             !.best = IF keeps THEN n ELSE loop.best, !.score = IF keeps THEN score ELSE @,
             !.attempt = IF over THEN @ ELSE @ + 1,
             !.phase = IF over THEN "over" ELSE "route",
             !.feedback = IF over THEN @ ELSE wf]
    BY <1>11
  <2> DEFINE best == IF keeps THEN n ELSE loop.best
  <2> DEFINE top == IF keeps THEN score ELSE loop.score
  <2> DEFINE next == IF over THEN n ELSE n + 1
  <2> DEFINE phase == IF over THEN "over" ELSE "route"
  <2> DEFINE fb == IF over THEN loop.feedback ELSE wf
  <2>3. loop' = [loop EXCEPT !.best = best, !.score = top, !.attempt = next, !.phase = phase,
                             !.feedback = fb]
    BY <1>5, <2>2
  <2>4. /\ best \in Nat /\ top \in Int /\ next \in Nat \ {0}
        /\ phase \in {"route", "answer", "criticize", "over"} /\ fb \in Seq(Nat)
    BY <1>1, <1>2, <1>5, <2>1, <1>12
  <2>5. loop' \in Loops /\ loop'.best = best /\ loop'.score = top /\ loop'.attempt = next
        /\ loop'.phase = phase /\ loop'.feedback = fb /\ loop'.max = loop.max
        /\ loop'.default = loop.default
    <3> HIDE DEF best, top, next, phase, fb
    <3> QED  BY <1>1, <2>3, <2>4 DEF Loops
  <2> QED  BY <2>5
<1>15. ReflexionTypeOK'
  BY <1>1, <1>11, <1>12, <1>14 DEF ReflexionTypeOK
<1>16. /\ ~over => outcome' = Pending
       /\ over => /\ outcome'.state = "returned"
                  /\ outcome'.answer = IF approved THEN n ELSE IF keeps THEN n ELSE loop.best
                  /\ outcome'.trace.accepted = approved
  BY <1>2, <1>11 DEF TraceOf
<1>17. InPhase'
  BY <1>1, <1>2, <1>5, <1>12, <1>14, <1>16 DEF InPhase
<1>18. /\ \A i \in 1..n : critiques'[i].score \in Int /\ critiques'[i].score >= 0
       /\ \A i \in 1..(n - 1) : critiques'[i].score < Threshold
       /\ critiques'[n].score = score
  <2>1. \A i \in 1..(n - 1) : critiques[i].score < Threshold /\ critiques[i].score >= 0
    BY <1>1, <1>12 DEF ReflexionInv, BestKept
  <2>2. \A i \in 1..(n - 1) : critiques[i].score \in Int
    <3>1. \A i \in 1..(n - 1) : critiques[i] \in Critiques
      BY <1>1, <1>12
    <3> QED  BY <3>1 DEF Critiques
  <2> QED  BY <1>4, <1>10, <1>12, <2>1, <2>2
<1>19. FirstBest(IF keeps THEN n ELSE loop.best, critiques')
  <2>1. CASE critiques = <<>>
    <3>1. n = 1 /\ keeps
      BY <1>1, <1>4, <1>12, <2>1 DEF ReflexionInv, BestKept
    <3> QED  BY <1>12, <1>18, <3>1 DEF FirstBest
  <2>2. CASE critiques # <<>>
    <3>1. FirstBest(loop.best, critiques) /\ loop.score = critiques[loop.best].score
      BY <1>1, <2>2 DEF ReflexionInv, BestKept
    <3>2. /\ loop.best \in 1..(n - 1)
          /\ \A i \in 1..(n - 1) : critiques'[i].score <= loop.score
               /\ (i < loop.best => critiques'[i].score < loop.score)
          /\ critiques'[loop.best].score = loop.score
      BY <1>12, <3>1 DEF FirstBest
    <3>3. CASE keeps
      BY <1>2, <1>12, <1>18, <3>2, <3>3 DEF FirstBest
    <3>4. CASE ~keeps
      BY <1>2, <1>12, <1>18, <3>2, <3>4 DEF FirstBest
    <3> QED  BY <3>3, <3>4
  <2> QED  BY <2>1, <2>2
<1>20. critiques' # <<>> /\ critiques'[IF keeps THEN n ELSE loop.best].score = loop'.score
  <2>1. critiques' # <<>>
    BY <1>12
  <2>2. CASE keeps
    BY <1>14, <1>18, <2>1, <2>2
  <2>3. CASE ~keeps
    <3>1. critiques # <<>>
      BY <1>1, <1>4, <2>3 DEF ReflexionInv, BestKept
    <3>2. loop.best \in DOMAIN critiques /\ loop.score = critiques[loop.best].score
      BY <1>1, <3>1 DEF ReflexionInv, BestKept, FirstBest
    <3> QED  BY <1>12, <1>14, <2>1, <2>3, <3>2
  <2> QED  BY <2>2, <2>3
<1>21. BestKept'
  <2>1. over \/ score < Threshold
    BY <1>4, ReflexionAssumption
  <2>2. ~over => \A i \in 1..n : critiques'[i].score < Threshold
    BY <1>12, <1>18, <2>1
  <2>3. loop'.best = IF keeps THEN n ELSE loop.best
    BY <1>14
  <2> QED  BY <1>12, <1>14, <1>18, <1>19, <1>20, <2>2, <2>3 DEF BestKept
<1>22. /\ \A i \in DOMAIN inners : Told(inners[i].asked, i)
       /\ \A i \in DOMAIN inners : inners[i].fallback => inners[i].by = loop.default
       /\ Told(loop.feedback, n)
  BY <1>1, <1>5 DEF ReflexionInv, ToldAll
<1>23. \A i \in DOMAIN inners : Told(inners[i].asked, i)'
  <2> SUFFICES ASSUME NEW i \in DOMAIN inners PROVE Told(inners[i].asked, i)'
    BY <1>1
  <2>1. i \in 1..n
    BY <1>1, <1>2, <1>5
  <2>2. PICK asked : asked = inners[i].asked
    OBVIOUS
  <2>3. Told(asked, i)
    BY <1>22, <2>2
  <2>4. {asked[j] : j \in DOMAIN asked} = {k \in 1..(i - 1) : critiques'[k].text}
    BY <1>1, <1>11, <1>12, <2>1, <2>3, ToldStays
  <2> QED  BY <1>1, <2>2, <2>3, <2>4 DEF Told
<1>24. ~over => Told(loop.feedback, loop.attempt)'
  <2> SUFFICES ASSUME ~over PROVE Told(loop.feedback, loop.attempt)'
    OBVIOUS
  <2>1. PICK fb \in Seq(Nat) : fb = loop.feedback
    BY <1>2
  <2>2. Told(fb, n)
    BY <1>22, <2>1
  <2>3. {fb[j] : j \in DOMAIN fb} = {k \in 1..(n - 1) : critiques'[k].text}
    BY <1>1, <1>11, <1>12, <2>2, ToldStays
  <2>4. critiques'[n].text = text
    BY <1>10, <1>12
  <2>5. loop'.feedback = (IF text THEN Append(fb, n) ELSE fb) /\ loop'.attempt = n + 1
    BY <1>14, <2>1 DEF WithFeedback
  <2>6. \A j \in DOMAIN fb : fb[j] \in 1..(n - 1)
    BY <2>3
  <2>7. CASE text
    <3>0. Append(fb, n) \in Seq(Nat)
      BY <2>1
    <3>1. PICK fa \in Seq(Nat) : fa = Append(fb, n)
      BY <3>0, Zenon
    <3>2. /\ Len(fa) = Len(fb) + 1 /\ fa[Len(fb) + 1] = n /\ \A j \in DOMAIN fb : fa[j] = fb[j]
          /\ DOMAIN fa = DOMAIN fb \cup {Len(fb) + 1} /\ DOMAIN fb = 1..Len(fb) /\ Len(fb) \in Nat
      BY <2>1, <3>1
    <3>3. {fa[j] : j \in DOMAIN fa} = {k \in 1..n : critiques'[k].text}
      <4>1. \A k \in 1..n : k # n => k \in 1..(n - 1)
        OBVIOUS
      <4>2. {fa[j] : j \in DOMAIN fa} = {fb[j] : j \in DOMAIN fb} \cup {n}
        BY <3>2
      <4>3. {k \in 1..n : critiques'[k].text} = {k \in 1..(n - 1) : critiques'[k].text} \cup {n}
        <5>1. n \in 1..n /\ 1..(n - 1) \subseteq 1..n /\ critiques'[n].text
          BY <1>12, <2>4, <2>7
        <5> QED  BY <4>1, <5>1, Zenon
      <4> QED  BY <2>3, <4>2, <4>3
    <3>4. \A j, k \in DOMAIN fa : j < k => fa[j] < fa[k]
      <4> SUFFICES ASSUME NEW j \in DOMAIN fa, NEW k \in DOMAIN fa, j < k PROVE fa[j] < fa[k]
        OBVIOUS
      <4>1. j \in DOMAIN fb
        BY <3>2
      <4>2. fa[j] \in 1..(n - 1)
        BY <2>6, <3>2, <4>1
      <4>3. CASE k \in DOMAIN fb
        BY <2>2, <3>2, <4>1, <4>3 DEF Told
      <4>4. CASE k = Len(fb) + 1
        BY <3>2, <4>2, <4>4
      <4> QED  BY <3>2, <4>3, <4>4
    <3>5. loop'.feedback = fa /\ 1..((n + 1) - 1) = 1..n
      BY <2>5, <2>7, <3>1
    <3> QED  BY <2>5, <3>3, <3>4, <3>5 DEF Told
  <2>8. CASE ~text
    <3>1. {k \in 1..n : critiques'[k].text} = {k \in 1..(n - 1) : critiques'[k].text}
      BY <1>12, <2>4, <2>8
    <3>2. loop'.feedback = fb /\ 1..((n + 1) - 1) = 1..n
      BY <2>5, <2>8
    <3>3. {fb[j] : j \in DOMAIN fb} = {k \in 1..((n + 1) - 1) : critiques'[k].text}
      BY <2>3, <3>1, <3>2
    <3>4. \A j, k \in DOMAIN fb : j < k => fb[j] < fb[k]
      BY <2>2 DEF Told
    <3> QED  BY <2>5, <3>2, <3>3, <3>4 DEF Told
  <2> QED  BY <2>7, <2>8
<1>25. ToldAll'
  <2>1. loop'.phase # "over" => ~over
    BY <1>14
  <2>2. loop'.default = loop.default
    BY <1>14
  <2> QED  BY <1>1, <1>22, <1>23, <1>24, <2>1, <2>2 DEF ToldAll
<1>26. Returned'
  <2>1. CASE ~over
    BY <1>16, <2>1 DEF Returned, Pending
  <2>2. CASE over
    <3>1. FirstBest(outcome'.answer, critiques')
      <4>1. CASE approved
        <5>1. \A i \in 1..(n - 1) : critiques'[i].score < score
          BY <1>4, <1>12, <1>18, <4>1, ReflexionAssumption
        <5>2. outcome'.answer = n
          BY <1>16, <2>2, <4>1
        <5> QED  BY <1>12, <1>18, <5>1, <5>2 DEF FirstBest
      <4>2. CASE ~approved
        BY <1>16, <1>19, <2>2, <4>2
      <4> QED  BY <4>1, <4>2
    <3>2. outcome'.trace.accepted = approved /\ approved = (critiques'[n].score >= Threshold)
      BY <1>16, <1>18, <2>2
    <3>3. ~approved => n = loop'.max
      BY <1>14, <2>2
    <3>4. Len(critiques') = n /\ Len(inners') = n /\ n > 0
      BY <1>1, <1>2, <1>5, <1>12
    <3> HIDE DEF approved, over
    <3> QED  BY <3>1, <3>2, <3>3, <3>4 DEF Returned
  <2> QED  BY <2>1, <2>2
<1> QED  BY <1>15, <1>17, <1>21, <1>25, <1>26 DEF ReflexionInv

LEMMA ReflexionInvStep == ReflexionInv /\ [ReflexionNext]_reflexionVars => ReflexionInv'
<1> SUFFICES ASSUME ReflexionInv, [ReflexionNext]_reflexionVars PROVE ReflexionInv'
  OBVIOUS
<1>1. CASE Route
  BY <1>1, RouteKeeps
<1>2. CASE RouteRaises
  BY <1>2, FailsKeeps DEF RouteRaises
<1>3. CASE SpecialistAnswers
  BY <1>3, AnswerKeeps
<1>4. CASE SpecialistRaises
  BY <1>4, FailsKeeps DEF SpecialistRaises
<1>5. CASE Criticize
  BY <1>5, CriticizeKeeps
<1>6. CASE CriticRaises
  BY <1>6, FailsKeeps DEF CriticRaises
<1>7. CASE UNCHANGED reflexionVars
  BY <1>7 DEF reflexionVars, ReflexionInv, ReflexionTypeOK, InPhase, BestKept, ToldAll, Told, Returned
<1> QED
  BY <1>1, <1>2, <1>3, <1>4, <1>5, <1>6, <1>7 DEF ReflexionNext

\* What the loop keeps is what was to be shown.
LEMMA ReflexionInvSound == ReflexionInv => ReflexionSound
<1> SUFFICES ASSUME ReflexionInv PROVE ReflexionSound
  OBVIOUS
<1>1. critiques \in Seq(Critiques) /\ inners \in Seq(Inners)
  BY DEF ReflexionInv, ReflexionTypeOK
<1>2. \A i \in DOMAIN critiques : Scores[i] = critiques[i].score
  BY DEF Scores
<1>3. DOMAIN critiques = 1..Len(critiques) /\ Len(critiques) \in Nat
  BY <1>1
<1>4. \A i \in DOMAIN inners :
       /\ inners[i].by \in Specialists
       /\ inners[i].fallback => inners[i].by = loop.default
       /\ \A j, k \in DOMAIN inners[i].asked : j < k => inners[i].asked[j] < inners[i].asked[k]
       /\ Range(inners[i].asked) = {k \in 1..(i - 1) : critiques[k].text}
  <2> SUFFICES ASSUME NEW i \in DOMAIN inners
      PROVE  /\ inners[i].by \in Specialists
             /\ inners[i].fallback => inners[i].by = loop.default
             /\ \A j, k \in DOMAIN inners[i].asked : j < k => inners[i].asked[j] < inners[i].asked[k]
             /\ Range(inners[i].asked) = {k \in 1..(i - 1) : critiques[k].text}
    OBVIOUS
  <2>1. inners[i] \in Inners
    BY <1>1
  <2>2. Told(inners[i].asked, i) /\ (inners[i].fallback => inners[i].by = loop.default)
    BY DEF ReflexionInv, ToldAll
  <2> QED  BY <2>1, <2>2 DEF Told, Inners, Range
<1>5. \A i \in 1..(Len(critiques) - 1) : Scores[i] < Threshold
  BY <1>2, <1>3 DEF ReflexionInv, BestKept
<1>6. outcome.state = "returned" =>
       LET n == Len(critiques) a == outcome.answer IN
       /\ Len(inners) = n
       /\ \A i \in 1..n : Scores[i] <= Scores[a] /\ (i < a => Scores[i] < Scores[a])
       /\ outcome.trace.accepted = (Scores[n] >= Threshold)
       /\ ~outcome.trace.accepted => n = loop.max
  BY <1>2, <1>3 DEF ReflexionInv, Returned, FirstBest
<1> QED
  BY <1>4, <1>5, <1>6 DEF ReflexionSound

\* The loop tells every attempt all that was said before it, stops at the first approved
\* answer and otherwise returns the first of the best (reflexion.py, router.py).
THEOREM ReflexionSoundHolds == ReflexionSpec => []ReflexionSound
<1>1. ReflexionInit => ReflexionInv
  BY ReflexionInvInit
<1>2. ReflexionInv /\ [ReflexionNext]_reflexionVars => ReflexionInv'
  BY ReflexionInvStep
<1>3. ReflexionInv => ReflexionSound
  BY ReflexionInvSound
<1> QED
  BY <1>1, <1>2, <1>3, PTL DEF ReflexionSpec
=============================================================================
