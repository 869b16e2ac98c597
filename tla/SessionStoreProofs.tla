------------------------- MODULE SessionStoreProofs -------------------------
(***************************************************************************)
(* Theorems about what a session keeps and what a turn of it tells: about  *)
(* SessionStore, for any set of requests and any choice of faults, and     *)
(* about the records, the usage and the verdicts of the turns of           *)
(* AgentLoop.  The log theorems assume Serial, that the clients of a       *)
(* session wait for each other, and so does the graph theorem; the turn    *)
(* counter's does not.                                                     *)
(***************************************************************************)
EXTENDS SessionStore, AgentLoop, FiniteSetTheorems, SequenceTheorems, WellFoundedInduction, TLAPS

(* The memory a request would load now.                                      *)
Base == IF mem = NoFile THEN Fresh(NoMatter) ELSE mem

(* save() reaches its second write only with a graph to write.               *)
Ready == \A r \in Requests : pc[r] = "saveGraph" => kg[r] # {}

TInv == TypeOK /\ Ready

\* Init is typed.
LEMMA TypeInit == Init => TInv
  BY SessionStoreAssumption
     DEF Init, TInv, TypeOK, Ready, Fresh, Memory, Points, Kinds

\* A new SessionMemory is a memory.
LEMMA FreshIsMemory == \A m \in Matters \cup {NoMatter} : Fresh(m) \in Memory
  BY DEF Fresh, Memory

\* What a request appends is an event.
LEMMA EventOfRequest == \A r \in Requests : <<r, "early">> \in AuditEvents /\ <<r, "late">> \in AuditEvents
  BY DEF AuditEvents

\* AuditHook leaves a well-formed memory.json, and only ever adds to AUDIT.
LEMMA AuditKeeps ==
  ASSUME TypeOK, NEW e \in AuditEvents, AuditAppend(e)
  PROVE  /\ mem' \in {NoFile} \cup Memory
         /\ audited' \subseteq AuditEvents
         /\ Base'.turns = Base.turns /\ Base'.msgs = Base.msgs
         /\ mem # NoFile => mem' # NoFile
<1> USE SessionStoreAssumption
<1>1. CASE ~Audit
  BY <1>1 DEF AuditAppend, TypeOK, Base
<1>2. CASE Audit
  <2>1. mem' = [Base EXCEPT !.audit = @ \cup {e}] /\ audited' = audited \cup {e}
    BY <1>2 DEF AuditAppend, Base
  <2>2. Base \in Memory
    BY FreshIsMemory DEF TypeOK, Base
  <2>3. mem' \in Memory /\ mem'.turns = Base.turns /\ mem'.msgs = Base.msgs
    BY <2>1, <2>2 DEF Memory
  <2> QED BY <2>1, <2>3 DEF TypeOK, Base
<1> QED BY <1>1, <1>2

\* Every step keeps the types.
LEMMA TypeStep == TInv /\ [Next]_vars => TInv'
<1> SUFFICES ASSUME TInv, [Next]_vars PROVE TInv'
  OBVIOUS
<1> USE SessionStoreAssumption, FreshIsMemory, EventOfRequest DEF TInv
<1>0. ASSUME NEW r \in Requests, NEW k \in Kinds, Arrive(r, k) PROVE TInv'
  BY <1>0 DEF Arrive, Goto, TypeOK, Ready, Points, Kinds, disk, ghosts
<1>1. ASSUME NEW r \in Requests, Exists(r) PROVE TInv'
  <2>1. held' \in [Requests -> Memory] /\ kg' \in [Requests -> SUBSET Requests]
    BY <1>1 DEF Exists, TypeOK
  <2>2. TypeOK'
    BY <1>1, <2>1 DEF Exists, Goto, TypeOK, Points, disk, ghosts
  <2>3. Ready'
    BY <1>1 DEF Exists, Goto, TypeOK, Ready, Points
  <2> QED BY <2>2, <2>3
<1>2. ASSUME NEW r \in Requests, Load(r) PROVE TInv'
  BY <1>2 DEF Load, Goto, TypeOK, Ready, Points, disk, ghosts
<1>3. ASSUME NEW r \in Requests, Hydrate(r) PROVE TInv'
  BY <1>3 DEF Hydrate, Goto, TypeOK, Ready, Points, Hydrated, disk, ghosts
<1>4. ASSUME NEW r \in Requests, BeginTurn(r) PROVE TInv'
  <2>1. held' \in [Requests -> Memory]
    BY <1>4 DEF BeginTurn, TypeOK, Memory
  <2>2. mem' \in {NoFile} \cup Memory /\ audited' \subseteq AuditEvents
    BY <1>4, AuditKeeps DEF BeginTurn
  <2> QED BY <1>4, <2>1, <2>2 DEF BeginTurn, Goto, TypeOK, Ready, Points
<1>5. ASSUME NEW r \in Requests, Classify(r) PROVE TInv'
  <2>1. mem' \in {NoFile} \cup Memory /\ audited' \subseteq AuditEvents
    BY <1>5, AuditKeeps DEF Classify, TypeOK
  <2> QED BY <1>5, <2>1 DEF Classify, Goto, TypeOK, Ready, Points
<1>6. ASSUME NEW r \in Requests, Dispatch(r) PROVE TInv'
  <2>1. held' \in [Requests -> Memory]
    BY <1>6 DEF Dispatch, TypeOK, Memory
  <2>2. kg' \in [Requests -> SUBSET Requests]
    BY <1>6 DEF Dispatch, TypeOK
  <2>3. Ready'
    BY <1>6, <2>2 DEF Dispatch, Goto, TypeOK, Ready, Points
  <2> QED BY <1>6, <2>1, <2>2, <2>3 DEF Dispatch, Goto, TypeOK, Points, disk, ghosts
<1>7. ASSUME NEW r \in Requests, Abandon(r) PROVE TInv'
  BY <1>7 DEF Abandon, Goto, TypeOK, Ready, Points, disk, ghosts
<1>8. ASSUME NEW r \in Requests, AppendTurn(r) PROVE TInv'
  <2>1. held' \in [Requests -> Memory]
    BY <1>8 DEF AppendTurn, Counted, TypeOK, Memory
  <2> QED BY <1>8, <2>1 DEF AppendTurn, Goto, TypeOK, Ready, Points, disk, ghosts
<1>9. ASSUME NEW r \in Requests, Create(r) PROVE TInv'
  <2>1. scope' \in Matters \cup {NoMatter}
    BY <1>9 DEF Create, TypeOK, Memory
  <2> QED BY <1>9, <2>1 DEF Create, Goto, TypeOK, Ready, Points, disk
<1>10. ASSUME NEW r \in Requests, SaveMem(r) PROVE TInv'
  BY <1>10 DEF SaveMem, Goto, TypeOK, Ready, Points, AfterMem, ghosts
<1>11. ASSUME NEW r \in Requests, SaveGraph(r) PROVE TInv'
  BY <1>11 DEF SaveGraph, Goto, TypeOK, Ready, Points, ghosts
<1>12. ASSUME NEW r \in Requests, WriteFails(r) PROVE TInv'
  BY <1>12 DEF WriteFails, Goto, TypeOK, Ready, Points, disk, ghosts
<1>13. ASSUME NEW r \in Requests, Finish(r) PROVE TInv'
  <2>1. mem' \in {NoFile} \cup Memory /\ audited' \subseteq AuditEvents
    BY <1>13, AuditKeeps DEF Finish, TypeOK
  <2> QED BY <1>13, <2>1 DEF Finish, Goto, TypeOK, Ready, Points
<1>14. ASSUME NEW r \in Requests, UnlinkMem(r) PROVE TInv'
  BY <1>14 DEF UnlinkMem, Goto, TypeOK, Ready, Points
<1>15. ASSUME NEW r \in Requests, UnlinkGraph(r) PROVE TInv'
  BY <1>15 DEF UnlinkGraph, Goto, TypeOK, Ready, Points, UnlinkGraphLeaving, Started
<1>16. CASE Crash
  BY <1>16 DEF Crash, Active, TypeOK, Ready, Points, disk, ghosts
<1>17. CASE UNCHANGED vars
  BY <1>17 DEF vars, TypeOK, Ready
<1> QED
  BY <1>0, <1>1, <1>2, <1>3, <1>4, <1>5, <1>6, <1>7, <1>8, <1>9, <1>10, <1>11, <1>12, <1>13, <1>14, <1>15, <1>16, <1>17 DEF Next, Step

\* The shapes TypeOK gives are what _run_inner and the handlers put into a
\* SessionMemory and into the two files, whatever interleaves and whatever fails.
THEOREM TypeCorrect == Spec => []TypeOK
<1>1. Spec => []TInv
  BY TypeInit, TypeStep, PTL DEF Spec
<1> QED BY <1>1, PTL DEF TInv

-----------------------------------------------------------------------------
(* The session as a log.  Between its load and its save a request must hold  *)
(* what the file still holds, plus its own turn; that is only so when no     *)
(* other request of the session is under way.                                *)

Said(r) == IF kind[r] \in {"message", "append"} THEN {r} ELSE {}

Alone == \A p, q \in Requests : p \in Active /\ q \in Active => p = q

Holds(r, n, msgs) == held[r].turns = Base.turns + n /\ held[r].msgs = Base.msgs \cup msgs

InSync(r) ==
  /\ pc[r] = "hydrate" => mem # NoFile
  /\ pc[r] \in {"hydrate", "loaded"} => Holds(r, 0, {})
  /\ pc[r] \in {"classify", "dispatch"} => kind[r] \in Turns /\ Holds(r, 0, Said(r))
  /\ pc[r] = "save" => Holds(r, 1, Said(r))
  /\ pc[r] \in {"saveGraph", "saved"} => mem # NoFile /\ Said(r) \subseteq Base.msgs

LogInv ==
  /\ TypeOK
  /\ Alone
  /\ \A r \in Requests : InSync(r)
  /\ acked \subseteq Base.msgs
  /\ acked # {} => mem # NoFile

\* A step of the one active request leaves every other request's part alone.
LEMMA OthersInSync ==
  ASSUME NEW r \in Requests, \A q \in Requests \ {r} : pc[q] \in {"new", "over"},
         pc \in [Requests -> Points], NEW point \in Points, Goto(r, point)
  PROVE  /\ \A q \in Requests \ {r} : pc'[q] \in {"new", "over"} /\ InSync(q)'
         /\ Alone'
         /\ pc'[r] = point
BY DEF Goto, InSync, Alone, Active, Points

\* A request that is alone is the only one under way.
LEMMA AloneMeans ==
  ASSUME Alone, NEW r \in Requests, pc[r] \notin {"new", "over"}, pc \in [Requests -> Points]
  PROVE  \A q \in Requests \ {r} : pc[q] \in {"new", "over"}
BY DEF Alone, Active

\* Before the first request nothing is acknowledged.
LEMMA LogInit == Init => LogInv
  BY TypeInit, SessionStoreAssumption
     DEF Init, TInv, LogInv, Alone, Active, InSync, Base, Fresh

\* With the requests serial, every step keeps the log invariant.
LEMMA LogStep ==
  ASSUME Serial, LogInv, TypeOK', [Next]_vars
  PROVE  LogInv'
<1> USE SessionStoreAssumption DEF LogInv
<1>b. Base \in Memory
  BY FreshIsMemory DEF TypeOK, Base
<1>0. ASSUME NEW r \in Requests, NEW k \in Kinds, Arrive(r, k) PROVE LogInv'
  <2>1. Base' = Base
    BY <1>0 DEF Arrive, Base, Fresh, disk
  <2>2. \A q \in Requests : pc[q] \in {"new", "over"}
    BY <1>0 DEF Arrive, Active
  <2>3. \A q \in Requests : q # r => pc'[q] \in {"new", "over"}
    BY <1>0, <2>2 DEF Arrive, Goto, TypeOK
  <2>4. pc'[r] \in {"exists", "unlinkMem"}
    BY <1>0 DEF Arrive, Goto, TypeOK
  <2>5. Alone'
    BY <2>3 DEF Alone, Active
  <2>6. \A q \in Requests : InSync(q)'
    BY <2>3, <2>4 DEF InSync
  <2> QED BY <1>0, <2>1, <2>5, <2>6 DEF Arrive, disk, ghosts
<1>1. ASSUME NEW r \in Requests, Exists(r) PROVE LogInv'
  <2>1. \A q \in Requests \ {r} : pc[q] \in {"new", "over"}
    BY <1>1, AloneMeans DEF Exists, TypeOK
  <2>2. /\ \A q \in Requests \ {r} : InSync(q)'
        /\ Alone'
    <3>1. PICK point \in Points : Goto(r, point)
      BY <1>1 DEF Exists, Points
    <3> QED BY <2>1, <3>1, OthersInSync DEF TypeOK
  <2>3. Base' = Base /\ mem' = mem /\ acked' = acked
    BY <1>1 DEF Exists, Base, Fresh, disk, ghosts
  <2>4. InSync(r)'
    <3>1. CASE Found
      BY <1>1, <2>3, <3>1 DEF Exists, Goto, InSync, TypeOK
    <3>2. CASE ~Found
      <4>1. PICK m \in Matters \cup {NoMatter} : held' = [held EXCEPT ![r] = Fresh(m)]
        BY <1>1, <3>2 DEF Exists
      <4>2. held'[r] = Fresh(m) /\ Base' = Fresh(NoMatter)
        BY <2>3, <3>2, <4>1 DEF Found, Base, TypeOK
      <4>3. Holds(r, 0, {})'
        BY <4>2 DEF Holds, Fresh
      <4> QED BY <1>1, <3>2, <4>3 DEF Exists, Goto, InSync, TypeOK
    <3> QED BY <3>1, <3>2
  <2> QED BY <2>2, <2>3, <2>4
<1>2. ASSUME NEW r \in Requests, Load(r) PROVE LogInv'
  <2>1. \A q \in Requests \ {r} : pc[q] \in {"new", "over"}
    BY <1>2, AloneMeans DEF Load, TypeOK
  <2>2. /\ \A q \in Requests \ {r} : InSync(q)'
        /\ Alone'
    <3>1. PICK point \in Points : Goto(r, point)
      BY <1>2 DEF Load, Points
    <3> QED BY <2>1, <3>1, OthersInSync DEF TypeOK
  <2>3. Base' = Base /\ mem' = mem /\ acked' = acked
    BY <1>2 DEF Load, Base, Fresh, disk, ghosts
  <2>4. InSync(r)'
    BY <1>2, <1>b, <2>3 DEF Load, Goto, InSync, TypeOK, Said, Holds, Memory, Base
  <2> QED BY <2>2, <2>3, <2>4
<1>3. ASSUME NEW r \in Requests, Hydrate(r) PROVE LogInv'
  <2>1. \A q \in Requests \ {r} : pc[q] \in {"new", "over"}
    BY <1>3, AloneMeans DEF Hydrate, TypeOK
  <2>2. /\ \A q \in Requests \ {r} : InSync(q)'
        /\ Alone'
    <3>1. PICK point \in Points : Goto(r, point)
      BY <1>3 DEF Hydrate, Points
    <3> QED BY <2>1, <3>1, OthersInSync DEF TypeOK
  <2>3. Base' = Base /\ mem' = mem /\ acked' = acked
    BY <1>3 DEF Hydrate, Base, Fresh, disk, ghosts
  <2>4. InSync(r)'
    BY <1>3, <1>b, <2>3 DEF Hydrate, Goto, InSync, TypeOK, Said, Holds, Memory
  <2> QED BY <2>2, <2>3, <2>4
<1>4. ASSUME NEW r \in Requests, BeginTurn(r) PROVE LogInv'
  <2>1. \A q \in Requests \ {r} : pc[q] \in {"new", "over"}
    BY <1>4, AloneMeans DEF BeginTurn, TypeOK
  <2>2. /\ \A q \in Requests \ {r} : InSync(q)'
        /\ Alone'
    <3>1. PICK point \in Points : Goto(r, point)
      BY <1>4 DEF BeginTurn, Points
    <3> QED BY <2>1, <3>1, OthersInSync DEF TypeOK
  <2>3. Base'.turns = Base.turns /\ Base'.msgs = Base.msgs /\ (mem # NoFile => mem' # NoFile)
    BY <1>4, AuditKeeps, EventOfRequest DEF BeginTurn, Base, Fresh
  <2>4. InSync(r)'
    BY <1>4, <1>b, <2>3 DEF BeginTurn, Goto, InSync, TypeOK, Turns, Said, Memory, Holds
  <2>5. acked' \subseteq Base'.msgs /\ (acked' # {} => mem' # NoFile)
    BY <1>4, <2>3 DEF BeginTurn, InSync, Said
  <2> QED BY <2>2, <2>4, <2>5
<1>5. ASSUME NEW r \in Requests, Classify(r) PROVE LogInv'
  <2>1. \A q \in Requests \ {r} : pc[q] \in {"new", "over"}
    BY <1>5, AloneMeans DEF Classify, TypeOK
  <2>2. /\ \A q \in Requests \ {r} : InSync(q)'
        /\ Alone'
    <3>1. PICK point \in Points : Goto(r, point)
      BY <1>5 DEF Classify, Points
    <3> QED BY <2>1, <3>1, OthersInSync DEF TypeOK
  <2>3. Base'.turns = Base.turns /\ Base'.msgs = Base.msgs /\ (mem # NoFile => mem' # NoFile)
    BY <1>5, AuditKeeps, EventOfRequest DEF Classify, Base, Fresh
  <2>4. InSync(r)'
    BY <1>5, <1>b, <2>3 DEF Classify, Goto, InSync, TypeOK, Turns, Said, Holds
  <2>5. acked' \subseteq Base'.msgs /\ (acked' # {} => mem' # NoFile)
    BY <1>5, <2>3 DEF Classify, InSync, Said
  <2> QED BY <2>2, <2>4, <2>5
<1>6. ASSUME NEW r \in Requests, Dispatch(r) PROVE LogInv'
  <2>1. \A q \in Requests \ {r} : pc[q] \in {"new", "over"}
    BY <1>6, AloneMeans DEF Dispatch, TypeOK
  <2>2. /\ \A q \in Requests \ {r} : InSync(q)'
        /\ Alone'
    <3>1. PICK point \in Points : Goto(r, point)
      BY <1>6 DEF Dispatch, Points
    <3> QED BY <2>1, <3>1, OthersInSync DEF TypeOK
  <2>3. Base' = Base /\ mem' = mem /\ acked' = acked
    BY <1>6 DEF Dispatch, Base, Fresh, disk, ghosts
  <2>4. InSync(r)'
    BY <1>6, <1>b, <2>3 DEF Dispatch, Goto, InSync, TypeOK, Said, Holds, Memory
  <2> QED BY <2>2, <2>3, <2>4
<1>7. ASSUME NEW r \in Requests, Abandon(r) PROVE LogInv'
  <2>1. \A q \in Requests \ {r} : pc[q] \in {"new", "over"}
    BY <1>7, AloneMeans DEF Abandon, TypeOK
  <2>2. /\ \A q \in Requests \ {r} : InSync(q)'
        /\ Alone'
    <3>1. PICK point \in Points : Goto(r, point)
      BY <1>7 DEF Abandon, Points
    <3> QED BY <2>1, <3>1, OthersInSync DEF TypeOK
  <2>3. Base' = Base /\ mem' = mem /\ acked' = acked
    BY <1>7 DEF Abandon, Base, Fresh, disk, ghosts
  <2>4. InSync(r)'
    BY <1>7, <1>b, <2>3 DEF Abandon, Goto, InSync, TypeOK, Said, Holds, Memory
  <2> QED BY <2>2, <2>3, <2>4
<1>8. ASSUME NEW r \in Requests, AppendTurn(r) PROVE LogInv'
  <2>1. \A q \in Requests \ {r} : pc[q] \in {"new", "over"}
    BY <1>8, AloneMeans DEF AppendTurn, TypeOK
  <2>2. /\ \A q \in Requests \ {r} : InSync(q)'
        /\ Alone'
    <3>1. PICK point \in Points : Goto(r, point)
      BY <1>8 DEF AppendTurn, Points
    <3> QED BY <2>1, <3>1, OthersInSync DEF TypeOK
  <2>3. Base' = Base /\ mem' = mem /\ acked' = acked
    BY <1>8 DEF AppendTurn, Base, Fresh, disk, ghosts
  <2>4. InSync(r)'
    BY <1>8, <1>b, <2>3 DEF AppendTurn, Goto, InSync, TypeOK, Said, Holds, Memory, Counted
  <2> QED BY <2>2, <2>3, <2>4
<1>9. ASSUME NEW r \in Requests, Create(r) PROVE LogInv'
  <2>1. \A q \in Requests \ {r} : pc[q] \in {"new", "over"}
    BY <1>9, AloneMeans DEF Create, TypeOK
  <2>2. /\ \A q \in Requests \ {r} : InSync(q)'
        /\ Alone'
    <3>1. PICK point \in Points : Goto(r, point)
      BY <1>9 DEF Create, Points
    <3> QED BY <2>1, <3>1, OthersInSync DEF TypeOK
  <2>3. Base' = Base /\ mem' = mem /\ acked' = acked
    BY <1>9 DEF Create, Base, Fresh, disk, ghosts
  <2>4. InSync(r)'
    BY <1>9, <1>b, <2>3 DEF Create, Goto, InSync, TypeOK, Said, Holds, Memory
  <2> QED BY <2>2, <2>3, <2>4
<1>10. ASSUME NEW r \in Requests, SaveMem(r) PROVE LogInv'
  <2>1. \A q \in Requests \ {r} : pc[q] \in {"new", "over"}
    BY <1>10, AloneMeans DEF SaveMem, TypeOK
  <2>2. /\ \A q \in Requests \ {r} : InSync(q)'
        /\ Alone'
    <3>1. PICK point \in Points : Goto(r, point)
      BY <1>10 DEF SaveMem, AfterMem, Points
    <3> QED BY <2>1, <3>1, OthersInSync DEF TypeOK
  <2>3. mem' = held[r] /\ held[r] \in Memory /\ mem' # NoFile /\ Base' = held[r]
    BY <1>10 DEF SaveMem, TypeOK, Base
  <2>4. Base'.msgs = Base.msgs \cup Said(r) /\ Said(r)' = Said(r)
    BY <1>10, <2>3 DEF SaveMem, InSync, Holds, Said
  <2>5. InSync(r)'
    BY <1>10, <2>3, <2>4 DEF SaveMem, AfterMem, Goto, InSync, TypeOK
  <2> QED BY <1>10, <2>2, <2>3, <2>4, <2>5 DEF SaveMem, ghosts
<1>11. ASSUME NEW r \in Requests, SaveGraph(r) PROVE LogInv'
  <2>1. \A q \in Requests \ {r} : pc[q] \in {"new", "over"}
    BY <1>11, AloneMeans DEF SaveGraph, TypeOK
  <2>2. /\ \A q \in Requests \ {r} : InSync(q)'
        /\ Alone'
    <3>1. PICK point \in Points : Goto(r, point)
      BY <1>11 DEF SaveGraph, Points
    <3> QED BY <2>1, <3>1, OthersInSync DEF TypeOK
  <2>3. Base' = Base /\ mem' = mem /\ acked' = acked
    BY <1>11 DEF SaveGraph, Base, Fresh, disk, ghosts
  <2>4. InSync(r)'
    BY <1>11, <1>b, <2>3 DEF SaveGraph, Goto, InSync, TypeOK, Said, Holds, Memory
  <2> QED BY <2>2, <2>3, <2>4
<1>12. ASSUME NEW r \in Requests, WriteFails(r) PROVE LogInv'
  <2>1. \A q \in Requests \ {r} : pc[q] \in {"new", "over"}
    BY <1>12, AloneMeans DEF WriteFails, TypeOK
  <2>2. /\ \A q \in Requests \ {r} : InSync(q)'
        /\ Alone'
    <3>1. PICK point \in Points : Goto(r, point)
      BY <1>12 DEF WriteFails, Points
    <3> QED BY <2>1, <3>1, OthersInSync DEF TypeOK
  <2>3. Base' = Base /\ mem' = mem /\ acked' = acked
    BY <1>12 DEF WriteFails, Base, Fresh, disk, ghosts
  <2>4. InSync(r)'
    BY <1>12, <1>b, <2>3 DEF WriteFails, Goto, InSync, TypeOK, Said, Holds, Memory
  <2> QED BY <2>2, <2>3, <2>4
<1>13. ASSUME NEW r \in Requests, Finish(r) PROVE LogInv'
  <2>1. \A q \in Requests \ {r} : pc[q] \in {"new", "over"}
    BY <1>13, AloneMeans DEF Finish, TypeOK
  <2>2. /\ \A q \in Requests \ {r} : InSync(q)'
        /\ Alone'
    <3>1. PICK point \in Points : Goto(r, point)
      BY <1>13 DEF Finish, Points
    <3> QED BY <2>1, <3>1, OthersInSync DEF TypeOK
  <2>3. Base'.turns = Base.turns /\ Base'.msgs = Base.msgs /\ (mem # NoFile => mem' # NoFile)
    BY <1>13, AuditKeeps, EventOfRequest DEF Finish, Base, Fresh
  <2>4. InSync(r)'
    BY <1>13, <1>b, <2>3 DEF Finish, Goto, InSync, TypeOK, Said
  <2>5. acked' \subseteq Base'.msgs /\ (acked' # {} => mem' # NoFile)
    BY <1>13, <2>3 DEF Finish, InSync, Said
  <2> QED BY <2>2, <2>4, <2>5
<1>14. ASSUME NEW r \in Requests, UnlinkMem(r) PROVE LogInv'
  <2>1. \A q \in Requests \ {r} : pc[q] \in {"new", "over"}
    BY <1>14, AloneMeans DEF UnlinkMem, TypeOK
  <2>2. /\ \A q \in Requests \ {r} : InSync(q)'
        /\ Alone'
    <3>1. PICK point \in Points : Goto(r, point)
      BY <1>14 DEF UnlinkMem, Points
    <3> QED BY <2>1, <3>1, OthersInSync DEF TypeOK
  <2>3. InSync(r)'
    BY <1>14 DEF UnlinkMem, Goto, InSync, TypeOK
  <2> QED BY <1>14, <2>2, <2>3 DEF UnlinkMem
<1>15. ASSUME NEW r \in Requests, UnlinkGraph(r) PROVE LogInv'
  <2>1. \A q \in Requests \ {r} : pc[q] \in {"new", "over"}
    BY <1>15, AloneMeans DEF UnlinkGraph, UnlinkGraphLeaving, TypeOK
  <2>2. /\ \A q \in Requests \ {r} : InSync(q)'
        /\ Alone'
    <3>1. PICK point \in Points : Goto(r, point)
      BY <1>15 DEF UnlinkGraph, UnlinkGraphLeaving, Points
    <3> QED BY <2>1, <3>1, OthersInSync DEF TypeOK
  <2>3. Base' = Base /\ mem' = mem /\ acked' = acked
    BY <1>15 DEF UnlinkGraph, UnlinkGraphLeaving, Base, Fresh, disk, ghosts
  <2>4. InSync(r)'
    BY <1>15, <1>b, <2>3 DEF UnlinkGraph, UnlinkGraphLeaving, Goto, InSync, TypeOK, Said, Holds, Memory
  <2> QED BY <2>2, <2>3, <2>4
<1>16. CASE Crash
  <2>1. \A q \in Requests : pc'[q] \in {"new", "over"}
    BY <1>16 DEF Crash, Active, TypeOK
  <2>2. Alone' /\ \A q \in Requests : InSync(q)'
    BY <2>1 DEF Alone, Active, InSync
  <2> QED BY <1>16, <2>2 DEF Crash, disk, ghosts, Base, Fresh
<1>17. CASE UNCHANGED vars
  BY <1>17 DEF vars, Alone, Active, InSync, Holds, Said, Base, Fresh
<1> QED
  BY <1>0, <1>1, <1>2, <1>3, <1>4, <1>5, <1>6, <1>7, <1>8, <1>9, <1>10, <1>11, <1>12, <1>13, <1>14, <1>15, <1>16, <1>17 DEF Next, Step

\* So the log invariant holds of every serial behaviour.
LEMMA LogInvariant == ASSUME Serial PROVE Spec => [](LogInv /\ TInv)
<1>1. Init => LogInv /\ TInv
  BY LogInit, TypeInit
<1>2. (LogInv /\ TInv) /\ [Next]_vars => (LogInv /\ TInv)'
  BY LogStep, TypeStep DEF TInv
<1> QED BY <1>1, <1>2, PTL DEF Spec

\* When the clients of a session wait for each other, a turn whose save returned
\* is never lost by a later load-modify-save, a crash, or a failed write.
THEOREM NoLostTurnHolds == ASSUME Serial PROVE Spec => []NoLostTurn
<1>1. LogInv => NoLostTurn
  BY DEF LogInv, NoLostTurn, Base
<1> QED BY <1>1, LogInvariant, PTL

\* In that case the session is the atomic log of SessionLog: each save of a turn
\* is one AddTurn on the log as it stands, whatever faults come in between.
THEOREM ImplementsSessionLog == ASSUME Serial PROVE Spec => IsSessionLog
<1> USE SessionStoreAssumption
<1> DEFINE log == IF mem = NoFile THEN NoFile ELSE [turns |-> mem.turns, msgs |-> mem.msgs]
<1>1. Init => SL!Init
  BY DEF Init, SL!Init
<1>2. ASSUME LogInv, LogInv', [Next]_vars PROVE SL!Next \/ UNCHANGED log
  <2> USE <1>2
  <2>a. ASSUME NEW e \in AuditEvents, AuditAppend(e) PROVE SL!Next \/ UNCHANGED log
    <3>1. /\ Base'.turns = Base.turns /\ Base'.msgs = Base.msgs
          /\ mem # NoFile => mem' # NoFile
      BY <2>a, AuditKeeps DEF LogInv
    <3>2. CASE mem = NoFile /\ mem' # NoFile
      BY <3>1, <3>2 DEF Base, Fresh, SL!Next, SL!Open, SL!Empty
    <3>3. CASE mem # NoFile \/ mem' = NoFile
      BY <3>1, <3>3 DEF Base
    <3> QED BY <3>2, <3>3
  <2>1. ASSUME NEW r \in Requests, SaveMem(r) PROVE SL!Next
    <3>1. Holds(r, 1, Said(r)) /\ mem' = held[r] /\ mem' # NoFile
      BY <2>1 DEF LogInv, InSync, SaveMem, TypeOK
    <3>2. log' = [turns |-> Base.turns + 1, msgs |-> Base.msgs \cup Said(r)]
      BY <3>1 DEF Holds
    <3>3. [turns |-> Base.turns, msgs |-> Base.msgs] \in [turns : Nat, msgs : SUBSET Requests]
      BY FreshIsMemory DEF LogInv, TypeOK, Base, Memory
    <3>4. SL!Current = [turns |-> Base.turns, msgs |-> Base.msgs]
      BY <3>3 DEF SL!Current, SL!Empty, Base, Fresh
    <3>5. SL!AddTurn(Said(r))
      BY <3>2, <3>4 DEF SL!AddTurn
    <3> QED BY <3>5 DEF Said, SL!Next
  <2>2. ASSUME NEW r \in Requests, UnlinkMem(r) PROVE SL!Next \/ UNCHANGED log
    BY <2>2 DEF UnlinkMem, SL!Next, SL!Erase
  <2>3. ASSUME NEW r \in Requests, BeginTurn(r) \/ Classify(r) \/ Finish(r)
        PROVE  SL!Next \/ UNCHANGED log
    BY <2>3, <2>a, EventOfRequest DEF BeginTurn, Classify, Finish
  <2>4. CASE mem' = mem
    BY <2>4
  <2>5. ASSUME NEW r \in Requests, Step(r),
               ~(SaveMem(r) \/ UnlinkMem(r) \/ BeginTurn(r) \/ Classify(r) \/ Finish(r))
        PROVE  mem' = mem
    BY <2>5 DEF Step, Exists, Load, Hydrate, Dispatch, Abandon, AppendTurn, Create,
                SaveGraph, WriteFails, UnlinkGraph, UnlinkGraphLeaving, disk
  <2>6. ASSUME NEW r \in Requests, NEW k \in Kinds, Arrive(r, k) PROVE mem' = mem
    BY <2>6 DEF Arrive, disk
  <2>7. CASE Crash \/ UNCHANGED vars
    BY <2>7 DEF Crash, vars, disk
  <2> QED BY <2>1, <2>2, <2>3, <2>4, <2>5, <2>6, <2>7 DEF Next
<1> QED BY <1>1, <1>2, LogInvariant, PTL DEF Spec, IsSessionLog, SL!Spec

-----------------------------------------------------------------------------
(* The turn counter, for any interleaving and any faults.                    *)

\* At most n user messages of m are not yet counted by an end_turn.
Counts(m, n) == IsFiniteSet(m.msgs) /\ Cardinality(m.msgs) <= m.turns + n

CountOK(r) ==
  /\ pc[r] \in {"hydrate", "loaded", "save"} => Counts(held[r], 0)
  /\ pc[r] \in {"classify", "dispatch"} => Counts(held[r], 1)

CountInv == (mem # NoFile => Counts(mem, 0)) /\ \A r \in Requests : CountOK(r)

\* A new memory counts no turns and holds none.
LEMMA FreshCounts == \A m : Counts(Fresh(m), 0)
  BY FS_EmptySet DEF Counts, Fresh

\* One more message needs one more turn, and end_turn gives it.
LEMMA OneMore ==
  ASSUME NEW m \in Memory, Counts(m, 0), NEW k \in Memory, NEW r
  PROVE  /\ k.msgs = m.msgs /\ k.turns = m.turns => Counts(k, 0) /\ Counts(k, 1)
         /\ k.msgs = m.msgs \cup {r} /\ k.turns = m.turns => Counts(k, 1)
         /\ k.msgs = m.msgs \cup {r} /\ k.turns = m.turns + 1 => Counts(k, 0)
<1>1. Cardinality(m.msgs) \in Nat
  BY FS_CardinalityType DEF Counts
<1>2. IsFiniteSet(m.msgs \cup {r}) /\ Cardinality(m.msgs \cup {r}) <= Cardinality(m.msgs) + 1
  BY <1>1, FS_AddElement DEF Counts
<1>3. Cardinality(m.msgs \cup {r}) \in Nat
  BY <1>2, FS_CardinalityType
<1> QED BY <1>1, <1>2, <1>3 DEF Counts, Memory

\* An audit entry is no turn.
LEMMA AuditCounts ==
  ASSUME TypeOK, NEW e \in AuditEvents, AuditAppend(e), mem # NoFile => Counts(mem, 0)
  PROVE  mem' # NoFile => Counts(mem', 0)
<1>1. Counts(Base, 0)
  BY FreshCounts DEF Base
<1>2. Counts(Base', 0)
  BY <1>1, AuditKeeps DEF Counts
<1> QED BY <1>2 DEF Base

\* Every step keeps the counts, whether requests overlap or not.
LEMMA CountStep == CountInv /\ TypeOK /\ TypeOK' /\ [Next]_vars => CountInv'
<1> SUFFICES ASSUME CountInv, TypeOK, TypeOK', [Next]_vars PROVE CountInv'
  OBVIOUS
<1> USE DEF CountInv
<1>0. ASSUME NEW r \in Requests, NEW k \in Kinds, Arrive(r, k) PROVE CountInv'
  BY <1>0 DEF Arrive, Goto, TypeOK, CountOK, disk
<1>1. ASSUME NEW r \in Requests, Exists(r) PROVE CountInv'
  <2>1. ~Found => Counts(held'[r], 0)
    BY <1>1, FreshCounts DEF Exists, TypeOK
  <2> QED BY <1>1, <2>1 DEF Exists, Goto, TypeOK, CountOK, disk
<1>2. ASSUME NEW r \in Requests, Load(r) PROVE CountInv'
  BY <1>2 DEF Load, Goto, TypeOK, CountOK, disk
<1>3. ASSUME NEW r \in Requests, Hydrate(r) PROVE CountInv'
  BY <1>3 DEF Hydrate, Goto, TypeOK, CountOK, disk
<1>4. ASSUME NEW r \in Requests, BeginTurn(r) PROVE CountInv'
  <2>1. mem' # NoFile => Counts(mem', 0)
    BY <1>4, AuditCounts, EventOfRequest DEF BeginTurn
  <2>2. Counts(held'[r], 1)
    <3>1. Counts(held[r], 0) /\ held[r] \in Memory /\ held'[r] \in Memory
      BY <1>4 DEF BeginTurn, CountOK, TypeOK
    <3>2. /\ held'[r].turns = held[r].turns
          /\ held'[r].msgs = held[r].msgs \/ held'[r].msgs = held[r].msgs \cup {r}
      BY <1>4 DEF BeginTurn, TypeOK, Memory
    <3> QED BY <3>1, <3>2, OneMore
  <2> QED BY <1>4, <2>1, <2>2 DEF BeginTurn, Goto, TypeOK, CountOK
<1>5. ASSUME NEW r \in Requests, Classify(r) PROVE CountInv'
  <2>1. mem' # NoFile => Counts(mem', 0)
    BY <1>5, AuditCounts, EventOfRequest DEF Classify
  <2> QED BY <1>5, <2>1 DEF Classify, Goto, TypeOK, CountOK
<1>6. ASSUME NEW r \in Requests, Dispatch(r) PROVE CountInv'
  <2>1. Counts(held[r], 1) /\ held[r] \in Memory
    BY <1>6 DEF Dispatch, CountOK, TypeOK
  <2>2. held'[r].msgs = held[r].msgs /\ held'[r].turns = held[r].turns + 1
    BY <1>6 DEF Dispatch, TypeOK, Memory
  <2>3. Counts(held'[r], 0)
    BY <2>1, <2>2, FS_CardinalityType DEF Counts, Memory
  <2> QED BY <1>6, <2>3 DEF Dispatch, Goto, TypeOK, CountOK, disk
<1>7. ASSUME NEW r \in Requests, Abandon(r) PROVE CountInv'
  BY <1>7 DEF Abandon, Goto, TypeOK, CountOK, disk
<1>8. ASSUME NEW r \in Requests, AppendTurn(r) PROVE CountInv'
  <2>1. Counts(held[r], 0) /\ held[r] \in Memory /\ held'[r] \in Memory
    BY <1>8 DEF AppendTurn, CountOK, TypeOK
  <2>2. held' # held => /\ held'[r].turns = held[r].turns + 1
                        /\ held'[r].msgs = held[r].msgs \cup {r}
    BY <1>8 DEF AppendTurn, Counted, TypeOK, Memory
  <2>3. Counts(held'[r], 0)
    BY <2>1, <2>2, OneMore
  <2> QED BY <1>8, <2>3 DEF AppendTurn, Goto, TypeOK, CountOK, disk
<1>9. ASSUME NEW r \in Requests, Create(r) PROVE CountInv'
  BY <1>9 DEF Create, Goto, TypeOK, CountOK, disk
<1>10. ASSUME NEW r \in Requests, SaveMem(r) PROVE CountInv'
  BY <1>10 DEF SaveMem, Goto, TypeOK, CountOK, AfterMem
<1>11. ASSUME NEW r \in Requests, SaveGraph(r) PROVE CountInv'
  BY <1>11 DEF SaveGraph, Goto, TypeOK, CountOK
<1>12. ASSUME NEW r \in Requests, WriteFails(r) PROVE CountInv'
  BY <1>12 DEF WriteFails, Goto, TypeOK, CountOK, disk
<1>13. ASSUME NEW r \in Requests, Finish(r) PROVE CountInv'
  <2>1. mem' # NoFile => Counts(mem', 0)
    BY <1>13, AuditCounts, EventOfRequest DEF Finish
  <2> QED BY <1>13, <2>1 DEF Finish, Goto, TypeOK, CountOK
<1>14. ASSUME NEW r \in Requests, UnlinkMem(r) PROVE CountInv'
  BY <1>14 DEF UnlinkMem, Goto, TypeOK, CountOK
<1>15. ASSUME NEW r \in Requests, UnlinkGraph(r) PROVE CountInv'
  BY <1>15 DEF UnlinkGraph, Goto, TypeOK, CountOK, UnlinkGraphLeaving
<1>16. CASE Crash
  BY <1>16 DEF Crash, Active, TypeOK, CountOK, disk
<1>17. CASE UNCHANGED vars
  BY <1>17 DEF vars, CountOK
<1> QED
  BY <1>0, <1>1, <1>2, <1>3, <1>4, <1>5, <1>6, <1>7, <1>8, <1>9, <1>10, <1>11, <1>12, <1>13, <1>14, <1>15, <1>16, <1>17 DEF Next, Step

\* turn_count never falls behind the stored conversation, however the requests of
\* a session overlap and whatever fails.
THEOREM TurnsCountedHolds == Spec => []TurnsCounted
<1>1. Init => CountInv
  BY SessionStoreAssumption DEF Init, CountInv, CountOK
<1>2. CountInv /\ TypeOK => TurnsCounted
  BY DEF CountInv, Counts, TurnsCounted, TypeOK, Memory
<1> QED BY <1>1, <1>2, CountStep, TypeCorrect, PTL DEF Spec

-----------------------------------------------------------------------------
(* Deletion, when files can be removed and the clients wait for each other.  *)
(* The danger is a SessionMemory hydrated before the DELETE and saved after  *)
(* it, and a graph.ttl that outlives memory.json.                            *)

Clean(m) == erased \cap OwnersOf(m) = {}

Loaded == {"loaded", "classify", "dispatch", "save", "saveGraph", "saved"}

Untouched(r) ==
  /\ pc[r] \in {"exists", "load", "hydrate"} \cup Loaded => r \notin erased
  /\ pc[r] \in {"hydrate"} \cup Loaded => Clean(held[r])
  /\ pc[r] \in Loaded => erased \cap kg[r] = {}
  /\ pc[r] = "unlinkGraph" => mem = NoFile

ForgetInv ==
  /\ Alone
  /\ erased \subseteq Started
  /\ mem # NoFile => Clean(mem)
  /\ graph # NoFile => erased \cap graph = {}
  /\ \A r \in Requests : Untouched(r)

\* A new memory holds nothing of any request.
LEMMA FreshIsClean == \A m : Clean(Fresh(m))
  BY DEF Clean, OwnersOf, Fresh

\* What a turn or the hook adds to a memory belongs to the turn's own request.
LEMMA CleanPlus ==
  ASSUME NEW m \in Memory, NEW k \in Memory, NEW r \in Requests, r \notin erased, Clean(m),
         k.msgs \subseteq m.msgs \cup {r}, k.acts \subseteq m.acts \cup {r},
         \A e \in k.audit : e \in m.audit \/ e[1] = r
  PROVE  Clean(k)
BY DEF Clean, OwnersOf

\* What the hook appends belongs to a request that is not erased.
LEMMA AuditIsClean ==
  ASSUME TypeOK, NEW r \in Requests, r \notin erased, NEW t \in {"early", "late"},
         AuditAppend(<<r, t>>), mem # NoFile => Clean(mem), erased' = erased
  PROVE  (mem' # NoFile => Clean(mem)') /\ (mem # NoFile => mem' # NoFile)
<1>1. CASE ~Audit
  BY <1>1 DEF AuditAppend, Clean
<1>2. CASE Audit
  <2>1. mem' = [Base EXCEPT !.audit = @ \cup {<<r, t>>}]
    BY <1>2 DEF AuditAppend, Base
  <2>2. Base \in Memory /\ Clean(Base)
    BY FreshIsMemory, FreshIsClean DEF TypeOK, Base
  <2>3. mem' \in Memory
    BY <2>1, <2>2 DEF Memory, AuditEvents
  <2>4. mem'.msgs = Base.msgs /\ mem'.acts = Base.acts /\ mem'.audit = Base.audit \cup {<<r, t>>}
    BY <2>1, <2>2 DEF Memory
  <2>5. Clean(mem')
    BY <2>2, <2>3, <2>4, CleanPlus
  <2> QED BY <2>3, <2>5, SessionStoreAssumption DEF Clean
<1> QED BY <1>1, <1>2

\* With the requests serial and unlink not failing, nothing erased comes back.
LEMMA ForgetStep ==
  ASSUME Serial, "unlink" \notin Faults, TypeOK, TypeOK', ForgetInv, [Next]_vars
  PROVE  ForgetInv'
<1> USE DEF ForgetInv
<1>0. ASSUME NEW r \in Requests, NEW k \in Kinds, Arrive(r, k) PROVE ForgetInv'
  <2>1. \A q \in Requests : pc[q] \in {"new", "over"}
    BY <1>0 DEF Arrive, Active
  <2>2. \A q \in Requests : q # r => pc'[q] \in {"new", "over"} /\ pc'[q] = pc[q]
    BY <1>0, <2>1 DEF Arrive, Goto, TypeOK
  <2>3. pc[r] = "new" /\ pc'[r] \in {"exists", "unlinkMem"} /\ erased' = erased
    BY <1>0 DEF Arrive, Goto, TypeOK, ghosts
  <2>4. r \notin erased /\ Alone' /\ erased' \subseteq Started'
    BY <2>2, <2>3 DEF Alone, Active, Started
  <2>5. \A q \in Requests : Untouched(q)'
    BY <2>2, <2>3, <2>4 DEF Untouched, Loaded
  <2> QED BY <1>0, <2>3, <2>4, <2>5 DEF Arrive, disk, Clean
<1>1. ASSUME NEW r \in Requests, Exists(r) PROVE ForgetInv'
  <2>1. \A q \in Requests \ {r} : pc[q] \in {"new", "over"}
    BY <1>1, AloneMeans DEF Exists, TypeOK
  <2>2. PICK point \in Points : Goto(r, point) /\ point # "new"
    BY <1>1 DEF Exists, Points
  <2>3. /\ \A q \in Requests \ {r} : pc'[q] \in {"new", "over"} /\ Untouched(q)'
        /\ Alone' /\ Started' = Started /\ r \in Started /\ pc'[r] = point
    <3>1. pc[r] # "new"
      BY <1>1 DEF Exists
    <3> QED BY <2>1, <2>2, <3>1 DEF Goto, TypeOK, Alone, Active, Started, Untouched, Loaded
  <2>4. erased' = erased
    BY <1>1 DEF Exists, ghosts
  <2>5. mem' = mem /\ (mem' # NoFile => Clean(mem)')
    BY <1>1, <2>4 DEF Exists, disk, Clean
  <2>6. graph' = graph
    BY <1>1 DEF Exists, disk
  <2>7. ~Found => Clean(held'[r]) /\ kg'[r] = {}
    BY <1>1, FreshIsClean DEF Exists, TypeOK
  <2>8. Untouched(r)'
    BY <1>1, <2>2, <2>4, <2>7 DEF Exists, Goto, TypeOK, Untouched, Loaded, Clean
  <2> QED BY <2>3, <2>4, <2>5, <2>6, <2>8
<1>2. ASSUME NEW r \in Requests, Load(r) PROVE ForgetInv'
  <2>1. \A q \in Requests \ {r} : pc[q] \in {"new", "over"}
    BY <1>2, AloneMeans DEF Load, TypeOK
  <2>2. PICK point \in Points : Goto(r, point) /\ point # "new"
    BY <1>2 DEF Load, Points
  <2>3. /\ \A q \in Requests \ {r} : pc'[q] \in {"new", "over"} /\ Untouched(q)'
        /\ Alone' /\ Started' = Started /\ r \in Started /\ pc'[r] = point
    <3>1. pc[r] # "new"
      BY <1>2 DEF Load
    <3> QED BY <2>1, <2>2, <3>1 DEF Goto, TypeOK, Alone, Active, Started, Untouched, Loaded
  <2>4. erased' = erased
    BY <1>2 DEF Load, ghosts
  <2>5. mem' = mem /\ (mem' # NoFile => Clean(mem)')
    BY <1>2, <2>4 DEF Load, disk, Clean
  <2>6. graph' = graph
    BY <1>2 DEF Load, disk
  <2>8. Untouched(r)'
    BY <1>2, <2>2, <2>4, <2>5, <2>6 DEF Load, Goto, TypeOK, Untouched, Loaded, Clean
  <2> QED BY <2>3, <2>4, <2>5, <2>6, <2>8
<1>3. ASSUME NEW r \in Requests, Hydrate(r) PROVE ForgetInv'
  <2>1. \A q \in Requests \ {r} : pc[q] \in {"new", "over"}
    BY <1>3, AloneMeans DEF Hydrate, TypeOK
  <2>2. PICK point \in Points : Goto(r, point) /\ point # "new"
    BY <1>3 DEF Hydrate, Points
  <2>3. /\ \A q \in Requests \ {r} : pc'[q] \in {"new", "over"} /\ Untouched(q)'
        /\ Alone' /\ Started' = Started /\ r \in Started /\ pc'[r] = point
    <3>1. pc[r] # "new"
      BY <1>3 DEF Hydrate
    <3> QED BY <2>1, <2>2, <3>1 DEF Goto, TypeOK, Alone, Active, Started, Untouched, Loaded
  <2>4. erased' = erased
    BY <1>3 DEF Hydrate, ghosts
  <2>5. mem' = mem /\ (mem' # NoFile => Clean(mem)')
    BY <1>3, <2>4 DEF Hydrate, disk, Clean
  <2>6. graph' = graph
    BY <1>3 DEF Hydrate, disk
  <2>8. Untouched(r)'
    BY <1>3, <2>2, <2>4, <2>5, <2>6 DEF Hydrate, Goto, TypeOK, Untouched, Loaded, Clean, Hydrated
  <2> QED BY <2>3, <2>4, <2>5, <2>6, <2>8
<1>4. ASSUME NEW r \in Requests, BeginTurn(r) PROVE ForgetInv'
  <2>1. \A q \in Requests \ {r} : pc[q] \in {"new", "over"}
    BY <1>4, AloneMeans DEF BeginTurn, TypeOK
  <2>2. PICK point \in Points : Goto(r, point) /\ point # "new"
    BY <1>4 DEF BeginTurn, Points
  <2>3. /\ \A q \in Requests \ {r} : pc'[q] \in {"new", "over"} /\ Untouched(q)'
        /\ Alone' /\ Started' = Started /\ r \in Started /\ pc'[r] = point
    <3>1. pc[r] # "new"
      BY <1>4 DEF BeginTurn
    <3> QED BY <2>1, <2>2, <3>1 DEF Goto, TypeOK, Alone, Active, Started, Untouched, Loaded
  <2>4. erased' = erased
    BY <1>4 DEF BeginTurn, ghosts
  <2>5. (mem' # NoFile => Clean(mem)') /\ (mem # NoFile => mem' # NoFile)
    <3>1. r \notin erased
      BY <1>4 DEF BeginTurn, Untouched, Loaded
    <3> QED BY <1>4, <2>4, <3>1, AuditIsClean DEF BeginTurn, Clean
  <2>6. graph' = graph
    BY <1>4 DEF BeginTurn
  <2>7. Clean(held'[r])
    <3>1. held[r] \in Memory /\ held'[r] \in Memory /\ r \notin erased /\ Clean(held[r])
      BY <1>4 DEF BeginTurn, TypeOK, Untouched, Loaded
    <3>2. /\ held'[r].msgs \subseteq held[r].msgs \cup {r}
          /\ held'[r].acts \subseteq held[r].acts \cup {r}
          /\ held'[r].audit = held[r].audit
      BY <1>4 DEF BeginTurn, TypeOK, Memory
    <3> QED BY <3>1, <3>2, CleanPlus
  <2>8. Untouched(r)'
    BY <1>4, <2>2, <2>4, <2>7 DEF BeginTurn, Goto, TypeOK, Untouched, Loaded, Clean, disk
  <2> QED BY <2>3, <2>4, <2>5, <2>6, <2>8
<1>5. ASSUME NEW r \in Requests, Classify(r) PROVE ForgetInv'
  <2>1. \A q \in Requests \ {r} : pc[q] \in {"new", "over"}
    BY <1>5, AloneMeans DEF Classify, TypeOK
  <2>2. PICK point \in Points : Goto(r, point) /\ point # "new"
    BY <1>5 DEF Classify, Points
  <2>3. /\ \A q \in Requests \ {r} : pc'[q] \in {"new", "over"} /\ Untouched(q)'
        /\ Alone' /\ Started' = Started /\ r \in Started /\ pc'[r] = point
    <3>1. pc[r] # "new"
      BY <1>5 DEF Classify
    <3> QED BY <2>1, <2>2, <3>1 DEF Goto, TypeOK, Alone, Active, Started, Untouched, Loaded
  <2>4. erased' = erased
    BY <1>5 DEF Classify, ghosts
  <2>5. (mem' # NoFile => Clean(mem)') /\ (mem # NoFile => mem' # NoFile)
    <3>1. r \notin erased
      BY <1>5 DEF Classify, Untouched, Loaded
    <3> QED BY <1>5, <2>4, <3>1, AuditIsClean DEF Classify, Clean
  <2>6. graph' = graph
    BY <1>5 DEF Classify
  <2>8. Untouched(r)'
    BY <1>5, <2>2, <2>4, <2>5, <2>6 DEF Classify, Goto, TypeOK, Untouched, Loaded, Clean
  <2> QED BY <2>3, <2>4, <2>5, <2>6, <2>8
<1>6. ASSUME NEW r \in Requests, Dispatch(r) PROVE ForgetInv'
  <2>1. \A q \in Requests \ {r} : pc[q] \in {"new", "over"}
    BY <1>6, AloneMeans DEF Dispatch, TypeOK
  <2>2. PICK point \in Points : Goto(r, point) /\ point # "new"
    BY <1>6 DEF Dispatch, Points
  <2>3. /\ \A q \in Requests \ {r} : pc'[q] \in {"new", "over"} /\ Untouched(q)'
        /\ Alone' /\ Started' = Started /\ r \in Started /\ pc'[r] = point
    <3>1. pc[r] # "new"
      BY <1>6 DEF Dispatch
    <3> QED BY <2>1, <2>2, <3>1 DEF Goto, TypeOK, Alone, Active, Started, Untouched, Loaded
  <2>4. erased' = erased
    BY <1>6 DEF Dispatch, ghosts
  <2>5. mem' = mem /\ (mem' # NoFile => Clean(mem)')
    BY <1>6, <2>4 DEF Dispatch, disk, Clean
  <2>6. graph' = graph
    BY <1>6 DEF Dispatch, disk
  <2>7. Clean(held'[r])
    <3>1. held[r] \in Memory /\ held'[r] \in Memory /\ r \notin erased /\ Clean(held[r])
      BY <1>6 DEF Dispatch, TypeOK, Untouched, Loaded
    <3>2. /\ held'[r].msgs \subseteq held[r].msgs \cup {r}
          /\ held'[r].acts \subseteq held[r].acts \cup {r}
          /\ held'[r].audit = held[r].audit
      BY <1>6 DEF Dispatch, TypeOK, Memory
    <3> QED BY <3>1, <3>2, CleanPlus
  <2>8. Untouched(r)'
    BY <1>6, <2>2, <2>4, <2>7 DEF Dispatch, Goto, TypeOK, Untouched, Loaded, Clean, disk
  <2> QED BY <2>3, <2>4, <2>5, <2>6, <2>8
<1>7. ASSUME NEW r \in Requests, Abandon(r) PROVE ForgetInv'
  <2>1. \A q \in Requests \ {r} : pc[q] \in {"new", "over"}
    BY <1>7, AloneMeans DEF Abandon, TypeOK
  <2>2. PICK point \in Points : Goto(r, point) /\ point # "new"
    BY <1>7 DEF Abandon, Points
  <2>3. /\ \A q \in Requests \ {r} : pc'[q] \in {"new", "over"} /\ Untouched(q)'
        /\ Alone' /\ Started' = Started /\ r \in Started /\ pc'[r] = point
    <3>1. pc[r] # "new"
      BY <1>7 DEF Abandon
    <3> QED BY <2>1, <2>2, <3>1 DEF Goto, TypeOK, Alone, Active, Started, Untouched, Loaded
  <2>4. erased' = erased
    BY <1>7 DEF Abandon, ghosts
  <2>5. mem' = mem /\ (mem' # NoFile => Clean(mem)')
    BY <1>7, <2>4 DEF Abandon, disk, Clean
  <2>6. graph' = graph
    BY <1>7 DEF Abandon, disk
  <2>8. Untouched(r)'
    BY <1>7, <2>2, <2>4, <2>5, <2>6 DEF Abandon, Goto, TypeOK, Untouched, Loaded, Clean
  <2> QED BY <2>3, <2>4, <2>5, <2>6, <2>8
<1>8. ASSUME NEW r \in Requests, AppendTurn(r) PROVE ForgetInv'
  <2>1. \A q \in Requests \ {r} : pc[q] \in {"new", "over"}
    BY <1>8, AloneMeans DEF AppendTurn, TypeOK
  <2>2. PICK point \in Points : Goto(r, point) /\ point # "new"
    BY <1>8 DEF AppendTurn, Points
  <2>3. /\ \A q \in Requests \ {r} : pc'[q] \in {"new", "over"} /\ Untouched(q)'
        /\ Alone' /\ Started' = Started /\ r \in Started /\ pc'[r] = point
    <3>1. pc[r] # "new"
      BY <1>8 DEF AppendTurn
    <3> QED BY <2>1, <2>2, <3>1 DEF Goto, TypeOK, Alone, Active, Started, Untouched, Loaded
  <2>4. erased' = erased
    BY <1>8 DEF AppendTurn, ghosts
  <2>5. mem' = mem /\ (mem' # NoFile => Clean(mem)')
    BY <1>8, <2>4 DEF AppendTurn, disk, Clean
  <2>6. graph' = graph
    BY <1>8 DEF AppendTurn, disk
  <2>7. Clean(held'[r])
    <3>1. held[r] \in Memory /\ held'[r] \in Memory /\ r \notin erased /\ Clean(held[r])
      BY <1>8 DEF AppendTurn, TypeOK, Untouched, Loaded
    <3>2. /\ held'[r].msgs \subseteq held[r].msgs \cup {r}
          /\ held'[r].acts \subseteq held[r].acts \cup {r}
          /\ held'[r].audit = held[r].audit
      BY <1>8 DEF AppendTurn, TypeOK, Memory, Counted
    <3> QED BY <3>1, <3>2, CleanPlus
  <2>8. Untouched(r)'
    BY <1>8, <2>2, <2>4, <2>7 DEF AppendTurn, Goto, TypeOK, Untouched, Loaded, Clean, disk
  <2> QED BY <2>3, <2>4, <2>5, <2>6, <2>8
<1>9. ASSUME NEW r \in Requests, Create(r) PROVE ForgetInv'
  <2>1. \A q \in Requests \ {r} : pc[q] \in {"new", "over"}
    BY <1>9, AloneMeans DEF Create, TypeOK
  <2>2. PICK point \in Points : Goto(r, point) /\ point # "new"
    BY <1>9 DEF Create, Points
  <2>3. /\ \A q \in Requests \ {r} : pc'[q] \in {"new", "over"} /\ Untouched(q)'
        /\ Alone' /\ Started' = Started /\ r \in Started /\ pc'[r] = point
    <3>1. pc[r] # "new"
      BY <1>9 DEF Create
    <3> QED BY <2>1, <2>2, <3>1 DEF Goto, TypeOK, Alone, Active, Started, Untouched, Loaded
  <2>4. erased' = erased
    BY <1>9 DEF Create, ghosts
  <2>5. mem' = mem /\ (mem' # NoFile => Clean(mem)')
    BY <1>9, <2>4 DEF Create, disk, Clean
  <2>6. graph' = graph
    BY <1>9 DEF Create, disk
  <2>8. Untouched(r)'
    BY <1>9, <2>2, <2>4, <2>5, <2>6 DEF Create, Goto, TypeOK, Untouched, Loaded, Clean
  <2> QED BY <2>3, <2>4, <2>5, <2>6, <2>8
<1>10. ASSUME NEW r \in Requests, SaveMem(r) PROVE ForgetInv'
  <2>1. \A q \in Requests \ {r} : pc[q] \in {"new", "over"}
    BY <1>10, AloneMeans DEF SaveMem, TypeOK
  <2>2. PICK point \in Points : Goto(r, point) /\ point # "new"
    BY <1>10 DEF SaveMem, AfterMem, Points
  <2>3. /\ \A q \in Requests \ {r} : pc'[q] \in {"new", "over"} /\ Untouched(q)'
        /\ Alone' /\ Started' = Started /\ r \in Started /\ pc'[r] = point
    <3>1. pc[r] # "new"
      BY <1>10 DEF SaveMem
    <3> QED BY <2>1, <2>2, <3>1 DEF Goto, TypeOK, Alone, Active, Started, Untouched, Loaded
  <2>4. erased' = erased
    BY <1>10 DEF SaveMem, ghosts
  <2>5. mem' # NoFile => Clean(mem)'
    BY <1>10, <2>4 DEF SaveMem, Untouched, Loaded, Clean
  <2>6. graph' = graph
    BY <1>10 DEF SaveMem
  <2>8. Untouched(r)'
    BY <1>10, <2>2, <2>4, <2>5, <2>6 DEF SaveMem, Goto, TypeOK, Untouched, Loaded, Clean, AfterMem
  <2> QED BY <2>3, <2>4, <2>5, <2>6, <2>8
<1>11. ASSUME NEW r \in Requests, SaveGraph(r) PROVE ForgetInv'
  <2>1. \A q \in Requests \ {r} : pc[q] \in {"new", "over"}
    BY <1>11, AloneMeans DEF SaveGraph, TypeOK
  <2>2. PICK point \in Points : Goto(r, point) /\ point # "new"
    BY <1>11 DEF SaveGraph, Points
  <2>3. /\ \A q \in Requests \ {r} : pc'[q] \in {"new", "over"} /\ Untouched(q)'
        /\ Alone' /\ Started' = Started /\ r \in Started /\ pc'[r] = point
    <3>1. pc[r] # "new"
      BY <1>11 DEF SaveGraph
    <3> QED BY <2>1, <2>2, <3>1 DEF Goto, TypeOK, Alone, Active, Started, Untouched, Loaded
  <2>4. erased' = erased
    BY <1>11 DEF SaveGraph, ghosts
  <2>5. mem' # NoFile => Clean(mem)'
    BY <1>11, <2>4 DEF SaveGraph, Clean
  <2>6. erased \cap graph' = {}
    BY <1>11 DEF SaveGraph, Untouched, Loaded
  <2>8. Untouched(r)'
    BY <1>11, <2>2, <2>4, <2>5, <2>6 DEF SaveGraph, Goto, TypeOK, Untouched, Loaded, Clean
  <2> QED BY <2>3, <2>4, <2>5, <2>6, <2>8
<1>12. ASSUME NEW r \in Requests, WriteFails(r) PROVE ForgetInv'
  <2>1. \A q \in Requests \ {r} : pc[q] \in {"new", "over"}
    BY <1>12, AloneMeans DEF WriteFails, TypeOK
  <2>2. PICK point \in Points : Goto(r, point) /\ point # "new"
    BY <1>12 DEF WriteFails, Points
  <2>3. /\ \A q \in Requests \ {r} : pc'[q] \in {"new", "over"} /\ Untouched(q)'
        /\ Alone' /\ Started' = Started /\ r \in Started /\ pc'[r] = point
    <3>1. pc[r] # "new"
      BY <1>12 DEF WriteFails
    <3> QED BY <2>1, <2>2, <3>1 DEF Goto, TypeOK, Alone, Active, Started, Untouched, Loaded
  <2>4. erased' = erased
    BY <1>12 DEF WriteFails, ghosts
  <2>5. mem' = mem /\ (mem' # NoFile => Clean(mem)')
    BY <1>12, <2>4 DEF WriteFails, disk, Clean
  <2>6. graph' = graph
    BY <1>12 DEF WriteFails, disk
  <2>8. Untouched(r)'
    BY <1>12, <2>2, <2>4, <2>5, <2>6 DEF WriteFails, Goto, TypeOK, Untouched, Loaded, Clean
  <2> QED BY <2>3, <2>4, <2>5, <2>6, <2>8
<1>13. ASSUME NEW r \in Requests, Finish(r) PROVE ForgetInv'
  <2>1. \A q \in Requests \ {r} : pc[q] \in {"new", "over"}
    BY <1>13, AloneMeans DEF Finish, TypeOK
  <2>2. PICK point \in Points : Goto(r, point) /\ point # "new"
    BY <1>13 DEF Finish, Points
  <2>3. /\ \A q \in Requests \ {r} : pc'[q] \in {"new", "over"} /\ Untouched(q)'
        /\ Alone' /\ Started' = Started /\ r \in Started /\ pc'[r] = point
    <3>1. pc[r] # "new"
      BY <1>13 DEF Finish
    <3> QED BY <2>1, <2>2, <3>1 DEF Goto, TypeOK, Alone, Active, Started, Untouched, Loaded
  <2>4. erased' = erased
    BY <1>13 DEF Finish, ghosts
  <2>5. (mem' # NoFile => Clean(mem)') /\ (mem # NoFile => mem' # NoFile)
    <3>1. r \notin erased
      BY <1>13 DEF Finish, Untouched, Loaded
    <3> QED BY <1>13, <2>4, <3>1, AuditIsClean DEF Finish, Clean
  <2>6. graph' = graph
    BY <1>13 DEF Finish
  <2>8. Untouched(r)'
    BY <1>13, <2>2, <2>4, <2>5, <2>6 DEF Finish, Goto, TypeOK, Untouched, Loaded, Clean
  <2> QED BY <2>3, <2>4, <2>5, <2>6, <2>8
<1>14. ASSUME NEW r \in Requests, UnlinkMem(r) PROVE ForgetInv'
  <2>1. \A q \in Requests \ {r} : pc[q] \in {"new", "over"}
    BY <1>14, AloneMeans DEF UnlinkMem, TypeOK
  <2>2. PICK point \in Points : Goto(r, point) /\ point # "new"
    BY <1>14 DEF UnlinkMem, Points
  <2>3. /\ \A q \in Requests \ {r} : pc'[q] \in {"new", "over"} /\ Untouched(q)'
        /\ Alone' /\ Started' = Started /\ r \in Started /\ pc'[r] = point
    <3>1. pc[r] # "new"
      BY <1>14 DEF UnlinkMem
    <3> QED BY <2>1, <2>2, <3>1 DEF Goto, TypeOK, Alone, Active, Started, Untouched, Loaded
  <2>4. erased' = erased
    BY <1>14 DEF UnlinkMem, ghosts
  <2>5. mem' = NoFile
    BY <1>14 DEF UnlinkMem, Fault
  <2>6. graph' = graph
    BY <1>14 DEF UnlinkMem
  <2>8. Untouched(r)'
    BY <1>14, <2>2, <2>4, <2>5, <2>6 DEF UnlinkMem, Goto, TypeOK, Untouched, Loaded, Clean
  <2> QED BY <2>3, <2>4, <2>5, <2>6, <2>8
<1>15. ASSUME NEW r \in Requests, UnlinkGraph(r) PROVE ForgetInv'
  <2>1. \A q \in Requests \ {r} : pc[q] \in {"new", "over"}
    BY <1>15, AloneMeans DEF UnlinkGraph, UnlinkGraphLeaving, TypeOK
  <2>2. PICK point \in Points : Goto(r, point) /\ point # "new"
    BY <1>15 DEF UnlinkGraph, UnlinkGraphLeaving, Points
  <2>3. /\ \A q \in Requests \ {r} : pc'[q] \in {"new", "over"} /\ Untouched(q)'
        /\ Alone' /\ Started' = Started /\ r \in Started /\ pc'[r] = point
    <3>1. pc[r] # "new"
      BY <1>15 DEF UnlinkGraph, UnlinkGraphLeaving
    <3> QED BY <2>1, <2>2, <3>1 DEF Goto, TypeOK, Alone, Active, Started, Untouched, Loaded
  <2>4. mem' = NoFile /\ graph' = NoFile
    BY <1>15 DEF UnlinkGraph, UnlinkGraphLeaving, Fault, Untouched
  <2>5. erased' = Started /\ pc'[r] = "over"
    BY <1>15, <2>3 DEF UnlinkGraph, UnlinkGraphLeaving, Goto, TypeOK
  <2> QED BY <2>3, <2>4, <2>5 DEF Untouched, Loaded
<1>16. CASE Crash
  <2>1. \A q \in Requests : pc'[q] \in {"new", "over"} /\ (pc'[q] = "new" <=> pc[q] = "new")
    BY <1>16 DEF Crash, Active, TypeOK
  <2>2. Alone' /\ Started' = Started /\ \A q \in Requests : Untouched(q)'
    BY <2>1 DEF Alone, Active, Started, Untouched, Loaded
  <2> QED BY <1>16, <2>2 DEF Crash, disk, ghosts, Clean
<1>17. CASE UNCHANGED vars
  BY <1>17 DEF vars, Alone, Active, Started, Untouched, Clean
<1> QED
  BY <1>0, <1>1, <1>2, <1>3, <1>4, <1>5, <1>6, <1>7, <1>8, <1>9, <1>10, <1>11, <1>12, <1>13, <1>14, <1>15, <1>16, <1>17 DEF Next, Step

\* When files can be removed and the clients wait for each other, no file holds
\* anything of a request that a DELETE which returned came after.
THEOREM ForgottenHolds ==
  ASSUME Serial, "unlink" \notin Faults
  PROVE  Spec => []Forgotten
<1>1. Init => ForgetInv
  BY DEF Init, ForgetInv, Alone, Active, Started, Untouched, Loaded
<1>2. ForgetInv => Forgotten
  BY DEF ForgetInv, Forgotten, Owners, Clean
<1>3. TypeOK /\ TypeOK' /\ ForgetInv /\ [Next]_vars => ForgetInv'
  BY ForgetStep
<1> QED BY <1>1, <1>2, <1>3, TypeCorrect, PTL DEF Spec

-----------------------------------------------------------------------------
(* The knowledge graph.  A request that is alone writes back what it read,   *)
(* and its own triples.                                                      *)

\* Where a request holds the graph it read or made.
HoldsGraph == {"loaded", "classify", "dispatch", "save", "saveGraph"}

\* Until a DELETE begins, a graph is a session's that exists, and a request behind its load
\* holds all of it.
GrowInv ==
  /\ \A r \in Requests :
       /\ pc[r] = "new" => kind[r] = "message"
       /\ pc[r] \in {"unlinkMem", "unlinkGraph"} => kind[r] = "delete"
  /\ NoDelete /\ graph # NoFile =>
       mem # NoFile /\ \A r \in Requests : pc[r] \in HoldsGraph => graph \subseteq kg[r]
  /\ NoDelete => \A r \in Requests : pc[r] = "saveGraph" => mem # NoFile

\* An append of AuditHook never takes the file away.
LEMMA AuditLeavesFile ==
  ASSUME NEW e, AuditAppend(e), TypeOK, e \in AuditEvents
  PROVE  mem # NoFile => mem' # NoFile
BY AuditKeeps

\* Every step keeps that, and takes nothing out of the graph.
LEMMA GrowStep ==
  ASSUME Serial, "hydrate" \notin Faults, GrowInv, LogInv, [Next]_vars
  PROVE  GrowInv' /\ (NoDelete /\ graph # NoFile => graph' # NoFile /\ graph \subseteq graph')
<1> USE SessionStoreAssumption DEF GrowInv, Goto, NoDelete, HoldsGraph, disk, ghosts
<1> DEFINE Grown == NoDelete /\ graph # NoFile => graph' # NoFile /\ graph \subseteq graph'
<1>a. TypeOK /\ Alone
  BY DEF LogInv
<1>b. /\ pc \in [Requests -> Points] /\ kind \in [Requests -> Kinds] /\ kg \in [Requests -> SUBSET Requests]
      /\ graph \in {NoFile} \cup SUBSET Requests
  BY <1>a DEF TypeOK
<1>0. ASSUME NEW r \in Requests, NEW k \in Kinds, Arrive(r, k) PROVE GrowInv' /\ Grown
  BY <1>0, <1>b DEF Arrive
<1>1. ASSUME NEW r \in Requests, Exists(r) PROVE GrowInv' /\ Grown
  BY <1>1, <1>b DEF Exists, Found
<1>2. ASSUME NEW r \in Requests, Load(r) PROVE GrowInv' /\ Grown
  BY <1>2, <1>b DEF Load
<1>3. ASSUME NEW r \in Requests, Hydrate(r) PROVE GrowInv' /\ Grown
  <2>1. kg' = [kg EXCEPT ![r] = Hydrated]
    BY <1>3 DEF Hydrate, Fault
  <2> QED BY <1>3, <1>b, <2>1 DEF Hydrate, Hydrated
<1>4. ASSUME NEW r \in Requests, BeginTurn(r) PROVE GrowInv' /\ Grown
  <2>1. mem # NoFile => mem' # NoFile
    BY <1>4, <1>a, AuditLeavesFile, EventOfRequest DEF BeginTurn
  <2> QED BY <1>4, <1>b, <2>1 DEF BeginTurn
<1>5. ASSUME NEW r \in Requests, Classify(r) PROVE GrowInv' /\ Grown
  <2>1. mem # NoFile => mem' # NoFile
    BY <1>5, <1>a, AuditLeavesFile, EventOfRequest DEF Classify
  <2> QED BY <1>5, <1>b, <2>1 DEF Classify
<1>6. ASSUME NEW r \in Requests, Dispatch(r) PROVE GrowInv' /\ Grown
  BY <1>6, <1>b DEF Dispatch
<1>7. ASSUME NEW r \in Requests, Abandon(r) PROVE GrowInv' /\ Grown
  BY <1>7, <1>b DEF Abandon
<1>8. ASSUME NEW r \in Requests, AppendTurn(r) PROVE GrowInv' /\ Grown
  BY <1>8, <1>b DEF AppendTurn
<1>9. ASSUME NEW r \in Requests, Create(r) PROVE GrowInv' /\ Grown
  BY <1>9, <1>b DEF Create
<1>10. ASSUME NEW r \in Requests, SaveMem(r) PROVE GrowInv' /\ Grown
  <2>1. mem' # NoFile
    BY <1>10, <1>a DEF SaveMem, TypeOK
  <2> QED BY <1>10, <1>b, <2>1 DEF SaveMem, AfterMem
<1>11. ASSUME NEW r \in Requests, SaveGraph(r) PROVE GrowInv' /\ Grown
  <2>1. \A q \in Requests \ {r} : pc[q] \in {"new", "over"}
    BY <1>11, <1>a, <1>b, AloneMeans DEF SaveGraph
  <2>2. graph' = kg[r] /\ graph' # NoFile /\ mem' = mem
    BY <1>11, <1>b DEF SaveGraph
  <2> QED BY <1>11, <1>b, <2>1, <2>2 DEF SaveGraph
<1>12. ASSUME NEW r \in Requests, WriteFails(r) PROVE GrowInv' /\ Grown
  BY <1>12, <1>b DEF WriteFails
<1>13. ASSUME NEW r \in Requests, Finish(r) PROVE GrowInv' /\ Grown
  <2>1. mem # NoFile => mem' # NoFile
    BY <1>13, <1>a, AuditLeavesFile, EventOfRequest DEF Finish
  <2> QED BY <1>13, <1>b, <2>1 DEF Finish
<1>14. ASSUME NEW r \in Requests, UnlinkMem(r) PROVE GrowInv' /\ Grown
  BY <1>14, <1>b DEF UnlinkMem
<1>15. ASSUME NEW r \in Requests, UnlinkGraph(r) PROVE GrowInv' /\ Grown
  BY <1>15, <1>b DEF UnlinkGraph, UnlinkGraphLeaving
<1>16. CASE Crash
  BY <1>16, <1>b DEF Crash, Active
<1>17. CASE UNCHANGED vars
  BY <1>17 DEF vars
<1> QED
  BY <1>0, <1>1, <1>2, <1>3, <1>4, <1>5, <1>6, <1>7, <1>8, <1>9, <1>10, <1>11, <1>12, <1>13, <1>14, <1>15, <1>16, <1>17 DEF Next, Step

\* When the clients of a session wait for each other and a stored graph can be read back, no
\* save drops a triple of an earlier turn from graph.ttl until a DELETE begins, whatever
\* crashes, fails or is abandoned between the two writes of a save.
THEOREM GraphGrowsHolds ==
  ASSUME Serial, "hydrate" \notin Faults
  PROVE  Spec => GraphGrows
<1>1. Init => GrowInv
  BY SessionStoreAssumption DEF Init, GrowInv, HoldsGraph
<1>2. GrowInv /\ LogInv /\ [Next]_vars =>
        GrowInv' /\ [NoDelete /\ graph # NoFile => graph' # NoFile /\ graph \subseteq graph']_vars
  BY GrowStep
<1> QED BY <1>1, <1>2, LogInvariant, PTL DEF Spec, GraphGrows

-----------------------------------------------------------------------------
(***************************************************************************)
(* Numbers and sums.                                                       *)
(***************************************************************************)

NatOrder == {p \in Nat \X Nat : p[1] < p[2]}

\* A set of naturals with a member has a least one.
LEMMA LeastNatural ==
  ASSUME NEW T, T \subseteq Nat, T # {}
  PROVE  \E m \in T : \A n \in T : m <= n
<1>1. IsWellFoundedOn(NatOrder, Nat) BY NatLessThanWellFounded DEF NatOrder, OpToRel
<1>2. PICK m \in T : \A n \in T : ~ (<<n, m>> \in NatOrder) BY <1>1, WFMin
<1>3. ASSUME NEW n \in T PROVE m <= n
  <2>1. <<n, m>> \in Nat \X Nat /\ <<n, m>>[1] = n /\ <<n, m>>[2] = m OBVIOUS
  <2>2. ~ (n < m) BY <1>2, <2>1 DEF NatOrder
  <2>3. QED BY <2>2
<1>4. QED BY <1>3

\* So it has a minimum.
LEMMA MinOfNaturals ==
  ASSUME NEW T, T \subseteq Nat, T # {}
  PROVE  Min(T) \in T /\ \A n \in T : Min(T) <= n
BY LeastNatural DEF Min

\* A set of numbers up to a bound with a member has a greatest one.
LEMMA MaxOfNaturals ==
  ASSUME NEW N \in Nat, NEW T, T \subseteq 0..N, T # {}
  PROVE  Max(T) \in T /\ \A n \in T : n <= Max(T)
<1> DEFINE U == {n \in Nat : N - n \in T}
<1>1. U # {} /\ U \subseteq Nat
  <2>1. PICK x \in T : TRUE OBVIOUS
  <2>2. N - x \in U /\ N - (N - x) = x OBVIOUS
  <2>3. QED BY <2>2
<1>2. PICK m \in U : \A n \in U : m <= n BY <1>1, LeastNatural
<1>3. N - m \in T OBVIOUS
<1>4. ASSUME NEW x \in T PROVE x <= N - m
  <2>1. N - x \in U
    <3>1. N - (N - x) = x /\ N - x \in Nat OBVIOUS
    <3>2. QED BY <3>1
  <2>2. QED BY <1>2, <2>1
<1>5. QED BY <1>3, <1>4 DEF Max

\* The sum of w over S, the partial sums that it is put together from, and which member is next.
SumOver(w, S) == MapThenSumSet(LAMBDA x : w[x], S)
NextOf(s) == CHOOSE x \in s : TRUE
Adds(w, S, h) == h = [s \in SUBSET S |-> IF s = {} THEN 0 ELSE w[NextOf(s)] + h[s \ {NextOf(s)}]]
SumsExist(w, S) == \E h : Adds(w, S, h) /\ h \in [SUBSET S -> Nat]

\* The next member is a member.
LEMMA NextIn == \A s : s # {} => NextOf(s) \in s
BY DEF NextOf

\* A set without one of its members.
LEMMA LessOne ==
  ASSUME NEW s, IsFiniteSet(s), NEW x \in s
  PROVE  IsFiniteSet(s \ {x}) /\ Cardinality(s) \in Nat /\ Cardinality(s) > 0
         /\ Cardinality(s \ {x}) = Cardinality(s) - 1
<1>1. IsFiniteSet(s \ {x}) /\ Cardinality(s \ {x}) = Cardinality(s) - 1
  BY FS_RemoveElement
<1>2. Cardinality(s) \in Nat /\ Cardinality(s \ {x}) \in Nat
  BY <1>1, FS_CardinalityType
<1> QED  BY <1>1, <1>2

\* The partial sums of a finite set exist: a table of them up to any size can be carried
\* one size further.
LEMMA PartialSums ==
  ASSUME NEW w, NEW S, IsFiniteSet(S), \A x \in S : w[x] \in Nat
  PROVE  SumsExist(w, S)
<1> DEFINE Small(m) == {s \in SUBSET S : Cardinality(s) <= m}
           Right(m, h) == /\ h \in [Small(m) -> Nat]
                          /\ \A s \in Small(m) :
                               h[s] = IF s = {} THEN 0 ELSE w[NextOf(s)] + h[s \ {NextOf(s)}]
           N == Cardinality(S)
           T == {m \in 0..N : ~ \E h : Right(m, h)}
<1>1. N \in Nat /\ \A s \in SUBSET S : IsFiniteSet(s) /\ Cardinality(s) \in 0..N
  BY FS_CardinalityType, FS_Subset
<1>2. ASSUME T # {} PROVE FALSE
  <2>1. T \subseteq Nat
    OBVIOUS
  <2> HIDE DEF Right
  <2>2. PICK m \in T : \A k \in T : m <= k
    BY <1>2, <2>1, LeastNatural
  <2>3. m \in 0..N /\ ~ \E h : Right(m, h)
    OBVIOUS
  <2>4. m # 0
    <3>1. ASSUME NEW s \in Small(0) PROVE s = {}
      BY <1>1, FS_EmptySet
    <3>2. {} \in Small(0)
      BY FS_EmptySet
    <3>3. Right(0, [s \in Small(0) |-> 0])
      BY <3>1, <3>2 DEF Right
    <3> QED BY <2>3, <3>3
  <2>5. m - 1 \in 0..N /\ m - 1 \notin T
    BY <1>1, <2>2, <2>3, <2>4
  <2>6. PICK h : Right(m - 1, h)
    BY <2>5
  <2>7. ASSUME NEW s \in Small(m), s # {}
        PROVE  s \ {NextOf(s)} \in Small(m - 1) /\ NextOf(s) \in S
    <3>1. NextOf(s) \in s /\ IsFiniteSet(s)
      BY <1>1, <2>7, NextIn
    <3>2. Cardinality(s \ {NextOf(s)}) = Cardinality(s) - 1 /\ Cardinality(s) \in Nat
      BY <3>1, LessOne
    <3> QED BY <2>3, <3>1, <3>2
  <2> DEFINE g == [s \in Small(m) |-> IF s = {} THEN 0 ELSE w[NextOf(s)] + h[s \ {NextOf(s)}]]
  <2>8. \A s \in Small(m - 1) : s \in Small(m)
    BY <1>1, <2>3
  <2>9. g \in [Small(m) -> Nat]
    <3>1. ASSUME NEW s \in Small(m), s # {} PROVE w[NextOf(s)] + h[s \ {NextOf(s)}] \in Nat
      BY <2>6, <2>7, <3>1 DEF Right
    <3> HIDE DEF Small
    <3> QED BY <3>1
  <2>10. \A s \in Small(m - 1) : g[s] = h[s]
    <3> HIDE DEF Small
    <3> QED BY <2>6, <2>8 DEF Right
  <2>11. \A s \in Small(m) : g[s] = IF s = {} THEN 0 ELSE w[NextOf(s)] + g[s \ {NextOf(s)}]
    <3> HIDE DEF Small
    <3> QED BY <2>7, <2>10
  <2>12. Right(m, g)
    <3> HIDE DEF Small, g
    <3> QED BY <2>9, <2>11 DEF Right
  <2> QED  BY <2>3, <2>12
<1>3. N \in 0..N /\ N \notin T
  <2> HIDE DEF T
  <2> QED  BY <1>1, <1>2
<1>4. PICK h : Right(N, h)
  BY <1>3
<1>5. Small(N) = SUBSET S
  BY <1>1
<1>6. Adds(w, S, h)
  <2> HIDE DEF Small
  <2>1. h = [s \in SUBSET S |-> h[s]]
    BY <1>4, <1>5
  <2> QED  BY <1>4, <1>5, <2>1 DEF Adds
<1> QED  BY <1>4, <1>5, <1>6 DEF SumsExist

\* The fold takes such a table, and the sum is its last entry.
LEMMA SumIs ==
  ASSUME NEW w, NEW S, IsFiniteSet(S), \A x \in S : w[x] \in Nat
  PROVE  \E h : Adds(w, S, h) /\ SumOver(w, S) = h[S]
<1>1. PICK g : Adds(w, S, g)
  BY PartialSums DEF SumsExist
<1> DEFINE h == CHOOSE f : Adds(w, S, f)
<1>2. Adds(w, S, h)
  BY <1>1
<1>3. SumOver(w, S) = h[S]
  BY DEF SumOver, MapThenSumSet, MapThenFoldSet, Adds, NextOf
<1> QED  BY <1>2, <1>3

\* Partial sums of two sums agree wherever both are defined.
LEMMA SumsAgree ==
  ASSUME NEW w, NEW S, NEW h, Adds(w, S, h), NEW v, NEW T, NEW g, Adds(v, T, g),
         NEW R, R \subseteq S, R \subseteq T, IsFiniteSet(R), \A x \in R : w[x] = v[x]
  PROVE  h[R] = g[R]
<1> DEFINE Bad == {k \in 0..Cardinality(R) : \E s \in SUBSET R : Cardinality(s) = k /\ h[s] # g[s]}
<1>1. ASSUME Bad # {} PROVE FALSE
  <2>1. Bad \subseteq Nat
    OBVIOUS
  <2>2. PICK m \in Bad : \A k \in Bad : m <= k
    BY <1>1, <2>1, LeastNatural
  <2>3. PICK s \in SUBSET R : Cardinality(s) = m /\ h[s] # g[s]
    BY <2>2
  <2>4. IsFiniteSet(s) /\ s \in SUBSET S /\ s \in SUBSET T
    BY FS_Subset
  <2>5. s # {}
    BY <2>3, <2>4 DEF Adds
  <2> DEFINE x == NextOf(s)
             r == s \ {x}
  <2>6. x \in s
    BY <2>5, NextIn
  <2>7. h[s] = w[x] + h[r] /\ g[s] = v[x] + g[r]
    BY <2>4, <2>5 DEF Adds
  <2>8. w[x] = v[x]
    BY <2>6
  <2>9. r \in SUBSET R /\ Cardinality(r) = m - 1 /\ m \in 0..Cardinality(R) /\ m > 0
    BY <2>3, <2>4, <2>6, LessOne
  <2>10. m - 1 \notin Bad /\ m - 1 \in 0..Cardinality(R)
    <3>1. Cardinality(R) \in Nat
      BY FS_CardinalityType
    <3>2. m - 1 \in 0..Cardinality(R) /\ ~ (m <= m - 1)
      BY <2>9, <3>1
    <3> HIDE DEF Bad
    <3> QED BY <2>2, <3>2
  <2>11. h[r] = g[r]
    BY <2>9, <2>10
  <2> QED  BY <2>3, <2>7, <2>8, <2>11
<1>2. Cardinality(R) \in Nat
  BY FS_CardinalityType
<1>3. Cardinality(R) \in 0..Cardinality(R) /\ Cardinality(R) \notin Bad
  <2> HIDE DEF Bad
  <2> QED  BY <1>1, <1>2
<1> QED  BY <1>3

\* A sum of naturals is a natural.
LEMMA SumNat ==
  ASSUME NEW w, NEW S, IsFiniteSet(S), \A x \in S : w[x] \in Nat
  PROVE  SumOver(w, S) \in Nat
<1>1. PICK h : Adds(w, S, h) /\ SumOver(w, S) = h[S]
  BY SumIs
<1>2. PICK g : Adds(w, S, g) /\ g \in [SUBSET S -> Nat]
  BY PartialSums DEF SumsExist
<1>3. h[S] = g[S]
  BY <1>1, <1>2, SumsAgree
<1> QED  BY <1>1, <1>2, <1>3

\* It depends on the summands only.
LEMMA SumEqual ==
  ASSUME NEW w, NEW v, NEW S, IsFiniteSet(S), \A x \in S : w[x] \in Nat /\ w[x] = v[x]
  PROVE  SumOver(w, S) = SumOver(v, S)
<1>1. PICK h : Adds(w, S, h) /\ SumOver(w, S) = h[S]
  BY SumIs
<1>2. PICK g : Adds(v, S, g) /\ SumOver(v, S) = g[S]
  BY SumIs
<1> QED  BY <1>1, <1>2, SumsAgree

\* Nothing sums to nothing.
LEMMA SumEmpty == \A w : SumOver(w, {}) = 0
<1>1. SUFFICES ASSUME NEW w PROVE SumOver(w, {}) = 0
  OBVIOUS
<1>2. PICK h : Adds(w, {}, h) /\ SumOver(w, {}) = h[{}]
  BY SumIs, FS_EmptySet
<1> QED  BY <1>2 DEF Adds

\* The sum, taken at the next member.
LEMMA SumNext ==
  ASSUME NEW w, NEW S, IsFiniteSet(S), \A x \in S : w[x] \in Nat, S # {}
  PROVE  SumOver(w, S) = w[NextOf(S)] + SumOver(w, S \ {NextOf(S)})
<1> DEFINE R == S \ {NextOf(S)}
<1>1. PICK h : Adds(w, S, h) /\ SumOver(w, S) = h[S]
  BY SumIs
<1>2. IsFiniteSet(R) /\ R \subseteq S
  BY FS_Subset
<1>3. PICK g : Adds(w, R, g) /\ SumOver(w, R) = g[R]
  BY <1>2, SumIs
<1>4. h[R] = g[R]
  BY <1>1, <1>2, <1>3, SumsAgree
<1>5. h[S] = w[NextOf(S)] + h[R]
  BY <1>1 DEF Adds
<1> QED  BY <1>1, <1>3, <1>4, <1>5

\* The sum, taken at any member: the order of the summands does not matter.
LEMMA SumPlus ==
  ASSUME NEW w, NEW S, IsFiniteSet(S), \A x \in S : w[x] \in Nat, NEW y \in S
  PROVE  SumOver(w, S) = w[y] + SumOver(w, S \ {y})
<1> DEFINE SplitsOff(s, x) == SumOver(w, s) = w[x] + SumOver(w, s \ {x})
           Bad == {k \in 0..Cardinality(S) : \E s \in SUBSET S : Cardinality(s) = k /\ \E x \in s : ~SplitsOff(s, x)}
<1>1. ASSUME Bad # {} PROVE FALSE
  <2>1. Bad \subseteq Nat
    OBVIOUS
  <2>2. PICK m \in Bad : \A k \in Bad : m <= k
    BY <1>1, <2>1, LeastNatural
  <2>3. PICK s \in SUBSET S : Cardinality(s) = m /\ \E x \in s : ~SplitsOff(s, x)
    BY <2>2
  <2>4. PICK x \in s : ~SplitsOff(s, x)
    BY <2>3
  <2> DEFINE c == NextOf(s)
  <2>5. IsFiniteSet(s) /\ s # {} /\ c \in s
    BY NextIn, FS_Subset
  <2>6. SumOver(w, s) = w[c] + SumOver(w, s \ {c})
    BY <2>5, SumNext
  <2>7. x # c
    BY <2>4, <2>6
  <2>8. ASSUME NEW y1 \in s, NEW z \in s, y1 # z
        PROVE  SumOver(w, s \ {y1}) = w[z] + SumOver(w, (s \ {y1}) \ {z})
    <3> DEFINE r == s \ {y1}
    <3>1. r \in SUBSET S /\ z \in r /\ Cardinality(r) = m - 1 /\ m \in 0..Cardinality(S) /\ m > 0
      BY <2>3, <2>5, <2>8, LessOne
    <3>2. m - 1 \in 0..Cardinality(S) /\ ~ (m <= m - 1)
      BY <3>1, FS_CardinalityType
    <3>3. m - 1 \notin Bad
      <4> HIDE DEF Bad
      <4> QED BY <2>2, <3>2
    <3>4. SplitsOff(r, z)
      <4> HIDE DEF r, SplitsOff
      <4> QED BY <3>1, <3>2, <3>3
    <3> QED BY <3>4
  <2>9. (s \ {c}) \ {x} = (s \ {x}) \ {c}
    OBVIOUS
  <2>10. IsFiniteSet((s \ {c}) \ {x}) /\ \A z \in (s \ {c}) \ {x} : w[z] \in Nat
    BY <2>5, FS_Subset
  <2> DEFINE rest == SumOver(w, (s \ {c}) \ {x})
  <2>11. rest \in Nat
    BY <2>10, SumNat
  <2>12. SumOver(w, s \ {c}) = w[x] + rest /\ SumOver(w, s \ {x}) = w[c] + rest
    <3> HIDE DEF c
    <3> QED BY <2>5, <2>7, <2>8, <2>9
  <2>13. w[x] \in Nat /\ w[c] \in Nat
    BY <2>5
  <2>14. SumOver(w, s) = w[x] + SumOver(w, s \ {x})
    <3> HIDE DEF c, rest
    <3> QED BY <2>6, <2>11, <2>12, <2>13
  <2> QED  BY <2>4, <2>14
<1>2. Cardinality(S) \in 0..Cardinality(S) /\ Cardinality(S) \notin Bad
  <2>1. Cardinality(S) \in Nat
    BY FS_CardinalityType
  <2> HIDE DEF Bad
  <2> QED  BY <1>1, <2>1
<1>3. SplitsOff(S, y)
  <2> HIDE DEF SplitsOff
  <2> QED  BY <1>2
<1> QED  BY <1>3

-----------------------------------------------------------------------------
(***************************************************************************)
(* What a turn of AgentLoop tells: its spans and its usage.                *)
(***************************************************************************)

\* The stack of a collector goes from one to another over what it collects.
SpanNames == Spans \cup {"none"}
Leads(from, es, to) ==
  \E P : /\ P \in [0..Len(es) -> Seq(SpanNames)] /\ P[0] = from /\ P[Len(es)] = to
         /\ \A k \in 1..Len(es) : P[k] = Stacked(P[k - 1], es[k])

\* A run of stacks over a record ends in its open spans.
LEMMA OpenSpansAre ==
  ASSUME NEW es \in Seq(Events), NEW to, Leads(<<>>, es, to) PROVE OpenSpans(es) = to
<1> DEFINE Same(h) == h = [k \in 0..Len(es) |-> IF k = 0 THEN <<>> ELSE Stacked(h[k - 1], es[k])]
           h1 == CHOOSE h : Same(h)
<1>0. Len(es) \in Nat
  OBVIOUS
<1>1. PICK P : /\ P \in [0..Len(es) -> Seq(SpanNames)] /\ P[0] = <<>> /\ P[Len(es)] = to
               /\ \A k \in 1..Len(es) : P[k] = Stacked(P[k - 1], es[k])
  BY DEF Leads
<1>2. Same(P)
  <2>1. \A k \in 0..Len(es) : P[k] = IF k = 0 THEN <<>> ELSE Stacked(P[k - 1], es[k])
    BY <1>0, <1>1
  <2>2. P = [k \in 0..Len(es) |-> P[k]]
    BY <1>1
  <2> QED  BY <2>1, <2>2
<1>3. Same(h1)
  <2> HIDE DEF Same
  <2> QED  BY <1>2
<1>4. OpenSpans(es) = h1[Len(es)]
  BY DEF OpenSpans
<1> HIDE DEF h1
<1>5. h1[0] = <<>> /\ \A k \in 1..Len(es) : h1[k] = Stacked(h1[k - 1], es[k])
  BY <1>0, <1>3
<1> HIDE DEF Same
<1>6. \A k \in 0..Len(es) : h1[k] = P[k]
  <2> DEFINE T == {k \in 0..Len(es) : h1[k] # P[k]}
  <2>1. ASSUME T # {} PROVE FALSE
    <3>1. T \subseteq Nat
      BY <1>0
    <3>2. PICK l \in T : \A k \in T : l <= k
      BY <2>1, <3>1, LeastNatural
    <3>3. l # 0
      BY <1>1, <1>5
    <3>4. l - 1 \in 0..Len(es) /\ ~ (l <= l - 1) /\ l \in 1..Len(es)
      BY <1>0, <3>3
    <3>5. h1[l - 1] = P[l - 1]
      BY <3>2, <3>4
    <3>6. h1[l] = P[l]
      <4> HIDE DEF T
      <4> QED  BY <1>1, <1>5, <3>4, <3>5
    <3> QED  BY <3>6
  <2> QED  BY <2>1
<1> QED  BY <1>0, <1>1, <1>4, <1>6

\* Runs of stacks are joined as the records are.
LEMMA LeadsConcat ==
  ASSUME NEW es \in Seq(Events), NEW fs \in Seq(Events), NEW x, NEW y, NEW z, Leads(x, es, y), Leads(y, fs, z)
  PROVE  Leads(x, es \o fs, z)
<1> DEFINE both == es \o fs
           m == Len(es)
           l == Len(fs)
<1>1. /\ Len(both) = m + l /\ m \in Nat /\ l \in Nat
      /\ \A i \in 1..(m + l) : both[i] = IF i <= m THEN es[i] ELSE fs[i - m]
  BY ConcatProperties
<1>2. PICK P : /\ P \in [0..m -> Seq(SpanNames)] /\ P[0] = x /\ P[m] = y
               /\ \A k \in 1..m : P[k] = Stacked(P[k - 1], es[k])
  BY DEF Leads
<1>3. PICK R : /\ R \in [0..l -> Seq(SpanNames)] /\ R[0] = y /\ R[l] = z
               /\ \A k \in 1..l : R[k] = Stacked(R[k - 1], fs[k])
  BY DEF Leads
<1> DEFINE Q == [k \in 0..(m + l) |-> IF k <= m THEN P[k] ELSE R[k - m]]
<1> HIDE DEF both, m, l
<1>4. Q \in [0..(m + l) -> Seq(SpanNames)] /\ Q[0] = x
  <2>1. ASSUME NEW k \in 0..(m + l) PROVE (IF k <= m THEN P[k] ELSE R[k - m]) \in Seq(SpanNames)
    <3>1. CASE k <= m
      BY <1>1, <1>2, <3>1
    <3>2. CASE ~ (k <= m)
      <4>1. k - m \in 0..l
        BY <1>1, <3>2
      <4> QED  BY <1>3, <3>2, <4>1
    <3> QED  BY <3>1, <3>2
  <2>2. 0 \in 0..(m + l) /\ 0 <= m
    BY <1>1
  <2> QED  BY <1>2, <2>1, <2>2
<1>5. ASSUME NEW k \in 1..(m + l) PROVE Q[k] = Stacked(Q[k - 1], both[k])
  <2>1. CASE k <= m
    <3>1. k \in 1..m /\ k - 1 <= m /\ k - 1 \in 0..(m + l) /\ k \in 0..(m + l)
      BY <1>1, <2>1
    <3>2. both[k] = es[k]
      BY <1>1, <2>1
    <3> QED  BY <1>2, <2>1, <3>1, <3>2
  <2>2. CASE k = m + 1
    <3>1. k - 1 <= m /\ ~ (k <= m) /\ k - m = 1 /\ k - 1 = m /\ 1 \in 1..l /\ k \in 0..(m + l) /\ k - 1 \in 0..(m + l)
          /\ 1 - 1 = 0
      BY <1>1, <2>2
    <3>2. Q[k] = R[1] /\ Q[k - 1] = P[m] /\ both[k] = fs[1]
      BY <1>1, <3>1
    <3> QED  BY <1>2, <1>3, <3>1, <3>2
  <2>3. CASE k > m + 1
    <3>1. /\ ~ (k <= m) /\ ~ (k - 1 <= m) /\ k - m \in 1..l /\ (k - 1) - m = (k - m) - 1
          /\ k \in 0..(m + l) /\ k - 1 \in 0..(m + l)
      BY <1>1, <2>3
    <3>2. Q[k] = R[k - m] /\ Q[k - 1] = R[(k - m) - 1] /\ both[k] = fs[k - m]
      BY <1>1, <3>1
    <3> QED  BY <1>3, <3>1, <3>2
  <2> QED  BY <1>1, <2>1, <2>2, <2>3
<1>6. Q[m + l] = z
  <2>1. CASE l = 0
    BY <1>1, <1>2, <1>3, <2>1
  <2>2. CASE l # 0
    <3>1. ~ (m + l <= m) /\ (m + l) - m = l /\ m + l \in 0..(m + l)
      BY <1>1, <2>2
    <3> QED  BY <1>3, <3>1
  <2> QED  BY <2>1, <2>2
<1>7. Leads(x, both, z)
  <2> HIDE DEF Q
  <2> QED  BY <1>1, <1>4, <1>5, <1>6 DEF Leads
<1> QED  BY <1>7 DEF both

\* What one event does.
LEMMA LeadsOne ==
  ASSUME NEW e \in Events, NEW x \in Seq(SpanNames), NEW y \in Seq(SpanNames), y = Stacked(x, e)
  PROVE  Leads(x, <<e>>, y)
<1> DEFINE P == [k \in 0..1 |-> IF k = 0 THEN x ELSE y]
<1>1. Len(<<e>>) = 1 /\ <<e>>[1] = e
  OBVIOUS
<1>2. P \in [0..1 -> Seq(SpanNames)] /\ P[0] = x /\ P[1] = y
  OBVIOUS
<1> HIDE DEF P
<1>3. \A k \in 1..1 : k = 1 /\ k - 1 = 0
  OBVIOUS
<1>4. \A k \in 1..1 : P[k] = Stacked(P[k - 1], <<e>>[k])
  BY <1>1, <1>2, <1>3
<1> QED  BY <1>1, <1>2, <1>4 DEF Leads

\* Nothing leads nowhere.
LEMMA LeadsNone == ASSUME NEW x \in Seq(SpanNames) PROVE Leads(x, <<>>, x)
<1> DEFINE P == [k \in 0..0 |-> x]
<1>1. P \in [0..0 -> Seq(SpanNames)] /\ P[0] = x /\ Len(<<>>) = 0 /\ 1..0 = {}
  OBVIOUS
<1> HIDE DEF P
<1> QED  BY <1>1 DEF Leads

\* An event made by a turn.
LEMMA EventIs ==
  ASSUME NEW t \in LoopTurns, NEW what \in EventKinds, NEW span \in SpanNames, NEW use \in Nat
  PROVE  /\ Event(t, what, span, use) \in Events
         /\ Event(t, what, span, use).kind = what /\ Event(t, what, span, use).by = t
         /\ Event(t, what, span, use).span = span /\ Event(t, what, span, use).use = use
BY DEF Event, Events, SpanNames

\* The kinds of events and the names of spans, one by one.
LEMMA KindsAre ==
  /\ {"SpanStart", "SpanComplete", "SpanError", "IntentClassified", "UsageObserved", "TurnSummary",
      "EscalationRequired", "RunError", "EvidenceInsufficient"} = EventKinds
  /\ {"turn", "step", "tool", "none"} = SpanNames
BY DEF EventKinds, Failures, SpanNames, Spans

\* What is not of a span leaves the stack as it is.
LEMMA StackedQuiet ==
  ASSUME NEW e, NEW x, e.kind \notin {"SpanStart", "SpanComplete", "SpanError"} PROVE Stacked(x, e) = x
BY DEF Stacked

\* What starts a span puts it on the stack.
LEMMA StackedOpen ==
  ASSUME NEW e, NEW x, e.kind = "SpanStart" PROVE Stacked(x, e) = Append(x, e.span)
BY DEF Stacked

\* What completes the innermost span takes it off the stack.
LEMMA StackedClose ==
  ASSUME NEW e, NEW x \in Seq(SpanNames), e.kind \in {"SpanComplete", "SpanError"}, e.span \in SpanNames,
         \A i \in 1..Len(x) : x[i] # e.span
  PROVE  Stacked(Append(x, e.span), e) = x
<1> DEFINE n == Len(x)
           y == Append(x, e.span)
           places == {i \in DOMAIN y : y[i] = e.span}
<1>1. /\ y \in Seq(SpanNames) /\ Len(y) = n + 1 /\ n \in Nat /\ DOMAIN y = 1..(n + 1)
      /\ y[n + 1] = e.span /\ \A i \in 1..n : y[i] = x[i]
  OBVIOUS
<1>2. places = {n + 1}
  <2>1. ASSUME NEW i \in 1..(n + 1), y[i] = e.span PROVE i = n + 1
    <3>1. i \notin 1..n
      BY <1>1, <2>1
    <3> QED  BY <1>1, <3>1
  <2>2. n + 1 \in 1..(n + 1)
    BY <1>1
  <2> HIDE DEF y, n
  <2> QED  BY <1>1, <2>1, <2>2
<1>3. Min(places) = n + 1
  <2>1. places \subseteq Nat /\ places # {}
    <3> HIDE DEF n, places
    <3> QED  BY <1>1, <1>2
  <2>2. Min(places) \in places
    <3> HIDE DEF places
    <3> QED  BY <2>1, MinOfNaturals
  <2> HIDE DEF places, n
  <2> QED  BY <1>2, <2>2
<1>4. Stacked(y, e) = SubSeq(y, 1, Min(places) - 1)
  <2>1. places # {} /\ e.kind # "SpanStart"
    <3> HIDE DEF places, n
    <3> QED  BY <1>2
  <2> QED  BY <2>1 DEF Stacked
<1>5. SubSeq(y, 1, n) = x
  <2>1. SubSeq(y, 1, n) \in Seq(SpanNames) /\ Len(SubSeq(y, 1, n)) = n
        /\ \A i \in 1..n : SubSeq(y, 1, n)[i] = y[i]
    BY <1>1
  <2> QED  BY <1>1, <2>1
<1>6. Min(places) - 1 = n
  <2> HIDE DEF places, n
  <2> QED  BY <1>1, <1>3
<1> HIDE DEF places, n, y
<1> QED  BY <1>4, <1>5, <1>6 DEF y

\* Sequences of events as turns tell them.
Quiet == EventKinds \ {"SpanStart", "SpanComplete", "SpanError"}

\* A note leaves the open spans as they are.
LEMMA LeadsNote ==
  ASSUME NEW t \in LoopTurns, NEW what \in Quiet, NEW use \in Nat, NEW x \in Seq(SpanNames)
  PROVE  /\ <<Event(t, what, "none", use)>> \in Seq(Events)
         /\ Leads(x, <<Event(t, what, "none", use)>>, x)
<1>1. what \in EventKinds /\ "none" \in SpanNames /\ what \notin {"SpanStart", "SpanComplete", "SpanError"}
  BY KindsAre DEF Quiet
<1>2. PICK e : e = Event(t, what, "none", use)
  OBVIOUS
<1>3. e \in Events /\ e.kind = what
  BY <1>1, <1>2, EventIs
<1>4. Stacked(x, e) = x
  BY <1>1, <1>3, StackedQuiet
<1>5. Leads(x, <<e>>, x)
  BY <1>3, <1>4, LeadsOne
<1> QED  BY <1>2, <1>3, <1>5

\* A span that starts is open.
LEMMA LeadsOpens ==
  ASSUME NEW t \in LoopTurns, NEW span \in SpanNames, NEW x \in Seq(SpanNames)
  PROVE  /\ Opens(t, span) \in Seq(Events) /\ Leads(x, Opens(t, span), Append(x, span))
<1>1. "SpanStart" \in EventKinds /\ 0 \in Nat
  BY KindsAre
<1>2. PICK e : e = Event(t, "SpanStart", span, 0)
  OBVIOUS
<1>3. e \in Events /\ e.kind = "SpanStart" /\ e.span = span
  BY <1>1, <1>2, EventIs
<1>4. Stacked(x, e) = Append(x, span) /\ Append(x, span) \in Seq(SpanNames)
  BY <1>3, StackedOpen
<1>5. Leads(x, <<e>>, Append(x, span))
  BY <1>3, <1>4, LeadsOne
<1> QED  BY <1>2, <1>3, <1>5 DEF Opens

\* The innermost span that completes is not.
LEMMA LeadsCloses ==
  ASSUME NEW t \in LoopTurns, NEW span \in SpanNames, NEW x \in Seq(SpanNames),
         \A i \in 1..Len(x) : x[i] # span, NEW what \in {"SpanComplete", "SpanError"}
  PROVE  /\ <<Event(t, what, span, 0)>> \in Seq(Events)
         /\ Leads(Append(x, span), <<Event(t, what, span, 0)>>, x)
<1>1. what \in EventKinds /\ 0 \in Nat
  BY KindsAre
<1>2. PICK e : e = Event(t, what, span, 0)
  OBVIOUS
<1>3. e \in Events /\ e.kind = what /\ e.span = span
  BY <1>1, <1>2, EventIs
<1>4. Append(x, span) \in Seq(SpanNames)
  OBVIOUS
<1>5. Stacked(Append(x, span), e) = x
  BY <1>3, StackedClose
<1>6. Leads(Append(x, span), <<e>>, x)
  BY <1>3, <1>4, <1>5, LeadsOne
<1> QED  BY <1>2, <1>3, <1>6

\* The tools' spans are open and complete, each before the next one starts.
LEMMA LeadsTools ==
  ASSUME NEW t \in LoopTurns, NEW n \in Nat, NEW x \in Seq(SpanNames), \A i \in 1..Len(x) : x[i] # "tool"
  PROVE  ToolSpans(t, n) \in Seq(Events) /\ Leads(x, ToolSpans(t, n), x)
<1> DEFINE es == ToolSpans(t, n)
           y == Append(x, "tool")
           P == [k \in 0..(2 * n) |-> IF k % 2 = 1 THEN y ELSE x]
<1>0. 2 * n \in Nat /\ y \in Seq(SpanNames) /\ "tool" \in SpanNames
      /\ "SpanStart" \in EventKinds /\ "SpanComplete" \in EventKinds /\ 0 \in Nat
  BY KindsAre
<1>1. \A i \in 1..(2 * n) : es[i] = Event(t, IF i % 2 = 1 THEN "SpanStart" ELSE "SpanComplete", "tool", 0)
  BY DEF ToolSpans
<1>2. \A i \in 1..(2 * n) : /\ es[i] \in Events /\ es[i].span = "tool"
                            /\ es[i].kind = IF i % 2 = 1 THEN "SpanStart" ELSE "SpanComplete"
  <2> HIDE DEF es
  <2> QED  BY <1>0, <1>1, EventIs
<1>3. es = [i \in 1..(2 * n) |-> es[i]]
  BY DEF ToolSpans
<1>4. es \in Seq(Events) /\ Len(es) = 2 * n
  <2> HIDE DEF es
  <2> QED  BY <1>0, <1>2, <1>3
<1> HIDE DEF es
<1>5. P \in [0..(2 * n) -> Seq(SpanNames)]
  <2> HIDE DEF y
  <2> QED  BY <1>0
<1>6. P[0] = x
  <2>1. 0 % 2 # 1 /\ 0 \in 0..(2 * n)
    BY <1>0
  <2> QED  BY <2>1
<1>7. P[2 * n] = x
  <2>1. (2 * n) % 2 # 1 /\ 2 * n \in 0..(2 * n)
    BY <1>0
  <2> QED  BY <2>1
<1>8. ASSUME NEW k \in 1..(2 * n) PROVE P[k] = Stacked(P[k - 1], es[k])
  <2>0. k \in 0..(2 * n) /\ k - 1 \in 0..(2 * n) /\ k \in Nat
    BY <1>0
  <2>1. CASE k % 2 = 1
    <3>1. (k - 1) % 2 # 1
      BY <2>0, <2>1
    <3>2. P[k] = y /\ P[k - 1] = x
      BY <2>0, <2>1, <3>1
    <3>3. es[k].kind = "SpanStart" /\ es[k].span = "tool"
      BY <1>2, <2>1
    <3> HIDE DEF P
    <3> QED  BY <3>2, <3>3, StackedOpen
  <2>2. CASE k % 2 # 1
    <3>1. (k - 1) % 2 = 1
      BY <2>0, <2>2
    <3>2. P[k] = x /\ P[k - 1] = y
      BY <2>0, <2>2, <3>1
    <3>3. es[k].kind = "SpanComplete" /\ es[k].span = "tool"
      BY <1>2, <2>2
    <3>4. Stacked(Append(x, es[k].span), es[k]) = x
      BY <1>0, <3>3, StackedClose
    <3> HIDE DEF P
    <3> QED  BY <3>2, <3>3, <3>4
  <2> QED  BY <2>1, <2>2
<1> HIDE DEF P
<1> QED  BY <1>4, <1>5, <1>6, <1>7, <1>8 DEF Leads, es

\* Usage is summed along a record: P holds its running sums up to m.
UsedIn(e) == IF e.kind = "UsageObserved" THEN e.use ELSE 0
RunningSum(es, m, P) ==
  /\ P \in [0..m -> Nat] /\ P[0] = 0
  /\ \A k \in 1..m : P[k] = P[k - 1] + UsedIn(es[k])

\* What an event uses is a number.
LEMMA UsedNat == \A e \in Events : UsedIn(e) \in Nat
<1> SUFFICES ASSUME NEW e \in Events PROVE UsedIn(e) \in Nat
  OBVIOUS
<1>1. e.use \in Nat
  BY DEF Events
<1> QED  BY <1>1 DEF UsedIn

\* Every record has running sums.
LEMMA RunningSums ==
  ASSUME NEW es \in Seq(Events)
  PROVE  \E P : RunningSum(es, Len(es), P)
<1> DEFINE T == {m \in 0..Len(es) : ~ \E P : RunningSum(es, m, P)}
<1>0. Len(es) \in Nat /\ \A k \in 1..Len(es) : UsedIn(es[k]) \in Nat
  <2>1. \A k \in 1..Len(es) : es[k] \in Events
    OBVIOUS
  <2> QED  BY <2>1, UsedNat
<1>1. ASSUME T # {} PROVE FALSE
  <2>1. T \subseteq Nat
    OBVIOUS
  <2>2. PICK m \in T : \A k \in T : m <= k
    BY <1>1, <2>1, LeastNatural
  <2>3. m \in 0..Len(es) /\ ~ \E P : RunningSum(es, m, P)
    OBVIOUS
  <2>4. m # 0
    <3>1. RunningSum(es, 0, [k \in 0..0 |-> 0])
      BY DEF RunningSum
    <3> QED  BY <2>3, <3>1
  <2>5. m - 1 \in 0..Len(es) /\ ~ (m <= m - 1)
    BY <1>0, <2>3, <2>4
  <2>6. PICK P : RunningSum(es, m - 1, P)
    <3> HIDE DEF T
    <3>1. m - 1 \notin T
      BY <2>2, <2>5
    <3> QED  BY <2>5, <3>1 DEF T
  <2> DEFINE Q == [k \in 0..m |-> IF k = m THEN P[m - 1] + UsedIn(es[m]) ELSE P[k]]
  <2>7. m \in Nat /\ m > 0 /\ UsedIn(es[m]) \in Nat /\ P \in [0..(m - 1) -> Nat]
    BY <1>0, <2>3, <2>4, <2>6 DEF RunningSum
  <2>8. Q \in [0..m -> Nat] /\ Q[0] = 0
    BY <2>6, <2>7 DEF RunningSum
  <2>9. ASSUME NEW k \in 1..m PROVE Q[k] = Q[k - 1] + UsedIn(es[k])
    <3>1. CASE k = m
      BY <2>7, <3>1
    <3>2. CASE k # m
      <4>1. k \in 1..(m - 1) /\ k \in 0..m /\ k - 1 \in 0..m /\ k - 1 # m
        BY <2>7, <3>2
      <4> QED  BY <2>6, <3>2, <4>1 DEF RunningSum
    <3> QED  BY <3>1, <3>2
  <2>10. RunningSum(es, m, Q)
    <3> HIDE DEF Q
    <3> QED  BY <2>8, <2>9 DEF RunningSum
  <2> QED  BY <2>3, <2>10
<1>2. Len(es) \in 0..Len(es) /\ Len(es) \notin T
  <2> HIDE DEF T
  <2> QED  BY <1>0, <1>1
<1> QED  BY <1>2

\* The usage in a record is the last of them.
LEMMA UsageIs ==
  ASSUME NEW es \in Seq(Events), NEW P, RunningSum(es, Len(es), P)
  PROVE  UsageOf(es) = P[Len(es)] /\ UsageOf(es) \in Nat
<1> DEFINE Same(h) == h = [k \in 0..Len(es) |-> IF k = 0 THEN 0 ELSE h[k - 1] +
                             IF es[k].kind = "UsageObserved" THEN es[k].use ELSE 0]
           h1 == CHOOSE h : Same(h)
<1>0. Len(es) \in Nat
  OBVIOUS
<1>2. /\ P \in [0..Len(es) -> Nat] /\ P[0] = 0
      /\ \A k \in 1..Len(es) : P[k] = P[k - 1] + IF es[k].kind = "UsageObserved" THEN es[k].use ELSE 0
  BY <1>0 DEF RunningSum, UsedIn
<1>3. Same(P)
  <2>1. \A k \in 0..Len(es) : P[k] = IF k = 0 THEN 0 ELSE P[k - 1] +
                               IF es[k].kind = "UsageObserved" THEN es[k].use ELSE 0
    BY <1>0, <1>2
  <2>2. P = [k \in 0..Len(es) |-> P[k]]
    BY <1>2
  <2> QED  BY <2>1, <2>2
<1>4. Same(h1)
  <2> HIDE DEF Same
  <2> QED  BY <1>3
<1>5. UsageOf(es) = h1[Len(es)]
  BY DEF UsageOf
<1> HIDE DEF h1
<1>6. h1[0] = 0 /\ \A k \in 1..Len(es) : h1[k] = h1[k - 1] + IF es[k].kind = "UsageObserved" THEN es[k].use ELSE 0
  BY <1>0, <1>4
<1> HIDE DEF Same
<1>7. \A k \in 0..Len(es) : h1[k] = P[k]
  <2> DEFINE T == {k \in 0..Len(es) : h1[k] # P[k]}
  <2>1. ASSUME T # {} PROVE FALSE
    <3>1. T \subseteq Nat
      BY <1>0
    <3>2. PICK l \in T : \A k \in T : l <= k
      BY <2>1, <3>1, LeastNatural
    <3>3. l # 0
      BY <1>2, <1>6
    <3>4. l - 1 \in 0..Len(es) /\ ~ (l <= l - 1) /\ l \in 1..Len(es)
      BY <1>0, <3>3
    <3>5. h1[l - 1] = P[l - 1]
      BY <3>2, <3>4
    <3>6. h1[l] = P[l]
      <4> HIDE DEF T
      <4> QED  BY <1>2, <1>6, <3>4, <3>5
    <3> QED  BY <3>6
  <2> QED  BY <2>1
<1> QED  BY <1>0, <1>2, <1>5, <1>7

\* The usage of two records one behind the other is the sum of theirs.
LEMMA UsageConcat ==
  ASSUME NEW es \in Seq(Events), NEW fs \in Seq(Events)
  PROVE  UsageOf(es \o fs) = UsageOf(es) + UsageOf(fs) /\ es \o fs \in Seq(Events)
<1> DEFINE both == es \o fs
           m == Len(es)
           l == Len(fs)
<1>1. /\ both \in Seq(Events) /\ Len(both) = m + l /\ m \in Nat /\ l \in Nat
      /\ \A i \in 1..(m + l) : both[i] = IF i <= m THEN es[i] ELSE fs[i - m]
  BY ConcatProperties
<1>2. PICK P : RunningSum(es, Len(es), P)
  BY RunningSums
<1>3. PICK R : RunningSum(fs, Len(fs), R)
  BY RunningSums
<1> DEFINE Q == [k \in 0..(m + l) |-> IF k <= m THEN P[k] ELSE P[m] + R[k - m]]
<1>u. \A k \in 1..l : UsedIn(fs[k]) \in Nat
  <2>1. \A k \in 1..l : fs[k] \in Events
    OBVIOUS
  <2> QED  BY <2>1, UsedNat
<1> HIDE DEF both, m, l
<1>4. RunningSum(es, m, P) /\ RunningSum(fs, l, R) /\ UsageOf(es) = P[m] /\ UsageOf(fs) = R[l]
  BY <1>2, <1>3, UsageIs DEF m, l
<1>5. /\ P \in [0..m -> Nat] /\ P[0] = 0 /\ \A k \in 1..m : P[k] = P[k - 1] + UsedIn(es[k])
      /\ R \in [0..l -> Nat] /\ R[0] = 0 /\ \A k \in 1..l : R[k] = R[k - 1] + UsedIn(fs[k])
  BY <1>4 DEF RunningSum
<1>6. Q \in [0..(m + l) -> Nat] /\ Q[0] = 0
  <2>1. ASSUME NEW k \in 0..(m + l) PROVE (IF k <= m THEN P[k] ELSE P[m] + R[k - m]) \in Nat
    <3>1. CASE k <= m
      BY <1>1, <1>5, <3>1
    <3>2. CASE ~ (k <= m)
      <4>1. k - m \in 0..l /\ m \in 0..m
        BY <1>1, <3>2
      <4> QED  BY <1>5, <3>2, <4>1
    <3> QED  BY <3>1, <3>2
  <2> QED  BY <1>1, <1>5, <2>1
<1>7. ASSUME NEW k \in 1..(m + l) PROVE Q[k] = Q[k - 1] + UsedIn(both[k])
  <2>1. CASE k <= m
    <3>1. k \in 1..m /\ k - 1 <= m /\ k - 1 \in 0..(m + l) /\ k \in 0..(m + l)
      BY <1>1, <2>1
    <3>2. both[k] = es[k]
      BY <1>1, <2>1
    <3> QED  BY <1>5, <2>1, <3>1, <3>2
  <2>2. CASE k = m + 1
    <3>0. k <= m + l /\ l >= 1
      BY <1>1, <2>2
    <3>1. k - 1 <= m /\ ~ (k <= m) /\ k - m = 1 /\ k - 1 = m /\ 1 \in 1..l /\ k \in 0..(m + l) /\ k - 1 \in 0..(m + l)
      BY <1>1, <2>2, <3>0
    <3>2. Q[k] = P[m] + R[1] /\ Q[k - 1] = P[m] /\ both[k] = fs[1]
      BY <1>1, <3>1
    <3>3. R[1] = R[0] + UsedIn(fs[1]) /\ R[1] \in Nat /\ R[0] = 0
      <4>1. 1 - 1 = 0 /\ 1 \in 0..l
        BY <1>1, <3>0
      <4>2. R[1] = R[1 - 1] + UsedIn(fs[1])
        BY <1>5, <3>1
      <4> QED  BY <1>5, <4>1, <4>2
    <3>4. UsedIn(fs[1]) \in Nat
      BY <1>u, <3>1
    <3> QED  BY <3>2, <3>3, <3>4
  <2>3. CASE k > m + 1
    <3>1. /\ ~ (k <= m) /\ ~ (k - 1 <= m) /\ k - m \in 1..l /\ (k - 1) - m = (k - m) - 1
          /\ k \in 0..(m + l) /\ k - 1 \in 0..(m + l)
      BY <1>1, <2>3
    <3>2. Q[k] = P[m] + R[k - m] /\ Q[k - 1] = P[m] + R[(k - m) - 1] /\ both[k] = fs[k - m]
      BY <1>1, <3>1
    <3>3. R[k - m] = R[(k - m) - 1] + UsedIn(fs[k - m])
      BY <1>5, <3>1
    <3>4. P[m] \in Nat /\ R[(k - m) - 1] \in Nat /\ UsedIn(fs[k - m]) \in Nat
      <4>1. (k - m) - 1 \in 0..l /\ m \in 0..m
        BY <1>1, <3>1
      <4> QED  BY <1>5, <1>u, <3>1, <4>1
    <3> QED  BY <3>2, <3>3, <3>4
  <2> QED  BY <1>1, <2>1, <2>2, <2>3
<1>8. RunningSum(both, m + l, Q)
  <2> HIDE DEF Q
  <2> QED  BY <1>6, <1>7 DEF RunningSum
<1>9. UsageOf(both) = Q[m + l]
  <2> HIDE DEF Q
  <2> QED  BY <1>1, <1>8, UsageIs
<1>10. Q[m + l] = P[m] + R[l]
  <2>1. CASE l = 0
    <3>1. Q[m + l] = P[m] /\ P[m] \in Nat
      BY <1>1, <1>5, <2>1
    <3> QED  BY <1>5, <2>1, <3>1
  <2>2. CASE l # 0
    BY <1>1, <2>2
  <2> QED  BY <2>1, <2>2
<1> QED  BY <1>1, <1>4, <1>9, <1>10 DEF both

\* The usage of one event.
LEMMA UsageOne == ASSUME NEW e \in Events PROVE UsageOf(<<e>>) = UsedIn(e) /\ <<e>> \in Seq(Events)
<1>1. <<e>> \in Seq(Events) /\ Len(<<e>>) = 1 /\ <<e>>[1] = e
  OBVIOUS
<1>2. UsedIn(e) \in Nat
  BY UsedNat
<1> DEFINE P == [k \in 0..1 |-> IF k = 0 THEN 0 ELSE UsedIn(e)]
<1>3. RunningSum(<<e>>, 1, P)
  <2>1. P \in [0..1 -> Nat] /\ P[0] = 0 /\ P[1] = UsedIn(e)
    BY <1>2
  <2>2. \A k \in 1..1 : k = 1 /\ k - 1 = 0
    OBVIOUS
  <2> HIDE DEF P
  <2> QED  BY <1>1, <1>2, <2>1, <2>2 DEF RunningSum
<1>4. UsageOf(<<e>>) = P[1]
  <2> HIDE DEF P
  <2> QED  BY <1>1, <1>3, UsageIs
<1> QED  BY <1>1, <1>4

\* Events that tell no usage.
LEMMA UsageZero ==
  ASSUME NEW es \in Seq(Events), \A i \in 1..Len(es) : es[i].kind # "UsageObserved" PROVE UsageOf(es) = 0
<1> DEFINE P == [k \in 0..Len(es) |-> 0]
<1>1. Len(es) \in Nat /\ \A i \in 1..Len(es) : UsedIn(es[i]) = 0
  BY DEF UsedIn
<1>2. P \in [0..Len(es) -> Nat] /\ (\A k \in 0..Len(es) : P[k] = 0) /\ P[0] = 0 /\ P[Len(es)] = 0
  BY <1>1
<1> HIDE DEF P
<1>3. \A k \in 1..Len(es) : P[k] = P[k - 1] + UsedIn(es[k])
  <2>1. \A k \in 1..Len(es) : k \in 0..Len(es) /\ k - 1 \in 0..Len(es)
    BY <1>1
  <2> QED  BY <1>1, <1>2, <2>1
<1>4. RunningSum(es, Len(es), P)
  BY <1>1, <1>2, <1>3 DEF RunningSum
<1> QED  BY <1>2, <1>4, UsageIs

\* Nothing has no usage.
LEMMA UsageNone == UsageOf(<<>>) = 0 /\ <<>> \in Seq(Events)
<1>1. <<>> \in Seq(Events) /\ Len(<<>>) = 0 /\ \A i \in 1..0 : FALSE
  OBVIOUS
<1> QED  BY <1>1, UsageZero

\* Events of one turn, none of which is a decision's.
OwnEvents(t, es) == es \in Seq(Events) /\ \A i \in 1..Len(es) : es[i].by = t
Plain(es) == \A i \in 1..Len(es) : es[i].kind \notin {"EscalationRequired", "TurnSummary"}

\* What a turn tells, and what more it tells, are its own.
LEMMA OwnConcat ==
  ASSUME NEW t, NEW es, NEW fs, OwnEvents(t, es), OwnEvents(t, fs)
  PROVE  /\ OwnEvents(t, es \o fs) /\ Len(es \o fs) = Len(es) + Len(fs)
         /\ Plain(es) /\ Plain(fs) => Plain(es \o fs)
<1>0. es \in Seq(Events) /\ fs \in Seq(Events)
  BY DEF OwnEvents
<1> DEFINE m == Len(es)
           l == Len(fs)
<1>1. /\ es \o fs \in Seq(Events) /\ Len(es \o fs) = m + l /\ m \in Nat /\ l \in Nat
      /\ \A i \in 1..(m + l) : (es \o fs)[i] = IF i <= m THEN es[i] ELSE fs[i - m]
  BY <1>0, ConcatProperties
<1>2. ASSUME NEW i \in 1..(m + l)
      PROVE  \/ i \in 1..m /\ (es \o fs)[i] = es[i]
             \/ i - m \in 1..l /\ (es \o fs)[i] = fs[i - m]
  <2> HIDE DEF m, l
  <2> QED  BY <1>1
<1>3. OwnEvents(t, es \o fs)
  BY <1>1, <1>2 DEF OwnEvents
<1>4. Plain(es) /\ Plain(fs) => Plain(es \o fs)
  BY <1>1, <1>2 DEF Plain
<1> QED  BY <1>1, <1>3, <1>4

\* One event is of the turn that tells it.
LEMMA OwnOne ==
  ASSUME NEW t \in LoopTurns, NEW what \in EventKinds, NEW span \in SpanNames, NEW use \in Nat
  PROVE  LET es == <<Event(t, what, span, use)>> IN
         /\ OwnEvents(t, es) /\ Len(es) = 1 /\ es[1].kind = what
         /\ what \notin {"EscalationRequired", "TurnSummary"} => Plain(es)
<1>1. PICK e : e = Event(t, what, span, use)
  OBVIOUS
<1>2. e \in Events /\ e.kind = what /\ e.by = t
  BY <1>1, EventIs
<1>3. <<e>> \in Seq(Events) /\ Len(<<e>>) = 1 /\ <<e>>[1] = e /\ \A i \in 1..1 : i = 1
  BY <1>2
<1> QED  BY <1>1, <1>2, <1>3 DEF OwnEvents, Plain

\* So is nothing at all.
LEMMA OwnNothing == \A t : OwnEvents(t, <<>>) /\ Plain(<<>>) /\ Len(<<>>) = 0
BY DEF OwnEvents, Plain

\* What a turn tells when it is opened.
LEMMA OpeningIs ==
  ASSUME NEW t \in LoopTurns
  PROVE  /\ OwnEvents(t, Opening(t)) /\ Plain(Opening(t))
         /\ Leads(<<>>, Opening(t), <<"turn">>) /\ UsageOf(Opening(t)) = 1
<1> DEFINE a == <<Event(t, "SpanStart", "turn", 0)>>
           b == <<Event(t, "IntentClassified", "none", 0)>>
           c == <<Event(t, "UsageObserved", "none", 1)>>
           x == <<"turn">>
<1>1. /\ {"SpanStart", "IntentClassified", "UsageObserved"} \subseteq EventKinds
      /\ "turn" \in SpanNames /\ "none" \in SpanNames /\ 0 \in Nat /\ 1 \in Nat
      /\ {"IntentClassified", "UsageObserved"} \subseteq Quiet
  BY KindsAre DEF Quiet
<1>2. Opening(t) = (a \o b) \o c
  BY DEF Opening, Opens, Note, Usage
<1>3. /\ OwnEvents(t, a) /\ Plain(a) /\ OwnEvents(t, b) /\ Plain(b) /\ OwnEvents(t, c) /\ Plain(c)
  BY <1>1, OwnOne
<1>4. x \in Seq(SpanNames) /\ Append(<<>>, "turn") = x /\ <<>> \in Seq(SpanNames)
  BY <1>1
<1>5. Leads(<<>>, a, x)
  <2> HIDE DEF x
  <2> QED  BY <1>1, <1>4, LeadsOpens DEF Opens
<1>6. Leads(x, b, x) /\ Leads(x, c, x)
  <2> HIDE DEF x
  <2> QED  BY <1>1, <1>4, LeadsNote
<1>7. UsageOf(a) = 0 /\ UsageOf(b) = 0 /\ UsageOf(c) = 1
  <2>1. PICK e : e = Event(t, "SpanStart", "turn", 0)
    OBVIOUS
  <2>2. PICK f : f = Event(t, "IntentClassified", "none", 0)
    OBVIOUS
  <2>3. PICK g : g = Event(t, "UsageObserved", "none", 1)
    OBVIOUS
  <2>4. /\ e \in Events /\ e.kind = "SpanStart" /\ f \in Events /\ f.kind = "IntentClassified"
        /\ g \in Events /\ g.kind = "UsageObserved" /\ g.use = 1
    BY <1>1, <2>1, <2>2, <2>3, EventIs
  <2>5. UsedIn(e) = 0 /\ UsedIn(f) = 0 /\ UsedIn(g) = 1
    BY <2>4 DEF UsedIn
  <2> QED  BY <2>1, <2>2, <2>3, <2>4, <2>5, UsageOne
<1> HIDE DEF a, b, c, x
<1>8. a \in Seq(Events) /\ b \in Seq(Events) /\ c \in Seq(Events)
  BY <1>3 DEF OwnEvents
<1>9. OwnEvents(t, a \o b) /\ Plain(a \o b) /\ UsageOf(a \o b) = 0 /\ a \o b \in Seq(Events)
  BY <1>3, <1>7, <1>8, UsageConcat, OwnConcat
<1>10. Leads(<<>>, a \o b, x)
  BY <1>5, <1>6, <1>8, LeadsConcat
<1>11. Leads(<<>>, (a \o b) \o c, x)
  BY <1>6, <1>8, <1>9, <1>10, LeadsConcat
<1>12. OwnEvents(t, (a \o b) \o c) /\ Plain((a \o b) \o c) /\ UsageOf((a \o b) \o c) = 1
  <2>1. OwnEvents(t, (a \o b) \o c) /\ Plain((a \o b) \o c)
    BY <1>3, <1>9, OwnConcat
  <2>2. UsageOf((a \o b) \o c) = UsageOf(a \o b) + UsageOf(c)
    BY <1>8, <1>9, UsageConcat
  <2> QED  BY <1>7, <1>9, <2>1, <2>2
<1> QED  BY <1>2, <1>11, <1>12 DEF x

\* What a planner tells on the way: a failure, its usage, its tools.
OnTheWay(t, during, use, n) ==
  (IF during = "none" THEN <<>> ELSE Note(t, during)) \o Usage(t, use) \o ToolSpans(t, n)

\* What a turn tells between its opening and its verdict is its own and nests.
LEMMA ToldOnTheWay ==
  ASSUME NEW t \in LoopTurns, NEW during \in {"none", "RunError", "EvidenceInsufficient"}, NEW use \in Nat, NEW n \in Nat
  PROVE  LET told == OnTheWay(t, during, use, n)
         IN /\ OwnEvents(t, told) /\ Plain(told)
            /\ Leads(<<"turn">>, told, <<"turn">>) /\ UsageOf(told) = use
<1> DEFINE d == IF during = "none" THEN <<>> ELSE Note(t, during)
           u == Usage(t, use)
           w == ToolSpans(t, n)
           x == <<"turn">>
<1>1. /\ {"RunError", "EvidenceInsufficient", "UsageObserved", "SpanStart", "SpanComplete"} \subseteq EventKinds
      /\ {"RunError", "EvidenceInsufficient", "UsageObserved"} \subseteq Quiet
      /\ "none" \in SpanNames /\ "tool" \in SpanNames /\ x \in Seq(SpanNames) /\ 0 \in Nat
      /\ Len(x) = 1 /\ x[1] = "turn" /\ \A i \in 1..1 : i = 1
  BY KindsAre DEF Quiet
<1>2. OwnEvents(t, d) /\ Plain(d) /\ Leads(x, d, x) /\ UsageOf(d) = 0
  <2>1. CASE during = "none"
    <3>1. d = <<>> /\ <<>> \in Seq(Events)
      BY <2>1
    <3>2. UsageOf(<<>>) = 0
      BY UsageNone
    <3> HIDE DEF x
    <3> QED  BY <1>1, <3>1, <3>2, LeadsNone, OwnNothing
  <2>2. CASE during # "none"
    <3>1. d = <<Event(t, during, "none", 0)>> /\ during \in EventKinds /\ during \in Quiet
      BY <1>1, <2>2 DEF Note
    <3>2. OwnEvents(t, d) /\ Plain(d)
      <4>1. during \notin {"EscalationRequired", "TurnSummary"}
        BY <2>2
      <4> HIDE DEF d
      <4> QED  BY <1>1, <3>1, <4>1, OwnOne
    <3>3. Leads(x, d, x)
      <4> HIDE DEF x, d
      <4> QED  BY <1>1, <3>1, LeadsNote
    <3>4. UsageOf(d) = 0
      <4>1. PICK e : e = Event(t, during, "none", 0)
        OBVIOUS
      <4>2. e \in Events /\ e.kind = during
        BY <1>1, <3>1, <4>1, EventIs
      <4>3. UsedIn(e) = 0
        BY <2>2, <4>2 DEF UsedIn
      <4> QED  BY <3>1, <4>1, <4>2, <4>3, UsageOne
    <3> QED  BY <3>2, <3>3, <3>4
  <2> QED  BY <2>1, <2>2
<1>3. OwnEvents(t, u) /\ Plain(u) /\ Leads(x, u, x) /\ UsageOf(u) = use
  <2>1. CASE use = 0
    <3>1. u = <<>> /\ <<>> \in Seq(Events)
      BY <2>1 DEF Usage
    <3>2. UsageOf(<<>>) = 0
      BY UsageNone
    <3> HIDE DEF x
    <3> QED  BY <1>1, <2>1, <3>1, <3>2, LeadsNone, OwnNothing
  <2>2. CASE use # 0
    <3>1. u = <<Event(t, "UsageObserved", "none", use)>>
      BY <2>2 DEF Usage
    <3>2. OwnEvents(t, u) /\ Plain(u)
      BY <1>1, <3>1, OwnOne
    <3>3. Leads(x, u, x)
      <4> HIDE DEF x, u
      <4> QED  BY <1>1, <3>1, LeadsNote
    <3>4. UsageOf(u) = use
      <4>1. PICK e : e = Event(t, "UsageObserved", "none", use)
        OBVIOUS
      <4>2. e \in Events /\ e.kind = "UsageObserved" /\ e.use = use
        BY <1>1, <4>1, EventIs
      <4>3. UsedIn(e) = use
        BY <4>2 DEF UsedIn
      <4> QED  BY <3>1, <4>1, <4>2, <4>3, UsageOne
    <3> QED  BY <3>2, <3>3, <3>4
  <2> QED  BY <2>1, <2>2
<1>4. OwnEvents(t, w) /\ Plain(w) /\ Leads(x, w, x) /\ UsageOf(w) = 0
  <2>1. \A i \in 1..Len(x) : x[i] # "tool"
    BY <1>1
  <2>2. w \in Seq(Events) /\ Leads(x, w, x)
    <3> HIDE DEF w, x
    <3> QED  BY <1>1, <2>1, LeadsTools DEF w
  <2>3. Len(w) = 2 * n /\ \A i \in 1..(2 * n) :
          w[i] = Event(t, IF i % 2 = 1 THEN "SpanStart" ELSE "SpanComplete", "tool", 0)
    BY DEF ToolSpans
  <2>4. \A i \in 1..Len(w) : w[i].by = t /\ w[i].kind \in {"SpanStart", "SpanComplete"}
    <3> SUFFICES ASSUME NEW i \in 1..(2 * n) PROVE w[i].by = t /\ w[i].kind \in {"SpanStart", "SpanComplete"}
      BY <2>3
    <3>1. PICK what : what = IF i % 2 = 1 THEN "SpanStart" ELSE "SpanComplete"
      OBVIOUS
    <3>2. what \in {"SpanStart", "SpanComplete"} /\ what \in EventKinds
      BY <1>1, <3>1
    <3>3. w[i] = Event(t, what, "tool", 0)
      BY <2>3, <3>1
    <3> HIDE DEF w
    <3> QED  BY <1>1, <3>2, <3>3, EventIs
  <2>5. UsageOf(w) = 0
    <3> HIDE DEF w
    <3> QED  BY <2>2, <2>4, UsageZero
  <2> HIDE DEF w
  <2> QED  BY <2>2, <2>4, <2>5 DEF OwnEvents, Plain
<1> HIDE DEF d, u, w, x
<1>5. OwnEvents(t, d \o u) /\ Plain(d \o u) /\ Leads(x, d \o u, x) /\ UsageOf(d \o u) = use
  <2>1. d \in Seq(Events) /\ u \in Seq(Events)
    BY <1>2, <1>3 DEF OwnEvents
  <2>2. UsageOf(d \o u) = UsageOf(d) + UsageOf(u)
    BY <2>1, UsageConcat
  <2> QED  BY <1>2, <1>3, <2>1, <2>2, LeadsConcat, OwnConcat
<1>6. /\ OwnEvents(t, (d \o u) \o w) /\ Plain((d \o u) \o w) /\ Leads(x, (d \o u) \o w, x)
      /\ UsageOf((d \o u) \o w) = use
  <2>1. d \o u \in Seq(Events) /\ w \in Seq(Events)
    BY <1>4, <1>5 DEF OwnEvents
  <2>2. UsageOf((d \o u) \o w) = UsageOf(d \o u) + UsageOf(w)
    BY <2>1, UsageConcat
  <2>3. UsageOf((d \o u) \o w) = use
    BY <1>4, <1>5, <2>2
  <2>4. Leads(x, (d \o u) \o w, x)
    BY <1>4, <1>5, <2>1, LeadsConcat
  <2>5. OwnEvents(t, (d \o u) \o w) /\ Plain((d \o u) \o w)
    BY <1>4, <1>5, OwnConcat
  <2> QED  BY <2>3, <2>4, <2>5
<1>7. OnTheWay(t, during, use, n) = (d \o u) \o w
  BY DEF OnTheWay, d, u, w
<1> QED  BY <1>6, <1>7 DEF x

-----------------------------------------------------------------------------
(***************************************************************************)
(* How a turn is judged: the window of answers and the failures told.      *)
(***************************************************************************)

\* The greater of two numbers.
LEMMA MaxOfTwo ==
  ASSUME NEW a \in Int, NEW b \in Int
  PROVE  Max({a, b}) = IF a >= b THEN a ELSE b
<1> DEFINE m == IF a >= b THEN a ELSE b
<1>1. m \in {a, b} /\ \A y \in {a, b} : m >= y
  OBVIOUS
<1>2. \A x \in {a, b} : (\A y \in {a, b} : x >= y) => x = m
  OBVIOUS
<1> QED  BY <1>1, <1>2 DEF Max

\* No failure on the failure axis: every failure has Recent events behind it.
LEMMA FailureFar ==
  ASSUME NEW es \in Seq(Events), FailureIn(es) = "none", NEW i \in 1..Len(es), es[i].kind \in Failures
  PROVE  i <= Len(es) - Recent
<1>1. Recent \in Nat /\ Len(es) \in Nat
  BY TurnBoundsAssumption
<1> DEFINE n == Len(es)
           from == Max({1, n - Recent + 1})
           fs == {k \in from..n : es[k].kind \in Failures}
<1>2. from = IF 1 >= n - Recent + 1 THEN 1 ELSE n - Recent + 1
  <2>1. n - Recent + 1 \in Int /\ 1 \in Int
    BY <1>1
  <2> QED  BY <2>1, MaxOfTwo
<1>3. fs = {}
  <2>1. SUFFICES ASSUME fs # {} PROVE FALSE
    OBVIOUS
  <2>2. fs \subseteq 0..n
    BY <1>1, <1>2
  <2>3. Max(fs) \in fs
    BY <1>1, <2>1, <2>2, MaxOfNaturals
  <2>4. es[Max(fs)].kind \in Failures
    BY <2>3
  <2>5. FailureIn(es) = es[Max(fs)].kind
    BY <2>1 DEF FailureIn
  <2> QED  BY <2>4, <2>5 DEF Failures
<1>4. i \notin from..n
  BY <1>3
<1>5. from \in Int /\ i \in Int /\ i >= 1 /\ i <= n
  BY <1>1, <1>2
<1>6. i < from
  BY <1>1, <1>4, <1>5
<1> HIDE DEF from, n
<1> QED  BY <1>1, <1>2, <1>5, <1>6 DEF n

\* The failures of a record, and that the newest of them is a lack of evidence.
FailuresOf(es) == {i \in DOMAIN es : es[i].kind \in Failures}
Unproved(es) == \E i \in FailuresOf(es) :
  es[i].kind = "EvidenceInsufficient" /\ \A j \in FailuresOf(es) : j <= i

\* The failure the judge finds is the newest of the turn, however the turn then ends.
LEMMA NewestFailure ==
  ASSUME NEW before \in Seq(Events), FailureIn(before) # "none",
         NEW tail \in Seq(Events), \A i \in 1..Len(tail) : tail[i].kind \notin Failures
  PROVE  /\ FailuresOf(before \o tail) # {}
         /\ Unproved(before \o tail) <=> FailureIn(before) = "EvidenceInsufficient"
<1>a. PICK es, failed : es = before \o tail /\ failed = FailuresOf(es)
  OBVIOUS
<1>b. failed = {i \in DOMAIN es : es[i].kind \in Failures}
  BY <1>a DEF FailuresOf
<1> DEFINE n == Len(before)
           l == Len(tail)
           from == Max({1, n - Recent + 1})
           fs == {k \in from..n : before[k].kind \in Failures}
           top == Max(fs)
<1>1. Recent \in Nat /\ n \in Nat /\ l \in Nat
  BY TurnBoundsAssumption
<1>2. from = IF 1 >= n - Recent + 1 THEN 1 ELSE n - Recent + 1
  <2>1. n - Recent + 1 \in Int /\ 1 \in Int
    BY <1>1
  <2> QED  BY <2>1, MaxOfTwo
<1>3. fs # {} /\ FailureIn(before) = before[top].kind
  BY DEF FailureIn
<1>4. top \in fs /\ \A k \in fs : k <= top
  <2>1. fs \subseteq 0..n
    BY <1>1, <1>2
  <2> QED  BY <1>1, <1>3, <2>1, MaxOfNaturals
<1>6. DOMAIN es = 1..(n + l) /\ \A i \in 1..(n + l) : es[i] = IF i <= n THEN before[i] ELSE tail[i - n]
  BY <1>a, ConcatProperties
<1>o. from \in Int /\ from >= 1
  BY <1>1, <1>2
<1> HIDE DEF top, from, n, l
<1>5. top \in from..n /\ before[top].kind \in Failures /\ from \in Int /\ from >= 1
  BY <1>4, <1>o
<1>7. ASSUME NEW k \in 1..n, before[k].kind \in Failures, k >= from PROVE k <= top
  <2>1. k \in from..n
    BY <1>1, <1>5, <1>7
  <2> QED  BY <1>4, <1>7, <2>1
<1> HIDE DEF fs
<1>8. top \in 1..n /\ top \in 1..(n + l) /\ es[top] = before[top]
  <2>1. top \in 1..n /\ top \in 1..(n + l) /\ top <= n
    BY <1>1, <1>5
  <2> QED  BY <1>6, <2>1
<1>9. top \in failed
  BY <1>5, <1>6, <1>8, <1>b
<1>10. ASSUME NEW j \in failed PROVE j <= top
  <2>1. j \in 1..(n + l) /\ es[j].kind \in Failures
    BY <1>6, <1>b
  <2>2. CASE j > n
    <3>1. j - n \in 1..l /\ es[j] = tail[j - n]
      BY <1>1, <1>6, <2>1, <2>2
    <3> QED  BY <2>1, <3>1 DEF l
  <2>3. CASE j <= n /\ j < from
    BY <1>1, <1>5, <2>1, <2>3
  <2>4. CASE j <= n /\ j >= from
    <3>1. j \in 1..n /\ es[j] = before[j]
      BY <1>1, <1>6, <2>1, <2>4
    <3> QED  BY <1>7, <2>1, <2>4, <3>1
  <2> QED  BY <1>1, <1>5, <2>1, <2>2, <2>3, <2>4
<1>11. ASSUME NEW i \in failed, \A j \in failed : j <= i PROVE i = top
  <2>1. i <= top /\ top <= i /\ i \in Int
    <3>1. i <= top /\ top <= i
      BY <1>9, <1>10, <1>11
    <3>2. i \in 1..(n + l)
      BY <1>6, <1>b
    <3> QED  BY <1>1, <3>1, <3>2
  <2> QED  BY <1>1, <1>5, <2>1
<1>12. es[top].kind = FailureIn(before)
  BY <1>3, <1>8
<1>13. (\E i \in failed : es[i].kind = "EvidenceInsufficient" /\ \A j \in failed : j <= i)
         <=> FailureIn(before) = "EvidenceInsufficient"
  BY <1>9, <1>10, <1>11, <1>12
<1> QED  BY <1>9, <1>13, <1>a DEF Unproved

\* The window is the end of all that was observed.
WindowIs(w, all) ==
  /\ all \in Seq(Answers) /\ w \in Seq(Answers)
  /\ Len(w) <= Window /\ Len(w) <= Len(all)
  /\ Len(w) = Window \/ Len(w) = Len(all)
  /\ \A i \in 1..Len(w) : w[i] = all[Len(all) - Len(w) + i]

\* The window holds the last answers, this one and the one before among them.
LEMMA ObservedIs ==
  ASSUME NEW w, NEW all, WindowIs(w, all), NEW text \in Answers
  PROVE  /\ WindowIs(Observed(w, text), Append(all, text)) /\ Len(Observed(w, text)) >= 1
         /\ Observed(w, text)[Len(Observed(w, text))] = text
         /\ Len(all) > 0 => /\ Len(Observed(w, text)) >= 2
                            /\ Observed(w, text)[Len(Observed(w, text)) - 1] = all[Len(all)]
<1>1. /\ all \in Seq(Answers) /\ w \in Seq(Answers) /\ Len(w) \in Nat /\ Len(all) \in Nat
      /\ Len(w) <= Window /\ Len(w) <= Len(all) /\ (Len(w) = Window \/ Len(w) = Len(all))
      /\ \A i \in 1..Len(w) : w[i] = all[Len(all) - Len(w) + i]
      /\ Window \in Nat /\ Window >= 2
  <2>1. Window \in Nat /\ Window >= 2
    BY TurnBoundsAssumption
  <2>2. /\ all \in Seq(Answers) /\ w \in Seq(Answers)
        /\ Len(w) <= Window /\ Len(w) <= Len(all) /\ (Len(w) = Window \/ Len(w) = Len(all))
        /\ \A i \in 1..Len(w) : w[i] = all[Len(all) - Len(w) + i]
    BY DEF WindowIs
  <2>3. Len(w) \in Nat /\ Len(all) \in Nat
    BY <2>2
  <2> QED  BY <2>1, <2>2, <2>3, Zenon
<1>2. PICK n, m : n = Len(w) /\ m = Len(all) /\ n \in Nat /\ m \in Nat /\ n <= Window /\ n <= m
                  /\ (n = Window \/ n = m) /\ \A i \in 1..n : w[i] = all[m - n + i]
  BY <1>1
<1>3. PICK s, z : /\ s = Append(w, text) /\ z = Append(all, text)
                  /\ s \in Seq(Answers) /\ Len(s) = n + 1 /\ s[n + 1] = text /\ (\A i \in 1..n : s[i] = w[i])
                  /\ z \in Seq(Answers) /\ Len(z) = m + 1 /\ z[m + 1] = text /\ (\A i \in 1..m : z[i] = all[i])
  <2>1. /\ Append(w, text) \in Seq(Answers) /\ Len(Append(w, text)) = Len(w) + 1
        /\ Append(w, text)[Len(w) + 1] = text /\ \A i \in 1..Len(w) : Append(w, text)[i] = w[i]
    BY <1>1
  <2>2. /\ Append(all, text) \in Seq(Answers) /\ Len(Append(all, text)) = Len(all) + 1
        /\ Append(all, text)[Len(all) + 1] = text /\ \A i \in 1..Len(all) : Append(all, text)[i] = all[i]
    BY <1>1
  <2> QED  BY <1>2, <2>1, <2>2, Zenon
<1>4. PICK k, b : k = (IF n = Window THEN 2 ELSE 1) /\ k \in {1, 2} /\ b = n + 1 /\ b \in Nat
  BY <1>2
<1>5. Observed(w, text) = SubSeq(s, k, b)
  <2>1. Max({1, Len(s) - Window + 1}) = IF 1 >= Len(s) - Window + 1 THEN 1 ELSE Len(s) - Window + 1
    <3>1. 1 \in Int /\ Len(s) - Window + 1 \in Int
      BY <1>1, <1>2, <1>3
    <3> QED  BY <3>1, MaxOfTwo
  <2>2. Max({1, Len(s) - Window + 1}) = k
    BY <1>1, <1>2, <1>3, <1>4, <2>1
  <2>3. Observed(w, text) = SubSeq(s, Max({1, Len(s) - Window + 1}), Len(s))
    BY <1>3 DEF Observed
  <2> QED  BY <1>3, <1>4, <2>2, <2>3
<1>6. \A i \in 1..b : s[i] \in Answers /\ s[i] = z[m - n + i]
  <2> SUFFICES ASSUME NEW i \in 1..(n + 1) PROVE s[i] \in Answers /\ s[i] = z[m - n + i]
    BY <1>4
  <2>1. CASE i = n + 1
    BY <1>1, <1>2, <1>3, <2>1
  <2>2. CASE i # n + 1
    <3>1. i \in 1..n /\ m - n + i \in 1..m
      BY <1>2, <2>2
    <3>2. w[i] \in Answers
      BY <1>1, <1>2, <3>1
    <3> QED  BY <1>2, <1>3, <3>1, <3>2
  <2> QED  BY <2>1, <2>2
<1>7. PICK o : /\ o = SubSeq(s, k, b) /\ o \in Seq(Answers) /\ Len(o) = IF k <= b THEN b - k + 1 ELSE 0
               /\ \A i \in 1..(b - k + 1) : o[i] = s[k + i - 1]
  <2>1. k \in Int /\ b \in Int /\ (\A i \in k..b : s[i] \in Answers)
    BY <1>4, <1>6
  <2>2. /\ SubSeq(s, k, b) \in Seq(Answers) /\ Len(SubSeq(s, k, b)) = IF k <= b THEN b - k + 1 ELSE 0
        /\ \A i \in 1..(b - k + 1) : SubSeq(s, k, b)[i] = s[k + i - 1]
    BY ONLY <2>1, SubSeqProperties
  <2> QED  BY <2>2
<1>8. PICK l : /\ l = n + 2 - k /\ Len(o) = l /\ l \in Nat /\ l >= 1 /\ l <= Window /\ l <= m + 1
               /\ (l = Window \/ l = m + 1) /\ (m > 0 => l >= 2)
  BY <1>1, <1>2, <1>4, <1>7
<1>9. \A i \in 1..l : o[i] = z[(m + 1) - l + i]
  <2> SUFFICES ASSUME NEW i \in 1..l PROVE o[i] = z[(m + 1) - l + i]
    OBVIOUS
  <2>1. /\ i \in 1..(b - k + 1) /\ k + i - 1 \in 1..b
        /\ m - n + (k + i - 1) = (m + 1) - l + i
    <3>1. l = n + 2 - k /\ b = n + 1 /\ n \in Nat /\ m \in Nat /\ i \in 1..l
      BY <1>2, <1>4, <1>8
    <3>2. CASE k = 1
      BY <3>1, <3>2
    <3>3. CASE k = 2
      BY <3>1, <3>3
    <3> QED  BY <1>4, <3>2, <3>3
  <2>2. s[k + i - 1] = z[m - n + (k + i - 1)]
    BY <1>6, <2>1
  <2> QED  BY <1>7, <2>1, <2>2
<1>10. WindowIs(o, z)
  BY <1>3, <1>7, <1>8, <1>9 DEF WindowIs
<1>11. o[Len(o)] = text
  <2>1. l \in 1..l /\ (m + 1) - l + l = m + 1
    BY <1>2, <1>8
  <2> QED  BY <1>3, <1>8, <1>9, <2>1
<1>12. m > 0 => o[Len(o) - 1] = all[m]
  <2> SUFFICES ASSUME m > 0 PROVE o[Len(o) - 1] = all[m]
    OBVIOUS
  <2>1. l - 1 \in 1..l /\ (m + 1) - l + (l - 1) = m /\ m \in 1..m /\ Len(o) - 1 = l - 1
    BY <1>2, <1>8
  <2>2. o[l - 1] = z[m]
    BY <1>9, <2>1
  <2> QED  BY <1>3, <2>1, <2>2
<1>13. Observed(w, text) = o
  BY <1>5, <1>7
<1> QED  BY <1>2, <1>3, <1>8, <1>10, <1>11, <1>12, <1>13

\* No two equal answers in the window: this answer is not the one before it.
LEMMA NotRepeated ==
  ASSUME NEW w, NEW all, WindowIs(w, all), NEW text \in Answers, ~Repeats(Observed(w, text)), all # <<>>
  PROVE  Last(all) # text
<1> DEFINE o == Observed(w, text)
<1>1. /\ o[Len(o)] = text /\ Len(all) \in Nat /\ Len(o) \in Nat
      /\ Len(all) > 0 => Len(o) >= 2 /\ o[Len(o) - 1] = all[Len(all)]
  <2>1. WindowIs(o, Append(all, text))
    BY ObservedIs
  <2>2. Len(all) \in Nat /\ Len(o) \in Nat
    BY <2>1 DEF WindowIs
  <2> QED  BY <2>2, ObservedIs
<1>2. Len(all) > 0
  BY <1>1 DEF WindowIs
<1>3. Len(o) - 1 \in 1..Len(o) /\ Len(o) \in 1..Len(o) /\ Len(o) - 1 < Len(o)
  BY <1>1, <1>2
<1>4. ASSUME Last(all) = text PROVE FALSE
  <2>1. o[Len(o) - 1] = o[Len(o)]
    BY <1>1, <1>2, <1>4 DEF Last
  <2>2. \E i, j \in 1..Len(o) : i < j /\ o[i] = o[j]
    <3> HIDE DEF o
    <3> QED  BY <1>3, <2>1
  <2> QED  BY <2>2 DEF Repeats
<1> QED  BY <1>4

\* Two equal answers in the window: among the last Window ones.
LEMMA RepeatedIs ==
  ASSUME NEW w, NEW all, WindowIs(w, all), Repeats(w)
  PROVE  \E i, j \in Max({1, Len(all) - Window + 1})..Len(all) : i < j /\ all[i] = all[j]
<1>1. /\ Len(w) \in Nat /\ Len(all) \in Nat /\ Window \in Nat /\ Len(w) <= Window /\ Len(w) <= Len(all)
      /\ \A i \in 1..Len(w) : w[i] = all[Len(all) - Len(w) + i]
  BY TurnBoundsAssumption DEF WindowIs
<1>2. PICK i, j \in 1..Len(w) : i < j /\ w[i] = w[j]
  BY DEF Repeats
<1> DEFINE d == Len(all) - Len(w)
           from == Max({1, Len(all) - Window + 1})
<1>3. from = IF 1 >= Len(all) - Window + 1 THEN 1 ELSE Len(all) - Window + 1
  <2>1. 1 \in Int /\ Len(all) - Window + 1 \in Int
    BY <1>1
  <2> QED  BY <2>1, MaxOfTwo
<1> HIDE DEF from
<1>4. d + i \in from..Len(all) /\ d + j \in from..Len(all) /\ d + i < d + j
  BY <1>1, <1>2, <1>3
<1>5. all[d + i] = all[d + j]
  BY <1>1, <1>2
<1> HIDE DEF d
<1>6. \E a, b \in from..Len(all) : a < b /\ all[a] = all[b]
  BY <1>4, <1>5
<1> QED  BY <1>6 DEF from

\* What a verdict rests on.
LEMMA VerdictIs ==
  ASSUME NEW es, NEW text
  PROVE  LET v == Verdict(es, text) IN
         /\ v.kind \in Decisions \ {"none"} /\ v.escalate \in BOOLEAN /\ v.seen \in BOOLEAN
         /\ v.kind = "COMPLETE" =>
              v.seen /\ FailureIn(es) = "none" /\ ~Repeats(Observed(window, text))
         /\ v.kind = "LOOP_DETECTED" => v.seen /\ Repeats(Observed(window, text))
         /\ v.kind \in {"BUDGET_EXCEEDED", "LOOP_DETECTED"} => v.escalate
         /\ v.kind \in {"COMPLETE", "DEGRADED", "INCOMPLETE"} => ~v.escalate
         /\ v.kind = "FAILURE" =>
              FailureIn(es) # "none" /\ v.escalate = (FailureIn(es) = "EvidenceInsufficient")
<1> DEFINE over == UsageOf(es) >= MaxTurnCost
           failure == FailureIn(es)
           again == Repeats(Observed(window, text))
           v == Verdict(es, text)
           D(what, escalate, seen) == [kind |-> what, escalate |-> escalate, seen |-> seen]
<1>1. v = CASE over /\ PlanText(text) \in Long -> D("DEGRADED", FALSE, FALSE)
       [] over /\ PlanText(text) \notin Long -> D("BUDGET_EXCEEDED", TRUE, FALSE)
       [] ~over /\ failure # "none" -> D("FAILURE", failure = "EvidenceInsufficient", FALSE)
       [] ~over /\ failure = "none" /\ again -> D("LOOP_DETECTED", TRUE, TRUE)
       [] OTHER -> D(IF PlanText(text) = Empty THEN "INCOMPLETE" ELSE "COMPLETE", FALSE, TRUE)
  BY DEF Verdict
<1> HIDE DEF over, failure, again, v
<1>2. \/ v = D("DEGRADED", FALSE, FALSE)
      \/ v = D("BUDGET_EXCEEDED", TRUE, FALSE)
      \/ failure # "none" /\ v = D("FAILURE", failure = "EvidenceInsufficient", FALSE)
      \/ failure = "none" /\ again /\ v = D("LOOP_DETECTED", TRUE, TRUE)
      \/ failure = "none" /\ ~again /\ v = D("INCOMPLETE", FALSE, TRUE)
      \/ failure = "none" /\ ~again /\ v = D("COMPLETE", FALSE, TRUE)
  <2>1. CASE over
    BY <1>1, <2>1
  <2>2. CASE ~over /\ failure # "none"
    BY <1>1, <2>2
  <2>3. CASE ~over /\ failure = "none" /\ again
    BY <1>1, <2>3
  <2>4. CASE ~over /\ failure = "none" /\ ~again /\ PlanText(text) = Empty
    BY <1>1, <2>4
  <2>5. CASE ~over /\ failure = "none" /\ ~again /\ PlanText(text) # Empty
    BY <1>1, <2>5
  <2> QED  BY <2>1, <2>2, <2>3, <2>4, <2>5
<1>3. /\ v.kind \in Decisions \ {"none"} /\ v.escalate \in BOOLEAN /\ v.seen \in BOOLEAN
      /\ v.kind = "COMPLETE" => v.seen /\ failure = "none" /\ ~again
      /\ v.kind = "LOOP_DETECTED" => v.seen /\ again
      /\ v.kind \in {"BUDGET_EXCEEDED", "LOOP_DETECTED"} => v.escalate
      /\ v.kind \in {"COMPLETE", "DEGRADED", "INCOMPLETE"} => ~v.escalate
      /\ v.kind = "FAILURE" => failure # "none" /\ v.escalate = (failure = "EvidenceInsufficient")
  <2>1. CASE v = D("DEGRADED", FALSE, FALSE)
    BY <2>1 DEF Decisions
  <2>2. CASE v = D("BUDGET_EXCEEDED", TRUE, FALSE)
    BY <2>2 DEF Decisions
  <2>3. CASE failure # "none" /\ v = D("FAILURE", failure = "EvidenceInsufficient", FALSE)
    BY <2>3 DEF Decisions
  <2>4. CASE failure = "none" /\ again /\ v = D("LOOP_DETECTED", TRUE, TRUE)
    BY <2>4 DEF Decisions
  <2>5. CASE failure = "none" /\ ~again /\ v = D("INCOMPLETE", FALSE, TRUE)
    BY <2>5 DEF Decisions
  <2>6. CASE failure = "none" /\ ~again /\ v = D("COMPLETE", FALSE, TRUE)
    BY <2>6 DEF Decisions
  <2> QED  BY <1>2, <2>1, <2>2, <2>3, <2>4, <2>5, <2>6
<1> QED  BY <1>3 DEF v, failure, again

\* The events that end a turn: what the judge escalates, the summary, the end of its span.
Ends(tail, asks) ==
  /\ Len(tail) = IF asks THEN 3 ELSE 2
  /\ \A i \in 1..Len(tail) : /\ tail[i].kind \in {"EscalationRequired", "TurnSummary", "SpanComplete"}
                             /\ tail[i].kind = "EscalationRequired" <=> asks /\ i = 1
  /\ tail[Len(tail)].kind = "SpanComplete"

\* What a turn tells as it ends is its own, closes its span and asks for an escalation or not.
LEMMA TailIs ==
  ASSUME NEW t \in LoopTurns, NEW asks \in BOOLEAN, NEW told \in Seq(Events)
  PROVE  \E tail : /\ told \o (IF asks THEN Note(t, "EscalationRequired") ELSE <<>>)
                           \o Note(t, "TurnSummary") \o Closes(t, "turn") = told \o tail
                   /\ OwnEvents(t, tail) /\ Leads(<<"turn">>, tail, <<>>) /\ Ends(tail, asks)
<1>1. PICK e, f, g : /\ e = Event(t, "EscalationRequired", "none", 0)
                     /\ f = Event(t, "TurnSummary", "none", 0)
                     /\ g = Event(t, "SpanComplete", "turn", 0)
  OBVIOUS
<1> DEFINE x == <<"turn">>
<1>2. /\ {"EscalationRequired", "TurnSummary", "SpanComplete"} \subseteq EventKinds
      /\ {"EscalationRequired", "TurnSummary"} \subseteq Quiet
      /\ "turn" \in SpanNames /\ "none" \in SpanNames /\ 0 \in Nat /\ x \in Seq(SpanNames)
      /\ <<>> \in Seq(SpanNames) /\ Append(<<>>, "turn") = x
  BY KindsAre DEF Quiet
<1>3. /\ e \in Events /\ e.kind = "EscalationRequired" /\ e.by = t
      /\ f \in Events /\ f.kind = "TurnSummary" /\ f.by = t
      /\ g \in Events /\ g.kind = "SpanComplete" /\ g.by = t
  BY <1>1, <1>2, EventIs
<1>4. /\ <<e>> \in Seq(Events) /\ Len(<<e>>) = 1 /\ <<e>>[1] = e
      /\ <<f>> \in Seq(Events) /\ Len(<<f>>) = 1 /\ <<f>>[1] = f
      /\ <<g>> \in Seq(Events) /\ Len(<<g>>) = 1 /\ <<g>>[1] = g
      /\ \A i \in 1..1 : i = 1
  BY <1>3
<1>5. Leads(x, <<e>>, x) /\ Leads(x, <<f>>, x) /\ Leads(x, <<g>>, <<>>) /\ Leads(x, <<>>, x)
  <2>1. \A i \in 1..Len(<<>>) : <<>>[i] # "turn"
    OBVIOUS
  <2> HIDE DEF x
  <2>2. Leads(x, <<e>>, x) /\ Leads(x, <<f>>, x)
    BY <1>1, <1>2, LeadsNote
  <2>3. Leads(Append(<<>>, "turn"), <<Event(t, "SpanComplete", "turn", 0)>>, <<>>)
    BY <1>2, <2>1, LeadsCloses
  <2> QED  BY <1>1, <1>2, <2>2, <2>3, LeadsNone
<1>6. OwnEvents(t, <<e>>) /\ OwnEvents(t, <<f>>) /\ OwnEvents(t, <<g>>)
  BY <1>3, <1>4 DEF OwnEvents
<1>7. PICK r : r = <<f>> \o <<g>>
  OBVIOUS
<1>8. r \in Seq(Events) /\ Len(r) = 2 /\ r[1] = f /\ r[2] = g
  <2>1. /\ r \in Seq(Events) /\ Len(r) = 1 + 1
        /\ \A i \in 1..(1 + 1) : r[i] = IF i <= 1 THEN <<f>>[i] ELSE <<g>>[i - 1]
    BY <1>4, <1>7, ConcatProperties
  <2> QED  BY <1>4, <2>1
<1>9. OwnEvents(t, r)
  BY <1>6, <1>7, OwnConcat
<1> HIDE DEF x
<1>10. Leads(x, r, <<>>)
  BY <1>4, <1>5, <1>7, LeadsConcat
<1>11. CASE asks
  <2>1. PICK tail : tail = <<e>> \o r
    OBVIOUS
  <2>2. /\ tail \in Seq(Events) /\ Len(tail) = 1 + 2
        /\ \A i \in 1..(1 + 2) : tail[i] = IF i <= 1 THEN <<e>>[i] ELSE r[i - 1]
    <3>1. /\ <<e>> \o r \in Seq(Events) /\ Len(<<e>> \o r) = Len(<<e>>) + Len(r)
          /\ \A i \in 1..(Len(<<e>>) + Len(r)) :
               (<<e>> \o r)[i] = IF i <= Len(<<e>>) THEN <<e>>[i] ELSE r[i - Len(<<e>>)]
      BY <1>4, <1>8, ConcatProperties, Zenon
    <3> QED  BY <1>4, <1>8, <2>1, <3>1
  <2>3. Len(tail) = 3 /\ tail[1] = e /\ tail[2] = f /\ tail[3] = g /\ \A i \in 1..3 : i = 1 \/ i = 2 \/ i = 3
    BY <1>4, <1>8, <2>2
  <2>4. Ends(tail, asks)
    <3>1. \A i \in 1..3 : /\ tail[i].kind \in {"EscalationRequired", "TurnSummary", "SpanComplete"}
                          /\ tail[i].kind = "EscalationRequired" <=> i = 1
      BY <1>3, <2>3
    <3> QED  BY <1>3, <1>11, <2>3, <3>1 DEF Ends
  <2>5. OwnEvents(t, tail)
    BY <1>6, <1>9, <2>1, OwnConcat
  <2>6. Leads(x, tail, <<>>)
    BY <1>4, <1>5, <1>8, <1>10, <2>1, LeadsConcat
  <2>7. ((told \o <<e>>) \o <<f>>) \o <<g>> = told \o tail
    <3>1. told \o <<e>> \in Seq(Events)
      BY <1>4, ConcatProperties
    <3>2. ((told \o <<e>>) \o <<f>>) \o <<g>> = (told \o <<e>>) \o r
      BY <1>4, <1>7, <3>1, ConcatAssociative
    <3>3. (told \o <<e>>) \o r = told \o (<<e>> \o r)
      BY <1>4, <1>8, ConcatAssociative
    <3> QED  BY <2>1, <3>2, <3>3
  <2>8. told \o (IF asks THEN Note(t, "EscalationRequired") ELSE <<>>)
             \o Note(t, "TurnSummary") \o Closes(t, "turn") = told \o tail
    BY <1>1, <1>11, <2>7 DEF Note, Closes
  <2> QED  BY <2>4, <2>5, <2>6, <2>8 DEF x
<1>12. CASE ~asks
  <2>1. Ends(r, asks)
    <3>1. \A i \in 1..2 : i = 1 \/ i = 2
      OBVIOUS
    <3>2. \A i \in 1..2 : /\ r[i].kind \in {"EscalationRequired", "TurnSummary", "SpanComplete"}
                          /\ r[i].kind # "EscalationRequired"
      BY <1>3, <1>8, <3>1
    <3> QED  BY <1>3, <1>8, <1>12, <3>2 DEF Ends
  <2>2. (told \o <<f>>) \o <<g>> = told \o r
    BY <1>4, <1>7, ConcatAssociative
  <2>3. told \o <<>> = told
    BY ConcatEmptySeq
  <2>4. told \o (IF asks THEN Note(t, "EscalationRequired") ELSE <<>>)
             \o Note(t, "TurnSummary") \o Closes(t, "turn") = told \o r
    BY <1>1, <1>12, <2>2, <2>3 DEF Note, Closes
  <2> QED  BY <1>9, <1>10, <2>1, <2>4 DEF x
<1> QED  BY <1>11, <1>12

\* A turn's events, told before its judge was asked, and those that end it.
LEMMA AskedIs ==
  ASSUME NEW before \in Seq(Events), Plain(before), NEW tail \in Seq(Events), NEW asks \in BOOLEAN, Ends(tail, asks)
  PROVE  LET es == before \o tail IN
         {i \in DOMAIN es : es[i].kind = "EscalationRequired"} = IF asks THEN {Len(before) + 1} ELSE {}
<1> DEFINE m == Len(before)
           l == Len(tail)
           es == before \o tail
<1>1. /\ es \in Seq(Events) /\ DOMAIN es = 1..(m + l) /\ m \in Nat /\ l \in Nat
      /\ \A i \in 1..(m + l) : es[i] = IF i <= m THEN before[i] ELSE tail[i - m]
  BY ConcatProperties
<1>2. /\ l >= 1 /\ \A i \in 1..l : (tail[i].kind = "EscalationRequired") <=> (asks /\ i = 1)
  BY DEF Ends
<1>3. \A i \in 1..m : before[i].kind # "EscalationRequired"
  BY DEF Plain
<1> HIDE DEF m, l, es
<1>4. ASSUME NEW i \in 1..(m + l)
      PROVE  (es[i].kind = "EscalationRequired") <=> (asks /\ i = m + 1)
  <2>1. CASE i <= m
    <3>1. es[i] = before[i] /\ i \in 1..m /\ i # m + 1
      BY <1>1, <2>1
    <3> QED  BY <1>3, <3>1
  <2>2. CASE i > m
    <3>1. es[i] = tail[i - m] /\ i - m \in 1..l /\ (i - m = 1 <=> i = m + 1)
      BY <1>1, <2>2
    <3> QED  BY <1>2, <3>1
  <2>3. i <= m \/ i > m
    BY <1>1
  <2> QED  BY <2>1, <2>2, <2>3
<1>5. m + 1 \in 1..(m + l)
  BY <1>1, <1>2
<1>6. CASE asks
  <2>1. {i \in 1..(m + l) : es[i].kind = "EscalationRequired"} = {m + 1}
    BY <1>4, <1>5, <1>6
  <2> QED  BY <1>1, <1>6, <2>1 DEF m, es
<1>7. CASE ~asks
  <2>1. {i \in 1..(m + l) : es[i].kind = "EscalationRequired"} = {}
    BY <1>4, <1>7
  <2> QED  BY <1>1, <1>7, <2>1 DEF m, es
<1> QED  BY <1>6, <1>7

\* If the judge saw no failure, every one in the record is more than Recent events back.
LEMMA FailuresFar ==
  ASSUME NEW before \in Seq(Events), Plain(before), FailureIn(before) = "none",
         NEW tail \in Seq(Events), NEW asks \in BOOLEAN, Ends(tail, asks),
         NEW i \in DOMAIN (before \o tail), (before \o tail)[i].kind \in Failures
  PROVE  LET es == before \o tail IN
         Cardinality({j \in DOMAIN es : j > i /\ es[j].kind \notin {"EscalationRequired", "TurnSummary"}}) > Recent
<1> DEFINE m == Len(before)
           l == Len(tail)
           es == before \o tail
           behind == {j \in DOMAIN es : j > i /\ es[j].kind \notin {"EscalationRequired", "TurnSummary"}}
<1>0. Recent \in Nat
  BY TurnBoundsAssumption
<1>1. /\ es \in Seq(Events) /\ DOMAIN es = 1..(m + l) /\ m \in Nat /\ l \in Nat
      /\ \A k \in 1..(m + l) : es[k] = IF k <= m THEN before[k] ELSE tail[k - m]
  BY ConcatProperties
<1>2. /\ l >= 1 /\ tail[l].kind = "SpanComplete"
      /\ \A k \in 1..l : tail[k].kind \in {"EscalationRequired", "TurnSummary", "SpanComplete"}
  BY DEF Ends
<1>3. \A k \in 1..m : before[k].kind \notin {"EscalationRequired", "TurnSummary"}
  BY DEF Plain
<1>4. i \in 1..(m + l) /\ es[i].kind \in Failures
  BY <1>1
<1> HIDE DEF m, l, es
<1>5. i \in 1..m /\ before[i].kind \in Failures
  <2>1. CASE i <= m
    BY <1>1, <1>4, <2>1
  <2>2. CASE i > m
    <3>1. es[i] = tail[i - m] /\ i - m \in 1..l
      BY <1>1, <1>4, <2>2
    <3> QED  BY <1>2, <1>4, <3>1 DEF Failures
  <2>3. i <= m \/ i > m
    BY <1>1, <1>4
  <2> QED  BY <2>1, <2>2, <2>3
<1>6. i <= m - Recent
  BY <1>5, FailureFar DEF m
<1> DEFINE rest == (i + 1)..m
<1>7. rest \cup {m + l} \subseteq behind
  <2>1. ASSUME NEW k \in rest PROVE k \in behind
    <3>1. k \in 1..m /\ k \in 1..(m + l) /\ k > i
      BY <1>1, <1>5
    <3>2. es[k] = before[k]
      BY <1>1, <3>1
    <3> QED  BY <1>1, <1>3, <3>1, <3>2
  <2>2. m + l \in behind
    <3>1. m + l \in 1..(m + l) /\ m + l > i /\ ~(m + l <= m) /\ (m + l) - m = l
      BY <1>1, <1>2, <1>5
    <3>2. es[m + l] = tail[l]
      BY <1>1, <3>1
    <3> QED  BY <1>1, <1>2, <3>1, <3>2
  <2> QED  BY <2>1, <2>2
<1>8. IsFiniteSet(behind)
  <2>1. IsFiniteSet(1..(m + l))
    BY <1>1, FS_Interval
  <2>2. behind \in SUBSET (1..(m + l))
    BY <1>1
  <2> QED  BY <2>1, <2>2, FS_Subset
<1>9. IsFiniteSet(rest) /\ Cardinality(rest) = m - i
  <2>1. i + 1 \in Int /\ m \in Int
    BY <1>1, <1>5
  <2>2. IsFiniteSet((i + 1)..m) /\ Cardinality((i + 1)..m) = IF i + 1 > m THEN 0 ELSE m - (i + 1) + 1
    BY <2>1, FS_Interval
  <2> QED  BY <1>1, <1>5, <2>2
<1>10. Cardinality(rest \cup {m + l}) = Cardinality(rest) + 1
  <2>1. m + l \notin rest
    BY <1>1, <1>2, <1>5
  <2> HIDE DEF rest
  <2> QED  BY <1>9, <2>1, FS_AddElement
<1>11. Cardinality(rest \cup {m + l}) <= Cardinality(behind) /\ Cardinality(behind) \in Nat
  <2> HIDE DEF behind, rest
  <2> QED  BY <1>7, <1>8, FS_Subset, FS_CardinalityType
<1>12. Cardinality(behind) > Recent
  <2> HIDE DEF behind, rest
  <2> QED  BY <1>0, <1>1, <1>5, <1>6, <1>9, <1>10, <1>11
<1> QED  BY <1>12 DEF es

\* What a turn told that asked for clarification, and one that no planner was selected for.
LEMMA ClarifyTold ==
  ASSUME NEW t \in LoopTurns, NEW asks \in BOOLEAN
  PROVE  LET es == Opening(t) \o Opens(t, "step")
                   \o (IF asks THEN Note(t, "EscalationRequired") ELSE <<>>)
                   \o <<Event(t, "SpanError", "step", 0)>> \o Closes(t, "turn")
         IN OwnEvents(t, es) /\ Leads(<<>>, es, <<>>)
<1> DEFINE x == <<"turn">>
           y == Append(x, "step")
           o == Opening(t)
           s == Opens(t, "step")
           e == IF asks THEN Note(t, "EscalationRequired") ELSE <<>>
           r == <<Event(t, "SpanError", "step", 0)>>
           c == Closes(t, "turn")
<1>1. /\ {"EscalationRequired", "SpanStart", "SpanComplete", "SpanError"} \subseteq EventKinds
      /\ "EscalationRequired" \in Quiet
      /\ {"turn", "step", "none"} \subseteq SpanNames /\ 0 \in Nat
  BY KindsAre DEF Quiet
<1>2. /\ x \in Seq(SpanNames) /\ <<>> \in Seq(SpanNames) /\ Append(<<>>, "turn") = x /\ y \in Seq(SpanNames)
      /\ \A i \in 1..Len(x) : x[i] # "step"
  BY <1>1
<1>3. OwnEvents(t, o) /\ Leads(<<>>, o, x)
  BY OpeningIs
<1>4. OwnEvents(t, s) /\ Leads(x, s, y)
  <2>1. OwnEvents(t, <<Event(t, "SpanStart", "step", 0)>>)
    BY <1>1, OwnOne
  <2> HIDE DEF x
  <2> QED  BY <1>1, <1>2, <2>1, LeadsOpens DEF Opens
<1>5. OwnEvents(t, e) /\ Leads(y, e, y)
  <2> HIDE DEF y
  <2>1. CASE asks
    <3>1. e = <<Event(t, "EscalationRequired", "none", 0)>>
      BY <2>1 DEF Note
    <3> QED  BY <1>1, <1>2, <3>1, LeadsNote, OwnOne
  <2>2. CASE ~asks
    BY <1>2, <2>2, LeadsNone, OwnNothing
  <2> QED  BY <2>1, <2>2
<1>6. OwnEvents(t, r) /\ Leads(y, r, x)
  <2> HIDE DEF x
  <2>1. OwnEvents(t, r)
    BY <1>1, OwnOne
  <2>2. "step" \in SpanNames /\ "SpanError" \in {"SpanComplete", "SpanError"}
    BY <1>1
  <2>3. Leads(Append(x, "step"), <<Event(t, "SpanError", "step", 0)>>, x)
    BY <1>2, <2>2, LeadsCloses
  <2> QED  BY <2>1, <2>3
<1>7. OwnEvents(t, c) /\ Leads(x, c, <<>>)
  <2>1. \A i \in 1..Len(<<>>) : <<>>[i] # "turn"
    OBVIOUS
  <2>2. c = <<Event(t, "SpanComplete", "turn", 0)>>
    BY DEF Closes
  <2>3. OwnEvents(t, <<Event(t, "SpanComplete", "turn", 0)>>)
    BY <1>1, OwnOne
  <2> HIDE DEF x
  <2>4. Leads(Append(<<>>, "turn"), <<Event(t, "SpanComplete", "turn", 0)>>, <<>>)
    BY <1>1, <1>2, <2>1, LeadsCloses
  <2> QED  BY <1>2, <2>2, <2>3, <2>4
<1> HIDE DEF x, y, o, s, e, r, c
<1>8. /\ o \in Seq(Events) /\ s \in Seq(Events) /\ e \in Seq(Events) /\ r \in Seq(Events) /\ c \in Seq(Events)
      /\ \A fs : OwnEvents(t, fs) => fs \in Seq(Events)
  BY <1>3, <1>4, <1>5, <1>6, <1>7 DEF OwnEvents
<1>9. OwnEvents(t, o \o s) /\ Leads(<<>>, o \o s, y)
  BY <1>3, <1>4, <1>8, OwnConcat, LeadsConcat
<1>10. OwnEvents(t, (o \o s) \o e) /\ Leads(<<>>, (o \o s) \o e, y)
  BY <1>5, <1>8, <1>9, OwnConcat, LeadsConcat
<1>11. OwnEvents(t, ((o \o s) \o e) \o r) /\ Leads(<<>>, ((o \o s) \o e) \o r, x)
  BY <1>6, <1>8, <1>10, OwnConcat, LeadsConcat
<1>12. OwnEvents(t, (((o \o s) \o e) \o r) \o c) /\ Leads(<<>>, (((o \o s) \o e) \o r) \o c, <<>>)
  BY <1>7, <1>8, <1>11, OwnConcat, LeadsConcat
<1> QED  BY <1>12 DEF o, s, e, r, c

\* What a turn tells that is not planned closes all its spans.
LEMMA UnplannedTold ==
  ASSUME NEW t \in LoopTurns
  PROVE  LET es == Opening(t) \o Note(t, "TurnSummary") \o Closes(t, "turn")
         IN OwnEvents(t, es) /\ Leads(<<>>, es, <<>>)
<1> DEFINE o == Opening(t)
<1>1. o \in Seq(Events) /\ OwnEvents(t, o) /\ Leads(<<>>, o, <<"turn">>)
  BY OpeningIs DEF OwnEvents
<1> HIDE DEF o
<1>2. PICK tail : /\ o \o (IF FALSE THEN Note(t, "EscalationRequired") ELSE <<>>)
                       \o Note(t, "TurnSummary") \o Closes(t, "turn") = o \o tail
                  /\ OwnEvents(t, tail) /\ Leads(<<"turn">>, tail, <<>>)
  BY <1>1, TailIs
<1>3. o \o <<>> = o
  BY <1>1, ConcatEmptySeq
<1>4. o \o Note(t, "TurnSummary") \o Closes(t, "turn") = o \o tail
  BY <1>2, <1>3
<1>5. OwnEvents(t, o \o tail) /\ Leads(<<>>, o \o tail, <<>>)
  BY <1>1, <1>2, OwnConcat, LeadsConcat DEF OwnEvents
<1> QED  BY <1>4, <1>5 DEF o

-----------------------------------------------------------------------------
(***************************************************************************)
(* The collectors open in a task.                                          *)
(***************************************************************************)

-----------------------------------------------------------------------------
(***************************************************************************)
(* Where the turns of AgentLoop are: in each task the turns that wait for a *)
(* sub-turn, in the order of the stack of collectors, and one that runs.   *)
(***************************************************************************)

\* Turns whose own collector is innermost, and turns that a parent may wait for.
Open == {"plan", "react", "subs"}
Awaited == Open \cup {"classify", "waits", "done"}

TurnRecords ==
  [pc : Awaited \cup {"idle", "added", "failed"}, parent : LoopTurns \cup {NoTurn}, task : Roots \cup {NoTurn},
   clarify : BOOLEAN, planner : Planners, left : Int, outputs : Seq(Answers), subUse : Nat, events : Seq(Events),
   child : {<<>>}, usage : Nat, output : Answers, decision : Decisions, escalations : Int, spent : Nat]
Scopes == [of : LoopTurns, child : BOOLEAN]

Live(T, s) == s \in Subs /\ T[s].pc \in Awaited

\* The collectors open in a task: a turn's own and, around each sub-turn, a scope.
NestedIs(T, r, a, k) ==
  LET c == a[k] IN
  /\ T[c.of].task = r
  /\ k = 1 => ~c.child /\ c.of = r
  /\ k > 1 /\ c.child => ~a[k - 1].child /\ c.of = a[k - 1].of
  /\ k > 1 /\ ~c.child => a[k - 1].child /\ c.of \in Subs /\ T[c.of].parent = a[k - 1].of
  /\ k < Len(a) \/ c.child => T[c.of].pc = "waits"
  /\ k = Len(a) /\ ~c.child => T[c.of].pc \in Open

TopIs(a, c) == Len(a) > 0 /\ a[Len(a)] = c

\* Twice the depth of a task: one for each turn that has sub-agents.
Doubled(T, a) ==
  IF Len(a) = 0 \/ a[Len(a)].child THEN Len(a)
  ELSE IF T[a[Len(a)].of].pc = "subs" THEN Len(a) + 1 ELSE Len(a) - 1

NoTwice(a) == \A j, k \in 1..Len(a) : j # k /\ ~a[j].child /\ ~a[k].child => a[j].of # a[k].of

StackIs(T, r, a, d) ==
  /\ a \in Seq(Scopes) /\ (\A k \in 1..Len(a) : NestedIs(T, r, a, k)) /\ NoTwice(a)
  /\ d \in 0..MaxDepth /\ 2 * d = Doubled(T, a)

PlacedIs(T, A, t) ==
  LET me == T[t]
      a == A[me.task]
  IN /\ me.pc = "idle" => me = Unopened
     /\ me.pc = "added" => t \in Subs
     /\ me.pc # "idle" => me.task \in Roots /\ me.parent # t
     /\ me.pc # "idle" /\ t \in Roots => me.task = t /\ me.parent = NoTurn
     /\ me.pc # "idle" /\ t \in Subs => me.parent \in LoopTurns /\ T[me.parent].task = me.task
     /\ me.pc = "classify" /\ t \in Roots => a = <<>>
     /\ me.pc \in Open => TopIs(a, Own(t))
     /\ t \in Subs /\ me.pc \in {"classify", "done"} => TopIs(a, ChildScope(me.parent))
     /\ Live(T, t) => T[me.parent].pc = "waits"
     /\ me.pc = "waits" => \E s \in Subs : T[s].parent = t /\ Live(T, s)

OneAtATime(T) == \A x, y \in Subs : Live(T, x) /\ Live(T, y) /\ T[x].parent = T[y].parent => x = y

Control(T, A, D) ==
  /\ T \in [LoopTurns -> TurnRecords] /\ A \in [Roots -> Seq(Scopes)] /\ D \in [Roots -> 0..MaxDepth]
  /\ \A r \in Roots : StackIs(T, r, A[r], D[r])
  /\ \A t \in LoopTurns : PlacedIs(T, A, t)
  /\ OneAtATime(T)

\* A collector's owner is open, or waits for a sub-turn.
LEMMA OnStack ==
  ASSUME NEW T, NEW A, NEW D, Control(T, A, D), NEW r \in Roots, NEW k \in 1..Len(A[r])
  PROVE  /\ A[r][k] \in Scopes /\ A[r][k].of \in LoopTurns /\ A[r][k].child \in BOOLEAN
         /\ T[A[r][k].of].task = r /\ T[A[r][k].of].pc \in Open \cup {"waits"}
         /\ k < Len(A[r]) => T[A[r][k].of].pc = "waits"
<1>1. A[r] \in Seq(Scopes) /\ NestedIs(T, r, A[r], k) /\ Len(A[r]) \in Nat
  BY DEF Control, StackIs
<1>2. A[r][k] \in Scopes
  BY <1>1
<1>3. A[r][k].of \in LoopTurns /\ A[r][k].child \in BOOLEAN
  BY <1>2 DEF Scopes
<1>4. k < Len(A[r]) \/ k = Len(A[r])
  BY <1>1
<1> QED  BY <1>1, <1>2, <1>3, <1>4 DEF NestedIs

\* Of the turns of a task one runs.
LEMMA NoOtherOpen ==
  ASSUME NEW T, NEW A, NEW D, Control(T, A, D), NEW t \in LoopTurns, NEW x \in LoopTurns, x # t,
         T[x].task = T[t].task, T[t].pc \in Open \cup {"classify"} \/ (t \in Subs /\ T[t].pc = "done")
  PROVE  T[x].pc \notin Open /\ T[x].pc # "classify" /\ ~(x \in Subs /\ T[x].pc = "done")
<1>1. PlacedIs(T, A, t) /\ PlacedIs(T, A, x) /\ OneAtATime(T)
  BY DEF Control
<1> DEFINE a == A[T[t].task]
           Goes(y) == \/ T[y].pc \in Open /\ TopIs(a, Own(y))
                      \/ T[y].pc = "classify" /\ y \in Roots /\ a = <<>> /\ y = T[t].task
                      \/ y \in Subs /\ T[y].pc \in {"classify", "done"} /\ TopIs(a, ChildScope(T[y].parent))
<1>2. ASSUME NEW y \in LoopTurns, PlacedIs(T, A, y), T[y].task = T[t].task,
             T[y].pc \in Open \cup {"classify"} \/ (y \in Subs /\ T[y].pc = "done")
      PROVE  Goes(y)
  <2>1. y \in Roots \/ y \in Subs
    BY DEF LoopTurns
  <2>2. /\ T[y].pc \in Open => TopIs(a, Own(y))
        /\ T[y].pc = "classify" /\ y \in Roots => a = <<>> /\ y = T[t].task
        /\ y \in Subs /\ T[y].pc \in {"classify", "done"} => TopIs(a, ChildScope(T[y].parent))
    BY <1>2 DEF PlacedIs
  <2> HIDE DEF a
  <2>3. T[y].pc \in Open \/ T[y].pc = "classify" \/ (y \in Subs /\ T[y].pc = "done")
    BY <1>2
  <2> QED  BY <2>1, <2>2, <2>3
<1>3. SUFFICES ASSUME T[x].pc \in Open \cup {"classify"} \/ (x \in Subs /\ T[x].pc = "done") PROVE FALSE
  OBVIOUS
<1>4. Goes(x)
  BY <1>1, <1>2, <1>3
<1>12. Goes(t)
  BY <1>1, <1>2
<1>5. /\ \A y : Own(y).child = FALSE /\ Own(y).of = y
      /\ \A y : ChildScope(y).child = TRUE /\ ChildScope(y).of = y
      /\ Len(<<>>) = 0
  BY DEF Own, ChildScope
<1>6. \A c, e : TopIs(a, c) /\ TopIs(a, e) => c = e
  BY DEF TopIs
<1>7. \A c : TopIs(a, c) => a # <<>>
  BY DEF TopIs
<1> HIDE DEF a
<1>8. CASE T[t].pc \in Open /\ TopIs(a, Own(t))
  BY <1>4, <1>5, <1>6, <1>7, <1>8
<1>10. CASE T[t].pc = "classify" /\ t \in Roots /\ a = <<>> /\ t = T[t].task
  BY <1>4, <1>7, <1>10
<1>11. CASE t \in Subs /\ T[t].pc \in {"classify", "done"} /\ TopIs(a, ChildScope(T[t].parent))
  <2>1. x \in Subs /\ T[x].pc \in {"classify", "done"} /\ TopIs(a, ChildScope(T[x].parent))
    BY <1>4, <1>5, <1>6, <1>7, <1>11
  <2>2. T[x].parent = T[t].parent
    BY <1>5, <1>6, <1>11, <2>1
  <2>3. Live(T, x) /\ Live(T, t)
    BY <1>11, <2>1 DEF Live, Awaited
  <2> QED  BY <1>1, <1>11, <2>1, <2>2, <2>3 DEF OneAtATime
<1> QED  BY <1>8, <1>10, <1>11, <1>12 DEF Open

\* A stack stays fine while its turns stay where they are.
LEMMA StackSame ==
  ASSUME NEW T, NEW r, NEW a, NEW d, StackIs(T, r, a, d), NEW T2,
         \A k \in 1..Len(a) : LET o == a[k].of IN
           T2[o].pc = T[o].pc /\ T2[o].task = T[o].task /\ T2[o].parent = T[o].parent
  PROVE  StackIs(T2, r, a, d)
<1>1. a \in Seq(Scopes) /\ Len(a) \in Nat
  BY DEF StackIs
<1>2. ASSUME NEW k \in 1..Len(a) PROVE NestedIs(T2, r, a, k)
  <2>1. NestedIs(T, r, a, k)
    BY DEF StackIs
  <2>2. T2[a[k].of].pc = T[a[k].of].pc /\ T2[a[k].of].task = T[a[k].of].task
        /\ T2[a[k].of].parent = T[a[k].of].parent
    OBVIOUS
  <2> QED  BY <2>1, <2>2 DEF NestedIs
<1>3. Doubled(T2, a) = Doubled(T, a)
  <2>1. CASE Len(a) = 0
    BY <2>1 DEF Doubled
  <2>2. CASE Len(a) # 0
    <3>1. Len(a) \in 1..Len(a)
      BY <1>1, <2>2
    <3>2. T2[a[Len(a)].of].pc = T[a[Len(a)].of].pc
      BY <3>1
    <3> QED  BY <3>2 DEF Doubled
  <2> QED  BY <2>1, <2>2
<1> QED  BY <1>2, <1>3 DEF StackIs

\* A turn stays in its place while its task and its parent do.
LEMMA PlacedSame ==
  ASSUME NEW T, NEW A, NEW x \in LoopTurns, PlacedIs(T, A, x), NEW T2, NEW A2, T2[x] = T[x],
         T[x].pc \in Open \cup {"classify"} \/ (x \in Subs /\ T[x].pc = "done") => A2[T[x].task] = A[T[x].task],
         T[x].pc # "idle" /\ x \in Subs => T2[T[x].parent].task = T[T[x].parent].task,
         Live(T, x) => T2[T[x].parent].pc = "waits",
         T[x].pc = "waits" => \E s \in Subs : T2[s].parent = x /\ Live(T2, s)
  PROVE  PlacedIs(T2, A2, x)
<1>1. Live(T2, x) <=> Live(T, x)
  BY DEF Live
<1> QED  BY <1>1 DEF PlacedIs, Open

\* A turn of a task goes on or completes, the others stay where they are.
Moves(T, t, T2) ==
  /\ T2 \in [LoopTurns -> TurnRecords] /\ (\A x \in LoopTurns : x # t => T2[x] = T[x])
  /\ T2[t].task = T[t].task /\ T2[t].parent = T[t].parent

Advances(T, A, D, t, T2, A2, D2) ==
  LET r == T[t].task IN
  /\ T[t].pc \in Open \cup {"classify"} /\ Moves(T, t, T2) /\ T2[t].pc \in Open \cup {"done"}
  /\ A2 \in [Roots -> Seq(Scopes)] /\ D2 \in [Roots -> 0..MaxDepth]
  /\ \A q \in Roots : q # r => A2[q] = A[q] /\ D2[q] = D[q]
  /\ StackIs(T2, r, A2[r], D2[r])
  /\ T2[t].pc \in Open => TopIs(A2[r], Own(t))
  /\ T2[t].pc = "done" /\ t \in Subs => TopIs(A2[r], ChildScope(T[t].parent))

\* A turn that goes on, or completes and leaves, keeps the collectors in order.
LEMMA OneMoves ==
  ASSUME NEW T, NEW A, NEW D, Control(T, A, D), NEW t \in LoopTurns,
         NEW T2, NEW A2, NEW D2, Advances(T, A, D, t, T2, A2, D2)
  PROVE  Control(T2, A2, D2)
<1>a. PICK r : r = T[t].task
  OBVIOUS
<1>b. /\ T[t].pc \in Open \cup {"classify"} /\ Moves(T, t, T2) /\ T2[t].pc \in Open \cup {"done"}
      /\ A2 \in [Roots -> Seq(Scopes)] /\ D2 \in [Roots -> 0..MaxDepth]
      /\ \A q \in Roots : q # r => A2[q] = A[q] /\ D2[q] = D[q]
      /\ StackIs(T2, r, A2[r], D2[r])
      /\ T2[t].pc \in Open => TopIs(A2[r], Own(t))
      /\ T2[t].pc = "done" /\ t \in Subs => TopIs(A2[r], ChildScope(T[t].parent))
  BY <1>a DEF Advances
<1>1. /\ T2 \in [LoopTurns -> TurnRecords] /\ (\A x \in LoopTurns : x # t => T2[x] = T[x])
      /\ T2[t].task = T[t].task /\ T2[t].parent = T[t].parent
  BY <1>b DEF Moves
<1>2. /\ \A x \in LoopTurns : PlacedIs(T, A, x)
      /\ OneAtATime(T)
      /\ \A q \in Roots : StackIs(T, q, A[q], D[q])
  BY DEF Control
<1>3. T[t].pc \in {"plan", "react", "subs", "classify"} /\ T2[t].pc \in {"plan", "react", "subs", "done"}
  BY <1>b DEF Open
<1>4. \A x : Live(T2, x) <=> Live(T, x)
  <2>1. Subs \subseteq LoopTurns
    BY DEF LoopTurns
  <2> QED  BY <1>1, <1>3, <2>1 DEF Live, Awaited, Open
<1>5. ASSUME NEW q \in Roots PROVE StackIs(T2, q, A2[q], D2[q])
  <2>1. CASE q = r
    BY <1>a, <1>b, <2>1
  <2>2. CASE q # r
    <3>1. StackIs(T, q, A[q], D[q]) /\ A2[q] = A[q] /\ D2[q] = D[q]
      BY <1>a, <1>b, <1>2, <2>2
    <3>2. ASSUME NEW k \in 1..Len(A[q]) PROVE T2[A[q][k].of] = T[A[q][k].of]
      <4>1. A[q][k].of \in LoopTurns /\ T[A[q][k].of].task = q
        BY OnStack
      <4> QED  BY <1>a, <1>b, <1>1, <2>2, <4>1
    <3>3. StackIs(T2, q, A[q], D[q])
      BY <3>1, <3>2, StackSame
    <3> QED  BY <3>1, <3>3
  <2> QED  BY <2>1, <2>2
<1>6. ASSUME NEW x \in LoopTurns, x # t PROVE PlacedIs(T2, A2, x)
  <2>1. T2[x] = T[x] /\ PlacedIs(T, A, x)
    BY <1>1, <1>2, <1>6
  <2>2. T[x].pc \in Open \cup {"classify"} \/ (x \in Subs /\ T[x].pc = "done") => A2[T[x].task] = A[T[x].task]
    <3>1. SUFFICES ASSUME T[x].pc \in Open \cup {"classify"} \/ (x \in Subs /\ T[x].pc = "done")
                   PROVE  A2[T[x].task] = A[T[x].task]
      OBVIOUS
    <3>2. T[x].task # r
      BY <1>a, <1>b, <1>6, <3>1, NoOtherOpen
    <3>3. T[x].pc # "idle"
      BY <3>1 DEF Open
    <3>4. T[x].task \in Roots
      BY <2>1, <3>3 DEF PlacedIs
    <3> QED  BY <1>a, <1>b, <3>2, <3>4
  <2>3. T[x].pc # "idle" /\ x \in Subs => T[x].parent \in LoopTurns
    BY <2>1 DEF PlacedIs
  <2>4. T[x].pc # "idle" /\ x \in Subs => T2[T[x].parent].task = T[T[x].parent].task
    BY <1>1, <2>3
  <2>5. Live(T, x) => T2[T[x].parent].pc = "waits"
    <3>1. SUFFICES ASSUME Live(T, x) PROVE T2[T[x].parent].pc = "waits"
      OBVIOUS
    <3>2. T[T[x].parent].pc = "waits" /\ T[x].parent \in LoopTurns
      BY <2>1, <2>3, <3>1 DEF PlacedIs, Live, Awaited, Open
    <3> QED  BY <1>1, <1>3, <3>2
  <2>6. T[x].pc = "waits" => \E s \in Subs : T2[s].parent = x /\ Live(T2, s)
    <3>1. SUFFICES ASSUME T[x].pc = "waits" PROVE \E s \in Subs : T2[s].parent = x /\ Live(T2, s)
      OBVIOUS
    <3>2. PICK s \in Subs : T[s].parent = x /\ Live(T, s)
      BY <2>1, <3>1 DEF PlacedIs
    <3>3. s \in LoopTurns
      BY DEF LoopTurns
    <3> QED  BY <1>1, <1>4, <3>2, <3>3
  <2> QED  BY <2>1, <2>2, <2>4, <2>5, <2>6, PlacedSame
<1>7. PlacedIs(T2, A2, t)
  <2>1. PlacedIs(T, A, t)
    BY <1>2
  <2>2. Live(T2, t) => T2[T2[t].parent].pc = "waits"
    <3>1. SUFFICES ASSUME Live(T2, t) PROVE T2[T[t].parent].pc = "waits"
      BY <1>1
    <3>2. Live(T, t) /\ t \in Subs
      BY <1>4, <3>1 DEF Live
    <3>3. T[T[t].parent].pc = "waits" /\ T[t].parent \in LoopTurns
      BY <1>3, <2>1, <3>2 DEF PlacedIs
    <3> QED  BY <1>1, <1>3, <3>3
  <2>3. t \in Subs => T2[T2[t].parent].task = T2[t].task /\ T2[t].parent \in LoopTurns
    <3>1. t \in Subs => T[T[t].parent].task = T[t].task /\ T[t].parent \in LoopTurns
      BY <1>3, <2>1 DEF PlacedIs
    <3> QED  BY <1>1, <3>1
  <2>4. T2[t].task = r /\ r \in Roots /\ T2[t].parent # t /\ (t \in Roots => r = t /\ T2[t].parent = NoTurn)
    BY <1>a, <1>b, <1>1, <1>3, <2>1 DEF PlacedIs
  <2>5. /\ T2[t].pc \in Open => TopIs(A2[T2[t].task], Own(t))
        /\ T2[t].pc = "done" /\ t \in Subs => TopIs(A2[T2[t].task], ChildScope(T2[t].parent))
    BY <1>a, <1>b, <1>1, <2>4
  <2>6. T2[t].pc \notin {"idle", "added", "classify", "waits"}
    BY <1>3
  <2> QED  BY <2>2, <2>3, <2>4, <2>5, <2>6 DEF PlacedIs
<1>8. OneAtATime(T2)
  <2>1. \A x \in Subs : T2[x].parent = T[x].parent
    BY <1>1 DEF LoopTurns
  <2> QED  BY <1>2, <1>4, <2>1 DEF OneAtATime
<1>9. \A x \in LoopTurns : PlacedIs(T2, A2, x)
  BY <1>6, <1>7
<1> QED  BY <1>a, <1>b, <1>1, <1>5, <1>8, <1>9 DEF Control

\* A collector keeps its place in a stack that differs elsewhere.
LEMMA NestedSame ==
  ASSUME NEW T, NEW r, NEW a, NEW k \in Nat, NestedIs(T, r, a, k), NEW T2, NEW a2, a2[k] = a[k],
         k > 1 => a2[k - 1] = a[k - 1],
         T2[a[k].of].task = T[a[k].of].task, T2[a[k].of].parent = T[a[k].of].parent,
         k < Len(a2) \/ a[k].child => T2[a[k].of].pc = "waits",
         k = Len(a2) /\ ~a[k].child => T2[a[k].of].pc \in Open
  PROVE  NestedIs(T2, r, a2, k)
BY DEF NestedIs

\* A turn that opens or closes a collector is on no other place of a stack.
LEMMA OffStack ==
  ASSUME NEW T, NEW A, NEW D, Control(T, A, D), NEW t \in LoopTurns, NEW r \in Roots, NEW k \in 1..Len(A[r])
  PROVE  /\ T[t].pc \notin Open \cup {"waits"} => A[r][k].of # t
         /\ T[t].pc # "waits" /\ k < Len(A[r]) => A[r][k].of # t
         /\ r # T[t].task => A[r][k].of # t
BY OnStack

\* The collectors open in a task, each nested in the one below, and the depth they stand for.
LEMMA StackNat ==
  ASSUME NEW T, NEW A, NEW D, Control(T, A, D), NEW r \in Roots
  PROVE  /\ A[r] \in Seq(Scopes) /\ Len(A[r]) \in Nat /\ D[r] \in Nat /\ D[r] <= MaxDepth /\ MaxDepth \in Nat
         /\ 2 * D[r] = Doubled(T, A[r]) /\ NoTwice(A[r]) /\ \A k \in 1..Len(A[r]) : NestedIs(T, r, A[r], k)
<1>1. StackIs(T, r, A[r], D[r])
  BY DEF Control
<1>2. MaxDepth \in Nat
  BY TurnBoundsAssumption
<1> QED  BY <1>1, <1>2 DEF StackIs

\* A turn's own collector is its own.
LEMMA OwnIs ==
  /\ \A y : Own(y).child = FALSE /\ Own(y).of = y /\ (y \in LoopTurns => Own(y) \in Scopes)
  /\ \A y : ChildScope(y).child = TRUE /\ ChildScope(y).of = y /\ (y \in LoopTurns => ChildScope(y) \in Scopes)
BY DEF Own, ChildScope, Scopes

\* A turn opens its collector.
LEMMA StackPush ==
  ASSUME NEW T, NEW A, NEW D, Control(T, A, D), NEW t \in LoopTurns, T[t].pc = "classify",
         NEW T2, Moves(T, t, T2), T2[t].pc = "plan", NEW r, r = T[t].task
  PROVE  StackIs(T2, r, Append(A[r], Own(t)), D[r]) /\ TopIs(Append(A[r], Own(t)), Own(t)) /\ r \in Roots
         /\ Append(A[r], Own(t)) \in Seq(Scopes)
<1>1. /\ T2 \in [LoopTurns -> TurnRecords] /\ (\A x \in LoopTurns : x # t => T2[x] = T[x])
      /\ T2[t].task = T[t].task /\ T2[t].parent = T[t].parent
  BY DEF Moves
<1>2. PlacedIs(T, A, t)
  BY DEF Control
<1>3. /\ r \in Roots
      /\ t \in Roots => t = r /\ A[r] = <<>>
      /\ t \in Subs => TopIs(A[r], ChildScope(T[t].parent))
  BY <1>2 DEF PlacedIs
<1>4. PICK a, n, c : a = A[r] /\ n = Len(a) /\ c = Own(t)
  OBVIOUS
<1>5. a \in Seq(Scopes) /\ n \in Nat /\ 2 * D[r] = Doubled(T, a) /\ D[r] \in 0..MaxDepth
      /\ \A k \in 1..n : NestedIs(T, r, a, k)
  BY <1>3, <1>4, StackNat
<1>6. c \in Scopes /\ c.child = FALSE /\ c.of = t
  BY <1>4, OwnIs
<1>7. PICK b : b = Append(a, c)
  OBVIOUS
<1>8. b \in Seq(Scopes) /\ Len(b) = n + 1 /\ b[n + 1] = c /\ \A k \in 1..n : b[k] = a[k]
  BY <1>4, <1>5, <1>6, <1>7
<1>9. t \in Roots \/ t \in Subs
  BY DEF LoopTurns
<1>10. n > 0 => a[n].child /\ t \in Subs /\ T[t].parent = a[n].of
  <2>1. SUFFICES ASSUME n > 0 PROVE a[n].child /\ t \in Subs /\ T[t].parent = a[n].of
    OBVIOUS
  <2>2. t \in Subs
    BY <1>3, <1>4, <1>9, <2>1
  <2>3. a[n] = ChildScope(T[t].parent)
    BY <1>3, <1>4, <2>2 DEF TopIs
  <2> QED  BY <2>2, <2>3, OwnIs
<1>11. n = 0 => t = r
  BY <1>3, <1>4, <1>9 DEF TopIs
<1>12. ASSUME NEW k \in 1..(n + 1) PROVE NestedIs(T2, r, b, k)
  <2>1. CASE k = n + 1
    <3>1. k > 1 => b[k - 1] = a[n] /\ n > 0
      BY <1>5, <1>8, <2>1
    <3>2. k = 1 => n = 0
      BY <1>5, <2>1
    <3>3. T2[t].pc \in Open
      BY DEF Open
    <3> QED  BY <1>1, <1>5, <1>6, <1>8, <1>10, <1>11, <2>1, <3>1, <3>2, <3>3 DEF NestedIs
  <2>2. CASE k # n + 1
    <3>1. k \in 1..n /\ k \in Nat /\ k < n + 1 /\ (k > 1 => k - 1 \in 1..n)
      BY <1>5, <2>2
    <3>2. NestedIs(T, r, a, k) /\ b[k] = a[k] /\ (k > 1 => b[k - 1] = a[k - 1])
      BY <1>5, <1>8, <3>1
    <3>3. a[k].of # t /\ a[k].of \in LoopTurns
      <4>1. T[t].pc \notin Open \cup {"waits"}
        BY DEF Open
      <4> QED  BY <1>3, <1>4, <3>1, <4>1, OffStack, OnStack
    <3>4. T2[a[k].of] = T[a[k].of]
      BY <1>1, <3>3
    <3>5. T[a[k].of].pc = "waits"
      <4>1. CASE k < n
        BY <1>3, <1>4, <3>1, <4>1, OnStack
      <4>2. CASE k = n
        <5>1. NestedIs(T, r, a, k) /\ a[k].child
          BY <1>10, <3>1, <3>2, <4>2
        <5> QED  BY ONLY <5>1 DEF NestedIs
      <4> QED  BY <1>5, <3>1, <4>1, <4>2
    <3> QED  BY <1>8, <3>1, <3>2, <3>4, <3>5, NestedSame
  <2> QED  BY <2>1, <2>2
<1>13. Doubled(T2, b) = Doubled(T, a)
  <2>1. Doubled(T2, b) = n
    BY <1>5, <1>6, <1>8 DEF Doubled
  <2>2. Doubled(T, a) = n
    BY <1>4, <1>5, <1>10 DEF Doubled
  <2> QED  BY <2>1, <2>2
<1>16. NoTwice(b)
  <2>1. NoTwice(a)
    BY <1>3, <1>4 DEF Control, StackIs
  <2>2. \A k \in 1..n : a[k].of # t
    <3>1. T[t].pc \notin Open \cup {"waits"}
      BY DEF Open
    <3> QED  BY <1>3, <1>4, <3>1, OffStack
  <2>3. \A k \in 1..(n + 1) : k \in 1..n \/ k = n + 1
    BY <1>5
  <2>4. ASSUME NEW j \in 1..(n + 1), NEW k \in 1..(n + 1), j # k, ~b[j].child, ~b[k].child
        PROVE  b[j].of # b[k].of
    <3>1. CASE j \in 1..n /\ k \in 1..n
      <4>1. j \in 1..Len(a) /\ k \in 1..Len(a) /\ j # k /\ b[j] = a[j] /\ b[k] = a[k]
        BY <1>4, <1>8, <2>4, <3>1
      <4>2. ~a[j].child /\ ~a[k].child
        BY <2>4, <4>1
      <4>3. a[j].of # a[k].of
        BY ONLY <2>1, <4>1, <4>2 DEF NoTwice
      <4> QED  BY <4>1, <4>3
    <3>2. CASE j \in 1..n /\ k = n + 1
      BY <1>6, <1>8, <2>2, <3>2
    <3>3. CASE j = n + 1 /\ k \in 1..n
      BY <1>6, <1>8, <2>2, <3>3
    <3> QED  BY <2>3, <2>4, <3>1, <3>2, <3>3
  <2> QED  BY <1>8, <2>4 DEF NoTwice
<1>14. StackIs(T2, r, b, D[r])
  BY <1>5, <1>8, <1>12, <1>13, <1>16 DEF StackIs
<1>15. TopIs(b, c)
  BY <1>5, <1>8 DEF TopIs
<1> QED  BY <1>3, <1>4, <1>7, <1>8, <1>14, <1>15

\* What is left of a stack without its top.
LEMMA FrontIs ==
  ASSUME NEW S, NEW s \in Seq(S), Len(s) > 0
  PROVE  /\ Front(s) \in Seq(S) /\ Len(Front(s)) = Len(s) - 1
         /\ \A k \in 1..(Len(s) - 1) : Front(s)[k] = s[k]
<1>1. PICK n : n = Len(s) - 1 /\ n \in Nat /\ Len(s) = n + 1
  OBVIOUS
<1>2. 1 \in Int /\ n \in Int /\ \A i \in 1..n : s[i] \in S
  BY <1>1
<1>3. /\ SubSeq(s, 1, n) \in Seq(S) /\ Len(SubSeq(s, 1, n)) = IF 1 <= n THEN n - 1 + 1 ELSE 0
      /\ \A i \in 1..(n - 1 + 1) : SubSeq(s, 1, n)[i] = s[1 + i - 1]
  BY ONLY <1>2, SubSeqProperties
<1>4. Front(s) = SubSeq(s, 1, n)
  BY <1>1 DEF Front
<1>5. Len(SubSeq(s, 1, n)) = n /\ n - 1 + 1 = n /\ \A i \in 1..n : 1 + i - 1 = i
  <2>1. n - 1 + 1 = n /\ \A i \in 1..n : 1 + i - 1 = i
    BY <1>1
  <2>2. Len(SubSeq(s, 1, n)) = n
    BY ONLY <1>1, <1>3, <2>1
  <2> QED  BY <2>1, <2>2
<1> QED  BY <1>1, <1>3, <1>4, <1>5

\* A turn's collector is innermost in a stack, and those below it wait.
RunsOnTop(T, D, t, r, a) ==
  LET n == Len(a)
  IN /\ r \in Roots /\ n \in Nat /\ n >= 1 /\ a[n] = Own(t)
     /\ \A k \in 1..n : k < n => a[k].of \in LoopTurns /\ a[k].of # t /\ T[a[k].of].pc = "waits"
     /\ 2 * D[r] = IF T[t].pc = "subs" THEN n + 1 ELSE n - 1
     /\ n = 1 => t = r
     /\ n > 1 => a[n - 1].child /\ t \in Subs /\ T[t].parent = a[n - 1].of

\* The turn whose collector is innermost.
LEMMA TopOf ==
  ASSUME NEW T, NEW A, NEW D, Control(T, A, D), NEW t \in LoopTurns, T[t].pc \in Open, NEW r, r = T[t].task
  PROVE  RunsOnTop(T, D, t, r, A[r])
<1>1. PlacedIs(T, A, t)
  BY DEF Control
<1>2. r \in Roots /\ TopIs(A[r], Own(t))
  BY <1>1 DEF PlacedIs, Open
<1>3. PICK a, n : a = A[r] /\ n = Len(a)
  OBVIOUS
<1>4. /\ a \in Seq(Scopes) /\ n \in Nat /\ n >= 1 /\ a[n] = Own(t) /\ 2 * D[r] = Doubled(T, a)
      /\ \A k \in 1..n : NestedIs(T, r, a, k)
  BY <1>2, <1>3, StackNat DEF TopIs
<1>5. a[n].child = FALSE /\ a[n].of = t
  BY <1>4, OwnIs
<1>6. ASSUME NEW k \in 1..n, k < n PROVE a[k].of \in LoopTurns /\ a[k].of # t /\ T[a[k].of].pc = "waits"
  <2>1. a[k].of \in LoopTurns /\ T[a[k].of].pc = "waits"
    BY <1>2, <1>3, <1>6, OnStack
  <2> QED  BY <2>1 DEF Open
<1>7. Doubled(T, a) = IF T[t].pc = "subs" THEN n + 1 ELSE n - 1
  BY <1>3, <1>4, <1>5 DEF Doubled
<1>8. NestedIs(T, r, a, n)
  BY <1>4
<1>9. /\ n = 1 => t = r
      /\ n > 1 => a[n - 1].child /\ t \in Subs /\ T[t].parent = a[n - 1].of
  BY <1>5, <1>8 DEF NestedIs
<1>10. RunsOnTop(T, D, t, r, a)
  BY <1>2, <1>3, <1>4, <1>6, <1>7, <1>9 DEF RunsOnTop
<1> QED  BY <1>3, <1>10

\* The turn that runs goes on to its next await.
LEMMA StackTop ==
  ASSUME NEW T, NEW A, NEW D, Control(T, A, D), NEW t \in LoopTurns, T[t].pc = "plan",
         NEW T2, Moves(T, t, T2), T2[t].pc \in {"react", "subs"}, NEW r, r = T[t].task,
         NEW d, d = IF T2[t].pc = "subs" THEN D[r] + 1 ELSE D[r], d <= MaxDepth
  PROVE  StackIs(T2, r, A[r], d) /\ TopIs(A[r], Own(t)) /\ r \in Roots /\ d \in 0..MaxDepth
<1>1. /\ T2 \in [LoopTurns -> TurnRecords] /\ (\A x \in LoopTurns : x # t => T2[x] = T[x])
      /\ T2[t].task = T[t].task /\ T2[t].parent = T[t].parent
  BY DEF Moves
<1>2. T[t].pc \in Open /\ T2[t].pc \in Open
  BY DEF Open
<1>3. PICK a, n : a = A[r] /\ n = Len(a)
  OBVIOUS
<1>4. /\ r \in Roots /\ n \in Nat /\ n >= 1 /\ a[n] = Own(t) /\ 2 * D[r] = n - 1
      /\ \A k \in 1..n : k < n => a[k].of \in LoopTurns /\ a[k].of # t /\ T[a[k].of].pc = "waits"
  <2>1. T[t].pc # "subs"
    OBVIOUS
  <2>2. RunsOnTop(T, D, t, r, A[r])
    BY <1>2, TopOf
  <2> QED  BY ONLY <1>3, <2>1, <2>2 DEF RunsOnTop
<1>5. a \in Seq(Scopes) /\ D[r] \in Nat /\ MaxDepth \in Nat /\ \A k \in 1..n : NestedIs(T, r, a, k)
  BY <1>3, <1>4, StackNat
<1>6. a[n].child = FALSE /\ a[n].of = t
  BY <1>4, OwnIs
<1>7. ASSUME NEW k \in 1..n PROVE NestedIs(T2, r, a, k)
  <2>1. CASE k = n
    <3>1. NestedIs(T, r, a, k) /\ k \in Nat
      BY <1>5
    <3> QED  BY <1>1, <1>2, <1>3, <1>6, <2>1, <3>1, NestedSame
  <2>2. CASE k # n
    <3>1. k < n /\ k \in Nat /\ NestedIs(T, r, a, k)
      BY <1>4, <1>5, <2>2
    <3>2. T2[a[k].of] = T[a[k].of] /\ T[a[k].of].pc = "waits"
      BY <1>1, <1>4, <3>1
    <3> QED  BY <1>3, <3>1, <3>2, NestedSame
  <2> QED  BY <2>1, <2>2
<1>8. Doubled(T2, a) = 2 * d
  <2>1. Doubled(T2, a) = IF T2[t].pc = "subs" THEN n + 1 ELSE n - 1
    BY <1>3, <1>4, <1>6 DEF Doubled
  <2>2. PICK z : z = D[r] /\ z \in Nat /\ n \in Nat /\ 2 * z = n - 1
    BY <1>4, <1>5
  <2>3. d = IF T2[t].pc = "subs" THEN z + 1 ELSE z
    BY <2>2, Zenon
  <2> QED  BY ONLY <2>1, <2>2, <2>3
<1>9. d \in 0..MaxDepth
  <2>1. d \in Nat
    BY <1>5
  <2> QED  BY <1>5, <2>1
<1>10. StackIs(T2, r, a, d)
  <2>1. NoTwice(a)
    BY <1>3, <1>4, StackNat
  <2> QED  BY <1>3, <1>5, <1>7, <1>8, <1>9, <2>1 DEF StackIs
<1> QED  BY <1>3, <1>4, <1>9, <1>10 DEF TopIs

\* The turn that runs completes: its collector closes.
LEMMA StackPop ==
  ASSUME NEW T, NEW A, NEW D, Control(T, A, D), NEW t \in LoopTurns, T[t].pc \in {"react", "subs"},
         NEW T2, Moves(T, t, T2), T2[t].pc = "done", NEW r, r = T[t].task,
         NEW d, d = IF T[t].pc = "subs" THEN D[r] - 1 ELSE D[r]
  PROVE  /\ StackIs(T2, r, Front(A[r]), d) /\ r \in Roots /\ d \in 0..MaxDepth /\ Front(A[r]) \in Seq(Scopes)
         /\ t \in Subs => TopIs(Front(A[r]), ChildScope(T[t].parent))
<1>1. /\ T2 \in [LoopTurns -> TurnRecords] /\ (\A x \in LoopTurns : x # t => T2[x] = T[x])
      /\ T2[t].task = T[t].task /\ T2[t].parent = T[t].parent
  BY DEF Moves
<1>2. T[t].pc \in Open
  BY DEF Open
<1>3. PICK a, n : a = A[r] /\ n = Len(a)
  OBVIOUS
<1>4. /\ r \in Roots /\ n \in Nat /\ n >= 1 /\ a[n] = Own(t)
      /\ \A k \in 1..n : k < n => a[k].of \in LoopTurns /\ a[k].of # t /\ T[a[k].of].pc = "waits"
      /\ 2 * D[r] = IF T[t].pc = "subs" THEN n + 1 ELSE n - 1
      /\ n = 1 => t = r
      /\ n > 1 => a[n - 1].child /\ t \in Subs /\ T[t].parent = a[n - 1].of
  <2>1. RunsOnTop(T, D, t, r, A[r])
    BY <1>2, TopOf
  <2> QED  BY ONLY <1>3, <2>1 DEF RunsOnTop
<1>5. a \in Seq(Scopes) /\ D[r] \in Nat /\ D[r] <= MaxDepth /\ MaxDepth \in Nat /\ \A k \in 1..n : NestedIs(T, r, a, k)
  BY <1>3, <1>4, StackNat
<1>6. PICK b, m : b = Front(a) /\ m = n - 1 /\ m \in Nat /\ n = m + 1
  BY <1>4
<1>7. b \in Seq(Scopes) /\ Len(b) = m /\ \A k \in 1..m : b[k] = a[k]
  <2>1. Len(a) > 0
    BY <1>3, <1>4
  <2>2. Front(a) \in Seq(Scopes) /\ Len(Front(a)) = Len(a) - 1 /\ \A k \in 1..(Len(a) - 1) : Front(a)[k] = a[k]
    BY <1>5, <2>1, FrontIs
  <2> QED  BY <1>3, <1>6, <2>2
<1>8. ASSUME NEW k \in 1..m PROVE NestedIs(T2, r, b, k)
  <2>1. k \in 1..n /\ k < n /\ k \in Nat /\ NestedIs(T, r, a, k) /\ (k > 1 => k - 1 \in 1..m)
    BY <1>5, <1>6
  <2>2. T2[a[k].of] = T[a[k].of] /\ T[a[k].of].pc = "waits"
    BY <1>1, <1>4, <2>1
  <2>3. b[k] = a[k] /\ (k > 1 => b[k - 1] = a[k - 1])
    BY <1>7, <2>1
  <2>4. k = m => a[k].child
    BY <1>4, <1>6, <2>1
  <2> QED  BY <1>7, <2>1, <2>2, <2>3, <2>4, NestedSame
<1>9. m > 0 => b[m] = a[m] /\ a[m].child /\ t \in Subs /\ T[t].parent = a[m].of /\ a[m] \in Scopes
  BY <1>4, <1>5, <1>6, <1>7
<1>10. Doubled(T2, b) = m
  <2>1. CASE m = 0
    BY <1>7, <2>1 DEF Doubled
  <2>2. CASE m # 0
    <3>1. m > 0 /\ Len(b) = m
      BY <1>6, <1>7, <2>2
    <3>2. Len(b) # 0 /\ b[Len(b)].child
      BY <1>9, <3>1
    <3> QED  BY <3>1, <3>2 DEF Doubled
  <2> QED  BY <2>1, <2>2
<1>11. 2 * d = m /\ d \in 0..MaxDepth
  <2>1. CASE T[t].pc = "subs"
    <3>1. d = D[r] - 1 /\ 2 * D[r] = n + 1
      BY <1>4, <2>1
    <3>2. PICK z : z = D[r] /\ z \in Nat /\ z <= MaxDepth /\ MaxDepth \in Nat /\ 2 * z = m + 2 /\ d = z - 1
      BY <1>5, <1>6, <3>1
    <3>3. z >= 1
      BY <1>6, <3>2
    <3> QED  BY <1>6, <3>2, <3>3
  <2>2. CASE T[t].pc # "subs"
    <3>1. d = D[r] /\ 2 * D[r] = n - 1
      BY <1>4, <2>2
    <3> QED  BY <1>5, <1>6, <3>1
  <2> QED  BY <2>1, <2>2
<1>12. StackIs(T2, r, b, d)
  <2>1. NoTwice(a)
    BY <1>3, <1>4, StackNat
  <2>2. \A k \in 1..m : k \in 1..n
    BY <1>6
  <2>3. NoTwice(b)
    BY <1>3, <1>7, <2>1, <2>2 DEF NoTwice
  <2> QED  BY <1>7, <1>8, <1>10, <1>11, <2>3 DEF StackIs
<1>13. t \in Subs => TopIs(b, ChildScope(T[t].parent))
  <2>1. SUFFICES ASSUME t \in Subs PROVE TopIs(b, ChildScope(T[t].parent))
    OBVIOUS
  <2>2. t \notin Roots
    BY <2>1, TurnsAssumption
  <2>3. m > 0
    <3>1. n # 1
      BY <1>4, <2>2
    <3> QED  BY <1>4, <1>6, <3>1
  <2>4. a[m] = ChildScope(T[t].parent)
    BY <1>9, <2>3 DEF Scopes, ChildScope
  <2> QED  BY <1>7, <1>9, <2>3, <2>4 DEF TopIs
<1> QED  BY <1>3, <1>4, <1>6, <1>7, <1>11, <1>12, <1>13

\* A turn opens a sub-turn in a scope of its own.
GoesDown(T, A, t, s, T2, A2) ==
  /\ T[t].pc = "subs" /\ T[s].pc = "idle"
  /\ T2 \in [LoopTurns -> TurnRecords] /\ \A x \in LoopTurns : x # t /\ x # s => T2[x] = T[x]
  /\ T2[t].pc = "waits" /\ T2[t].task = T[t].task /\ T2[t].parent = T[t].parent
  /\ T2[s].pc = "classify" /\ T2[s].task = T[t].task /\ T2[s].parent = t
  /\ A2 = [A EXCEPT ![T[t].task] = Append(@, ChildScope(t))]

\* A sub-turn that is opened goes on top of its parent's collector.
LEMMA SubOpens ==
  ASSUME NEW T, NEW A, NEW D, Control(T, A, D), NEW t \in LoopTurns, NEW s \in Subs,
         NEW T2, NEW A2, GoesDown(T, A, t, s, T2, A2)
  PROVE  Control(T2, A2, D)
<1>a. PICK r : r = T[t].task
  OBVIOUS
<1>b. /\ T[t].pc = "subs" /\ T[s].pc = "idle"
      /\ T2 \in [LoopTurns -> TurnRecords] /\ \A x \in LoopTurns : x # t /\ x # s => T2[x] = T[x]
      /\ T2[t].pc = "waits" /\ T2[t].task = T[t].task /\ T2[t].parent = T[t].parent
      /\ T2[s].pc = "classify" /\ T2[s].task = T[t].task /\ T2[s].parent = t
  BY DEF GoesDown
<1>c. A2 = [A EXCEPT ![r] = Append(@, ChildScope(t))]
  BY <1>a DEF GoesDown
<1>1. /\ \A x \in LoopTurns : PlacedIs(T, A, x)
      /\ OneAtATime(T)
      /\ \A q \in Roots : StackIs(T, q, A[q], D[q])
      /\ A \in [Roots -> Seq(Scopes)] /\ D \in [Roots -> 0..MaxDepth]
  BY DEF Control
<1>2. s \in LoopTurns /\ s # t /\ s \notin Roots /\ NoTurn \notin LoopTurns /\ NoTurn \notin Roots /\ Subs \subseteq LoopTurns
  BY <1>a, <1>b, TurnsAssumption DEF LoopTurns
<1>3. T[s].task = NoTurn /\ T[s].parent = NoTurn
  <2>1. T[s] = Unopened
    BY <1>a, <1>b, <1>1, <1>2 DEF PlacedIs
  <2> QED  BY <2>1 DEF Unopened
<1>4. T[t].pc \in Open
  BY <1>a, <1>b DEF Open
<1>5. PICK a, n : a = A[r] /\ n = Len(a)
  OBVIOUS
<1>6. /\ r \in Roots /\ n \in Nat /\ n >= 1 /\ a[n] = Own(t)
      /\ \A k \in 1..n : k < n => a[k].of \in LoopTurns /\ a[k].of # t /\ T[a[k].of].pc = "waits"
      /\ 2 * D[r] = n + 1
  <2>1. RunsOnTop(T, D, t, r, A[r])
    BY <1>a, <1>b, <1>4, TopOf
  <2>2. T[t].pc = "subs"
    BY <1>b
  <2> QED  BY ONLY <1>5, <2>1, <2>2 DEF RunsOnTop
<1>7. a \in Seq(Scopes) /\ NoTwice(a) /\ \A k \in 1..n : NestedIs(T, r, a, k)
  BY <1>5, <1>6, StackNat
<1>8. a[n].child = FALSE /\ a[n].of = t
  BY <1>6, OwnIs
<1>9. PICK b, c : c = ChildScope(t) /\ b = Append(a, c)
  OBVIOUS
<1>10. c \in Scopes /\ c.child = TRUE /\ c.of = t
  BY <1>9, OwnIs
<1>11. b \in Seq(Scopes) /\ Len(b) = n + 1 /\ b[n + 1] = c /\ \A k \in 1..n : b[k] = a[k]
  BY <1>5, <1>7, <1>9, <1>10
<1>12. A2 \in [Roots -> Seq(Scopes)] /\ A2[r] = b /\ \A q \in Roots : q # r => A2[q] = A[q]
  BY <1>c, <1>a, <1>b, <1>1, <1>5, <1>6, <1>9, <1>11
<1>13. \A q \in Roots : \A k \in 1..Len(A[q]) : A[q][k].of # s /\ A[q][k].of \in LoopTurns
  <2>1. T[s].pc \notin Open \cup {"waits"}
    BY <1>a, <1>b DEF Open
  <2> QED  BY <1>2, <2>1, OffStack, OnStack
<1>14. ASSUME NEW k \in 1..(n + 1) PROVE NestedIs(T2, r, b, k)
  <2>1. CASE k = n + 1
    <3>1. k > 1 /\ b[k - 1] = a[n] /\ b[k] = c
      BY <1>6, <1>11, <2>1
    <3> QED  BY <1>a, <1>b, <1>8, <1>10, <1>11, <2>1, <3>1 DEF NestedIs
  <2>2. CASE k # n + 1
    <3>1. k \in 1..n /\ k \in Nat /\ k < n + 1 /\ (k > 1 => k - 1 \in 1..n)
      BY <1>6, <2>2
    <3>2. NestedIs(T, r, a, k) /\ b[k] = a[k] /\ (k > 1 => b[k - 1] = a[k - 1])
      BY <1>7, <1>11, <3>1
    <3>3. CASE k < n
      <4>1. a[k].of \in LoopTurns /\ a[k].of # t /\ T[a[k].of].pc = "waits" /\ a[k].of # s
        BY <1>5, <1>6, <1>13, <3>1, <3>3
      <4>2. T2[a[k].of] = T[a[k].of]
        BY <1>a, <1>b, <4>1
      <4> QED  BY <1>11, <3>1, <3>2, <4>1, <4>2, NestedSame
    <3>4. CASE k = n
      <4>1. T2[a[k].of].task = T[a[k].of].task /\ T2[a[k].of].parent = T[a[k].of].parent /\ T2[a[k].of].pc = "waits"
        BY <1>a, <1>b, <1>8, <3>4
      <4> QED  BY <1>11, <3>1, <3>2, <4>1, NestedSame
    <3> QED  BY <1>6, <3>1, <3>3, <3>4
  <2> QED  BY <2>1, <2>2
<1>15. NoTwice(b)
  <2>1. ASSUME NEW k \in 1..(n + 1), ~b[k].child PROVE k \in 1..n /\ b[k] = a[k]
    BY <1>6, <1>10, <1>11, <2>1
  <2>2. ASSUME NEW j \in 1..(n + 1), NEW k \in 1..(n + 1), j # k, ~b[j].child, ~b[k].child
        PROVE  b[j].of # b[k].of
    <3>1. j \in 1..Len(a) /\ k \in 1..Len(a) /\ j # k /\ b[j] = a[j] /\ b[k] = a[k]
      BY <1>5, <2>1, <2>2
    <3>2. ~a[j].child /\ ~a[k].child
      BY <2>2, <3>1
    <3>3. a[j].of # a[k].of
      BY ONLY <1>7, <3>1, <3>2 DEF NoTwice
    <3> QED  BY <3>1, <3>3
  <2> QED  BY <1>11, <2>2 DEF NoTwice
<1>16. 2 * D[r] = Doubled(T2, b)
  <2>1. Len(b) # 0 /\ b[Len(b)].child
    BY <1>6, <1>10, <1>11
  <2> QED  BY <1>6, <1>11, <2>1 DEF Doubled
<1>17. ASSUME NEW q \in Roots PROVE StackIs(T2, q, A2[q], D[q])
  <2>1. CASE q = r
    BY <1>1, <1>6, <1>11, <1>12, <1>14, <1>15, <1>16, <2>1 DEF StackIs
  <2>2. CASE q # r
    <3>1. StackIs(T, q, A[q], D[q]) /\ A2[q] = A[q]
      BY <1>1, <1>12, <2>2
    <3>2. ASSUME NEW k \in 1..Len(A[q]) PROVE T2[A[q][k].of] = T[A[q][k].of]
      <4>1. A[q][k].of \in LoopTurns /\ T[A[q][k].of].task = q /\ A[q][k].of # s
        BY <1>13, OnStack
      <4> QED  BY <1>a, <1>b, <2>2, <4>1
    <3>3. StackIs(T2, q, A[q], D[q])
      <4>1. \A k \in 1..Len(A[q]) : LET o == A[q][k].of IN
              T2[o].pc = T[o].pc /\ T2[o].task = T[o].task /\ T2[o].parent = T[o].parent
        BY <3>2
      <4> QED  BY ONLY <3>1, <4>1, StackSame
    <3> QED  BY <3>1, <3>3
  <2> QED  BY <2>1, <2>2
<1>18. \A x : Live(T2, x) <=> Live(T, x) \/ x = s
  BY <1>a, <1>b, <1>2 DEF Live, Awaited, Open
<1>19. ASSUME NEW x \in LoopTurns, x # t, x # s PROVE PlacedIs(T2, A2, x)
  <2>1. T2[x] = T[x] /\ PlacedIs(T, A, x)
    BY <1>a, <1>b, <1>1, <1>19
  <2>2. T[x].pc # "idle" => T[x].task \in Roots /\ T[x].task # NoTurn
    BY <1>2, <2>1 DEF PlacedIs
  <2>3. T[x].pc \in Open \cup {"classify"} \/ (x \in Subs /\ T[x].pc = "done") => A2[T[x].task] = A[T[x].task]
    <3>1. SUFFICES ASSUME T[x].pc \in Open \cup {"classify"} \/ (x \in Subs /\ T[x].pc = "done")
                   PROVE  A2[T[x].task] = A[T[x].task]
      OBVIOUS
    <3>2. T[x].task # r
      BY <1>a, <1>b, <1>4, <1>19, <3>1, NoOtherOpen
    <3>3. T[x].pc # "idle"
      BY <3>1 DEF Open
    <3> QED  BY <1>12, <2>2, <3>2, <3>3
  <2>4. T[x].pc # "idle" /\ x \in Subs => T[x].parent \in LoopTurns /\ T[T[x].parent].task = T[x].task
    BY <2>1 DEF PlacedIs
  <2>5. T[x].pc # "idle" /\ x \in Subs => T2[T[x].parent].task = T[T[x].parent].task
    BY <1>a, <1>b, <1>3, <2>2, <2>4
  <2>6. Live(T, x) => T2[T[x].parent].pc = "waits"
    <3>1. SUFFICES ASSUME Live(T, x) PROVE T2[T[x].parent].pc = "waits"
      OBVIOUS
    <3>2. T[T[x].parent].pc = "waits" /\ T[x].parent \in LoopTurns
      BY <2>1, <2>4, <3>1 DEF PlacedIs, Live, Awaited, Open
    <3> QED  BY <1>a, <1>b, <3>2
  <2>7. T[x].pc = "waits" => \E y \in Subs : T2[y].parent = x /\ Live(T2, y)
    <3>1. SUFFICES ASSUME T[x].pc = "waits" PROVE \E y \in Subs : T2[y].parent = x /\ Live(T2, y)
      OBVIOUS
    <3>2. PICK y \in Subs : T[y].parent = x /\ Live(T, y)
      BY <2>1, <3>1 DEF PlacedIs
    <3>3. y \in LoopTurns /\ y # s
      BY <1>a, <1>b, <1>2, <3>2 DEF Live, Awaited, Open
    <3> QED  BY <1>a, <1>b, <1>18, <3>2, <3>3
  <2> QED  BY <2>1, <2>3, <2>5, <2>6, <2>7, PlacedSame
<1>20. PlacedIs(T, A, t)
  BY <1>1
<1>21. t \in Subs => T[t].parent \in LoopTurns /\ T[T[t].parent].task = r /\ T[t].parent # s /\ T[t].parent # t
                     /\ T[T[t].parent].pc = "waits"
  <2>1. t \in Subs => T[t].parent \in LoopTurns /\ T[T[t].parent].task = r /\ T[t].parent # t
    BY <1>a, <1>b, <1>20 DEF PlacedIs
  <2>2. t \in Subs => T[T[t].parent].pc = "waits"
    BY <1>a, <1>b, <1>20 DEF PlacedIs, Live, Awaited, Open
  <2> QED  BY <1>2, <1>3, <1>6, <2>1, <2>2
<1>22. PlacedIs(T2, A2, t)
  <2>1. /\ r \in Roots /\ T2[t].parent # t /\ (t \in Roots => r = t /\ T2[t].parent = NoTurn)
    BY <1>a, <1>b, <1>6, <1>20 DEF PlacedIs
  <2>2. t \in Subs => T2[t].parent \in LoopTurns /\ T2[T2[t].parent].task = T2[t].task /\ T2[T2[t].parent].pc = "waits"
    BY <1>a, <1>b, <1>21
  <2>3. \E y \in Subs : T2[y].parent = t /\ Live(T2, y)
    BY <1>a, <1>b, <1>18
  <2>4. Live(T2, t) => t \in Subs
    BY DEF Live
  <2> QED  BY <1>a, <1>b, <2>1, <2>2, <2>3, <2>4 DEF PlacedIs, Open
<1>23. PlacedIs(T2, A2, s)
  <2>1. TopIs(A2[r], ChildScope(t))
    BY <1>6, <1>9, <1>11, <1>12 DEF TopIs
  <2> QED  BY <1>a, <1>b, <1>2, <1>6, <2>1 DEF PlacedIs, Open
<1>24. OneAtATime(T2)
  <2>1. ASSUME NEW x \in Subs, x # s, Live(T2, x) PROVE Live(T, x) /\ T2[x].parent = T[x].parent /\ T[x].parent # t
    <3>1. Live(T, x) /\ x \in LoopTurns
      BY <1>2, <1>18, <2>1
    <3>2. T2[x].parent = T[x].parent
      BY <1>a, <1>b, <2>1, <3>1
    <3>3. T[T[x].parent].pc = "waits"
      BY <1>1, <3>1 DEF PlacedIs
    <3> QED  BY <1>a, <1>b, <3>1, <3>2, <3>3
  <2> QED  BY <1>a, <1>b, <1>1, <2>1 DEF OneAtATime
<1>25. \A x \in LoopTurns : PlacedIs(T2, A2, x)
  BY <1>19, <1>22, <1>23
<1> QED  BY <1>a, <1>b, <1>1, <1>12, <1>17, <1>24, <1>25 DEF Control

\* A sub-turn returns to the turn that waits for it: its scope closes.
GoesUp(T, A, t, s, T2, A2) ==
  /\ T[t].pc = "waits" /\ T[s].parent = t /\ T[s].pc = "done"
  /\ T2 \in [LoopTurns -> TurnRecords] /\ \A x \in LoopTurns : x # t /\ x # s => T2[x] = T[x]
  /\ T2[t].pc = "subs" /\ T2[t].task = T[t].task /\ T2[t].parent = T[t].parent
  /\ T2[s].pc = "added" /\ T2[s].task = T[s].task /\ T2[s].parent = t
  /\ A2 = [A EXCEPT ![T[t].task] = Front(@)]

\* A sub-turn that returns leaves its parent on top.
LEMMA SubComes ==
  ASSUME NEW T, NEW A, NEW D, Control(T, A, D), NEW t \in LoopTurns, NEW s \in Subs,
         NEW T2, NEW A2, GoesUp(T, A, t, s, T2, A2), NEW r, r = T[t].task
  PROVE  /\ Control(T2, A2, D) /\ Len(A[r]) > 1 /\ A[r][Len(A[r]) - 1] = Own(t) /\ r \in Roots
<1>a. /\ T[t].pc = "waits" /\ T[s].parent = t /\ T[s].pc = "done"
      /\ T2 \in [LoopTurns -> TurnRecords] /\ \A x \in LoopTurns : x # t /\ x # s => T2[x] = T[x]
      /\ T2[t].pc = "subs" /\ T2[t].task = T[t].task /\ T2[t].parent = T[t].parent
      /\ T2[s].pc = "added" /\ T2[s].task = T[s].task /\ T2[s].parent = t
  BY DEF GoesUp
<1>b. A2 = [A EXCEPT ![r] = Front(@)]
  BY DEF GoesUp
<1>1. /\ \A x \in LoopTurns : PlacedIs(T, A, x)
      /\ OneAtATime(T)
      /\ \A q \in Roots : StackIs(T, q, A[q], D[q])
      /\ A \in [Roots -> Seq(Scopes)] /\ D \in [Roots -> 0..MaxDepth]
  BY DEF Control
<1>2. s \in LoopTurns /\ s # t /\ s \notin Roots /\ NoTurn \notin LoopTurns /\ Subs \subseteq LoopTurns
  BY <1>a, TurnsAssumption DEF LoopTurns
<1>3. r \in Roots /\ T[s].task = r /\ TopIs(A[r], ChildScope(t)) /\ T[t].parent # t /\ (t \in Roots => r = t /\ T[t].parent = NoTurn)
  <2>1. PlacedIs(T, A, t) /\ PlacedIs(T, A, s)
    BY <1>1, <1>2
  <2>2. r \in Roots /\ T[t].parent # t /\ (t \in Roots => r = t /\ T[t].parent = NoTurn)
    BY <1>a, <2>1 DEF PlacedIs
  <2>3. T[s].task = r
    BY <1>a, <2>1 DEF PlacedIs
  <2>4. TopIs(A[r], ChildScope(t))
    BY <1>a, <2>1, <2>3 DEF PlacedIs
  <2> QED  BY <2>2, <2>3, <2>4
<1>4. Live(T, s) /\ \A y \in Subs : Live(T, y) /\ T[y].parent = t => y = s
  <2>1. Live(T, s)
    BY <1>a DEF Live, Awaited
  <2> QED  BY <1>a, <1>1, <2>1 DEF OneAtATime
<1>5. PICK a, n : a = A[r] /\ n = Len(a)
  OBVIOUS
<1>6. /\ a \in Seq(Scopes) /\ n \in Nat /\ NoTwice(a) /\ (\A k \in 1..n : NestedIs(T, r, a, k))
      /\ D[r] \in Nat /\ 2 * D[r] = Doubled(T, a)
  BY <1>3, <1>5, StackNat
<1>7. n >= 1 /\ a[n].child = TRUE /\ a[n].of = t
  BY <1>3, <1>5, <1>6, OwnIs DEF TopIs
<1>8. PICK m : m = n - 1 /\ m \in Nat /\ n = m + 1
  BY <1>6, <1>7
<1>9. m >= 1 /\ a[m].child = FALSE /\ a[m].of = t /\ a[m] = Own(t)
  <2>1. NestedIs(T, r, a, n) /\ n \in 1..n
    BY <1>6, <1>7
  <2>2. n # 1
    BY <1>7, <2>1 DEF NestedIs
  <2>3. n > 1 /\ m \in 1..n /\ n - 1 = m
    BY <1>7, <1>8, <2>2
  <2>4. ~a[m].child /\ a[m].of = t
    BY <1>7, <2>1, <2>3 DEF NestedIs
  <2>5. a[m] \in Scopes
    BY <1>5, <1>6, <2>3
  <2>6. a[m].child = FALSE
    BY <2>4, <2>5 DEF Scopes
  <2>7. a[m] = Own(t)
    BY <2>4, <2>5, <2>6 DEF Scopes, Own
  <2> QED  BY <1>8, <2>3, <2>4, <2>6, <2>7
<1>10. PICK b : b = Front(a)
  OBVIOUS
<1>11. b \in Seq(Scopes) /\ Len(b) = m /\ \A k \in 1..m : b[k] = a[k]
  <2>1. Len(a) > 0
    BY <1>5, <1>7
  <2>2. Front(a) \in Seq(Scopes) /\ Len(Front(a)) = Len(a) - 1 /\ \A k \in 1..(Len(a) - 1) : Front(a)[k] = a[k]
    BY <1>6, <2>1, FrontIs
  <2> QED  BY <1>5, <1>8, <1>10, <2>2
<1>12. A2 \in [Roots -> Seq(Scopes)] /\ A2[r] = b /\ \A q \in Roots : q # r => A2[q] = A[q]
  BY <1>b, <1>a, <1>1, <1>3, <1>5, <1>10, <1>11
<1>13. \A q \in Roots : \A k \in 1..Len(A[q]) : A[q][k].of # s /\ A[q][k].of \in LoopTurns
  <2>1. T[s].pc \notin Open \cup {"waits"}
    BY <1>a DEF Open
  <2> QED  BY <1>2, <2>1, OffStack, OnStack
\* Below the turn's own collector it has no other.
<1>14. ASSUME NEW k \in 1..m, k # m PROVE a[k].of # t
  <2>1. k \in 1..n /\ m \in 1..n /\ k \in Nat /\ k < m
    BY <1>8, <1>9, <1>14
  <2>2. CASE ~a[k].child
    <3>1. k \in 1..Len(a) /\ m \in 1..Len(a) /\ k # m /\ ~a[m].child
      BY <1>5, <1>9, <2>1
    <3>2. a[k].of # a[m].of
      BY ONLY <1>6, <2>2, <3>1 DEF NoTwice
    <3> QED  BY <1>9, <3>2
  <2>3. CASE a[k].child
    <3>1. NestedIs(T, r, a, k)
      BY <1>6, <2>1
    <3>2. k # 1
      BY <2>3, <3>1 DEF NestedIs
    <3>3. k > 1 /\ k - 1 \in 1..n /\ k - 1 # m
      BY <1>6, <1>8, <2>1, <3>2
    <3>4. ~a[k - 1].child /\ a[k].of = a[k - 1].of
      BY <2>3, <3>1, <3>3 DEF NestedIs
    <3>5. k - 1 \in 1..Len(a) /\ m \in 1..Len(a) /\ k - 1 # m /\ ~a[m].child
      BY <1>5, <1>9, <2>1, <3>3
    <3>6. a[k - 1].of # a[m].of
      BY ONLY <1>6, <3>4, <3>5 DEF NoTwice
    <3> QED  BY <1>9, <3>4, <3>6
  <2> QED  BY <2>2, <2>3
<1>15. ASSUME NEW k \in 1..m PROVE NestedIs(T2, r, b, k)
  <2>1. k \in 1..n /\ k < n /\ k \in Nat /\ NestedIs(T, r, a, k) /\ (k > 1 => k - 1 \in 1..m)
    BY <1>6, <1>8
  <2>2. b[k] = a[k] /\ (k > 1 => b[k - 1] = a[k - 1])
    BY <1>11, <2>1
  <2>3. CASE k = m
    <3>1. T2[a[k].of].task = T[a[k].of].task /\ T2[a[k].of].parent = T[a[k].of].parent /\ T2[a[k].of].pc \in Open
      BY <1>a, <1>9, <2>3 DEF Open
    <3> QED  BY <1>9, <1>11, <2>1, <2>2, <2>3, <3>1, NestedSame
  <2>4. CASE k # m
    <3>1. a[k].of # t /\ a[k].of # s /\ a[k].of \in LoopTurns
      BY <1>3, <1>5, <1>13, <1>14, <2>1, <2>4
    <3>2. T2[a[k].of] = T[a[k].of]
      BY <1>a, <3>1
    <3>3. T[a[k].of].pc = "waits"
      BY <1>3, <1>5, <2>1, OnStack
    <3> QED  BY <1>11, <2>1, <2>2, <2>4, <3>2, <3>3, NestedSame
  <2> QED  BY <2>3, <2>4
<1>16. NoTwice(b)
  <2>1. \A k \in 1..m : k \in 1..Len(a) /\ b[k] = a[k]
    BY <1>5, <1>8, <1>11
  <2>2. NoTwice(a) /\ Len(b) = m
    BY <1>6, <1>11
  <2> QED  BY ONLY <2>1, <2>2 DEF NoTwice
<1>17. 2 * D[r] = Doubled(T2, b)
  <2>1. Doubled(T, a) = n
    BY <1>5, <1>7 DEF Doubled
  <2>2. Len(b) # 0 /\ ~b[Len(b)].child /\ T2[b[Len(b)].of].pc = "subs"
    BY <1>a, <1>9, <1>11
  <2>3. Doubled(T2, b) = Len(b) + 1
    BY <2>2 DEF Doubled
  <2> QED  BY <1>6, <1>8, <1>11, <2>1, <2>3
<1>18. ASSUME NEW q \in Roots PROVE StackIs(T2, q, A2[q], D[q])
  <2>1. CASE q = r
    BY <1>1, <1>3, <1>11, <1>12, <1>15, <1>16, <1>17, <2>1 DEF StackIs
  <2>2. CASE q # r
    <3>1. StackIs(T, q, A[q], D[q]) /\ A2[q] = A[q]
      BY <1>1, <1>12, <2>2
    <3>2. ASSUME NEW k \in 1..Len(A[q]) PROVE T2[A[q][k].of] = T[A[q][k].of]
      <4>1. A[q][k].of \in LoopTurns /\ T[A[q][k].of].task = q /\ A[q][k].of # s
        BY <1>13, OnStack
      <4> QED  BY <1>a, <2>2, <4>1
    <3>3. \A k \in 1..Len(A[q]) : LET o == A[q][k].of IN
              T2[o].pc = T[o].pc /\ T2[o].task = T[o].task /\ T2[o].parent = T[o].parent
      BY <3>2
    <3>4. StackIs(T2, q, A[q], D[q])
      BY ONLY <3>1, <3>3, StackSame
    <3> QED  BY <3>1, <3>4
  <2> QED  BY <2>1, <2>2
<1>19. \A x : Live(T2, x) <=> Live(T, x) /\ x # s
  BY <1>a, <1>2 DEF Live, Awaited, Open
<1>20. ASSUME NEW x \in LoopTurns, x # t, x # s PROVE PlacedIs(T2, A2, x)
  <2>1. T2[x] = T[x] /\ PlacedIs(T, A, x)
    BY <1>a, <1>1, <1>20
  <2>2. T[x].pc # "idle" => T[x].task \in Roots
    BY <2>1 DEF PlacedIs
  <2>3. T[x].pc \in Open \cup {"classify"} \/ (x \in Subs /\ T[x].pc = "done") => A2[T[x].task] = A[T[x].task]
    <3>1. SUFFICES ASSUME T[x].pc \in Open \cup {"classify"} \/ (x \in Subs /\ T[x].pc = "done")
                   PROVE  A2[T[x].task] = A[T[x].task]
      OBVIOUS
    <3>2. T[x].task # r
      BY <1>a, <1>2, <1>3, <1>20, <3>1, NoOtherOpen
    <3>3. T[x].pc # "idle"
      BY <3>1 DEF Open
    <3> QED  BY <1>12, <2>2, <3>2, <3>3
  <2>4. T[x].pc # "idle" /\ x \in Subs => T[x].parent \in LoopTurns
    BY <2>1 DEF PlacedIs
  <2>5. T[x].pc # "idle" /\ x \in Subs => T2[T[x].parent].task = T[T[x].parent].task
    BY <1>a, <2>4
  <2>6. Live(T, x) => T2[T[x].parent].pc = "waits"
    <3>1. SUFFICES ASSUME Live(T, x) PROVE T2[T[x].parent].pc = "waits"
      OBVIOUS
    <3>2. T[T[x].parent].pc = "waits" /\ T[x].parent \in LoopTurns /\ x \in Subs
      BY <2>1, <2>4, <3>1 DEF PlacedIs, Live, Awaited, Open
    <3>3. T[x].parent # t
      BY <1>4, <1>20, <3>1, <3>2
    <3> QED  BY <1>a, <3>2, <3>3
  <2>7. T[x].pc = "waits" => \E y \in Subs : T2[y].parent = x /\ Live(T2, y)
    <3>1. SUFFICES ASSUME T[x].pc = "waits" PROVE \E y \in Subs : T2[y].parent = x /\ Live(T2, y)
      OBVIOUS
    <3>2. PICK y \in Subs : T[y].parent = x /\ Live(T, y)
      BY <2>1, <3>1 DEF PlacedIs
    <3>3. y \in LoopTurns /\ y # s
      BY <1>a, <1>2, <1>20, <3>2
    <3> QED  BY <1>a, <1>19, <3>2, <3>3
  <2> QED  BY <2>1, <2>3, <2>5, <2>6, <2>7, PlacedSame
<1>21. PlacedIs(T, A, t) /\ PlacedIs(T, A, s)
  BY <1>1, <1>2
<1>22. t \in Subs => T[t].parent \in LoopTurns /\ T[T[t].parent].task = r /\ T[t].parent # s /\ T[t].parent # t
                     /\ T[T[t].parent].pc = "waits"
  <2>1. t \in Subs => T[t].parent \in LoopTurns /\ T[T[t].parent].task = r
    BY <1>a, <1>21 DEF PlacedIs
  <2>2. t \in Subs => T[T[t].parent].pc = "waits"
    BY <1>a, <1>21 DEF PlacedIs, Live, Awaited, Open
  <2> QED  BY <1>a, <1>3, <2>1, <2>2
<1>23. PlacedIs(T2, A2, t)
  <2>1. t \in Subs => T2[t].parent \in LoopTurns /\ T2[T2[t].parent].task = T2[t].task /\ T2[T2[t].parent].pc = "waits"
    BY <1>a, <1>22
  <2>2. TopIs(A2[T2[t].task], Own(t))
    BY <1>a, <1>9, <1>11, <1>12 DEF TopIs
  <2>3. Live(T2, t) => t \in Subs
    BY DEF Live
  <2> QED  BY <1>a, <1>3, <2>1, <2>2, <2>3 DEF PlacedIs, Open
<1>24. PlacedIs(T2, A2, s)
  <2>1. T2[t].task = T2[s].task /\ T2[s].task \in Roots /\ T2[s].parent \in LoopTurns /\ T2[s].parent # s
    BY <1>a, <1>2, <1>3
  <2>2. ~Live(T2, s)
    BY <1>19
  <2> QED  BY <1>a, <1>2, <2>1, <2>2 DEF PlacedIs, Open
<1>25. OneAtATime(T2)
  <2>1. \A x \in Subs : T2[x].parent = T[x].parent
    BY <1>a, <1>2
  <2> QED  BY <1>1, <1>19, <2>1 DEF OneAtATime
<1>26. \A x \in LoopTurns : PlacedIs(T2, A2, x)
  BY <1>20, <1>23, <1>24
<1>27. Control(T2, A2, D)
  BY <1>a, <1>1, <1>12, <1>18, <1>25, <1>26 DEF Control
<1> QED  BY <1>3, <1>5, <1>8, <1>9, <1>27

\* What the turn that runs awaits raises: it fails, and so does every turn that waits for it.
UpFrom(T, r) == {x \in LoopTurns : T[x].task = r /\ T[x].pc \notin Finished \cup {"added"}}
FailsFrom(T, A, D, t, T2, A2, D2) ==
  LET r == T[t].task IN
  /\ T[t].pc \in {"classify", "plan", "react"} /\ T2 \in [LoopTurns -> TurnRecords]
  /\ \A x \in LoopTurns : x \notin UpFrom(T, r) => T2[x] = T[x]
  /\ \A x \in UpFrom(T, r) : T2[x].pc = "failed" /\ T2[x].task = T[x].task /\ T2[x].parent = T[x].parent
  /\ A2 = [A EXCEPT ![r] = <<>>] /\ D2 = [D EXCEPT ![r] = 0]

\* A turn that fails takes those above it with it, and no collector stays open.
LEMMA TurnsFail ==
  ASSUME NEW T, NEW A, NEW D, Control(T, A, D), NEW t \in LoopTurns,
         NEW T2, NEW A2, NEW D2, FailsFrom(T, A, D, t, T2, A2, D2)
  PROVE  Control(T2, A2, D2)
<1>a. PICK r : r = T[t].task
  OBVIOUS
<1>b. PICK Up : Up = {x \in LoopTurns : T[x].task = r /\ T[x].pc \notin Finished \cup {"added"}}
  OBVIOUS
<1>c. /\ T[t].pc \in {"classify", "plan", "react"} /\ T2 \in [LoopTurns -> TurnRecords]
      /\ \A x \in LoopTurns : x \notin Up => T2[x] = T[x]
      /\ \A x \in Up : T2[x].pc = "failed" /\ T2[x].task = T[x].task /\ T2[x].parent = T[x].parent
  <2>1. Up = UpFrom(T, r)
    BY <1>b DEF UpFrom
  <2> QED  BY <1>a, <2>1 DEF FailsFrom
<1>d. A2 = [A EXCEPT ![r] = <<>>] /\ D2 = [D EXCEPT ![r] = 0]
  BY <1>a DEF FailsFrom
<1>1. /\ \A x \in LoopTurns : PlacedIs(T, A, x)
      /\ OneAtATime(T)
      /\ \A q \in Roots : StackIs(T, q, A[q], D[q])
      /\ A \in [Roots -> Seq(Scopes)] /\ D \in [Roots -> 0..MaxDepth]
  BY DEF Control
<1>2. Subs \subseteq LoopTurns /\ MaxDepth \in Nat /\ NoTurn \notin Roots
  BY TurnsAssumption, TurnBoundsAssumption DEF LoopTurns
<1>3. r \in Roots
  BY <1>a, <1>c, <1>1 DEF PlacedIs
<1>4. /\ A2 \in [Roots -> Seq(Scopes)] /\ A2[r] = <<>> /\ (\A q \in Roots : q # r => A2[q] = A[q])
      /\ D2 \in [Roots -> 0..MaxDepth] /\ D2[r] = 0 /\ (\A q \in Roots : q # r => D2[q] = D[q])
  BY <1>d, <1>b, <1>a, <1>c, <1>1, <1>2, <1>3
<1>5. \A x \in LoopTurns : T2[x].task = T[x].task /\ T2[x].parent = T[x].parent
  BY <1>a, <1>c
<1>6. \A x \in LoopTurns : T[x].task # r => T2[x] = T[x]
  BY <1>b, <1>a, <1>c
\* In the task nothing runs any more.
<1>7. ASSUME NEW x \in LoopTurns, T[x].task = r, x \notin Up
      PROVE  T[x].pc \in Finished \cup {"added"} /\ ~(x \in Subs /\ T[x].pc = "done")
  <2>1. T[x].pc \in Finished \cup {"added"}
    BY <1>b, <1>a, <1>c, <1>7
  <2>2. t \in Up
    BY <1>b, <1>a, <1>c DEF Finished
  <2>3. x # t
    BY <1>7, <2>2
  <2>4. T[t].pc \in Open \cup {"classify"}
    BY <1>a, <1>c DEF Open
  <2> QED  BY <1>a, <1>c, <1>7, <2>1, <2>3, <2>4, NoOtherOpen
<1>8. ASSUME NEW q \in Roots PROVE StackIs(T2, q, A2[q], D2[q])
  <2>1. CASE q = r
    <3>1. <<>> \in Seq(Scopes) /\ Len(<<>>) = 0 /\ (\A k \in 1..Len(<<>>) : FALSE) /\ 0 \in 0..MaxDepth /\ 2 * 0 = 0
      BY <1>2
    <3>2. NoTwice(<<>>)
      BY <3>1 DEF NoTwice
    <3>3. Doubled(T2, <<>>) = 0
      BY <3>1 DEF Doubled
    <3> QED  BY <1>4, <2>1, <3>1, <3>2, <3>3 DEF StackIs
  <2>2. CASE q # r
    <3>1. StackIs(T, q, A[q], D[q]) /\ A2[q] = A[q] /\ D2[q] = D[q]
      BY <1>1, <1>4, <2>2
    <3>2. ASSUME NEW k \in 1..Len(A[q]) PROVE T2[A[q][k].of] = T[A[q][k].of]
      <4>1. A[q][k].of \in LoopTurns /\ T[A[q][k].of].task = q
        BY OnStack
      <4> QED  BY <1>6, <2>2, <4>1
    <3>3. \A k \in 1..Len(A[q]) : LET o == A[q][k].of IN
              T2[o].pc = T[o].pc /\ T2[o].task = T[o].task /\ T2[o].parent = T[o].parent
      BY <3>2
    <3>4. StackIs(T2, q, A[q], D[q])
      BY ONLY <3>1, <3>3, StackSame
    <3> QED  BY <3>1, <3>4
  <2> QED  BY <2>1, <2>2
<1>9. \A x : Live(T2, x) => Live(T, x) /\ x \notin Up
  <2>1. ASSUME NEW x \in Up PROVE ~Live(T2, x)
    BY <1>a, <1>c, <2>1 DEF Live, Awaited, Open
  <2> QED  BY <1>a, <1>c, <1>2, <2>1 DEF Live
<1>10. ASSUME NEW x \in LoopTurns, x \notin Up PROVE PlacedIs(T2, A2, x)
  <2>1. T2[x] = T[x] /\ PlacedIs(T, A, x)
    BY <1>a, <1>c, <1>1, <1>10
  <2>2. T[x].pc # "idle" => T[x].task \in Roots
    BY <2>1 DEF PlacedIs
  <2>3. T[x].pc \in Open \cup {"classify"} \/ (x \in Subs /\ T[x].pc = "done") => A2[T[x].task] = A[T[x].task]
    <3>1. SUFFICES ASSUME T[x].pc \in Open \cup {"classify"} \/ (x \in Subs /\ T[x].pc = "done")
                   PROVE  A2[T[x].task] = A[T[x].task]
      OBVIOUS
    <3>2. T[x].task # r
      BY <1>7, <1>10, <3>1 DEF Open, Finished
    <3>3. T[x].pc # "idle"
      BY <3>1 DEF Open
    <3> QED  BY <1>4, <2>2, <3>2, <3>3
  <2>4. T[x].pc # "idle" /\ x \in Subs => T[x].parent \in LoopTurns /\ T[T[x].parent].task = T[x].task
    BY <2>1 DEF PlacedIs
  <2>5. T[x].pc # "idle" /\ x \in Subs => T2[T[x].parent].task = T[T[x].parent].task
    BY <1>5, <2>4
  <2>6. Live(T, x) => T2[T[x].parent].pc = "waits"
    <3>1. SUFFICES ASSUME Live(T, x) PROVE T2[T[x].parent].pc = "waits"
      OBVIOUS
    <3>2. T[T[x].parent].pc = "waits" /\ T[x].parent \in LoopTurns /\ T[T[x].parent].task = T[x].task
      BY <2>1, <2>4, <3>1 DEF PlacedIs, Live, Awaited, Open
    <3>3. T[x].task # r
      BY <1>7, <1>10, <3>1 DEF Live, Awaited, Open, Finished
    <3> QED  BY <1>6, <3>2, <3>3
  <2>7. T[x].pc = "waits" => \E y \in Subs : T2[y].parent = x /\ Live(T2, y)
    <3>1. SUFFICES ASSUME T[x].pc = "waits" PROVE \E y \in Subs : T2[y].parent = x /\ Live(T2, y)
      OBVIOUS
    <3>2. PICK y \in Subs : T[y].parent = x /\ Live(T, y)
      BY <2>1, <3>1 DEF PlacedIs
    <3>3. T[x].task # r
      BY <1>7, <1>10, <3>1 DEF Finished
    <3>4. PlacedIs(T, A, y) /\ T[y].pc # "idle" /\ y \in LoopTurns
      BY <1>1, <1>2, <3>2 DEF Live, Awaited, Open
    <3>5. T[y].task = T[x].task
      BY <3>2, <3>4 DEF PlacedIs
    <3>6. T2[y] = T[y]
      BY <1>6, <3>3, <3>4, <3>5
    <3> QED  BY <3>2, <3>6 DEF Live
  <2> QED  BY <2>1, <2>3, <2>5, <2>6, <2>7, PlacedSame
<1>11. ASSUME NEW x \in Up PROVE PlacedIs(T2, A2, x)
  <2>1. x \in LoopTurns /\ T[x].task = r /\ T2[x].pc = "failed" /\ T2[x].task = r /\ T2[x].parent = T[x].parent
    BY <1>b, <1>a, <1>c, <1>11
  <2>2. PlacedIs(T, A, x)
    BY <1>1, <2>1
  <2>3. T[x].pc # "idle"
    <3>1. T[x].pc = "idle" => T[x].task = NoTurn
      BY <2>2 DEF PlacedIs, Unopened
    <3> QED  BY <1>2, <1>3, <2>1, <3>1
  <2>4. /\ T[x].parent # x /\ (x \in Roots => r = x /\ T[x].parent = NoTurn)
        /\ (x \in Subs => T[x].parent \in LoopTurns /\ T[T[x].parent].task = r)
    BY <2>1, <2>2, <2>3 DEF PlacedIs
  <2>5. x \in Subs => T2[T[x].parent].task = r
    BY <1>5, <2>4
  <2>6. ~Live(T2, x)
    BY <1>9, <1>11
  <2> QED  BY <1>3, <2>1, <2>4, <2>5, <2>6 DEF PlacedIs, Open
<1>12. OneAtATime(T2)
  <2>1. \A x \in Subs : T2[x].parent = T[x].parent
    BY <1>2, <1>5
  <2> QED  BY <1>1, <1>9, <2>1 DEF OneAtATime
<1>13. \A x \in LoopTurns : PlacedIs(T2, A2, x)
  BY <1>10, <1>11
<1> QED  BY <1>a, <1>c, <1>3, <1>4, <1>8, <1>12, <1>13 DEF Control

\* A caller opens a turn.
LEMMA TurnOpens ==
  ASSUME NEW T, NEW A, NEW D, Control(T, A, D), NEW t \in Roots, T[t].pc = "idle",
         NEW T2 \in [LoopTurns -> TurnRecords], \A x \in LoopTurns : x # t => T2[x] = T[x],
         T2[t].pc = "classify", T2[t].task = t, T2[t].parent = NoTurn
  PROVE  Control(T2, A, D)
<1>1. /\ \A x \in LoopTurns : PlacedIs(T, A, x)
      /\ OneAtATime(T)
      /\ \A q \in Roots : StackIs(T, q, A[q], D[q])
      /\ A \in [Roots -> Seq(Scopes)] /\ D \in [Roots -> 0..MaxDepth]
  BY DEF Control
<1>2. t \in LoopTurns /\ t \notin Subs /\ NoTurn \notin LoopTurns /\ NoTurn \notin Roots /\ Subs \subseteq LoopTurns
  BY TurnsAssumption DEF LoopTurns
<1>3. T[t].task = NoTurn /\ T[t].parent = NoTurn
  <2>1. T[t] = Unopened
    BY <1>1, <1>2 DEF PlacedIs
  <2> QED  BY <2>1 DEF Unopened
<1>4. \A q \in Roots : \A k \in 1..Len(A[q]) : A[q][k].of # t /\ A[q][k].of \in LoopTurns
  <2>1. T[t].pc \notin Open \cup {"waits"}
    BY DEF Open
  <2> QED  BY <1>2, <2>1, OffStack, OnStack
<1>5. A[t] = <<>>
  <2>1. A[t] \in Seq(Scopes) /\ Len(A[t]) \in Nat /\ \A k \in 1..Len(A[t]) : NestedIs(T, t, A[t], k)
    BY StackNat
  <2>2. ASSUME Len(A[t]) > 0 PROVE FALSE
    <3>1. 1 \in 1..Len(A[t])
      BY <2>1, <2>2
    <3>2. A[t][1].of = t
      BY <2>1, <3>1 DEF NestedIs
    <3> QED  BY <1>4, <3>1, <3>2
  <2> QED  BY <2>1, <2>2
<1>6. ASSUME NEW q \in Roots PROVE StackIs(T2, q, A[q], D[q])
  <2>1. StackIs(T, q, A[q], D[q])
    BY <1>1
  <2>2. ASSUME NEW k \in 1..Len(A[q]) PROVE T2[A[q][k].of] = T[A[q][k].of]
    BY <1>4
  <2>3. \A k \in 1..Len(A[q]) : LET o == A[q][k].of IN
            T2[o].pc = T[o].pc /\ T2[o].task = T[o].task /\ T2[o].parent = T[o].parent
    BY <2>2
  <2> QED  BY ONLY <2>1, <2>3, StackSame
<1>7. \A x : Live(T2, x) <=> Live(T, x)
  BY <1>2 DEF Live
<1>8. ASSUME NEW x \in LoopTurns, x # t PROVE PlacedIs(T2, A, x)
  <2>1. T2[x] = T[x] /\ PlacedIs(T, A, x)
    BY <1>1, <1>8
  <2>2. T[x].pc # "idle" => T[x].task \in Roots
    BY <2>1 DEF PlacedIs
  <2>3. T[x].pc # "idle" /\ x \in Subs => T[x].parent \in LoopTurns /\ T[T[x].parent].task = T[x].task
    BY <2>1 DEF PlacedIs
  <2>4. T[x].pc # "idle" /\ x \in Subs => T2[T[x].parent].task = T[T[x].parent].task
    BY <1>2, <1>3, <2>2, <2>3
  <2>5. Live(T, x) => T2[T[x].parent].pc = "waits"
    <3>1. SUFFICES ASSUME Live(T, x) PROVE T2[T[x].parent].pc = "waits"
      OBVIOUS
    <3>2. T[T[x].parent].pc = "waits" /\ T[x].parent \in LoopTurns
      BY <2>1, <2>3, <3>1 DEF PlacedIs, Live, Awaited, Open
    <3> QED  BY <3>2
  <2>6. T[x].pc = "waits" => \E y \in Subs : T2[y].parent = x /\ Live(T2, y)
    <3>1. SUFFICES ASSUME T[x].pc = "waits" PROVE \E y \in Subs : T2[y].parent = x /\ Live(T2, y)
      OBVIOUS
    <3>2. PICK y \in Subs : T[y].parent = x /\ Live(T, y)
      BY <2>1, <3>1 DEF PlacedIs
    <3>3. y # t /\ y \in LoopTurns
      BY <1>2
    <3> QED  BY <1>7, <3>2, <3>3
  <2> QED  BY <2>1, <2>4, <2>5, <2>6, PlacedSame
<1>9. PlacedIs(T2, A, t)
  <2>1. ~Live(T2, t) /\ T2[t].parent # t
    BY <1>2 DEF Live
  <2> QED  BY <1>2, <1>5, <2>1 DEF PlacedIs, Open
<1>10. OneAtATime(T2)
  <2>1. \A x \in Subs : T2[x].parent = T[x].parent
    BY <1>2
  <2> QED  BY <1>1, <1>7, <2>1 DEF OneAtATime
<1>11. \A x \in LoopTurns : PlacedIs(T2, A, x)
  BY <1>8, <1>9
<1> QED  BY <1>1, <1>6, <1>10, <1>11 DEF Control

\* At first no turn is open.
LEMMA ControlInit ==
  Control([t \in LoopTurns |-> Unopened], [r \in Roots |-> <<>>], [r \in Roots |-> 0])
<1> DEFINE T == [t \in LoopTurns |-> Unopened]
           A == [r \in Roots |-> <<>>]
           D == [r \in Roots |-> 0]
<1>1. Unopened \in TurnRecords /\ Unopened.pc = "idle"
  <2>1. Empty \in Answers /\ "skeleton" \in Planners /\ "none" \in Decisions /\ NoTurn \in LoopTurns \cup {NoTurn}
        /\ NoTurn \in Roots \cup {NoTurn} /\ "idle" \in Awaited \cup {"idle", "added", "failed"} /\ FALSE \in BOOLEAN
        /\ 0 \in Nat /\ 0 \in Int /\ <<>> \in Seq(Answers) /\ <<>> \in Seq(Events) /\ <<>> \in {<<>>}
    BY AnswersAssumption DEF Planners, Decisions
  <2> QED  BY <2>1 DEF Unopened, TurnRecords
<1>2. <<>> \in Seq(Scopes) /\ Len(<<>>) = 0 /\ (\A k \in 1..Len(<<>>) : FALSE) /\ MaxDepth \in Nat /\ 0 \in 0..MaxDepth
      /\ 2 * 0 = 0
  BY TurnBoundsAssumption
<1>3. T \in [LoopTurns -> TurnRecords] /\ A \in [Roots -> Seq(Scopes)] /\ D \in [Roots -> 0..MaxDepth]
  BY <1>1, <1>2
<1>4. ASSUME NEW r \in Roots PROVE StackIs(T, r, A[r], D[r])
  <2>1. A[r] = <<>> /\ D[r] = 0
    OBVIOUS
  <2>2. NoTwice(<<>>)
    BY <1>2 DEF NoTwice
  <2> HIDE DEF T, A, D
  <2>3. Doubled(T, <<>>) = 0
    BY <1>2 DEF Doubled
  <2> QED  BY <1>2, <2>1, <2>2, <2>3 DEF StackIs
<1>5. \A t \in LoopTurns : T[t] = Unopened
  OBVIOUS
<1> HIDE DEF T, A, D
<1>6. \A t \in LoopTurns : PlacedIs(T, A, t)
  BY <1>1, <1>5 DEF PlacedIs, Live, Awaited, Open
<1>7. OneAtATime(T)
  <2>1. Subs \subseteq LoopTurns
    BY DEF LoopTurns
  <2> QED  BY <1>1, <1>5, <2>1 DEF OneAtATime, Live, Awaited, Open
<1>8. Control(T, A, D)
  BY <1>3, <1>4, <1>6, <1>7 DEF Control
<1> QED  BY <1>8 DEF T, A, D

-----------------------------------------------------------------------------
(***************************************************************************)
(* The queues, the records and the usage.                                  *)
(***************************************************************************)

-----------------------------------------------------------------------------
(***************************************************************************)
(* What the consumer of a stream of AgentLoop is sent.                     *)
(***************************************************************************)

QueueItems == Events \cup {End}
SentTo(q, r, i) == {j \in 1..i : q[j].by = r}
SentIs(q, r, ev) ==
  /\ Cardinality(SentTo(q, r, Len(q))) = Len(ev)
  /\ \A i \in SentTo(q, r, Len(q)) : q[i] = ev[Cardinality(SentTo(q, r, i))]
HasEnd(q) == \E i \in 1..Len(q) : q[i] = End

QueueIs(r, q, k, c, ev, at) ==
  /\ q \in Seq(QueueItems) /\ k \in 0..Len(q) /\ c \in {"before", "reading", "closing", "ended"}
  /\ r \in Streaming => /\ SentIs(q, r, ev)
                        /\ HasEnd(q) <=> at \in Finished
                        /\ c = "ended" => at \in Finished

\* The sentinel is no event of any turn.
LEMMA EndIs == End \notin Events /\ End.by = NoTurn /\ End \in QueueItems /\ \A e \in Events : e.by \in LoopTurns
<1>1. End.by = NoTurn /\ NoTurn \notin LoopTurns
  BY TurnsAssumption DEF End
<1> QED  BY <1>1 DEF Events, QueueItems

\* What is put on a queue behind what was there.
LEMMA Behind ==
  ASSUME NEW q \in Seq(QueueItems), NEW es \in Seq(QueueItems)
  PROVE  /\ q \o es \in Seq(QueueItems) /\ Len(q \o es) = Len(q) + Len(es) /\ Len(q) \in Nat /\ Len(es) \in Nat
         /\ \A i \in 1..Len(q) : (q \o es)[i] = q[i]
         /\ \A i \in 1..Len(es) : (q \o es)[Len(q) + i] = es[i]
<1>1. /\ q \o es \in Seq(QueueItems) /\ Len(q \o es) = Len(q) + Len(es)
      /\ \A i \in 1..(Len(q) + Len(es)) : (q \o es)[i] = IF i <= Len(q) THEN q[i] ELSE es[i - Len(q)]
  BY ConcatProperties
<1>2. PICK m, l : m = Len(q) /\ l = Len(es) /\ m \in Nat /\ l \in Nat
  <2>1. Len(q) \in Nat /\ Len(es) \in Nat
    OBVIOUS
  <2> QED  BY <2>1
<1>3. \A i \in 1..m : i \in 1..(m + l) /\ i <= m
  BY <1>2
<1>4. \A i \in 1..l : m + i \in 1..(m + l) /\ ~(m + i <= m) /\ (m + i) - m = i
  BY <1>2
<1> QED  BY <1>1, <1>2, <1>3, <1>4

\* What others tell leaves what was sent of a turn.
LEMMA SentOthers ==
  ASSUME NEW q \in Seq(QueueItems), NEW es \in Seq(QueueItems), NEW r, \A i \in 1..Len(es) : es[i].by # r,
         NEW ev, SentIs(q, r, ev)
  PROVE  SentIs(q \o es, r, ev)
<1>1. PICK m, l, z : m = Len(q) /\ l = Len(es) /\ z = q \o es
  OBVIOUS
<1>2. /\ Len(z) = m + l /\ m \in Nat /\ l \in Nat
      /\ (\A i \in 1..m : z[i] = q[i]) /\ (\A i \in 1..l : z[m + i] = es[i])
  BY <1>1, Behind
<1>3. ASSUME NEW i \in 1..(m + l), ~(i \in 1..m) PROVE z[i].by # r
  <2>1. i - m \in 1..l /\ m + (i - m) = i
    BY <1>2, <1>3
  <2>2. z[m + (i - m)] = es[i - m]
    BY <1>2, <2>1
  <2> QED  BY <1>1, <2>1, <2>2
<1>4. SentTo(z, r, m + l) = SentTo(q, r, m)
  <2>1. \A i \in 1..m : i \in 1..(m + l)
    BY <1>2
  <2> QED  BY <1>2, <1>3, <2>1 DEF SentTo
<1>5. \A i \in 1..m : SentTo(z, r, i) = SentTo(q, r, i)
  <2>1. \A i \in 1..m : \A j \in 1..i : j \in 1..m
    BY <1>2
  <2> QED  BY <1>2, <2>1 DEF SentTo
<1>6. ASSUME NEW i \in SentTo(q, r, m) PROVE z[i] = ev[Cardinality(SentTo(z, r, i))]
  <2>1. i \in 1..m
    BY DEF SentTo
  <2>2. q[i] = ev[Cardinality(SentTo(q, r, i))]
    BY <1>1 DEF SentIs
  <2> QED  BY <1>2, <1>5, <2>1, <2>2
<1>7. Cardinality(SentTo(q, r, m)) = Len(ev)
  BY <1>1 DEF SentIs
<1> QED  BY <1>1, <1>2, <1>4, <1>6, <1>7 DEF SentIs

\* What a turn tells is sent behind what was sent of it.
LEMMA SentMore ==
  ASSUME NEW q \in Seq(QueueItems), NEW es \in Seq(Events), NEW r, \A i \in 1..Len(es) : es[i].by = r,
         NEW ev \in Seq(Events), SentIs(q, r, ev)
  PROVE  SentIs(q \o es, r, ev \o es)
<1>1. PICK m, l, z, n, w : m = Len(q) /\ l = Len(es) /\ z = q \o es /\ n = Len(ev) /\ w = ev \o es
  OBVIOUS
<1>2. /\ Len(z) = m + l /\ m \in Nat /\ l \in Nat
      /\ (\A i \in 1..m : z[i] = q[i]) /\ (\A i \in 1..l : z[m + i] = es[i])
  <2>1. es \in Seq(QueueItems)
    BY DEF QueueItems
  <2> QED  BY <1>1, <2>1, Behind
<1>3. /\ Len(w) = n + l /\ n \in Nat
      /\ (\A i \in 1..n : w[i] = ev[i]) /\ (\A i \in 1..l : w[n + i] = es[i])
  <2>1. ev \in Seq(QueueItems) /\ es \in Seq(QueueItems)
    BY DEF QueueItems
  <2> QED  BY <1>1, <2>1, Behind
<1>4. ASSUME NEW k \in 0..l
      PROVE  /\ SentTo(z, r, m + k) = SentTo(q, r, m) \cup ((m + 1)..(m + k))
             /\ Cardinality(SentTo(z, r, m + k)) = n + k
  <2>1. ASSUME NEW i \in 1..(m + k)
        PROVE  (z[i].by = r) <=> (i \in 1..m /\ q[i].by = r) \/ i \in (m + 1)..(m + k)
    <3>1. CASE i \in 1..m
      <4>1. ~(i \in (m + 1)..(m + k))
        BY <1>2, <3>1
      <4> QED  BY <1>2, <3>1, <4>1
    <3>2. CASE ~(i \in 1..m)
      <4>1. i \in (m + 1)..(m + k) /\ i - m \in 1..l /\ m + (i - m) = i
        BY <1>2, <3>2
      <4>2. z[m + (i - m)] = es[i - m]
        BY <1>2, <4>1
      <4> QED  BY <1>1, <3>2, <4>1, <4>2
    <3> QED  BY <3>1, <3>2
  <2>2. (\A i \in 1..m : i \in 1..(m + k)) /\ (\A i \in (m + 1)..(m + k) : i \in 1..(m + k))
    BY <1>2
  <2>3. SentTo(z, r, m + k) = SentTo(q, r, m) \cup ((m + 1)..(m + k))
    BY <2>1, <2>2 DEF SentTo
  <2>4. IsFiniteSet(SentTo(q, r, m)) /\ Cardinality(SentTo(q, r, m)) = n
    <3>1. IsFiniteSet(1..m) /\ SentTo(q, r, m) \in SUBSET (1..m)
      <4>1. 1 \in Int /\ m \in Int
        BY <1>2
      <4> QED  BY <4>1, FS_Interval DEF SentTo
    <3>2. IsFiniteSet(SentTo(q, r, m))
      BY <3>1, FS_Subset
    <3> QED  BY <1>1, <3>2 DEF SentIs
  <2>5. IsFiniteSet((m + 1)..(m + k)) /\ Cardinality((m + 1)..(m + k)) = k
    <3>1. m + 1 \in Int /\ m + k \in Int
      BY <1>2
    <3>2. /\ IsFiniteSet((m + 1)..(m + k))
          /\ Cardinality((m + 1)..(m + k)) = IF m + 1 > m + k THEN 0 ELSE (m + k) - (m + 1) + 1
      BY <3>1, FS_Interval
    <3> QED  BY <1>2, <3>2
  <2>6. SentTo(q, r, m) \cap ((m + 1)..(m + k)) = {}
    <3>1. \A i \in 1..m : ~(i \in (m + 1)..(m + k))
      BY <1>2
    <3> QED  BY <3>1 DEF SentTo
  <2>7. Cardinality(SentTo(q, r, m) \cup ((m + 1)..(m + k))) = n + k
    <3>1. Cardinality({}) = 0
      BY FS_EmptySet
    <3>2. PICK S, R : S = SentTo(q, r, m) /\ R = (m + 1)..(m + k)
      OBVIOUS
    <3>3. Cardinality(S \cup R) = Cardinality(S) + Cardinality(R) - Cardinality(S \cap R)
      BY <2>4, <2>5, <3>2, FS_Union
    <3>4. Cardinality(S \cap R) = 0 /\ Cardinality(S) = n /\ Cardinality(R) = k
      BY <2>4, <2>5, <2>6, <3>1, <3>2
    <3> QED  BY <1>3, <3>2, <3>3, <3>4
  <2> QED  BY <2>3, <2>7
<1>5. \A i \in 1..m : SentTo(z, r, i) = SentTo(q, r, i)
  <2>1. \A i \in 1..m : \A j \in 1..i : j \in 1..m
    BY <1>2
  <2> QED  BY <1>2, <2>1 DEF SentTo
<1>6. Cardinality(SentTo(z, r, m + l)) = n + l /\ SentTo(z, r, m + l) = SentTo(q, r, m) \cup ((m + 1)..(m + l))
  <2>1. l \in 0..l
    BY <1>2
  <2> QED  BY <1>4, <2>1
<1>7. ASSUME NEW i \in SentTo(z, r, m + l) PROVE z[i] = w[Cardinality(SentTo(z, r, i))]
  <2>1. CASE i \in SentTo(q, r, m)
    <3>1. i \in 1..m
      BY <2>1 DEF SentTo
    <3>2. q[i] = ev[Cardinality(SentTo(q, r, i))]
      BY <1>1, <2>1 DEF SentIs
    <3>3. Cardinality(SentTo(q, r, i)) \in 1..n
      <4>1. IsFiniteSet(SentTo(q, r, m)) /\ Cardinality(SentTo(q, r, m)) = n
        <5>1. 1 \in Int /\ m \in Int
          BY <1>2
        <5>2. IsFiniteSet(1..m) /\ SentTo(q, r, m) \in SUBSET (1..m)
          BY <5>1, FS_Interval DEF SentTo
        <5>3. IsFiniteSet(SentTo(q, r, m))
          BY <5>2, FS_Subset
        <5> QED  BY <1>1, <5>3 DEF SentIs
      <4>2. SentTo(q, r, i) \in SUBSET SentTo(q, r, m)
        <5>1. \A j \in 1..i : j \in 1..m
          BY <1>2, <3>1
        <5> QED  BY <5>1 DEF SentTo
      <4>3. i \in SentTo(q, r, i)
        <5>1. i \in 1..i
          BY <1>2, <3>1
        <5> QED  BY <2>1, <5>1 DEF SentTo
      <4>4. IsFiniteSet(SentTo(q, r, i)) /\ Cardinality(SentTo(q, r, i)) <= n
        BY <4>1, <4>2, FS_Subset
      <4>5. Cardinality(SentTo(q, r, i)) \in Nat /\ Cardinality(SentTo(q, r, i)) # 0
        BY <4>3, <4>4, FS_CardinalityType, FS_EmptySet
      <4> QED  BY <1>3, <4>4, <4>5
    <3> QED  BY <1>2, <1>3, <1>5, <3>1, <3>2, <3>3
  <2>2. CASE i \in (m + 1)..(m + l)
    <3>1. PICK k : k = i - m /\ k \in 1..l /\ k \in 0..l /\ i = m + k
      BY <1>2, <2>2
    <3>2. Cardinality(SentTo(z, r, i)) = n + k
      BY <1>4, <3>1
    <3>3. z[i] = es[k] /\ w[n + k] = es[k]
      BY <1>2, <1>3, <3>1
    <3> QED  BY <3>2, <3>3
  <2> QED  BY <1>6, <1>7, <2>1, <2>2
<1> QED  BY <1>1, <1>2, <1>3, <1>6, <1>7 DEF SentIs

\* A turn of the task tells, and goes on or not as it did.
LEMMA QueueTells ==
  ASSUME NEW r \in Roots, NEW q, NEW k, NEW c, NEW ev \in Seq(Events), NEW at, QueueIs(r, q, k, c, ev, at),
         NEW t, NEW es, OwnEvents(t, es), NEW pc2, pc2 \in Finished <=> at \in Finished
  PROVE  QueueIs(r, IF r \in Streaming THEN q \o es ELSE q, k, c, IF t = r THEN ev \o es ELSE ev, pc2)
<1>1. /\ q \in Seq(QueueItems) /\ k \in 0..Len(q) /\ c \in {"before", "reading", "closing", "ended"}
      /\ r \in Streaming => SentIs(q, r, ev) /\ (HasEnd(q) <=> at \in Finished) /\ (c = "ended" => at \in Finished)
      /\ es \in Seq(Events) /\ es \in Seq(QueueItems) /\ (\A i \in 1..Len(es) : es[i].by = t)
  BY DEF QueueIs, OwnEvents, QueueItems
<1>2. CASE r \notin Streaming
  BY <1>1, <1>2 DEF QueueIs
<1>3. CASE r \in Streaming
  <2>1. /\ q \o es \in Seq(QueueItems) /\ Len(q \o es) = Len(q) + Len(es) /\ Len(q) \in Nat /\ Len(es) \in Nat
        /\ \A i \in 1..Len(q) : (q \o es)[i] = q[i]
        /\ \A i \in 1..Len(es) : (q \o es)[Len(q) + i] = es[i]
    BY <1>1, Behind
  <2>2. k \in 0..Len(q \o es)
    BY <1>1, <2>1
  <2>3. HasEnd(q \o es) <=> HasEnd(q)
    <3>1. ASSUME HasEnd(q) PROVE HasEnd(q \o es)
      <4>1. PICK i \in 1..Len(q) : q[i] = End
        BY <3>1 DEF HasEnd
      <4>2. i \in 1..Len(q \o es) /\ (q \o es)[i] = End
        BY <2>1, <4>1
      <4> QED  BY <4>2 DEF HasEnd
    <3>2. ASSUME HasEnd(q \o es) PROVE HasEnd(q)
      <4>1. PICK i \in 1..Len(q \o es) : (q \o es)[i] = End
        BY <3>2 DEF HasEnd
      <4>2. CASE i \in 1..Len(q)
        BY <2>1, <4>1, <4>2 DEF HasEnd
      <4>3. CASE ~(i \in 1..Len(q))
        <5>1. PICK j : j = i - Len(q) /\ j \in 1..Len(es) /\ Len(q) + j = i
          BY <2>1, <4>3
        <5>2. es[j] = End /\ es[j] \in Events
          BY <1>1, <2>1, <4>1, <5>1
        <5> QED  BY <5>2, EndIs
      <4> QED  BY <4>2, <4>3
    <3> QED  BY <3>1, <3>2
  <2>4. SentIs(q \o es, r, IF t = r THEN ev \o es ELSE ev)
    <3>1. CASE t = r
      BY <1>1, <1>3, <3>1, SentMore
    <3>2. CASE t # r
      BY <1>1, <1>3, <3>2, SentOthers
    <3> QED  BY <3>1, <3>2
  <2> QED  BY <1>1, <1>3, <2>1, <2>2, <2>3, <2>4 DEF QueueIs
<1> QED  BY <1>2, <1>3

\* The turn ends: the sentinel is put on the queue of its stream.
LEMMA QueueEnds ==
  ASSUME NEW r \in Roots, NEW q, NEW k, NEW c, NEW ev, NEW at, QueueIs(r, q, k, c, ev, at),
         NEW pc2 \in Finished
  PROVE  QueueIs(r, IF r \in Streaming THEN Append(q, End) ELSE q, k, c, ev, pc2)
<1>1. /\ q \in Seq(QueueItems) /\ k \in 0..Len(q) /\ c \in {"before", "reading", "closing", "ended"}
      /\ r \in Streaming => SentIs(q, r, ev)
  BY DEF QueueIs
<1>2. CASE r \notin Streaming
  BY <1>1, <1>2 DEF QueueIs
<1>3. CASE r \in Streaming
  <2>1. Append(q, End) = q \o <<End>> /\ <<End>> \in Seq(QueueItems) /\ Len(<<End>>) = 1 /\ <<End>>[1] = End
    BY <1>1, EndIs, AppendIsConcat
  <2>2. /\ Append(q, End) \in Seq(QueueItems) /\ Len(Append(q, End)) = Len(q) + 1 /\ Len(q) \in Nat
        /\ Append(q, End)[Len(q) + 1] = End
    BY <1>1, EndIs
  <2>3. HasEnd(Append(q, End))
    <3>1. Len(q) + 1 \in 1..Len(Append(q, End))
      BY <2>2
    <3> QED  BY <2>2, <3>1 DEF HasEnd
  <2>4. SentIs(q \o <<End>>, r, ev)
    <3>1. NoTurn # r
      BY TurnsAssumption DEF LoopTurns
    <3>2. \A i \in 1..Len(<<End>>) : <<End>>[i].by # r
      <4>1. \A i \in 1..1 : i = 1
        OBVIOUS
      <4> QED  BY <2>1, <3>1, <4>1, EndIs
    <3> QED  BY <1>1, <1>3, <2>1, <3>2, SentOthers
  <2>5. k \in 0..Len(Append(q, End))
    BY <1>1, <2>2
  <2> QED  BY <1>1, <1>3, <2>1, <2>2, <2>3, <2>4, <2>5 DEF QueueIs
<1> QED  BY <1>2, <1>3

\* What a turn has told and what it has cost; usage of its sub-agents that were added.
SubsIn(T, t) == {s \in Subs : T[s].parent = t /\ T[s].pc = "added" /\ ~T[s].clarify}
UsageSum(T, t) == SumOver([s \in Subs |-> T[s].usage], SubsIn(T, t))

PaidIs(t, me) ==
  /\ me.pc \in {"idle", "classify"} => me.events = <<>> /\ me.usage = 0 /\ me.decision = "none"
  /\ me.pc \in Open \cup {"waits"} => me.events = Opening(t) /\ me.spent = 1
  /\ me.pc \in {"idle", "classify", "plan", "react"} => me.subUse = 0
  /\ me.pc \in {"done", "added"} => OpenSpans(me.events) = <<>>
  /\ me.pc \in {"done", "added"} /\ ~me.clarify => me.usage = me.spent + me.subUse
  /\ me.clarify => me.usage = 0 /\ me.pc \in {"done", "added"}
ToldIs(T, t) == OwnEvents(t, T[t].events) /\ T[t].subUse = UsageSum(T, t) /\ PaidIs(t, T[t])
Costs(T) == \A t \in LoopTurns : ToldIs(T, t)

Sent(T, Q, K, C) ==
  /\ Q \in [Roots -> Seq(QueueItems)] /\ K \in [Roots -> Nat]
  /\ C \in [Roots -> {"before", "reading", "closing", "ended"}]
  /\ \A r \in Roots : QueueIs(r, Q[r], K[r], C[r], T[r].events, T[r].pc)

\* A turn has finitely many sub-turns that returned, each with its usage.
LEMMA SubsInIs ==
  ASSUME NEW T \in [LoopTurns -> TurnRecords], NEW t
  PROVE  /\ IsFiniteSet(SubsIn(T, t)) /\ SubsIn(T, t) \subseteq Subs /\ Subs \subseteq LoopTurns
         /\ \A s \in Subs : [x \in Subs |-> T[x].usage][s] = T[s].usage /\ T[s].usage \in Nat
<1>1. IsFiniteSet(Subs) /\ Subs \subseteq LoopTurns
  BY TurnsAssumption DEF LoopTurns
<1>2. SubsIn(T, t) \subseteq Subs
  BY DEF SubsIn
<1>3. IsFiniteSet(SubsIn(T, t))
  BY <1>1, <1>2, FS_Subset
<1>4. ASSUME NEW s \in Subs PROVE T[s].usage \in Nat
  <2>1. T[s] \in TurnRecords
    BY <1>1
  <2> QED  BY <2>1 DEF TurnRecords
<1> QED  BY <1>1, <1>2, <1>3, <1>4

\* The sum stays while no sub-turn is added.
LEMMA UsageSumSame ==
  ASSUME NEW T \in [LoopTurns -> TurnRecords], NEW T2 \in [LoopTurns -> TurnRecords], NEW t,
         \A s \in Subs : (T2[s].pc = "added" <=> T[s].pc = "added") /\ (T[s].pc = "added" => T2[s] = T[s])
  PROVE  UsageSum(T2, t) = UsageSum(T, t)
<1>1. SubsIn(T2, t) = SubsIn(T, t)
  BY DEF SubsIn
<1>2. PICK S : S = SubsIn(T, t)
  OBVIOUS
<1>3. PICK w : w = [s \in Subs |-> T[s].usage]
  OBVIOUS
<1>4. PICK v : v = [s \in Subs |-> T2[s].usage]
  OBVIOUS
<1>5. IsFiniteSet(S) /\ S \subseteq Subs /\ \A s \in S : T[s].pc = "added"
  BY <1>2, SubsInIs DEF SubsIn
<1>6. \A s \in S : w[s] \in Nat /\ w[s] = v[s]
  <2>1. \A s \in Subs : w[s] = T[s].usage /\ T[s].usage \in Nat /\ v[s] = T2[s].usage
    BY <1>3, <1>4, SubsInIs
  <2> QED  BY <1>5, <2>1
<1>7. SumOver(w, S) = SumOver(v, S)
  BY <1>5, <1>6, SumEqual
<1> QED  BY <1>1, <1>2, <1>3, <1>4, <1>7 DEF UsageSum

\* A sub-turn is added to the turn that waited for it.
LEMMA UsageSumAdds ==
  ASSUME NEW T \in [LoopTurns -> TurnRecords], NEW T2 \in [LoopTurns -> TurnRecords], NEW t, NEW s \in Subs,
         T[s].parent = t, T[s].pc = "done", T[s].clarify => T[s].usage = 0,
         T2[s].pc = "added", T2[s].parent = t, T2[s].clarify = T[s].clarify, T2[s].usage = T[s].usage,
         \A x \in Subs : x # s =>
           (T2[x].pc = "added" <=> T[x].pc = "added") /\ (T[x].pc = "added" => T2[x] = T[x])
  PROVE  /\ UsageSum(T2, t) = UsageSum(T, t) + T[s].usage
         /\ \A y : y # t => UsageSum(T2, y) = UsageSum(T, y)
<1>1. PICK w : w = [x \in Subs |-> T[x].usage]
  OBVIOUS
<1>2. PICK v : v = [x \in Subs |-> T2[x].usage]
  OBVIOUS
<1>3. \A x \in Subs : /\ w[x] = T[x].usage /\ w[x] \in Nat /\ v[x] = T2[x].usage /\ v[x] \in Nat
  BY <1>1, <1>2, SubsInIs
<1>4. ASSUME NEW y
      PROVE  /\ IsFiniteSet(SubsIn(T, y)) /\ SubsIn(T, y) \subseteq Subs /\ s \notin SubsIn(T, y)
             /\ SubsIn(T2, y) = IF y = t /\ ~T[s].clarify THEN SubsIn(T, y) \cup {s} ELSE SubsIn(T, y)
             /\ SumOver(w, SubsIn(T, y)) = SumOver(v, SubsIn(T, y)) /\ SumOver(w, SubsIn(T, y)) \in Nat
  <2>1. IsFiniteSet(SubsIn(T, y)) /\ SubsIn(T, y) \subseteq Subs
    BY SubsInIs
  <2>2. s \notin SubsIn(T, y)
    BY DEF SubsIn
  <2>3. ASSUME NEW x \in Subs
        PROVE  x \in SubsIn(T2, y) <=> x \in SubsIn(T, y) \/ (x = s /\ y = t /\ ~T[s].clarify)
    <3>1. CASE x = s
      BY <2>2, <3>1 DEF SubsIn
    <3>2. CASE x # s
      BY <3>2 DEF SubsIn
    <3> QED  BY <3>1, <3>2
  <2>4. SubsIn(T2, y) \subseteq Subs
    BY SubsInIs
  <2>5. SubsIn(T2, y) = IF y = t /\ ~T[s].clarify THEN SubsIn(T, y) \cup {s} ELSE SubsIn(T, y)
    BY <2>1, <2>2, <2>3, <2>4
  <2>6. \A x \in SubsIn(T, y) : x # s /\ T2[x] = T[x]
    BY <2>2 DEF SubsIn
  <2>7. \A x \in SubsIn(T, y) : w[x] \in Nat /\ w[x] = v[x]
    BY <1>3, <2>1, <2>6
  <2> QED  BY <2>1, <2>2, <2>5, <2>7, SumEqual, SumNat
<1>5. UsageSum(T, t) = SumOver(w, SubsIn(T, t)) /\ UsageSum(T2, t) = SumOver(v, SubsIn(T2, t))
  BY <1>1, <1>2 DEF UsageSum
<1>6. UsageSum(T2, t) = UsageSum(T, t) + T[s].usage
  <2>1. CASE T[s].clarify
    BY <1>4, <1>5, <2>1
  <2>2. CASE ~T[s].clarify
    <3>1. PICK S : S = SubsIn(T2, t)
      OBVIOUS
    <3>2. PICK R : R = SubsIn(T, t)
      OBVIOUS
    <3>3. S = R \cup {s} /\ s \in S /\ S \ {s} = R /\ S \subseteq Subs /\ IsFiniteSet(S)
      <4>1. IsFiniteSet(S)
        BY <3>1, SubsInIs
      <4> QED  BY <1>4, <2>2, <3>1, <3>2, <4>1
    <3>4. \A x \in S : v[x] \in Nat
      BY <1>3, <3>3
    <3>5. SumOver(v, S) = v[s] + SumOver(v, S \ {s})
      BY <3>3, <3>4, SumPlus
    <3>6. SumOver(v, R) = SumOver(w, R) /\ SumOver(w, R) \in Nat
      BY <1>4, <3>2
    <3>7. v[s] = T[s].usage /\ v[s] \in Nat
      BY <1>3
    <3>8. PICK a : a = SumOver(w, R)
      OBVIOUS
    <3>9. SumOver(v, S \ {s}) = a /\ a \in Nat
      BY <3>3, <3>6, <3>8
    <3>10. UsageSum(T2, t) = T[s].usage + a /\ UsageSum(T, t) = a /\ T[s].usage \in Nat
      BY <1>5, <3>1, <3>2, <3>5, <3>7, <3>8, <3>9
    <3> QED  BY ONLY <3>9, <3>10
  <2> QED  BY <2>1, <2>2
<1>7. ASSUME NEW y, y # t PROVE UsageSum(T2, y) = UsageSum(T, y)
  BY <1>1, <1>2, <1>4, <1>7 DEF UsageSum
<1> QED  BY <1>6, <1>7

\* The task of a turn that was opened, and the records of all turns.
LEMMA TaskIs ==
  ASSUME NEW T, NEW A, NEW D, Control(T, A, D), NEW t \in LoopTurns
  PROVE  /\ T \in [LoopTurns -> TurnRecords] /\ T[t] \in TurnRecords /\ PlacedIs(T, A, t)
         /\ T[t].pc # "idle" => T[t].task \in Roots /\ (t \in Roots => T[t].task = t)
         /\ t \in Roots \/ t \in Subs
         /\ t \in Roots => t \notin Subs
BY TurnsAssumption DEF Control, PlacedIs, LoopTurns

\* A turn tells, and goes on or completes; what others told and cost stays.
ToldOn(T, t, Q, es) == IF T[t].task \in Streaming THEN [Q EXCEPT ![T[t].task] = @ \o es] ELSE Q
Tells(T, t, T2, es, Q, Q2) ==
  /\ T[t].pc \in Open \cup {"classify"} /\ Moves(T, t, T2) /\ T2[t].pc \in Open \cup {"done"}
  /\ T2[t].subUse = T[t].subUse /\ PaidIs(t, T2[t]) /\ OwnEvents(t, es) /\ T2[t].events = T[t].events \o es
  /\ Q2 = IF T2[t].pc = "done" THEN Sentinel(t, ToldOn(T, t, Q, es)) ELSE ToldOn(T, t, Q, es)

\* A turn that tells more of its own keeps the records, the queues and the usage right.
LEMMA TurnTells ==
  ASSUME NEW T, NEW A, NEW D, Control(T, A, D), Costs(T), NEW Q, NEW K, NEW C, Sent(T, Q, K, C),
         NEW t \in LoopTurns, NEW T2, NEW es, NEW Q2, Tells(T, t, T2, es, Q, Q2)
  PROVE  Costs(T2) /\ Sent(T2, Q2, K, C)
<1>a. PICK r : r = T[t].task
  OBVIOUS
<1>b. PICK Q1 : Q1 = IF r \in Streaming THEN [Q EXCEPT ![r] = @ \o es] ELSE Q
  OBVIOUS
<1>c. /\ T[t].pc \in Open \cup {"classify"} /\ Moves(T, t, T2) /\ T2[t].pc \in Open \cup {"done"}
      /\ T2[t].subUse = T[t].subUse /\ PaidIs(t, T2[t]) /\ OwnEvents(t, es)
  BY DEF Tells
<1>d. T2[t].events = T[t].events \o es /\ Q2 = IF T2[t].pc = "done" THEN Sentinel(t, Q1) ELSE Q1
  <2>1. Q1 = ToldOn(T, t, Q, es)
    BY <1>a, <1>b DEF ToldOn
  <2> QED  BY <2>1 DEF Tells
<1> USE <1>c
<1>1. /\ T \in [LoopTurns -> TurnRecords] /\ T2 \in [LoopTurns -> TurnRecords]
      /\ \A x \in LoopTurns : x # t => T2[x] = T[x]
      /\ r \in Roots /\ (t \in Roots => r = t) /\ Subs \subseteq LoopTurns /\ Roots \subseteq LoopTurns
      /\ Streaming \subseteq Roots
  BY <1>a, TaskIs, TurnsAssumption DEF Moves, LoopTurns, Open
<1>2. T[t].pc # "added" /\ T2[t].pc # "added" /\ T[t].pc \notin Finished
  BY DEF Open, Finished
<1>3. \A x : UsageSum(T2, x) = UsageSum(T, x)
  <2>1. \A s \in Subs : (T2[s].pc = "added" <=> T[s].pc = "added") /\ (T[s].pc = "added" => T2[s] = T[s])
    BY <1>1, <1>2
  <2> QED  BY <1>1, <2>1, UsageSumSame
<1>4. OwnEvents(t, T2[t].events)
  BY <1>d, OwnConcat DEF Costs, ToldIs
<1>5. Costs(T2)
  <2>1. ToldIs(T2, t)
    BY <1>3, <1>4 DEF Costs, ToldIs
  <2>2. ASSUME NEW x \in LoopTurns, x # t PROVE ToldIs(T2, x)
    BY <1>1, <1>3, <2>2 DEF Costs, ToldIs
  <2> QED  BY <2>1, <2>2 DEF Costs
<1>6. /\ Q \in [Roots -> Seq(QueueItems)] /\ K \in [Roots -> Nat]
      /\ C \in [Roots -> {"before", "reading", "closing", "ended"}]
      /\ \A q \in Roots : QueueIs(q, Q[q], K[q], C[q], T[q].events, T[q].pc) /\ T[q].events \in Seq(Events)
  <2>1. \A q \in Roots : T[q].events \in Seq(Events)
    BY <1>1 DEF TurnRecords
  <2> QED  BY <2>1 DEF Sent
<1>7. Q1 = [q \in Roots |-> IF q = r /\ r \in Streaming THEN Q[q] \o es ELSE Q[q]]
  <2>1. CASE r \in Streaming
    BY <1>b, <1>6, <2>1
  <2>2. CASE r \notin Streaming
    <3>1. Q = [q \in Roots |-> Q[q]]
      BY <1>6
    <3> QED  BY <1>b, <2>2, <3>1
  <2> QED  BY <2>1, <2>2
<1>8. \A q \in Roots : Q1[q] = IF q = r /\ r \in Streaming THEN Q[q] \o es ELSE Q[q]
  BY <1>7
<1>9. ASSUME NEW q \in Roots PROVE QueueIs(q, Q1[q], K[q], C[q], T2[q].events, T[q].pc)
  <2>1. CASE q = r
    <3>1. QueueIs(q, IF q \in Streaming THEN Q[q] \o es ELSE Q[q], K[q], C[q],
                  IF t = q THEN T[q].events \o es ELSE T[q].events, T[q].pc)
      <4>1. /\ T[q].events \in Seq(Events) /\ QueueIs(q, Q[q], K[q], C[q], T[q].events, T[q].pc)
            /\ OwnEvents(t, es) /\ (T[q].pc \in Finished <=> T[q].pc \in Finished)
        BY <1>6
      <4> QED  BY ONLY <4>1, QueueTells
    <3>2. T2[q].events = IF t = q THEN T[q].events \o es ELSE T[q].events
      BY <1>1, <1>d
    <3> QED  BY <1>8, <2>1, <3>1, <3>2
  <2>2. CASE q # r
    <3>1. q # t /\ T2[q] = T[q]
      BY <1>1, <2>2
    <3> QED  BY <1>6, <1>8, <2>2, <3>1
  <2> QED  BY <2>1, <2>2
<1>10. Q1 \in [Roots -> Seq(QueueItems)]
  <2>1. \A q \in Roots : Q1[q] \in Seq(QueueItems)
    BY <1>9 DEF QueueIs
  <2> QED  BY <1>7, <2>1
<1>11. ASSUME NEW q \in Roots, q # t PROVE T2[q] = T[q]
  BY <1>1, <1>11
<1>12. CASE T2[t].pc = "done" /\ t \in Streaming
  <2>1. Q2 = [Q1 EXCEPT ![t] = Append(@, End)] /\ t \in Roots
    BY <1>1, <1>d, <1>12 DEF Sentinel
  <2>2. Q2[t] = Append(Q1[t], End) /\ \A q \in Roots : q # t => Q2[q] = Q1[q]
    BY <1>10, <2>1
  <2>3. T2[t].pc \in Finished
    BY <1>12 DEF Finished
  <2>4. QueueIs(t, IF t \in Streaming THEN Append(Q1[t], End) ELSE Q1[t], K[t], C[t], T2[t].events, T2[t].pc)
    BY <1>9, <2>1, <2>3, QueueEnds
  <2>5. \A q \in Roots : QueueIs(q, Q2[q], K[q], C[q], T2[q].events, T2[q].pc)
    BY <1>9, <1>11, <1>12, <2>2, <2>4
  <2>6. Append(Q1[t], End) \in Seq(QueueItems)
    BY <1>12, <2>4 DEF QueueIs
  <2>7. Q2 \in [Roots -> Seq(QueueItems)]
    BY <1>10, <2>1, <2>6
  <2> QED  BY <1>5, <1>6, <2>5, <2>7 DEF Sent
<1>13. CASE ~(T2[t].pc = "done" /\ t \in Streaming)
  <2>1. Q2 = Q1
    BY <1>d, <1>13 DEF Sentinel
  <2>2. ASSUME NEW q \in Roots PROVE QueueIs(q, Q1[q], K[q], C[q], T2[q].events, T2[q].pc)
    <3>1. CASE q # t
      BY <1>9, <1>11, <3>1
    <3>2. CASE q = t /\ q \notin Streaming
      BY <1>9, <3>2 DEF QueueIs
    <3>3. CASE q = t /\ q \in Streaming
      <4>1. T2[q].pc \notin Finished /\ T[q].pc \notin Finished
        BY <1>2, <1>13, <3>3 DEF Open, Finished
      <4> QED  BY <1>9, <4>1 DEF QueueIs
    <3> QED  BY <3>1, <3>2, <3>3
  <2> QED  BY <1>5, <1>6, <1>10, <2>1, <2>2 DEF Sent
<1> QED  BY <1>12, <1>13

-----------------------------------------------------------------------------
(***************************************************************************)
(* The invariant of AgentLoop, kept by every step, and the verdicts.       *)
(***************************************************************************)

\* Every record, stack and queue is what the turns made it; the window is the end of what was observed.
LoopInv ==
  Control(turn, active, depth) /\ Costs(turn) /\ Sent(turn, queue, taken, consumer) /\ WindowIs(window, answered)

\* No turn that completes in this step is one whose verdict must be earned.
Calm(T, T2) == \A q \in Roots : T2[q].pc = "done" => T[q].pc = "done" \/ T2[q].clarify \/ T2[q].decision = "none"

\* The record of a turn that is not open.
LEMMA UnopenedIs ==
  /\ Unopened \in TurnRecords /\ Unopened.pc = "idle" /\ Unopened.events = <<>> /\ Unopened.subUse = 0 /\ Unopened.usage = 0 /\ Unopened.decision = "none"
  /\ ~Unopened.clarify /\ Unopened.parent = NoTurn /\ Unopened.outputs = <<>> /\ Unopened.child = <<>>
<1>1. Empty \in Answers /\ "skeleton" \in Planners /\ "none" \in Decisions /\ NoTurn \in LoopTurns \cup {NoTurn}
      /\ NoTurn \in Roots \cup {NoTurn} /\ "idle" \in Awaited \cup {"idle", "added", "failed"} /\ FALSE \in BOOLEAN
      /\ 0 \in Nat /\ 0 \in Int /\ <<>> \in Seq(Answers) /\ <<>> \in Seq(Events) /\ <<>> \in {<<>>}
  BY AnswersAssumption DEF Planners, Decisions
<1> QED  BY <1>1 DEF Unopened, TurnRecords

\* The invariant holds before any turn.
LEMMA LoopStarts == LoopInit => LoopInv
<1> SUFFICES ASSUME LoopInit PROVE LoopInv
  OBVIOUS
<1>1. PICK T : T = [t \in LoopTurns |-> Unopened]
  OBVIOUS
<1>2. PICK Q : Q = [r \in Roots |-> <<>>]
  OBVIOUS
<1>3. PICK K : K = [r \in Roots |-> 0]
  OBVIOUS
<1>4. PICK C : C = [r \in Roots |-> "before"]
  OBVIOUS
<1>5. turn = T /\ active = Q /\ depth = K /\ queue = Q /\ taken = K /\ consumer = C /\ window \in Earlier /\ answered = window
  BY <1>1, <1>2, <1>3, <1>4 DEF LoopInit
<1>6. Control(T, Q, K)
  BY <1>1, <1>2, <1>3, ControlInit
<1>7. T \in [LoopTurns -> TurnRecords] /\ \A t \in LoopTurns : T[t] = Unopened
  BY <1>1, UnopenedIs
<1>8. ASSUME NEW t \in LoopTurns PROVE ToldIs(T, t)
  <2>1. SubsIn(T, t) = {}
    BY <1>7, UnopenedIs DEF SubsIn, LoopTurns
  <2>2. UsageSum(T, t) = 0
    BY <2>1, SumEmpty DEF UsageSum
  <2>3. PaidIs(t, Unopened)
    BY UnopenedIs DEF PaidIs, Open
  <2>4. OwnEvents(t, <<>>)
    BY OwnNothing
  <2> QED  BY <1>7, <2>2, <2>3, <2>4, UnopenedIs DEF ToldIs
<1>9. ASSUME NEW r \in Roots PROVE QueueIs(r, Q[r], K[r], C[r], T[r].events, T[r].pc)
  <2>1. Q[r] = <<>> /\ K[r] = 0 /\ C[r] = "before" /\ T[r] = Unopened /\ Len(<<>>) = 0 /\ <<>> \in Seq(QueueItems) /\ 0 \in 0..0
    BY <1>2, <1>3, <1>4, <1>7 DEF LoopTurns
  <2>2. SentIs(<<>>, r, <<>>)
    <3>1. SentTo(<<>>, r, 0) = {}
      BY DEF SentTo
    <3>2. Cardinality(SentTo(<<>>, r, Len(<<>>))) = 0
      BY <2>1, <3>1, FS_EmptySet
    <3> QED  BY <2>1, <3>1, <3>2 DEF SentIs
  <2>3. ~HasEnd(<<>>)
    BY <2>1 DEF HasEnd
  <2>4. "idle" \notin Finished
    BY DEF Finished
  <2> QED  BY <2>1, <2>2, <2>3, <2>4, UnopenedIs DEF QueueIs
<1>10. Sent(T, Q, K, C)
  <2>1. /\ Q \in [Roots -> Seq(QueueItems)] /\ K \in [Roots -> Nat]
        /\ C \in [Roots -> {"before", "reading", "closing", "ended"}]
    BY <1>2, <1>3, <1>4
  <2> QED  BY <1>9, <2>1 DEF Sent
<1>11. WindowIs(window, answered)
  <2>1. window \in Seq(Answers) /\ Len(window) <= Window /\ Len(window) \in Nat
    BY <1>5, TurnBoundsAssumption
  <2>2. \A i \in 1..Len(window) : Len(window) - Len(window) + i = i
    BY <2>1
  <2> QED  BY <1>5, <2>1, <2>2 DEF WindowIs
<1> QED  BY <1>5, <1>6, <1>8, <1>10, <1>11 DEF LoopInv, Costs

\* What else a step may leave as it was.
LEMMA StartKeeps == ASSUME LoopInv, NEW r \in Roots, Start(r) PROVE LoopInv' /\ Calm(turn, turn')
<1>1. PICK T : T = turn
  OBVIOUS
<1>2. PICK T2 : T2 = turn'
  OBVIOUS
<1>3. /\ Control(T, active, depth) /\ Costs(T) /\ Sent(T, queue, taken, consumer) /\ T[r].pc = "idle"
      /\ T2 = [T EXCEPT ![r].pc = "classify", ![r].task = r]
      /\ consumer' = IF r \in Streaming THEN [consumer EXCEPT ![r] = "reading"] ELSE consumer
      /\ active' = active /\ depth' = depth /\ queue' = queue /\ taken' = taken /\ window' = window /\ answered' = answered
  BY <1>1, <1>2 DEF LoopInv, Start
<1>4. r \in LoopTurns /\ r \notin Subs /\ Subs \subseteq LoopTurns /\ Roots \subseteq LoopTurns
  BY TurnsAssumption DEF LoopTurns
<1>5. T \in [LoopTurns -> TurnRecords] /\ T[r] = Unopened
  BY <1>3, <1>4 DEF Control, PlacedIs
<1>6. /\ T2[r] = [Unopened EXCEPT !.pc = "classify", !.task = r] /\ T2[r] \in TurnRecords
      /\ \A x \in LoopTurns : x # r => T2[x] = T[x]
  <2>1. T2[r] = [Unopened EXCEPT !.pc = "classify", !.task = r]
    BY <1>3, <1>4, <1>5
  <2>2. [Unopened EXCEPT !.pc = "classify", !.task = r] \in TurnRecords
    BY UnopenedIs DEF TurnRecords, Awaited
  <2> QED  BY <1>3, <1>4, <1>5, <2>1, <2>2
<1>7. T2[r].pc = "classify" /\ T2[r].task = r /\ T2[r].parent = NoTurn /\ T2[r].events = <<>> /\ T2[r].subUse = 0 /\ ~T2[r].clarify
      /\ T2[r].usage = 0 /\ T2[r].decision = "none"
  BY <1>6, UnopenedIs DEF Unopened
<1>8. T2 \in [LoopTurns -> TurnRecords]
  BY <1>3, <1>5, <1>6
<1>9. Control(T2, active, depth)
  BY <1>3, <1>6, <1>7, <1>8, TurnOpens
<1>10. \A x : UsageSum(T2, x) = UsageSum(T, x)
  <2>1. \A s \in Subs : T2[s] = T[s]
    BY <1>4, <1>6
  <2> QED  BY <1>5, <1>8, <2>1, UsageSumSame
<1>11. Costs(T2)
  <2>1. ASSUME NEW x \in LoopTurns, x # r PROVE ToldIs(T2, x)
    BY <1>3, <1>6, <1>10, <2>1 DEF Costs, ToldIs
  <2>2. ToldIs(T2, r)
    <3>1. UsageSum(T, r) = 0
      BY <1>3, <1>4, <1>5, UnopenedIs DEF Costs, ToldIs
    <3> QED  BY <1>7, <1>10, <3>1, OwnNothing DEF ToldIs, PaidIs, Open
  <2> QED  BY <2>1, <2>2 DEF Costs
<1>12. Sent(T2, queue, taken, consumer')
  <2>1. ASSUME NEW q \in Roots PROVE QueueIs(q, queue[q], taken[q], consumer'[q], T2[q].events, T2[q].pc)
    <3>1. QueueIs(q, queue[q], taken[q], consumer[q], T[q].events, T[q].pc)
      BY <1>3 DEF Sent
    <3>2. CASE q = r
      <4>1. T[q].events = <<>> /\ T[q].pc \notin Finished /\ T2[q].pc \notin Finished
        BY <1>5, <1>7, <3>2, UnopenedIs DEF Finished
      <4>2. consumer'[q] = IF q \in Streaming THEN "reading" ELSE consumer[q]
        BY <1>3, <3>2 DEF Sent
      <4> QED  BY <1>7, <3>1, <3>2, <4>1, <4>2 DEF QueueIs
    <3>3. CASE q # r
      <4>1. consumer'[q] = consumer[q] /\ T2[q] = T[q]
        BY <1>3, <1>4, <1>6, <3>3 DEF Sent
      <4> QED  BY <3>1, <4>1
    <3> QED  BY <3>2, <3>3
  <2>2. consumer' \in [Roots -> {"before", "reading", "closing", "ended"}]
    BY <1>3 DEF Sent
  <2> QED  BY <1>3, <2>1, <2>2 DEF Sent
<1>13. Calm(T, T2)
  BY <1>4, <1>6, <1>7 DEF Calm
<1> QED  BY <1>1, <1>2, <1>3, <1>9, <1>11, <1>12, <1>13 DEF LoopInv

\* The consumer of a stream changes nothing of the turns.
LEMMA ConsumerKeeps ==
  ASSUME LoopInv, NEW r \in Roots, Take(r) \/ Closed(r) PROVE LoopInv' /\ Calm(turn, turn')
<1>1. /\ Sent(turn, queue, taken, consumer)
      /\ turn' = turn /\ active' = active /\ depth' = depth /\ queue' = queue /\ window' = window /\ answered' = answered
  BY DEF LoopInv, Take, Closed
<1>2. queue \in [Roots -> Seq(QueueItems)] /\ taken \in [Roots -> Nat]
      /\ consumer \in [Roots -> {"before", "reading", "closing", "ended"}]
      /\ \A q \in Roots : QueueIs(q, queue[q], taken[q], consumer[q], turn[q].events, turn[q].pc)
  BY <1>1 DEF Sent
<1>3. PICK c : /\ consumer' = [consumer EXCEPT ![r] = c] /\ c \in {"reading", "closing", "ended"}
               /\ r \in Streaming /\ c = "ended" => turn[r].pc \in Finished
  <2>1. CASE Take(r)
    <3>1. queue[r] \in Seq(QueueItems) /\ Len(queue[r]) \in Nat
      BY <1>2
    <3>2. CASE consumer' = [consumer EXCEPT ![r] = "closing"]
      <4>1. "closing" \in {"reading", "closing", "ended"} /\ "closing" # "ended"
        OBVIOUS
      <4> QED  BY <3>2, <4>1
    <3>3. CASE consumer' = consumer
      <4>1. consumer[r] = "reading"
        BY <2>1 DEF Take
      <4> QED  BY <1>2, <3>3, <4>1
    <3>4. CASE consumer' = [consumer EXCEPT ![r] = "ended"] /\ Last(queue[r]) = End /\ taken[r] < Len(queue[r])
      <4>1. taken[r] \in Nat
        BY <1>2
      <4>2. Len(queue[r]) \in 1..Len(queue[r]) /\ queue[r][Len(queue[r])] = End
        BY <3>1, <3>4, <4>1 DEF Last
      <4>3. HasEnd(queue[r])
        BY <4>2 DEF HasEnd
      <4>4. r \in Streaming => turn[r].pc \in Finished
        BY <1>2, <4>3 DEF QueueIs
      <4> QED  BY <3>4, <4>4
    <3> QED  BY <2>1, <3>2, <3>3, <3>4 DEF Take
  <2>2. CASE Closed(r)
    BY <2>2 DEF Closed
  <2> QED  BY <2>1, <2>2
<1>4. PICK k : taken' = [taken EXCEPT ![r] = k] /\ k \in 0..Len(queue[r])
  <2>1. CASE Take(r)
    <3>1. Len(queue[r]) \in Nat
      BY <1>2
    <3>2. taken' = [taken EXCEPT ![r] = Len(queue[r])] /\ Len(queue[r]) \in 0..Len(queue[r])
      BY <2>1, <3>1 DEF Take
    <3> QED  BY <3>2
  <2>2. CASE Closed(r)
    <3>1. taken' = taken /\ taken = [taken EXCEPT ![r] = taken[r]]
      BY <1>2, <2>2 DEF Closed
    <3> QED  BY <1>2, <3>1 DEF QueueIs
  <2> QED  BY <2>1, <2>2
<1>5. /\ \A q \in Roots : q # r => consumer'[q] = consumer[q] /\ taken'[q] = taken[q]
      /\ consumer'[r] = c /\ taken'[r] = k
  BY <1>2, <1>3, <1>4
<1>6. taken' \in [Roots -> Nat] /\ consumer' \in [Roots -> {"before", "reading", "closing", "ended"}]
  <2>1. k \in Nat
    BY <1>2, <1>4
  <2> QED  BY <1>2, <1>3, <1>4, <2>1
<1>7. ASSUME NEW q \in Roots PROVE QueueIs(q, queue[q], taken'[q], consumer'[q], turn[q].events, turn[q].pc)
  <2>1. CASE q = r
    BY <1>2, <1>3, <1>4, <1>5, <2>1 DEF QueueIs
  <2>2. CASE q # r
    BY <1>2, <1>5, <2>2
  <2> QED  BY <2>1, <2>2
<1>8. Sent(turn, queue, taken', consumer')
  BY <1>2, <1>6, <1>7 DEF Sent
<1> QED  BY <1>1, <1>8 DEF LoopInv, Calm

\* The root of a task in which a turn runs.
LEMMA RootRuns ==
  ASSUME NEW T, NEW A, NEW D, Control(T, A, D), NEW t \in LoopTurns, T[t].pc \in Open \cup {"classify"}, NEW r, r = T[t].task
  PROVE  r \in Roots /\ T[r].task = r /\ T[r].pc \in Open \cup {"classify", "waits"}
<1>1. r \in Roots /\ (t \in Roots => t = r) /\ (t \in Roots \/ t \in Subs) /\ PlacedIs(T, A, t)
  BY TaskIs DEF Open
<1>2. CASE t \in Roots
  BY <1>1, <1>2
<1>3. CASE t \in Subs
  <2>1. Len(A[r]) > 0
    BY <1>1, <1>3 DEF PlacedIs, TopIs
  <2>2. Len(A[r]) \in Nat /\ \A k \in 1..Len(A[r]) : NestedIs(T, r, A[r], k)
    BY <1>1, StackNat
  <2>3. 1 \in 1..Len(A[r])
    BY <2>1, <2>2
  <2>4. A[r][1].of = r
    BY <2>2, <2>3 DEF NestedIs
  <2>5. T[A[r][1].of].task = r /\ T[A[r][1].of].pc \in Open \cup {"waits"}
    BY <1>1, <2>3, OnStack
  <2> QED  BY <1>1, <2>4, <2>5
<1> QED  BY <1>1, <1>2, <1>3

\* What a turn awaits raises.
LEMMA RaiseKeeps ==
  ASSUME LoopInv, NEW t \in LoopTurns, turn[t].pc \in {"classify", "plan", "react"}, Raise(t)
  PROVE  LoopInv' /\ Calm(turn, turn')
<1>1. PICK T, A, D, Q, K, C :
        T = turn /\ A = active /\ D = depth /\ Q = queue /\ K = taken /\ C = consumer
  OBVIOUS
<1>2. PICK T2, A2, D2, Q2 : T2 = turn' /\ A2 = active' /\ D2 = depth' /\ Q2 = queue'
  OBVIOUS
<1>3. PICK r : r = T[t].task
  OBVIOUS
<1>4. PICK Up : Up = {x \in LoopTurns : T[x].task = r /\ T[x].pc \notin Finished \cup {"added"}}
  OBVIOUS
<1>5. /\ Control(T, A, D) /\ Costs(T) /\ Sent(T, Q, K, C)
      /\ T[t].pc \in {"classify", "plan", "react"}
      /\ T2 = [a \in LoopTurns |-> IF a \in Up THEN [T[a] EXCEPT !.pc = "failed", !.output = Empty] ELSE T[a]]
      /\ A2 = [A EXCEPT ![r] = <<>>] /\ D2 = [D EXCEPT ![r] = 0]
      /\ Q2 = Sentinel(r, Q) /\ taken' = K /\ consumer' = C
      /\ window' = window /\ answered' = answered
  BY <1>1, <1>2, <1>3, <1>4, Zenon DEF LoopInv, Raise, Above
<1>6. /\ r \in Roots /\ T[r].task = r /\ T[r].pc \in Open \cup {"classify", "waits"}
      /\ T \in [LoopTurns -> TurnRecords] /\ Subs \subseteq LoopTurns /\ Roots \subseteq LoopTurns /\ NoTurn \notin LoopTurns
  <2>1. T[t].pc \in Open \cup {"classify"}
    BY <1>5 DEF Open
  <2>2. Control(T, A, D)
    BY <1>5
  <2>3. r \in Roots /\ T[r].task = r /\ T[r].pc \in Open \cup {"classify", "waits"}
    BY <1>3, <2>1, <2>2, RootRuns
  <2>4. T \in [LoopTurns -> TurnRecords]
    BY <2>2 DEF Control
  <2> QED  BY <2>3, <2>4, TurnsAssumption DEF LoopTurns
<1>7. \A x \in LoopTurns : x \notin Up => T2[x] = T[x]
  BY <1>5
<1>8. ASSUME NEW x \in Up
      PROVE  /\ T2[x] \in TurnRecords /\ T2[x].pc = "failed" /\ x \in LoopTurns
             /\ T2[x].task = T[x].task /\ T2[x].parent = T[x].parent /\ T2[x].events = T[x].events
             /\ T2[x].subUse = T[x].subUse /\ T2[x].clarify = T[x].clarify
  <2>1. x \in LoopTurns /\ T[x] \in TurnRecords
    BY <1>4, <1>6
  <2>2. T2[x] = [T[x] EXCEPT !.pc = "failed", !.output = Empty]
    BY <1>5, <2>1
  <2>3. "failed" \in Awaited \cup {"idle", "added", "failed"} /\ Empty \in Answers
    BY AnswersAssumption
  <2> QED  BY <2>1, <2>2, <2>3 DEF TurnRecords
<1>9. T2 \in [LoopTurns -> TurnRecords]
  BY <1>5, <1>6, <1>7, <1>8, Zenon
<1>10. Control(T2, A2, D2)
  <2>1. /\ Control(T, A, D) /\ T[t].pc \in {"classify", "plan", "react"}
        /\ A2 = [A EXCEPT ![r] = <<>>] /\ D2 = [D EXCEPT ![r] = 0]
    BY <1>5
  <2>2. \A x \in Up : T2[x].pc = "failed" /\ T2[x].task = T[x].task /\ T2[x].parent = T[x].parent
    BY <1>8
  <2>3. UpFrom(T, r) = Up
    BY <1>4 DEF UpFrom
  <2>4. FailsFrom(T, A, D, t, T2, A2, D2)
    BY <1>3, <1>7, <1>9, <2>1, <2>2, <2>3 DEF FailsFrom
  <2> QED  BY ONLY <2>1, <2>4, TurnsFail
<1>11. \A x : UsageSum(T2, x) = UsageSum(T, x)
  <2>1. ASSUME NEW s \in Subs PROVE (T2[s].pc = "added" <=> T[s].pc = "added") /\ (T[s].pc = "added" => T2[s] = T[s])
    <3>1. CASE s \in Up
      BY <1>4, <1>8, <3>1
    <3>2. CASE s \notin Up
      BY <1>6, <1>7, <3>2
    <3> QED  BY <3>1, <3>2
  <2> QED  BY <1>6, <1>9, <2>1, UsageSumSame
<1>12. ASSUME NEW x \in LoopTurns PROVE ToldIs(T2, x)
  <2>1. ToldIs(T, x)
    BY <1>5 DEF Costs
  <2>2. CASE x \notin Up
    BY <1>7, <1>11, <2>1, <2>2 DEF ToldIs
  <2>3. CASE x \in Up
    <3>1. ~T[x].clarify
      <4>1. T[x].clarify => T[x].pc \in {"done", "added"}
        BY <2>1 DEF ToldIs, PaidIs
      <4>2. T[x].pc \notin {"done", "added"}
        BY <1>4, <2>3 DEF Finished
      <4> QED  BY <4>1, <4>2
    <3>2. PaidIs(x, T2[x])
      BY <1>8, <2>3, <3>1 DEF PaidIs, Open
    <3> QED  BY <1>8, <1>11, <2>1, <2>3, <3>2 DEF ToldIs
  <2> QED  BY <2>2, <2>3
<1>13. r \in Up /\ \A q \in Roots : q # r => q \notin Up
  <2>1. r \in Up
    BY <1>4, <1>6 DEF Open, Finished
  <2>2. ASSUME NEW q \in Roots, q # r PROVE q \notin Up
    <3>1. PlacedIs(T, A, q)
      BY <1>5, <1>6 DEF Control
    <3>2. T[q].pc = "idle" => T[q].task = NoTurn
      BY <3>1 DEF PlacedIs, Unopened
    <3>3. T[q].pc # "idle" => T[q].task = q
      BY <3>1 DEF PlacedIs
    <3> QED  BY <1>4, <1>6, <2>2, <3>2, <3>3
  <2> QED  BY <2>1, <2>2
<1>14. /\ Q \in [Roots -> Seq(QueueItems)]
       /\ Q2 = IF r \in Streaming THEN [Q EXCEPT ![r] = Append(@, End)] ELSE Q
       /\ \A q \in Roots : QueueIs(q, Q[q], K[q], C[q], T[q].events, T[q].pc)
  BY <1>5 DEF Sent, Sentinel
<1>15. ASSUME NEW q \in Roots PROVE QueueIs(q, Q2[q], K[q], C[q], T2[q].events, T2[q].pc)
  <2>1. CASE q # r
    <3>1. Q2[q] = Q[q] /\ T2[q] = T[q]
      BY <1>6, <1>7, <1>13, <1>14, <2>1
    <3> QED  BY <1>14, <3>1
  <2>2. CASE q = r
    <3>1. Q2[q] = IF q \in Streaming THEN Append(Q[q], End) ELSE Q[q]
      BY <1>14, <2>2
    <3>2. T2[q].pc \in Finished /\ T2[q].events = T[q].events
      BY <1>8, <1>13, <2>2 DEF Finished
    <3>3. QueueIs(q, Q[q], K[q], C[q], T[q].events, T[q].pc)
      BY <1>14
    <3>4. QueueIs(q, IF q \in Streaming THEN Append(Q[q], End) ELSE Q[q], K[q], C[q], T[q].events, T2[q].pc)
      BY ONLY <3>2, <3>3, QueueEnds
    <3> QED  BY <3>1, <3>2, <3>4
  <2> QED  BY <2>1, <2>2
<1>16. Q2 \in [Roots -> Seq(QueueItems)]
  <2>1. \A q \in Roots : Q2[q] \in Seq(QueueItems)
    BY <1>15 DEF QueueIs
  <2>2. Q2 = [q \in Roots |-> Q2[q]]
    BY <1>14
  <2> QED  BY <2>1, <2>2
<1>17. Sent(T2, Q2, K, C)
  BY <1>5, <1>15, <1>16, Zenon DEF Sent
<1>18. Calm(T, T2)
  BY <1>6, <1>7, <1>8 DEF Calm
<1> QED  BY <1>1, <1>2, <1>5, <1>10, <1>12, <1>17, <1>18 DEF LoopInv, Costs

\* planner.plan returns.
LEMMA PlannedKeeps == ASSUME LoopInv, NEW t \in LoopTurns, Planned(t) PROVE LoopInv' /\ Calm(turn, turn')
<1>1. PICK T, A, D, Q, K, C :
        T = turn /\ A = active /\ D = depth /\ Q = queue /\ K = taken /\ C = consumer
  OBVIOUS
<1>2. PICK T2, A2, D2, Q2 : T2 = turn' /\ A2 = active' /\ D2 = depth' /\ Q2 = queue'
  OBVIOUS
<1>3. PICK r : r = T[t].task
  OBVIOUS
<1>4. /\ Control(T, A, D) /\ Costs(T) /\ Sent(T, Q, K, C) /\ WindowIs(window, answered)
      /\ T[t].pc = "plan"
  BY <1>1 DEF LoopInv, Planned
<1>5. /\ T \in [LoopTurns -> TurnRecords] /\ T[t] \in TurnRecords /\ r \in Roots /\ MaxDepth \in Nat
      /\ D \in [Roots -> 0..MaxDepth] /\ A \in [Roots -> Seq(Scopes)]
  BY <1>3, <1>4, TaskIs, TurnBoundsAssumption DEF Control
<1>6. CASE Raise(t)
  BY <1>1, <1>4, <1>6, RaiseKeeps
<1>7. ASSUME NEW at \in {"react", "subs"}, NEW left \in Int, T2 = [T EXCEPT ![t].pc = at, ![t].left = left],
             NEW d, D2 = [D EXCEPT ![r] = d], d = IF at = "subs" THEN D[r] + 1 ELSE D[r], d <= MaxDepth,
             UNCHANGED <<active, queue, taken, consumer, window, answered>>
      PROVE  LoopInv' /\ Calm(turn, turn')
  <2>1. T2[t] = [T[t] EXCEPT !.pc = at, !.left = left] /\ \A x \in LoopTurns : x # t => T2[x] = T[x]
    BY <1>5, <1>7
  <2>2. /\ T2[t].pc = at /\ T2[t] \in TurnRecords /\ T2[t].task = T[t].task /\ T2[t].parent = T[t].parent
        /\ T2[t].events = T[t].events /\ T2[t].subUse = T[t].subUse /\ T2[t].clarify = T[t].clarify
        /\ T2[t].spent = T[t].spent
    BY <1>5, <2>1 DEF TurnRecords, Awaited, Open
  <2>3. Moves(T, t, T2)
    <3>1. T2 \in [LoopTurns -> TurnRecords]
      BY <1>5, <1>7, <2>1, <2>2
    <3> QED  BY <2>1, <2>2, <3>1 DEF Moves
  <2>4. /\ D2[r] = d /\ d \in 0..MaxDepth /\ D2 \in [Roots -> 0..MaxDepth]
        /\ \A q \in Roots : q # r => D2[q] = D[q]
    BY <1>5, <1>7
  <2>5. StackIs(T2, r, A[r], d) /\ TopIs(A[r], Own(t))
    <3>1. T2[t].pc \in {"react", "subs"} /\ d = IF T2[t].pc = "subs" THEN D[r] + 1 ELSE D[r]
      BY <1>7, <2>2
    <3>2. Control(T, A, D) /\ T[t].pc = "plan" /\ d <= MaxDepth
      BY <1>4, <1>7
    <3> QED  BY ONLY <1>3, <2>3, <3>1, <3>2, StackTop
  <2>6. Control(T2, A, D2)
    <3>1. T[t].pc \in Open \cup {"classify"} /\ T2[t].pc \in Open \cup {"done"} /\ T2[t].pc # "done"
      BY <1>4, <2>2 DEF Open
    <3>2. \A q \in Roots : q # r => A[q] = A[q] /\ D2[q] = D[q]
      BY <2>4
    <3>3. Control(T, A, D) /\ A \in [Roots -> Seq(Scopes)] /\ StackIs(T2, r, A[r], D2[r]) /\ TopIs(A[r], Own(t))
          /\ D2 \in [Roots -> 0..MaxDepth]
      BY <1>4, <1>5, <2>4, <2>5
    <3>4. Advances(T, A, D, t, T2, A, D2)
      BY <1>3, <2>3, <3>1, <3>2, <3>3 DEF Advances
    <3> QED  BY ONLY <3>3, <3>4, OneMoves
  <2>7. Costs(T2) /\ Sent(T2, Q, K, C)
    <3>1. PaidIs(t, T2[t])
      <4>1. ToldIs(T, t)
        BY <1>4 DEF Costs
      <4> QED  BY <1>4, <2>2, <4>1 DEF ToldIs, PaidIs, Open
    <3>2. OwnEvents(t, <<>>) /\ T2[t].events = T[t].events \o <<>>
      <4>1. T[t].events \in Seq(Events)
        BY <1>5 DEF TurnRecords
      <4> QED  BY <2>2, <4>1, OwnNothing
    <3>3. T[t].pc \in Open \cup {"classify"} /\ T2[t].pc \in Open \cup {"done"} /\ T2[t].pc # "done"
      BY <1>4, <2>2 DEF Open
    <3>4. Q = IF r \in Streaming THEN [Q EXCEPT ![r] = @ \o <<>>] ELSE Q
      <4>1. Q \in [Roots -> Seq(QueueItems)]
        BY <1>4 DEF Sent
      <4>2. Q[r] \o <<>> = Q[r]
        BY <1>5, <4>1
      <4> QED  BY <1>5, <4>1, <4>2
    <3>5. Q = IF T2[t].pc = "done" THEN Sentinel(t, Q) ELSE Q
      BY <3>3
    <3>6. Control(T, A, D) /\ Costs(T) /\ Sent(T, Q, K, C) /\ T2[t].subUse = T[t].subUse
      BY <1>4, <2>2
    <3>7. Q = ToldOn(T, t, Q, <<>>)
      BY <1>3, <3>4 DEF ToldOn
    <3>8. Tells(T, t, T2, <<>>, Q, Q)
      BY <2>3, <3>1, <3>2, <3>3, <3>5, <3>6, <3>7 DEF Tells
    <3> QED  BY ONLY <3>6, <3>8, TurnTells
  <2>8. Calm(T, T2)
    BY <1>7, <2>1, <2>2 DEF Calm, LoopTurns
  <2> QED  BY <1>1, <1>2, <1>4, <1>7, <2>6, <2>7, <2>8 DEF LoopInv
<1>8. CASE turn' = [turn EXCEPT ![t].pc = "react"] /\ UNCHANGED <<active, depth, queue, taken, consumer, window, answered>>
  <2>1. T[t].left \in Int
    BY <1>5 DEF TurnRecords
  <2>2. T2 = [T EXCEPT ![t].pc = "react", ![t].left = T[t].left]
    <3>1. [T[t] EXCEPT !.pc = "react"] = [T[t] EXCEPT !.pc = "react", !.left = T[t].left]
      BY <1>5 DEF TurnRecords
    <3> QED  BY <1>1, <1>2, <1>5, <1>8, <3>1
  <2>3. D2 = [D EXCEPT ![r] = D[r]] /\ D[r] <= MaxDepth
    BY <1>1, <1>2, <1>5, <1>8
  <2>4. D[r] = IF "react" = "subs" THEN D[r] + 1 ELSE D[r]
    OBVIOUS
  <2> QED  BY <1>7, <1>8, <2>1, <2>2, <2>3, <2>4
<1>9. ASSUME NEW n \in 0..Min({MaxSubs, FreeSubs}), turn' = [turn EXCEPT ![t].pc = "subs", ![t].left = n],
             depth[turn[t].task] < MaxDepth, depth' = [depth EXCEPT ![turn[t].task] = @ + 1],
             UNCHANGED <<active, queue, taken, consumer, window, answered>>
      PROVE  LoopInv' /\ Calm(turn, turn')
  <2>1. D2 = [D EXCEPT ![r] = D[r] + 1] /\ D[r] + 1 <= MaxDepth
    BY <1>1, <1>2, <1>3, <1>5, <1>9
  <2>2. D[r] + 1 = IF "subs" = "subs" THEN D[r] + 1 ELSE D[r]
    OBVIOUS
  <2>3. n \in Int /\ T2 = [T EXCEPT ![t].pc = "subs", ![t].left = n]
    BY <1>1, <1>2, <1>9
  <2> QED  BY <1>7, <1>9, <2>1, <2>2, <2>3
<1> QED  BY <1>6, <1>8, <1>9 DEF Planned

\* A step that tells nothing and ends no root turn leaves what was sent.
LEMMA SentSame ==
  ASSUME NEW T, NEW Q, NEW K, NEW C, Sent(T, Q, K, C), NEW T2,
         \A q \in Roots : T2[q].events = T[q].events /\ (T2[q].pc \in Finished <=> T[q].pc \in Finished)
  PROVE  Sent(T2, Q, K, C)
<1>1. ASSUME NEW q \in Roots PROVE QueueIs(q, Q[q], K[q], C[q], T2[q].events, T2[q].pc)
  <2>1. QueueIs(q, Q[q], K[q], C[q], T[q].events, T[q].pc)
    BY DEF Sent
  <2>2. T2[q].events = T[q].events /\ (T2[q].pc \in Finished <=> T[q].pc \in Finished)
    OBVIOUS
  <2> QED  BY ONLY <2>1, <2>2 DEF QueueIs
<1> QED  BY <1>1 DEF Sent

\* A turn that waits for a sub-turn.
WaitsFor(me, n, rec) ==
  me \in TurnRecords /\ n \in Int /\ rec = [me EXCEPT !.pc = "waits", !.left = n, !.child = <<>>]
LEMMA WaitsIs ==
  ASSUME NEW me, NEW n, NEW rec, WaitsFor(me, n, rec)
  PROVE  /\ rec \in TurnRecords /\ rec.pc = "waits" /\ rec.task = me.task /\ rec.parent = me.parent
         /\ rec.events = me.events /\ rec.subUse = me.subUse /\ rec.clarify = me.clarify /\ rec.spent = me.spent
<1>1. "waits" \in Awaited \cup {"idle", "added", "failed"}
  BY DEF Awaited
<1> QED  BY <1>1 DEF TurnRecords, WaitsFor

\* A record of a turn to which a sub-turn has returned.
ReturnedTo(me, n, os, rec) ==
  /\ me \in TurnRecords /\ n \in Nat /\ os \in Seq(Answers)
  /\ rec = [me EXCEPT !.pc = "subs", !.subUse = n, !.outputs = os, !.child = <<>>]

\* What such a record holds.
LEMMA ReturnedToIs ==
  ASSUME NEW me, NEW n, NEW os, NEW rec, ReturnedTo(me, n, os, rec)
  PROVE  /\ rec \in TurnRecords /\ rec.pc = "subs" /\ rec.task = me.task /\ rec.parent = me.parent
         /\ rec.events = me.events /\ rec.subUse = n /\ rec.clarify = me.clarify /\ rec.spent = me.spent
<1>1. "subs" \in Awaited \cup {"idle", "added", "failed"}
  BY DEF Awaited, Open
<1> QED  BY <1>1 DEF TurnRecords, ReturnedTo

\* A turn opens a sub-agent's.
LEMMA OpenSubKeeps == ASSUME LoopInv, NEW t \in LoopTurns, OpenSub(t) PROVE LoopInv' /\ Calm(turn, turn')
<1>1. PICK T, A, D, Q, K, C :
        T = turn /\ A = active /\ D = depth /\ Q = queue /\ K = taken /\ C = consumer
  OBVIOUS
<1>2. PICK T2, A2 : T2 = turn' /\ A2 = active'
  OBVIOUS
<1>3. PICK s : s = CHOOSE x \in Subs : T[x].pc = "idle"
  OBVIOUS
<1>4. /\ Control(T, A, D) /\ Costs(T) /\ Sent(T, Q, K, C) /\ WindowIs(window, answered)
      /\ T[t].pc = "subs" /\ (\E x \in Subs : T[x].pc = "idle")
  BY <1>1, Zenon DEF LoopInv, OpenSub
<1>a. T2 = [T EXCEPT ![t].pc = "waits", ![t].left = @ - 1, ![t].child = <<>>,
                   ![s].pc = "classify", ![s].parent = t, ![s].task = T[t].task]
  BY <1>1, <1>2, <1>3, Zenon DEF OpenSub
<1>b. A2 = [A EXCEPT ![T[t].task] = Append(@, ChildScope(t))]
  BY <1>1, <1>2, Zenon DEF OpenSub
<1>c. depth' = D /\ queue' = Q /\ taken' = K /\ consumer' = C /\ window' = window /\ answered' = answered
  BY <1>1, Zenon DEF OpenSub
<1>5. s \in Subs /\ T[s].pc = "idle" /\ s # t /\ s \in LoopTurns /\ Subs \subseteq LoopTurns /\ Roots \subseteq LoopTurns /\ s \notin Roots
  BY <1>3, <1>4, TurnsAssumption DEF LoopTurns
<1>6. /\ T \in [LoopTurns -> TurnRecords] /\ T[t] \in TurnRecords /\ T[t].task \in Roots
      /\ T[s] = Unopened
  <2>1. T[t].pc # "idle"
    BY <1>4
  <2>2. T \in [LoopTurns -> TurnRecords] /\ T[t] \in TurnRecords /\ T[t].task \in Roots
    BY <1>4, <2>1, TaskIs
  <2>3. PlacedIs(T, A, s)
    BY <1>4, <1>5, TaskIs
  <2> QED  BY <1>5, <2>2, <2>3 DEF PlacedIs
<1>d. T2[t] = [T[t] EXCEPT !.pc = "waits", !.left = T[t].left - 1, !.child = <<>>]
  BY <1>a, <1>5, <1>6
<1>e. T2[s] = [Unopened EXCEPT !.pc = "classify", !.parent = t, !.task = T[t].task]
  BY <1>a, <1>5, <1>6
<1>7. \A x \in LoopTurns : x # t /\ x # s => T2[x] = T[x]
  BY <1>a, <1>5, <1>6
<1>8. /\ T2[t] \in TurnRecords /\ T2[t].pc = "waits" /\ T2[t].task = T[t].task /\ T2[t].parent = T[t].parent
      /\ T2[t].events = T[t].events /\ T2[t].subUse = T[t].subUse /\ T2[t].clarify = T[t].clarify /\ T2[t].spent = T[t].spent
  <2>1. T[t].left - 1 \in Int
    BY <1>6 DEF TurnRecords
  <2>2. PICK me, n, rec : me = T[t] /\ n = T[t].left - 1 /\ rec = T2[t]
    OBVIOUS
  <2>3. me \in TurnRecords /\ n \in Int /\ rec = [me EXCEPT !.pc = "waits", !.left = n, !.child = <<>>]
    BY <1>6, <1>d, <2>1, <2>2, Zenon
  <2>4. /\ rec \in TurnRecords /\ rec.pc = "waits" /\ rec.task = me.task /\ rec.parent = me.parent
        /\ rec.events = me.events /\ rec.subUse = me.subUse /\ rec.clarify = me.clarify /\ rec.spent = me.spent
    <3>1. WaitsFor(me, n, rec)
      BY <2>3 DEF WaitsFor
    <3> QED  BY ONLY <3>1, WaitsIs
  <2> QED  BY <2>2, <2>4
<1>9. /\ T2[s] \in TurnRecords /\ T2[s].pc = "classify" /\ T2[s].task = T[t].task /\ T2[s].parent = t
      /\ T2[s].events = <<>> /\ T2[s].subUse = 0 /\ T2[s].usage = 0 /\ ~T2[s].clarify
      /\ T2[s].decision = "none"
  <2>1. "classify" \in Awaited \cup {"idle", "added", "failed"}
    BY DEF Awaited
  <2>2. [Unopened EXCEPT !.pc = "classify", !.parent = t, !.task = T[t].task] \in TurnRecords
    BY <1>6, <2>1, UnopenedIs, Zenon DEF TurnRecords
  <2> QED  BY <1>e, <2>2, UnopenedIs DEF Unopened
<1>10. T2 \in [LoopTurns -> TurnRecords]
  <2>1. \A x \in LoopTurns : T2[x] \in TurnRecords
    BY <1>6, <1>7, <1>8, <1>9
  <2>2. T2 = [x \in LoopTurns |-> T2[x]]
    BY <1>a, <1>6
  <2> QED  BY <2>1, <2>2
<1>11. Control(T2, A2, D)
  <2>1. GoesDown(T, A, t, s, T2, A2)
    BY <1>b, <1>4, <1>5, <1>7, <1>8, <1>9, <1>10 DEF GoesDown
  <2> QED  BY <1>4, <1>5, <2>1, SubOpens
<1>12. \A x : UsageSum(T2, x) = UsageSum(T, x)
  <2>1. \A x \in Subs : (T2[x].pc = "added" <=> T[x].pc = "added") /\ (T[x].pc = "added" => T2[x] = T[x])
    BY <1>4, <1>5, <1>7, <1>8, <1>9
  <2> QED  BY <1>6, <1>10, <2>1, UsageSumSame
<1>13. Costs(T2)
  <2>1. ToldIs(T2, t)
    <3>1. ToldIs(T, t)
      BY <1>4 DEF Costs
    <3>2. PaidIs(t, T2[t])
      BY <1>4, <1>8, <3>1 DEF ToldIs, PaidIs, Open
    <3> QED  BY <1>8, <1>12, <3>1, <3>2 DEF ToldIs
  <2>2. ToldIs(T2, s)
    <3>1. UsageSum(T, s) = 0
      <4>1. ToldIs(T, s)
        BY <1>4, <1>5 DEF Costs
      <4> QED  BY <1>6, <4>1, UnopenedIs DEF ToldIs
    <3>2. PaidIs(s, T2[s])
      BY <1>9 DEF PaidIs, Open
    <3> QED  BY <1>9, <1>12, <3>1, <3>2, OwnNothing DEF ToldIs
  <2>3. ASSUME NEW x \in LoopTurns, x # t, x # s PROVE ToldIs(T2, x)
    <3>1. T2[x] = T[x] /\ ToldIs(T, x)
      BY <1>4, <1>7, <2>3 DEF Costs
    <3> QED  BY <1>12, <3>1 DEF ToldIs
  <2> QED  BY <2>1, <2>2, <2>3 DEF Costs
<1>14. Sent(T2, Q, K, C)
  <2>1. ASSUME NEW q \in Roots PROVE T2[q].events = T[q].events /\ (T2[q].pc \in Finished <=> T[q].pc \in Finished)
    <3>1. CASE q = t
      BY <1>4, <1>8, <3>1 DEF Finished
    <3>2. CASE q # t
      BY <1>5, <1>7, <3>2
    <3> QED  BY <3>1, <3>2
  <2>2. Sent(T, Q, K, C)
    BY <1>4
  <2> QED  BY ONLY <2>1, <2>2, SentSame
<1>15. Calm(T, T2)
  BY <1>5, <1>7, <1>8 DEF Calm
<1> QED  BY <1>1, <1>2, <1>4, <1>c, <1>11, <1>13, <1>14, <1>15 DEF LoopInv

\* Nothing is forwarded of nothing.
LEMMA ForwardedNone == Forwarded(<<>>) = <<>>
<1> DEFINE kept == {i \in DOMAIN <<>> : ShouldForward(<<>>[i])}
           place(i) == 1 + Cardinality({j \in kept : j < i})
           f == [k \in 1..Cardinality(kept) |-> <<>>[CHOOSE i \in kept : place(i) = k]]
<1>1. kept = {}
  OBVIOUS
<1>2. Cardinality(kept) = 0
  BY <1>1, FS_EmptySet
<1> HIDE DEF kept, place
<1>3. 1..Cardinality(kept) = {}
  BY <1>2
<1>4. f = <<>>
  <2>1. DOMAIN f = {}
    BY <1>3
  <2> QED  BY <1>3
<1>5. Forwarded(<<>>) = f
  BY DEF Forwarded, kept, place
<1> QED  BY <1>4, <1>5

\* A sub-agent's turn returns.
LEMMA SubReturnsKeeps == ASSUME LoopInv, NEW t \in LoopTurns, SubReturns(t) PROVE LoopInv' /\ Calm(turn, turn')
<1>1. PICK T, A, D, Q, K, C :
        T = turn /\ A = active /\ D = depth /\ Q = queue /\ K = taken /\ C = consumer
  OBVIOUS
<1>2. PICK T2, A2, Q2 : T2 = turn' /\ A2 = active' /\ Q2 = queue'
  OBVIOUS
<1>3. PICK s : s = CHOOSE x \in Subs : T[x].parent = t /\ T[x].pc # "added"
  OBVIOUS
<1>4. PICK r : r = T[t].task
  OBVIOUS
<1>5. PICK X : X = [T EXCEPT ![t].pc = "subs", ![t].subUse = @ + T[s].usage, ![t].outputs = Append(@, T[s].output),
                             ![t].child = <<>>, ![s].pc = "added"]
  OBVIOUS
<1>6. /\ Control(T, A, D) /\ Costs(T) /\ Sent(T, Q, K, C) /\ WindowIs(window, answered)
      /\ T[t].pc = "waits" /\ T[s].pc = "done"
  BY <1>1, <1>3, Zenon DEF LoopInv, SubReturns, CurrentSub
<1>a. T2 = Collected(X, A[r][Len(A[r]) - 1], Forwarded(T[t].child))
  BY <1>1, <1>2, <1>3, <1>4, <1>5, Zenon DEF SubReturns, CurrentSub
<1>b. A2 = [A EXCEPT ![r] = Front(@)]
  BY <1>1, <1>2, <1>4, Zenon DEF SubReturns
<1>c. Q2 = Queued(t, A[r][Len(A[r]) - 1], Forwarded(T[t].child))
  BY <1>1, <1>2, <1>4, Zenon DEF SubReturns
<1>u. depth' = D /\ taken' = K /\ consumer' = C /\ window' = window /\ answered' = answered
  BY <1>1 DEF SubReturns
<1>7. /\ T \in [LoopTurns -> TurnRecords] /\ T[t] \in TurnRecords /\ r \in Roots /\ PlacedIs(T, A, t)
  <2>1. T[t].pc # "idle"
    BY <1>6
  <2> QED  BY <1>4, <1>6, <2>1, TaskIs
<1>8. s \in Subs /\ T[s].parent = t /\ s \in LoopTurns /\ s # t /\ Subs \subseteq LoopTurns /\ Roots \subseteq LoopTurns /\ s \notin Roots
  <2>1. PICK x \in Subs : T[x].parent = t /\ Live(T, x)
    BY <1>6, <1>7 DEF PlacedIs
  <2>2. T[x].pc # "added"
    BY <2>1 DEF Live, Awaited, Open
  <2>3. s \in Subs /\ T[s].parent = t
    BY <1>3, <2>1, <2>2
  <2> QED  BY <1>6, <2>3, TurnsAssumption DEF LoopTurns
<1>9. T[t].child = <<>> /\ Forwarded(T[t].child) = <<>> /\ T[s] \in TurnRecords
  BY <1>7, <1>8, ForwardedNone DEF TurnRecords
<1>d. X[t] = [T[t] EXCEPT !.pc = "subs", !.subUse = T[t].subUse + T[s].usage,
                      !.outputs = Append(T[t].outputs, T[s].output), !.child = <<>>]
  BY <1>5, <1>7, <1>8
<1>e. X[s] = [T[s] EXCEPT !.pc = "added"]
  BY <1>5, <1>7, <1>8
<1>10. \A x \in LoopTurns : x # t /\ x # s => X[x] = T[x]
  BY <1>5, <1>7, <1>8
<1>11. /\ X[t] \in TurnRecords /\ X[t].pc = "subs" /\ X[t].task = T[t].task /\ X[t].parent = T[t].parent
       /\ X[t].events = T[t].events /\ X[t].subUse = T[t].subUse + T[s].usage /\ X[t].clarify = T[t].clarify
       /\ X[t].spent = T[t].spent
  <2>1. T[t].subUse + T[s].usage \in Nat /\ Append(T[t].outputs, T[s].output) \in Seq(Answers)
    <3>1. T[t].subUse \in Nat /\ T[s].usage \in Nat /\ T[t].outputs \in Seq(Answers) /\ T[s].output \in Answers
      BY <1>7, <1>9 DEF TurnRecords
    <3> QED  BY ONLY <3>1
  <2>2. PICK me, n, os, rec :
          me = T[t] /\ n = T[t].subUse + T[s].usage /\ os = Append(T[t].outputs, T[s].output) /\ rec = X[t]
    OBVIOUS
  <2>3. ReturnedTo(me, n, os, rec)
    BY <1>7, <1>d, <2>1, <2>2, Zenon DEF ReturnedTo
  <2>4. /\ rec \in TurnRecords /\ rec.pc = "subs" /\ rec.task = me.task /\ rec.parent = me.parent
        /\ rec.events = me.events /\ rec.subUse = n /\ rec.clarify = me.clarify /\ rec.spent = me.spent
    BY ONLY <2>3, ReturnedToIs
  <2> QED  BY <2>2, <2>4
<1>12. /\ X[s] \in TurnRecords /\ X[s].pc = "added" /\ X[s].task = T[s].task /\ X[s].parent = t
       /\ X[s].events = T[s].events /\ X[s].subUse = T[s].subUse /\ X[s].clarify = T[s].clarify
       /\ X[s].spent = T[s].spent /\ X[s].usage = T[s].usage
  BY <1>8, <1>9, <1>e DEF TurnRecords
<1>13. X \in [LoopTurns -> TurnRecords]
  <2>1. \A x \in LoopTurns : X[x] \in TurnRecords
    BY <1>7, <1>10, <1>11, <1>12
  <2>2. X = [x \in LoopTurns |-> X[x]]
    BY <1>5, <1>7
  <2> QED  BY <2>1, <2>2
<1>14. Control(X, A2, D) /\ A[r][Len(A[r]) - 1] = Own(t)
  <2>1. GoesUp(T, A, t, s, X, A2)
    BY <1>b, <1>4, <1>6, <1>8, <1>10, <1>11, <1>12, <1>13 DEF GoesUp
  <2> QED  BY <1>4, <1>6, <1>8, <2>1, SubComes
<1>15. T2 = X
  <2>1. T2 = [X EXCEPT ![t].events = @ \o <<>>]
    <3>1. T2 = Collected(X, Own(t), <<>>)
      BY <1>a, <1>9, <1>14
    <3>2. Own(t).child = FALSE /\ Own(t).of = t
      BY OwnIs
    <3> QED  BY <3>1, <3>2 DEF Collected
  <2>2. X[t].events \o <<>> = X[t].events
    BY <1>11 DEF TurnRecords
  <2>3. [X[t] EXCEPT !.events = @ \o <<>>] = X[t]
    BY <1>11, <2>2 DEF TurnRecords
  <2> QED  BY <1>13, <2>1, <2>3
<1>16. Q2 = Q
  <2>1. Q2 = IF r \in Streaming THEN [Q EXCEPT ![r] = @ \o <<>>] ELSE Q
    <3>1. Q2 = Queued(t, Own(t), <<>>)
      BY <1>c, <1>9, <1>14
    <3>2. Own(t).child = FALSE
      BY OwnIs
    <3> QED  BY <1>1, <1>4, <3>1, <3>2 DEF Queued
  <2>2. Q \in [Roots -> Seq(QueueItems)]
    BY <1>6 DEF Sent
  <2>3. Q[r] \o <<>> = Q[r]
    BY <1>7, <2>2
  <2> QED  BY <1>7, <2>1, <2>2, <2>3
<1>17. /\ UsageSum(X, t) = UsageSum(T, t) + T[s].usage
       /\ \A y : y # t => UsageSum(X, y) = UsageSum(T, y)
  <2>1. T[s].clarify => T[s].usage = 0
    BY <1>6, <1>8 DEF Costs, ToldIs, PaidIs
  <2>2. \A x \in Subs : x # s => (X[x].pc = "added" <=> T[x].pc = "added") /\ (T[x].pc = "added" => X[x] = T[x])
    BY <1>6, <1>8, <1>10, <1>11
  <2> QED  BY <1>6, <1>7, <1>8, <1>12, <1>13, <2>1, <2>2, UsageSumAdds
<1>18. Costs(X)
  <2>1. ToldIs(X, t)
    <3>1. ToldIs(T, t)
      BY <1>6 DEF Costs
    <3>2. PaidIs(t, X[t])
      BY <1>6, <1>11, <3>1 DEF ToldIs, PaidIs, Open
    <3>3. X[t].subUse = UsageSum(X, t)
      BY <1>11, <1>17, <3>1 DEF ToldIs
    <3> QED  BY <1>11, <3>1, <3>2, <3>3 DEF ToldIs
  <2>2. ToldIs(X, s)
    <3>1. ToldIs(T, s)
      BY <1>6, <1>8 DEF Costs
    <3>2. PaidIs(s, X[s])
      BY <1>6, <1>12, <3>1 DEF ToldIs, PaidIs, Open
    <3> QED  BY <1>8, <1>12, <1>17, <3>1, <3>2 DEF ToldIs
  <2>3. ASSUME NEW x \in LoopTurns, x # t, x # s PROVE ToldIs(X, x)
    <3>1. X[x] = T[x] /\ ToldIs(T, x)
      BY <1>6, <1>10, <2>3 DEF Costs
    <3> QED  BY <1>17, <2>3, <3>1 DEF ToldIs
  <2> QED  BY <2>1, <2>2, <2>3 DEF Costs
<1>19. Sent(X, Q, K, C)
  <2>1. ASSUME NEW q \in Roots PROVE X[q].events = T[q].events /\ (X[q].pc \in Finished <=> T[q].pc \in Finished)
    <3>1. CASE q = t
      BY <1>6, <1>11, <3>1 DEF Finished
    <3>2. CASE q # t
      BY <1>8, <1>10, <3>2
    <3> QED  BY <3>1, <3>2
  <2>2. Sent(T, Q, K, C)
    BY <1>6
  <2> QED  BY ONLY <2>1, <2>2, SentSame
<1>20. Calm(T, X)
  <2>1. ASSUME NEW q \in Roots PROVE X[q].pc # "done" \/ X[q] = T[q]
    BY <1>8, <1>10, <1>11
  <2>2. \A q \in Roots : X[q].pc = "done" => T[q].pc = "done"
    BY <2>1
  <2> QED  BY ONLY <2>2 DEF Calm
<1> QED  BY <1>1, <1>2, <1>6, <1>u, <1>14, <1>15, <1>16, <1>18, <1>19, <1>20 DEF LoopInv

\* A turn's record as it goes on, with what it tells.
GoesOn(T, t, rec, es, T2) ==
  /\ T \in [LoopTurns -> TurnRecords] /\ rec \in TurnRecords /\ es \in Seq(Events)
  /\ rec.task = T[t].task /\ rec.parent = T[t].parent
  /\ T2 = Collected([T EXCEPT ![t] = rec], Own(t), es)

WentOn(T, t, rec, es, T2) ==
  /\ Moves(T, t, T2) /\ T2[t] \in TurnRecords /\ T2[t].pc = rec.pc /\ T2[t].clarify = rec.clarify
  /\ T2[t].subUse = rec.subUse /\ T2[t].usage = rec.usage /\ T2[t].spent = rec.spent
  /\ T2[t].output = rec.output /\ T2[t].decision = rec.decision /\ T2[t].planner = rec.planner
  /\ T2[t].events = rec.events \o es

\* What goes to a turn's own collector goes to its record.
LEMMA CollectedOwn ==
  ASSUME NEW T, NEW t \in LoopTurns, NEW rec, NEW es, NEW T2, GoesOn(T, t, rec, es, T2)
  PROVE  WentOn(T, t, rec, es, T2)
<1>a. /\ T \in [LoopTurns -> TurnRecords] /\ rec \in TurnRecords /\ es \in Seq(Events)
      /\ rec.task = T[t].task /\ rec.parent = T[t].parent
      /\ T2 = Collected([T EXCEPT ![t] = rec], Own(t), es)
  BY DEF GoesOn
<1> USE <1>a
<1>1. T2 = [T EXCEPT ![t] = [rec EXCEPT !.events = rec.events \o es]]
  <2>1. T2 = [[T EXCEPT ![t] = rec] EXCEPT ![t].events = @ \o es]
    BY OwnIs DEF Collected
  <2> QED  BY <2>1
<1>2. rec.events \o es \in Seq(Events)
  <2>1. rec.events \in Seq(Events)
    BY DEF TurnRecords
  <2> QED  BY <2>1
<1>3. [rec EXCEPT !.events = rec.events \o es] \in TurnRecords
  BY <1>2 DEF TurnRecords
<1>4. T2[t] = [rec EXCEPT !.events = rec.events \o es] /\ \A x \in LoopTurns : x # t => T2[x] = T[x]
  BY <1>1
<1>5. T2 \in [LoopTurns -> TurnRecords]
  BY <1>1, <1>3
<1>6. /\ T2[t].pc = rec.pc /\ T2[t].clarify = rec.clarify
      /\ T2[t].subUse = rec.subUse /\ T2[t].usage = rec.usage /\ T2[t].spent = rec.spent
      /\ T2[t].output = rec.output /\ T2[t].decision = rec.decision /\ T2[t].planner = rec.planner
      /\ T2[t].events = rec.events \o es /\ T2[t].task = rec.task /\ T2[t].parent = rec.parent
  BY <1>4 DEF TurnRecords
<1> QED  BY <1>3, <1>4, <1>5, <1>6 DEF Moves, WentOn

\* A turn that ends before it opened a collector.
LEMMA EndsEarly ==
  ASSUME NEW T, NEW A, NEW D, Control(T, A, D), NEW t \in LoopTurns, T[t].pc = "classify",
         NEW T2, Moves(T, t, T2), T2[t].pc = "done"
  PROVE  Control(T2, A, D)
<1>1. PICK r : r = T[t].task
  OBVIOUS
<1>2. r \in Roots /\ PlacedIs(T, A, t)
  <2>1. T[t].pc # "idle"
    OBVIOUS
  <2> QED  BY <1>1, <2>1, TaskIs
<1>3. StackIs(T2, r, A[r], D[r])
  <2>1. StackIs(T, r, A[r], D[r])
    BY <1>2 DEF Control
  <2>2. T[t].pc \notin Open \cup {"waits"}
    BY DEF Open
  <2>3. ASSUME NEW k \in 1..Len(A[r])
        PROVE  LET o == A[r][k].of IN T2[o].pc = T[o].pc /\ T2[o].task = T[o].task /\ T2[o].parent = T[o].parent
    <3>1. A[r][k].of # t /\ A[r][k].of \in LoopTurns
      BY <1>2, <2>2, OffStack, OnStack
    <3> QED  BY <3>1 DEF Moves
  <2> QED  BY ONLY <2>1, <2>3, StackSame
<1>4. Advances(T, A, D, t, T2, A, D)
  <2>1. A \in [Roots -> Seq(Scopes)] /\ D \in [Roots -> 0..MaxDepth]
    BY DEF Control
  <2>2. T[t].pc \in Open \cup {"classify"} /\ T2[t].pc \in Open \cup {"done"} /\ T2[t].pc \notin Open
    BY DEF Open
  <2>3. t \in Subs => TopIs(A[r], ChildScope(T[t].parent))
    BY <1>1, <1>2 DEF PlacedIs
  <2> QED  BY <1>1, <1>3, <2>1, <2>2, <2>3 DEF Advances
<1> QED  BY <1>4, OneMoves

\* The classifier answers.
LEMMA ClassifiedKeeps == ASSUME LoopInv, NEW t \in LoopTurns, Classified(t) PROVE LoopInv' /\ Calm(turn, turn')
<1>1. PICK T, A, D, Q, K, C :
        T = turn /\ A = active /\ D = depth /\ Q = queue /\ K = taken /\ C = consumer
  OBVIOUS
<1>2. PICK T2, A2, Q2 : T2 = turn' /\ A2 = active' /\ Q2 = queue'
  OBVIOUS
<1>3. PICK r : r = T[t].task
  OBVIOUS
<1>4. /\ Control(T, A, D) /\ Costs(T) /\ Sent(T, Q, K, C) /\ WindowIs(window, answered) /\ T[t].pc = "classify"
      /\ depth' = D /\ taken' = K /\ consumer' = C /\ window' = window /\ answered' = answered
  BY <1>1, Zenon DEF LoopInv, Classified
<1>5. /\ T \in [LoopTurns -> TurnRecords] /\ T[t] \in TurnRecords /\ r \in Roots /\ T[t].pc \in Open \cup {"classify"}
  <2>1. T[t].pc # "idle"
    BY <1>4
  <2> QED  BY <1>3, <1>4, <2>1, TaskIs
<1>6. T[t].events = <<>> /\ T[t].usage = 0 /\ T[t].subUse = 0 /\ T[t].clarify = FALSE /\ ToldIs(T, t)
      /\ T[t].decision = "none"
  <2>1. ToldIs(T, t)
    BY <1>4 DEF Costs
  <2>2. ~T[t].clarify
    BY <1>4, <2>1 DEF ToldIs, PaidIs
  <2>3. T[t].clarify \in BOOLEAN
    BY <1>5 DEF TurnRecords
  <2> QED  BY <1>4, <2>1, <2>2, <2>3 DEF ToldIs, PaidIs
<1>7. \A es : Queued(t, Own(t), es) = ToldOn(T, t, Q, es)
  BY <1>1, OwnIs DEF Queued, ToldOn
<1>8. ASSUME NEW rec, rec \in TurnRecords, rec.pc \in {"plan", "done"}, rec.task = T[t].task, rec.parent = T[t].parent,
             rec.events = <<>>, rec.subUse = 0, rec.spent = 1, rec.decision = "none",
             NEW es, OwnEvents(t, es), T2 = Collected([T EXCEPT ![t] = rec], Own(t), es),
             rec.pc = "plan" => es = Opening(t) /\ ~rec.clarify,
             rec.pc = "done" => Leads(<<>>, es, <<>>),
             rec.pc = "done" /\ ~rec.clarify => rec.usage = 1, rec.clarify => rec.usage = 0,
             Q2 = IF rec.pc = "done" THEN Sentinel(t, Queued(t, Own(t), es)) ELSE Queued(t, Own(t), es),
             A2 = IF rec.pc = "done" THEN A ELSE [A EXCEPT ![r] = Append(@, Own(t))]
      PROVE  LoopInv' /\ Calm(turn, turn')
  <2>1. /\ Moves(T, t, T2) /\ T2[t] \in TurnRecords /\ T2[t].pc = rec.pc /\ T2[t].clarify = rec.clarify
        /\ T2[t].subUse = 0 /\ T2[t].usage = rec.usage /\ T2[t].spent = 1 /\ T2[t].events = es
        /\ T2[t].decision = "none"
    <3>1. es \in Seq(Events)
      BY <1>8 DEF OwnEvents
    <3>2. <<>> \o es = es
      BY <3>1
    <3>3. /\ T \in [LoopTurns -> TurnRecords] /\ rec \in TurnRecords /\ es \in Seq(Events)
          /\ rec.task = T[t].task /\ rec.parent = T[t].parent
      BY <1>5, <1>8, <3>1
    <3>5. GoesOn(T, t, rec, es, T2)
      BY <1>8, <3>3 DEF GoesOn
    <3>4. WentOn(T, t, rec, es, T2)
      BY ONLY <3>5, CollectedOwn
    <3> QED  BY <1>8, <3>2, <3>4 DEF WentOn
  <2>2. PaidIs(t, T2[t])
    <3>1. rec.pc = "done" => OpenSpans(es) = <<>>
      <4>1. es \in Seq(Events)
        BY <1>8 DEF OwnEvents
      <4> QED  BY <1>8, <4>1, OpenSpansAre
    <3> QED  BY <1>8, <2>1, <3>1 DEF PaidIs, Open
  <2>3. Costs(T2) /\ Sent(T2, Q2, K, C)
    <3>1. Tells(T, t, T2, es, Q, Q2)
      <4>1. T2[t].events = T[t].events \o es
        <5>1. es \in Seq(Events)
          BY <1>8 DEF OwnEvents
        <5> QED  BY <1>6, <2>1, <5>1
      <4>2. Q2 = IF T2[t].pc = "done" THEN Sentinel(t, ToldOn(T, t, Q, es)) ELSE ToldOn(T, t, Q, es)
        BY <1>7, <1>8, <2>1
      <4>3. T2[t].pc \in Open \cup {"done"}
        BY <1>8, <2>1 DEF Open
      <4> QED  BY <1>5, <1>6, <1>8, <2>1, <2>2, <4>1, <4>2, <4>3 DEF Tells
    <3>2. Control(T, A, D) /\ Costs(T) /\ Sent(T, Q, K, C)
      BY <1>4
    <3> QED  BY ONLY <3>1, <3>2, TurnTells
  <2>4. Control(T2, A2, D)
    <3>1. CASE rec.pc = "done"
      BY <1>4, <1>8, <2>1, <3>1, EndsEarly
    <3>2. CASE rec.pc = "plan"
      <4>1. T2[t].pc = "plan" /\ A2 = [A EXCEPT ![r] = Append(@, Own(t))] /\ A \in [Roots -> Seq(Scopes)]
            /\ D \in [Roots -> 0..MaxDepth]
        BY <1>4, <1>8, <2>1, <3>2 DEF Control
      <4>2. StackIs(T2, r, Append(A[r], Own(t)), D[r]) /\ TopIs(Append(A[r], Own(t)), Own(t))
            /\ Append(A[r], Own(t)) \in Seq(Scopes)
        <5>1. Control(T, A, D) /\ T[t].pc = "classify" /\ Moves(T, t, T2) /\ T2[t].pc = "plan"
          BY <1>4, <2>1, <4>1
        <5> QED  BY ONLY <1>3, <5>1, StackPush
      <4>3. A2[r] = Append(A[r], Own(t)) /\ A2 \in [Roots -> Seq(Scopes)] /\ \A q \in Roots : q # r => A2[q] = A[q]
        BY <1>5, <4>1, <4>2
      <4>4. T2[t].pc \in Open \cup {"done"} /\ T2[t].pc # "done"
        BY <4>1 DEF Open
      <4>5. Advances(T, A, D, t, T2, A2, D)
        BY <1>3, <1>5, <2>1, <4>1, <4>2, <4>3, <4>4 DEF Advances
      <4> QED  BY <1>4, <4>5, OneMoves
    <3> QED  BY <1>8, <3>1, <3>2
  <2>5. Calm(T, T2)
    BY <2>1 DEF Calm, Moves, LoopTurns
  <2> QED  BY <1>1, <1>2, <1>4, <2>3, <2>4, <2>5 DEF LoopInv
<1>9. ASSUME NEW confident \in BOOLEAN,
             LET asks == t \in Roots /\ ~confident
                 es == Opening(t) \o Opens(t, "step")
                       \o (IF asks THEN Note(t, "EscalationRequired") ELSE <<>>)
                       \o <<Event(t, "SpanError", "step", 0)>> \o Closes(t, "turn")
             IN /\ turn' = Collected([turn EXCEPT ![t] =
                     [[turn[t] EXCEPT !.spent = 1] EXCEPT !.clarify = TRUE, !.pc = "done",
                                        !.escalations = IF asks THEN 1 ELSE 0]], Own(t), es)
                /\ queue' = Sentinel(t, Queued(t, Own(t), es))
                /\ UNCHANGED active
      PROVE  LoopInv' /\ Calm(turn, turn')
  <2>1. PICK asks \in BOOLEAN : asks = (t \in Roots /\ ~confident)
    OBVIOUS
  <2>2. PICK es : es = Opening(t) \o Opens(t, "step")
                       \o (IF asks THEN Note(t, "EscalationRequired") ELSE <<>>)
                       \o <<Event(t, "SpanError", "step", 0)>> \o Closes(t, "turn")
    OBVIOUS
  <2>3. OwnEvents(t, es) /\ Leads(<<>>, es, <<>>)
    BY <2>2, ClarifyTold
  <2>4. PICK n : n = IF asks THEN 1 ELSE 0
    OBVIOUS
  <2>5. PICK rec : rec = [[T[t] EXCEPT !.spent = 1] EXCEPT !.clarify = TRUE, !.pc = "done", !.escalations = n]
    OBVIOUS
  <2>6. T2 = Collected([T EXCEPT ![t] = rec], Own(t), es) /\ Q2 = Sentinel(t, Queued(t, Own(t), es)) /\ A2 = A
    BY <1>1, <1>2, <1>9, <2>1, <2>2, <2>4, <2>5
  <2>7. /\ rec \in TurnRecords /\ rec.pc = "done" /\ rec.clarify = TRUE /\ rec.usage = 0
        /\ rec.spent = 1 /\ rec.task = T[t].task /\ rec.parent = T[t].parent /\ rec.events = <<>> /\ rec.subUse = 0
        /\ rec.decision = "none"
    <3>1. n \in Int /\ "done" \in Awaited \cup {"idle", "added", "failed"}
      BY <2>4 DEF Awaited
    <3> QED  BY <1>5, <1>6, <2>5, <3>1 DEF TurnRecords
  <2> QED  BY <1>8, <2>3, <2>6, <2>7
<1>10. ASSUME NEW planner \in IF t \in Reacting THEN {"react"} ELSE Planners \ {"skeleton"},
              turn' = Collected([turn EXCEPT ![t] = [[turn[t] EXCEPT !.spent = 1] EXCEPT !.pc = "plan", !.planner = planner]],
                                Own(t), Opening(t)),
              active' = [active EXCEPT ![turn[t].task] = Append(@, Own(t))],
              queue' = Queued(t, Own(t), Opening(t))
       PROVE  LoopInv' /\ Calm(turn, turn')
  <2>1. PICK rec : rec = [[T[t] EXCEPT !.spent = 1] EXCEPT !.pc = "plan", !.planner = planner]
    OBVIOUS
  <2>2. /\ rec \in TurnRecords /\ rec.pc = "plan" /\ rec.clarify = FALSE
        /\ rec.spent = 1 /\ rec.task = T[t].task /\ rec.parent = T[t].parent /\ rec.events = <<>> /\ rec.subUse = 0
        /\ rec.decision = "none"
    <3>1. planner \in Planners /\ "plan" \in Awaited \cup {"idle", "added", "failed"}
      BY DEF Awaited, Open, Planners
    <3> QED  BY <1>5, <1>6, <2>1, <3>1 DEF TurnRecords
  <2>3. T2 = Collected([T EXCEPT ![t] = rec], Own(t), Opening(t)) /\ Q2 = Queued(t, Own(t), Opening(t))
        /\ A2 = [A EXCEPT ![r] = Append(@, Own(t))]
    BY <1>1, <1>2, <1>3, <1>10, <2>1
  <2>4. OwnEvents(t, Opening(t))
    BY OpeningIs
  <2> QED  BY <1>8, <2>2, <2>3, <2>4
<1>11. ASSUME LET es == Opening(t) \o Note(t, "TurnSummary") \o Closes(t, "turn") IN
              /\ turn' = Collected([turn EXCEPT ![t] = [[turn[t] EXCEPT !.spent = 1] EXCEPT !.pc = "done", !.usage = 1]],
                                   Own(t), es)
              /\ queue' = Sentinel(t, Queued(t, Own(t), es))
              /\ UNCHANGED active
       PROVE  LoopInv' /\ Calm(turn, turn')
  <2>1. PICK es : es = Opening(t) \o Note(t, "TurnSummary") \o Closes(t, "turn")
    OBVIOUS
  <2>2. PICK rec : rec = [[T[t] EXCEPT !.spent = 1] EXCEPT !.pc = "done", !.usage = 1]
    OBVIOUS
  <2>3. OwnEvents(t, es) /\ Leads(<<>>, es, <<>>)
    BY <2>1, UnplannedTold
  <2>4. T2 = Collected([T EXCEPT ![t] = rec], Own(t), es) /\ Q2 = Sentinel(t, Queued(t, Own(t), es)) /\ A2 = A
    BY <1>1, <1>2, <1>11, <2>1, <2>2
  <2>5. /\ rec \in TurnRecords /\ rec.pc = "done" /\ rec.clarify = FALSE /\ rec.usage = 1
        /\ rec.spent = 1 /\ rec.task = T[t].task /\ rec.parent = T[t].parent /\ rec.events = <<>> /\ rec.subUse = 0
        /\ rec.decision = "none"
    <3>1. "done" \in Awaited \cup {"idle", "added", "failed"}
      BY DEF Awaited
    <3> QED  BY <1>5, <1>6, <2>2, <3>1 DEF TurnRecords
  <2> QED  BY <1>8, <2>3, <2>4, <2>5
<1>12. Classified(t)
  OBVIOUS
<1> QED  BY <1>9, <1>10, <1>11, <1>12, Zenon DEF Classified

\* How the judge rules on a turn, and how the turn is settled by it.
Ruling(t, es, text) ==
  IF Judged(t) THEN Verdict(es, text) ELSE [kind |-> "none", escalate |-> FALSE, seen |-> FALSE]
SettledAs(t, text, before, tail) ==
  LET v == Ruling(t, before, text) IN
  /\ text \in Answers /\ before \in Seq(Events) /\ Plain(before)
  /\ tail \in Seq(Events) /\ Ends(tail, Escalates(v))
  /\ turn'[t].events = before \o tail /\ turn'[t].output = PlanText(text) /\ turn'[t].decision = v.kind
  /\ window' = (IF v.seen THEN Observed(window, text) ELSE window)
  /\ answered' = IF v.seen THEN Append(answered, text) ELSE answered
  /\ \A x \in LoopTurns : x # t => turn'[x] = turn[x]

\* What the judge rules.
LEMMA RulingIs ==
  ASSUME NEW t, NEW es, NEW text
  PROVE  LET v == Ruling(t, es, text) IN
         v.kind \in Decisions /\ v.escalate \in BOOLEAN /\ v.seen \in BOOLEAN /\ Escalates(v) \in BOOLEAN
<1>1. CASE Judged(t)
  <2>1. Ruling(t, es, text) = Verdict(es, text)
    BY <1>1 DEF Ruling
  <2>2. PICK v : v = Verdict(es, text)
    OBVIOUS
  <2>3. v.kind \in Decisions \ {"none"} /\ v.escalate \in BOOLEAN /\ v.seen \in BOOLEAN
    BY <2>2, VerdictIs
  <2>4. Escalates(v) \in BOOLEAN
    BY <2>3 DEF Escalates
  <2> QED  BY <2>1, <2>2, <2>3, <2>4
<1>2. CASE ~Judged(t)
  <2>1. Ruling(t, es, text) = [kind |-> "none", escalate |-> FALSE, seen |-> FALSE]
    BY <1>2 DEF Ruling
  <2>2. PICK v : v = [kind |-> "none", escalate |-> FALSE, seen |-> FALSE]
    OBVIOUS
  <2>3. v.kind = "none" /\ v.escalate = FALSE /\ v.seen = FALSE /\ "none" \in Decisions
    BY <2>2 DEF Decisions
  <2>4. Escalates(v) \in BOOLEAN
    BY <2>3 DEF Escalates
  <2> QED  BY <2>1, <2>2, <2>3, <2>4
<1> QED  BY <1>1, <1>2

\* The planner's result is settled: the turn is judged, told and completed.
Settles(t, text, use, during, n, own) ==
  /\ turn[t].pc \in {"react", "subs"} /\ text \in Answers /\ use \in Nat /\ own \in Nat
  /\ use = own + turn[t].subUse /\ during \in {"none", "RunError", "EvidenceInsufficient"} /\ n \in Nat
  /\ Settle(t, text, use, IF during = "none" THEN <<>> ELSE Note(t, during), ToolSpans(t, n), own) /\ Leave(t)
  /\ UNCHANGED <<taken, consumer>>
  /\ depth' = IF turn[t].pc = "subs" THEN [depth EXCEPT ![turn[t].task] = @ - 1] ELSE depth

\* A turn that is settled keeps the invariant, and its record ends as its verdict says.
LEMMA SettleKeeps ==
  ASSUME LoopInv, NEW t \in LoopTurns, NEW text, NEW use, NEW during, NEW n, NEW own,
         Settles(t, text, use, during, n, own)
  PROVE  LoopInv' /\ \E before, tail : SettledAs(t, text, before, tail)
<1>a. /\ turn[t].pc \in {"react", "subs"} /\ text \in Answers /\ use \in Nat /\ own \in Nat
      /\ use = own + turn[t].subUse /\ during \in {"none", "RunError", "EvidenceInsufficient"} /\ n \in Nat
      /\ Settle(t, text, use, IF during = "none" THEN <<>> ELSE Note(t, during), ToolSpans(t, n), own) /\ Leave(t)
      /\ UNCHANGED <<taken, consumer>>
      /\ depth' = IF turn[t].pc = "subs" THEN [depth EXCEPT ![turn[t].task] = @ - 1] ELSE depth
  BY DEF Settles
<1> USE <1>a
<1>1. PICK T, A, D, Q, K, C :
        T = turn /\ A = active /\ D = depth /\ Q = queue /\ K = taken /\ C = consumer
  OBVIOUS
<1>2. PICK T2, A2, D2, Q2 : T2 = turn' /\ A2 = active' /\ D2 = depth' /\ Q2 = queue'
  OBVIOUS
<1>3. PICK r : r = T[t].task
  OBVIOUS
<1>4. PICK told : told = (IF during = "none" THEN <<>> ELSE Note(t, during)) \o Usage(t, use) \o ToolSpans(t, n)
  OBVIOUS
<1>5. PICK before : before = T[t].events \o told
  OBVIOUS
<1>6. PICK v : v = Ruling(t, before, text)
  OBVIOUS
<1>7. PICK asks : asks = Escalates(v)
  OBVIOUS
<1>8. PICK es : es = told \o (IF asks THEN Note(t, "EscalationRequired") ELSE <<>>)
                          \o Note(t, "TurnSummary") \o Closes(t, "turn")
  OBVIOUS
<1>9. PICK shown, rec : /\ shown = PlanText(text)
                        /\ rec = [T[t] EXCEPT !.pc = "done", !.output = shown, !.decision = v.kind,
                                  !.usage = UsageOf(before), !.escalations = @ + (IF asks THEN 1 ELSE 0),
                                  !.spent = @ + own]
  OBVIOUS
<1>10. /\ Control(T, A, D) /\ Costs(T) /\ Sent(T, Q, K, C) /\ WindowIs(window, answered)
       /\ T[t].pc \in {"react", "subs"} /\ use = own + T[t].subUse
       /\ A2 = [A EXCEPT ![r] = Front(@)] /\ D2 = IF T[t].pc = "subs" THEN [D EXCEPT ![r] = @ - 1] ELSE D
       /\ taken' = K /\ consumer' = C
  BY <1>1, <1>2, <1>3 DEF LoopInv, Leave
<1>11. /\ T \in [LoopTurns -> TurnRecords] /\ T[t] \in TurnRecords /\ r \in Roots /\ T[t].pc \in Open \cup {"classify"}
       /\ A \in [Roots -> Seq(Scopes)] /\ D \in [Roots -> 0..MaxDepth] /\ TopIs(A[r], Own(t))
  <2>1. T[t].pc \in Open /\ T[t].pc # "idle"
    BY <1>10 DEF Open
  <2>2. T \in [LoopTurns -> TurnRecords] /\ T[t] \in TurnRecords /\ r \in Roots /\ PlacedIs(T, A, t)
    BY <1>3, <1>10, <2>1, TaskIs
  <2>3. A \in [Roots -> Seq(Scopes)] /\ D \in [Roots -> 0..MaxDepth]
    BY <1>10 DEF Control
  <2> QED  BY <1>3, <2>1, <2>2, <2>3 DEF PlacedIs
<1>12. /\ T[t].events = Opening(t) /\ T[t].spent = 1 /\ T[t].clarify = FALSE /\ T[t].subUse \in Nat
  <2>1. ToldIs(T, t)
    BY <1>10 DEF Costs
  <2>2. ~T[t].clarify
    BY <1>10, <2>1 DEF ToldIs, PaidIs
  <2>3. T[t].clarify \in BOOLEAN /\ T[t].subUse \in Nat
    BY <1>11 DEF TurnRecords
  <2> QED  BY <1>10, <2>1, <2>2, <2>3 DEF ToldIs, PaidIs, Open
<1>13. /\ OwnEvents(t, told) /\ Plain(told) /\ Leads(<<"turn">>, told, <<"turn">>) /\ UsageOf(told) = use
  <2>1. told = OnTheWay(t, during, use, n)
    BY <1>4 DEF OnTheWay
  <2> QED  BY <2>1, ToldOnTheWay
<1>14. /\ OwnEvents(t, Opening(t)) /\ Plain(Opening(t))
       /\ Leads(<<>>, Opening(t), <<"turn">>) /\ UsageOf(Opening(t)) = 1
  BY OpeningIs
<1>15. /\ before = Opening(t) \o told /\ before \in Seq(Events) /\ Plain(before) /\ Leads(<<>>, before, <<"turn">>)
       /\ UsageOf(before) = 1 + use /\ told \in Seq(Events)
  <2>1. told \in Seq(Events) /\ Opening(t) \in Seq(Events)
    BY <1>13, <1>14 DEF OwnEvents
  <2>2. before = Opening(t) \o told
    BY <1>5, <1>12
  <2>3. OwnEvents(t, before) /\ Plain(before)
    BY <1>13, <1>14, <2>2, OwnConcat
  <2>4. Leads(<<>>, Opening(t) \o told, <<"turn">>)
    BY <1>13, <1>14, <2>1, LeadsConcat
  <2>5. UsageOf(Opening(t) \o told) = UsageOf(Opening(t)) + UsageOf(told)
    BY <2>1, UsageConcat
  <2> QED  BY <1>13, <1>14, <2>1, <2>2, <2>3, <2>4, <2>5 DEF OwnEvents
<1>16. v.kind \in Decisions /\ asks \in BOOLEAN /\ v.seen \in BOOLEAN
  BY <1>6, <1>7, RulingIs
<1>17. PICK tail : es = told \o tail /\ OwnEvents(t, tail) /\ Leads(<<"turn">>, tail, <<>>) /\ Ends(tail, asks)
  BY <1>8, <1>15, <1>16, TailIs
<1>18. Innermost(t) = Own(t)
  <2>1. A[r] \in Seq(Scopes) /\ Len(A[r]) > 0 /\ A[r][Len(A[r])] = Own(t)
    BY <1>11 DEF TopIs
  <2> QED  BY <1>1, <1>3, <2>1 DEF Innermost, Last
<1>19. /\ T2 = Collected([T EXCEPT ![t] = rec], Own(t), es) /\ Q2 = Sentinel(t, Queued(t, Own(t), es))
       /\ window' = (IF v.seen THEN Observed(window, text) ELSE window)
       /\ answered' = IF v.seen THEN Append(answered, text) ELSE answered
  BY <1>1, <1>2, <1>4, <1>5, <1>6, <1>7, <1>8, <1>9, <1>18, Zenon DEF Settle, Ruling
<1>20. /\ rec \in TurnRecords /\ rec.pc = "done" /\ rec.task = T[t].task /\ rec.parent = T[t].parent
       /\ rec.events = T[t].events /\ rec.subUse = T[t].subUse /\ rec.clarify = FALSE /\ rec.output = shown
       /\ rec.decision = v.kind /\ rec.usage = 1 + use /\ rec.spent = 1 + own
  <2>1. PICK e : e = T[t].escalations + (IF asks THEN 1 ELSE 0)
    OBVIOUS
  <2>2. e \in Int
    <3>1. T[t].escalations \in Int
      BY <1>11 DEF TurnRecords
    <3>2. CASE asks
      BY <2>1, <3>1, <3>2
    <3>3. CASE ~asks
      BY <2>1, <3>1, <3>3
    <3> QED  BY <3>2, <3>3
  <2>3. PICK u, w : u = 1 + use /\ w = 1 + own
    OBVIOUS
  <2>4. rec = [T[t] EXCEPT !.pc = "done", !.output = shown, !.decision = v.kind,
                           !.usage = u, !.escalations = e, !.spent = w]
    BY <1>9, <1>12, <1>15, <2>1, <2>3
  <2>5. u \in Nat /\ w \in Nat /\ "done" \in Awaited \cup {"idle", "added", "failed"}
    BY <2>3 DEF Awaited
  <2>6. shown \in Answers
    BY <1>9, AnswersAssumption DEF PlanText
  <2> QED  BY <1>11, <1>12, <1>16, <2>2, <2>3, <2>4, <2>5, <2>6 DEF TurnRecords
<1>21. WentOn(T, t, rec, es, T2) /\ es \in Seq(Events)
  <2>1. es \in Seq(Events)
    BY <1>13, <1>17, OwnConcat DEF OwnEvents
  <2>2. GoesOn(T, t, rec, es, T2)
    BY <1>11, <1>19, <1>20, <2>1 DEF GoesOn
  <2> QED  BY <2>1, <2>2, CollectedOwn
<1>22. /\ Moves(T, t, T2) /\ T2[t] \in TurnRecords /\ T2[t].pc = "done" /\ T2[t].clarify = FALSE
       /\ T2[t].subUse = T[t].subUse /\ T2[t].usage = 1 + use /\ T2[t].spent = 1 + own
       /\ T2[t].output = shown /\ T2[t].decision = v.kind /\ T2[t].events = T[t].events \o es
  BY <1>20, <1>21 DEF WentOn
<1>23. T2[t].events = before \o tail
  <2>1. tail \in Seq(Events) /\ Opening(t) \in Seq(Events)
    BY <1>14, <1>17 DEF OwnEvents
  <2>2. Opening(t) \o (told \o tail) = (Opening(t) \o told) \o tail
    <3>1. PICK a : a = Opening(t)
      OBVIOUS
    <3>2. a \in Seq(Events) /\ told \in Seq(Events) /\ tail \in Seq(Events)
      BY <1>15, <2>1, <3>1
    <3>3. (a \o told) \o tail = a \o (told \o tail)
      BY ONLY <3>2, ConcatAssociative
    <3> QED  BY <3>1, <3>3
  <2> QED  BY <1>12, <1>15, <1>17, <1>22, <2>2
<1>24. OpenSpans(T2[t].events) = <<>>
  <2>1. tail \in Seq(Events)
    BY <1>17 DEF OwnEvents
  <2>2. Leads(<<>>, before \o tail, <<>>) /\ before \o tail \in Seq(Events)
    <3>1. before \in Seq(Events) /\ Leads(<<>>, before, <<"turn">>) /\ Leads(<<"turn">>, tail, <<>>)
      BY <1>15, <1>17
    <3>2. Leads(<<>>, before \o tail, <<>>)
      BY ONLY <2>1, <3>1, LeadsConcat
    <3> QED  BY <2>1, <3>1, <3>2
  <2> QED  BY <1>23, <2>2, OpenSpansAre
<1>25. Costs(T2) /\ Sent(T2, Q2, K, C)
  <2>1. PaidIs(t, T2[t])
    <3>1. T2[t].usage = T2[t].spent + T2[t].subUse
      <4>1. PICK u, s, b : u = T2[t].usage /\ s = T2[t].spent /\ b = T2[t].subUse
        OBVIOUS
      <4>2. u = 1 + use /\ s = 1 + own /\ use = own + b /\ b \in Nat
        BY <1>10, <1>12, <1>22, <4>1
      <4>3. u = s + b
        BY ONLY <4>2, own \in Nat
      <4> QED  BY <4>1, <4>3
    <3> QED  BY <1>22, <1>24, <3>1 DEF PaidIs, Open
  <2>2. OwnEvents(t, es)
    BY <1>13, <1>17, OwnConcat
  <2>3. Q2 = IF T2[t].pc = "done" THEN Sentinel(t, ToldOn(T, t, Q, es)) ELSE ToldOn(T, t, Q, es)
    BY <1>1, <1>19, <1>22, OwnIs DEF Queued, ToldOn
  <2>4. Tells(T, t, T2, es, Q, Q2)
    BY <1>11, <1>22, <2>1, <2>2, <2>3 DEF Tells
  <2>5. Control(T, A, D) /\ Costs(T) /\ Sent(T, Q, K, C)
    BY <1>10
  <2> QED  BY ONLY <2>4, <2>5, TurnTells
<1>26. Control(T2, A2, D2)
  <2>1. PICK d : d = IF T[t].pc = "subs" THEN D[r] - 1 ELSE D[r]
    OBVIOUS
  <2>2. D2[r] = d /\ \A q \in Roots : q # r => D2[q] = D[q] /\ A2[q] = A[q]
    BY <1>10, <1>11, <2>1
  <2>3. A2[r] = Front(A[r])
    BY <1>10, <1>11
  <2>4. /\ StackIs(T2, r, Front(A[r]), d) /\ d \in 0..MaxDepth /\ Front(A[r]) \in Seq(Scopes)
        /\ t \in Subs => TopIs(Front(A[r]), ChildScope(T[t].parent))
    <3>1. Control(T, A, D) /\ T[t].pc \in {"react", "subs"} /\ T2[t].pc = "done" /\ Moves(T, t, T2)
      BY <1>10, <1>22
    <3> QED  BY ONLY <1>3, <2>1, <3>1, StackPop
  <2>5. A2 \in [Roots -> Seq(Scopes)] /\ D2 \in [Roots -> 0..MaxDepth]
    <3>1. A2 \in [Roots -> Seq(Scopes)]
      BY <1>10, <1>11, <2>4
    <3>2. CASE T[t].pc = "subs"
      <4>1. D2 = [D EXCEPT ![r] = d]
        BY <1>10, <2>1, <3>2
      <4> QED  BY <1>11, <2>4, <3>1, <4>1
    <3>3. CASE T[t].pc # "subs"
      BY <1>10, <1>11, <3>1, <3>3
    <3> QED  BY <3>2, <3>3
  <2>6. T2[t].pc \in Open \cup {"done"} /\ T2[t].pc \notin Open
    BY <1>22 DEF Open
  <2>7. Advances(T, A, D, t, T2, A2, D2)
    BY <1>3, <1>11, <1>22, <2>2, <2>3, <2>4, <2>5, <2>6 DEF Advances
  <2> QED  BY <1>10, <2>7, OneMoves
<1>27. WindowIs(window', answered')
  <2>1. CASE v.seen
    <3>1. WindowIs(Observed(window, text), Append(answered, text))
      BY <1>10, ObservedIs
    <3> QED  BY <1>19, <2>1, <3>1
  <2>2. CASE ~v.seen
    BY <1>10, <1>19, <2>2
  <2> QED  BY <2>1, <2>2
<1>28. LoopInv'
  BY <1>2, <1>10, <1>25, <1>26, <1>27 DEF LoopInv
<1>29. SettledAs(t, text, before, tail)
  <2>1. tail \in Seq(Events)
    BY <1>17 DEF OwnEvents
  <2>2. \A x \in LoopTurns : x # t => turn'[x] = turn[x]
    BY <1>1, <1>2, <1>22 DEF Moves
  <2> QED  BY <1>2, <1>6, <1>7, <1>9, <1>15, <1>17, <1>19, <1>22, <1>23, <2>1, <2>2 DEF SettledAs
<1> QED  BY <1>28, <1>29

\* A ReAct program returns.
LEMMA ReactedKeeps ==
  ASSUME LoopInv, NEW t \in LoopTurns, Reacted(t)
  PROVE  LoopInv' /\ \E text, before, tail : SettledAs(t, text, before, tail)
<1>1. PICK r \in PlannerResults \cup SubResults :
        Settle(t, r.text, r.use, IF r.during = "none" THEN <<>> ELSE Note(t, r.during), ToolSpans(t, r.tools), r.use)
  BY DEF Reacted
<1>2. turn[t].pc = "react" /\ Leave(t) /\ UNCHANGED <<depth, taken, consumer>>
  BY DEF Reacted
<1>3. PICK text, use, during, n : text = r.text /\ use = r.use /\ during = r.during /\ n = r.tools
  OBVIOUS
<1>4. text \in Answers /\ use \in Nat /\ during \in {"none", "RunError", "EvidenceInsufficient"} /\ n \in Nat
  BY <1>3, TurnBoundsAssumption
<1>5. turn[t].subUse = 0
  <2>1. ToldIs(turn, t)
    BY DEF LoopInv, Costs
  <2> QED  BY <1>2, <2>1 DEF ToldIs, PaidIs
<1>6. use = use + turn[t].subUse
  BY <1>4, <1>5
<1>7. Settle(t, text, use, IF during = "none" THEN <<>> ELSE Note(t, during), ToolSpans(t, n), use)
  BY <1>1, <1>3
<1>8. Settles(t, text, use, during, n, use)
  BY <1>2, <1>4, <1>6, <1>7 DEF Settles
<1> QED  BY <1>8, SettleKeeps

\* No tools tell of no spans.
LEMMA NoTools == \A t : ToolSpans(t, 0) = <<>>
<1> SUFFICES ASSUME NEW t PROVE ToolSpans(t, 0) = <<>>
  OBVIOUS
<1>1. 1..(2 * 0) = {}
  OBVIOUS
<1> QED  BY <1>1 DEF ToolSpans

\* What a plan's sub-agents answered makes an answer.
LEMMA AggregatesIs == ASSUME NEW outputs \in Seq(Answers), NEW text \in Aggregates(outputs) PROVE text \in Answers
<1> DEFINE some == {i \in DOMAIN outputs : outputs[i] # Empty}
<1>1. {Empty, Joined} \subseteq Answers
  BY AnswersAssumption
<1>2. CASE some = {}
  BY <1>1, <1>2 DEF Aggregates
<1>3. CASE some # {}
  <2>1. some \subseteq Nat
    OBVIOUS
  <2>2. Min(some) \in some
    BY <1>3, <2>1, MinOfNaturals
  <2>3. outputs[Min(some)] \in Answers
    BY <2>2
  <2> QED  BY <1>1, <1>3, <2>3 DEF Aggregates
<1> QED  BY <1>2, <1>3

\* The sub-agents of a plan have all run.
LEMMA AggregatedKeeps ==
  ASSUME LoopInv, NEW t \in LoopTurns, Aggregated(t)
  PROVE  LoopInv' /\ \E text, before, tail : SettledAs(t, text, before, tail)
<1>1. PICK text \in Aggregates(turn[t].outputs) : Settle(t, text, turn[t].subUse, <<>>, <<>>, 0)
  BY DEF Aggregated
<1>2. /\ turn[t].pc = "subs" /\ Leave(t) /\ UNCHANGED <<taken, consumer>>
      /\ depth' = [depth EXCEPT ![turn[t].task] = @ - 1]
  BY DEF Aggregated
<1>3. PICK use, during, n : use = turn[t].subUse /\ during = "none" /\ n = 0
  OBVIOUS
<1>4. turn[t] \in TurnRecords
  BY TaskIs DEF LoopInv
<1>5. use \in Nat /\ n \in Nat /\ text \in Answers /\ during \in {"none", "RunError", "EvidenceInsufficient"}
  <2>1. turn[t].outputs \in Seq(Answers) /\ turn[t].subUse \in Nat
    BY <1>4 DEF TurnRecords
  <2> QED  BY <1>1, <1>3, <2>1, AggregatesIs
<1>6. Settle(t, text, use, IF during = "none" THEN <<>> ELSE Note(t, during), ToolSpans(t, n), 0)
  BY <1>1, <1>3, NoTools
<1>7. use = 0 + turn[t].subUse
  BY <1>3, <1>5
<1>8. Settles(t, text, use, during, n, 0)
  BY <1>2, <1>5, <1>6, <1>7 DEF Settles
<1> QED  BY <1>8, SettleKeeps

\* The verdict on a turn that is settled is earned.
LEMMA SettledEarned ==
  ASSUME LoopInv, NEW t \in Roots, NEW text, NEW before, NEW tail, SettledAs(t, text, before, tail)
  PROVE  VerdictEarned(t)
<1>1. PICK v : v = Ruling(t, before, text)
  OBVIOUS
<1>2. PICK me : me = turn'[t]
  OBVIOUS
<1>3. PICK all, all2, w : all = answered /\ all2 = answered' /\ w = window
  OBVIOUS
<1>4. PICK asks : asks = Escalates(v)
  OBVIOUS
<1>5. PICK es : es = before \o tail
  OBVIOUS
<1>6. /\ text \in Answers /\ before \in Seq(Events) /\ Plain(before) /\ tail \in Seq(Events) /\ Ends(tail, asks)
      /\ me.events = es /\ me.output = PlanText(text) /\ me.decision = v.kind
      /\ all2 = IF v.seen THEN Append(all, text) ELSE all
  BY <1>1, <1>2, <1>3, <1>4, <1>5 DEF SettledAs
<1>7. WindowIs(w, all)
  BY <1>3 DEF LoopInv
<1>8. asks \in BOOLEAN
  BY <1>1, <1>4, RulingIs
<1>9. SUFFICES ASSUME v.kind # "none" PROVE VerdictEarned(t)
  BY <1>2, <1>6 DEF VerdictEarned
<1>10. /\ v.kind = "COMPLETE" => v.seen /\ FailureIn(before) = "none" /\ ~Repeats(Observed(w, text))
       /\ v.kind = "LOOP_DETECTED" => v.seen /\ Repeats(Observed(w, text))
       /\ v.kind \in {"BUDGET_EXCEEDED", "LOOP_DETECTED"} => v.escalate
       /\ v.kind \in {"COMPLETE", "DEGRADED", "INCOMPLETE"} => ~v.escalate
       /\ v.kind = "FAILURE" =>
            FailureIn(before) # "none" /\ v.escalate = (FailureIn(before) = "EvidenceInsufficient")
       /\ v.kind \in Decisions /\ v.escalate \in BOOLEAN
  <2>1. v = Verdict(before, text)
    BY <1>1, <1>9 DEF Ruling
  <2> QED  BY <1>3, <2>1, VerdictIs
<1>11. asks <=> v.escalate /\ v.kind \notin Never
  BY <1>4 DEF Escalates
<1> DEFINE asked == {i \in DOMAIN es : es[i].kind = "EscalationRequired"}
           failed == {i \in DOMAIN es : es[i].kind \in Failures}
           unproved == \E i \in failed : es[i].kind = "EvidenceInsufficient" /\ \A j \in failed : j <= i
<1>12. asked = IF asks THEN {Len(before) + 1} ELSE {}
  BY <1>5, <1>6, <1>8, AskedIs
<1>13. v.kind = "COMPLETE" =>
         /\ \A i \in failed :
              Cardinality({j \in DOMAIN es : j > i /\ es[j].kind \notin {"EscalationRequired", "TurnSummary"}}) > Recent
         /\ me.output = PlanText(Last(all2))
         /\ all # <<>> => Last(all) # Last(all2)
  <2>1. SUFFICES ASSUME v.kind = "COMPLETE"
        PROVE  /\ \A i \in failed :
                    Cardinality({j \in DOMAIN es : j > i /\ es[j].kind \notin {"EscalationRequired", "TurnSummary"}}) > Recent
               /\ me.output = PlanText(Last(all2))
               /\ all # <<>> => Last(all) # Last(all2)
    OBVIOUS
  <2>2. FailureIn(before) = "none" /\ ~Repeats(Observed(w, text)) /\ all2 = Append(all, text)
    BY <1>6, <1>10, <2>1
  <2>3. ASSUME NEW i \in failed
        PROVE  Cardinality({j \in DOMAIN es : j > i /\ es[j].kind \notin {"EscalationRequired", "TurnSummary"}}) > Recent
    BY <1>5, <1>6, <1>8, <2>2, FailuresFar
  <2>4. all # <<>> => Last(all) # text
    BY <1>6, <1>7, <2>2, NotRepeated
  <2>5. Last(all2) = text
    BY <1>6, <1>7, <2>2 DEF WindowIs, Last
  <2> QED  BY <1>6, <2>3, <2>4, <2>5
<1>14. v.kind = "LOOP_DETECTED" =>
         \E i, j \in Max({1, Len(all2) - Window + 1})..Len(all2) : i < j /\ all2[i] = all2[j]
  <2>1. SUFFICES ASSUME v.kind = "LOOP_DETECTED"
        PROVE  \E i, j \in Max({1, Len(all2) - Window + 1})..Len(all2) : i < j /\ all2[i] = all2[j]
    OBVIOUS
  <2>2. all2 = Append(all, text) /\ Repeats(Observed(w, text))
    BY <1>6, <1>10, <2>1
  <2>3. WindowIs(Observed(w, text), all2)
    BY <1>6, <1>7, <2>2, ObservedIs
  <2> QED  BY <2>2, <2>3, RepeatedIs
<1>15. v.kind = "FAILURE" => failed # {} /\ (unproved <=> v.escalate)
  <2>1. SUFFICES ASSUME v.kind = "FAILURE" PROVE failed # {} /\ (unproved <=> v.escalate)
    OBVIOUS
  <2>2. \A i \in 1..Len(tail) : tail[i].kind \notin Failures
    BY <1>6 DEF Ends, Failures
  <2>3. FailureIn(before) # "none" /\ v.escalate = (FailureIn(before) = "EvidenceInsufficient")
    BY <1>10, <2>1
  <2>4. FailuresOf(es) # {} /\ (Unproved(es) <=> FailureIn(before) = "EvidenceInsufficient")
    BY <1>5, <1>6, <2>2, <2>3, NewestFailure
  <2>5. FailuresOf(es) = failed /\ (Unproved(es) <=> unproved)
    BY DEF FailuresOf, Unproved
  <2> QED  BY <2>3, <2>4, <2>5
<1> DEFINE escalated == \/ v.kind \in {"BUDGET_EXCEEDED", "LOOP_DETECTED"}
                        \/ v.kind = "FAILURE" /\ unproved
<1>16. Cardinality(asked) = IF escalated /\ v.kind \notin Never THEN 1 ELSE 0
  <2>1. v.kind \in {"COMPLETE", "DEGRADED", "INCOMPLETE", "BUDGET_EXCEEDED", "FAILURE", "LOOP_DETECTED"}
    BY <1>9, <1>10 DEF Decisions
  <2>2. v.escalate <=> escalated
    <3>1. CASE v.kind \in {"BUDGET_EXCEEDED", "LOOP_DETECTED"}
      BY <1>10, <3>1
    <3>2. CASE v.kind = "FAILURE"
      BY <1>15, <3>2
    <3>3. CASE v.kind \in {"COMPLETE", "DEGRADED", "INCOMPLETE"}
      BY <1>10, <3>3
    <3> QED  BY <2>1, <3>1, <3>2, <3>3
  <2> HIDE DEF escalated
  <2>3. CASE asks
    BY <1>11, <1>12, <2>2, <2>3, FS_Singleton
  <2>4. CASE ~asks
    BY <1>11, <1>12, <2>2, <2>4, FS_EmptySet
  <2> QED  BY <1>8, <2>3, <2>4
<1>17. turn'[t].events = es /\ turn'[t].decision = v.kind /\ answered = all /\ answered' = all2
  BY <1>2, <1>3, <1>6
<1>18. turn'[t].output = PlanText(Last(answered')) \/ v.kind # "COMPLETE"
  BY <1>2, <1>3, <1>13
<1> QED  BY <1>13, <1>14, <1>15, <1>16, <1>17, <1>18 DEF VerdictEarned

\* A step in which no turn is judged earns every verdict.
LEMMA CalmEarns == ASSUME Calm(turn, turn') PROVE VerdictsEarned
<1>1. SUFFICES ASSUME NEW q \in Roots PROVE ~(Completes(q) /\ turn'[q].decision # "none")
  BY DEF VerdictsEarned, VerdictEarned
<1>2. turn'[q].pc = "done" => turn[q].pc = "done" \/ turn'[q].clarify \/ turn'[q].decision = "none"
  BY DEF Calm
<1> QED  BY <1>2 DEF Completes, Finished

\* A step that settles a turn earns its verdict, and leaves the other turns be.
LEMMA SettlingEarns ==
  ASSUME LoopInv, NEW t \in LoopTurns, \E text, before, tail : SettledAs(t, text, before, tail)
  PROVE  VerdictsEarned
<1>1. SUFFICES ASSUME NEW q \in Roots PROVE VerdictEarned(q)
  BY DEF VerdictsEarned
<1>2. PICK text, before, tail : SettledAs(t, text, before, tail)
  OBVIOUS
<1>3. CASE q = t
  BY <1>2, <1>3, SettledEarned
<1>4. CASE q # t
  <2>1. turn'[q] = turn[q]
    BY <1>2, <1>4 DEF SettledAs, LoopTurns
  <2>2. ~Completes(q)
    BY <2>1 DEF Completes, Finished
  <2> QED  BY <2>2 DEF VerdictEarned
<1> QED  BY <1>3, <1>4

\* Every step of the loop keeps the invariant and earns the verdicts it gives.
LEMMA LoopKeeps ==
  ASSUME LoopInv, [LoopNext]_agentVars PROVE LoopInv' /\ VerdictsEarned
<1>1. ASSUME NEW r \in Roots, Start(r) PROVE LoopInv' /\ Calm(turn, turn')
  BY <1>1, StartKeeps
<1>2. ASSUME NEW r \in Roots, Take(r) \/ Closed(r) PROVE LoopInv' /\ Calm(turn, turn')
  BY <1>2, ConsumerKeeps
<1>3. ASSUME NEW t \in LoopTurns, Reacted(t) \/ Aggregated(t)
      PROVE  LoopInv' /\ \E text, before, tail : SettledAs(t, text, before, tail)
  BY <1>3, ReactedKeeps, AggregatedKeeps
<1>4. ASSUME NEW t \in LoopTurns, Classified(t) \/ Planned(t) \/ OpenSub(t) \/ SubReturns(t) \/ Raises(t)
      PROVE  LoopInv' /\ Calm(turn, turn')
  <2>1. CASE Classified(t)
    BY <2>1, ClassifiedKeeps
  <2>2. CASE Planned(t)
    BY <2>2, PlannedKeeps
  <2>3. CASE OpenSub(t)
    BY <2>3, OpenSubKeeps
  <2>4. CASE SubReturns(t)
    BY <2>4, SubReturnsKeeps
  <2>5. CASE Raises(t)
    BY <2>5, RaiseKeeps DEF Raises
  <2> QED  BY <1>4, <2>1, <2>2, <2>3, <2>4, <2>5
<1>5. CASE UNCHANGED agentVars
  <2>1. LoopInv'
    BY <1>5 DEF LoopInv, agentVars
  <2>2. Calm(turn, turn')
    BY <1>5 DEF Calm, agentVars
  <2> QED  BY <2>1, <2>2, CalmEarns
<1>6. CASE LoopNext
  <2>1. \/ \E r \in Roots : Start(r) \/ Take(r) \/ Closed(r)
        \/ \E t \in LoopTurns : Reacted(t) \/ Aggregated(t)
        \/ \E t \in LoopTurns : Classified(t) \/ Planned(t) \/ OpenSub(t) \/ SubReturns(t) \/ Raises(t)
    BY <1>6 DEF LoopNext, LoopStep
  <2> QED  BY <2>1, <1>1, <1>2, <1>3, <1>4, CalmEarns, SettlingEarns
<1> QED  BY <1>5, <1>6, CalmEarns

\* A sequence's elements are of the set it is over.
LEMMA RangeIn == ASSUME NEW S, NEW s \in Seq(S) PROVE Range(s) \subseteq S
BY DEF Range

\* The invariant gives what is said of the records, the queues and the usage.
LEMMA LoopSound == ASSUME LoopInv PROVE RecordSound
<1>1. Control(turn, active, depth) /\ Costs(turn) /\ Sent(turn, queue, taken, consumer) /\ WindowIs(window, answered)
  BY DEF LoopInv
<1>2. turn \in [LoopTurns -> TurnRecords] /\ depth \in [Roots -> 0..MaxDepth]
  BY <1>1 DEF Control
<1>3. LoopTypeOK
  <2>1. ASSUME NEW t \in LoopTurns
        PROVE  /\ turn[t].pc \in {"idle", "classify", "plan", "react", "subs", "waits", "added"} \cup Finished
               /\ turn[t].planner \in Planners /\ turn[t].decision \in Decisions
               /\ {turn[t].output} \cup Range(turn[t].outputs) \subseteq Answers
               /\ Range(turn[t].events) \cup Range(turn[t].child) \subseteq Events
    <3>1. turn[t] \in TurnRecords
      BY <1>2
    <3>2. /\ turn[t].pc \in Awaited \cup {"idle", "added", "failed"} /\ turn[t].planner \in Planners
          /\ turn[t].decision \in Decisions /\ turn[t].output \in Answers /\ turn[t].outputs \in Seq(Answers)
          /\ turn[t].events \in Seq(Events) /\ turn[t].child = <<>>
      BY <3>1 DEF TurnRecords
    <3>3. Range(turn[t].outputs) \subseteq Answers /\ Range(turn[t].events) \subseteq Events
      BY <3>2, RangeIn
    <3>4. Range(turn[t].child) \subseteq Events
      <4>1. <<>> \in Seq(Events)
        OBVIOUS
      <4> QED  BY <3>2, <4>1, RangeIn
    <3> QED  BY <3>2, <3>3, <3>4 DEF Awaited, Open, Finished
  <2>2. ASSUME NEW r \in Roots
        PROVE  /\ depth[r] \in 0..MaxDepth /\ taken[r] \in 0..Len(queue[r])
               /\ consumer[r] \in {"before", "reading", "closing", "ended"}
    BY <1>1, <1>2 DEF Sent, QueueIs
  <2>3. Len(window) <= Window
    BY <1>1 DEF WindowIs
  <2> QED  BY <2>1, <2>2, <2>3 DEF LoopTypeOK
<1>4. RecordIsOwn
  <2>1. ASSUME NEW t \in LoopTurns
        PROVE  /\ \A i \in 1..Len(turn[t].events) : turn[t].events[i].by = t
               /\ turn[t].pc \in {"done", "added"} => OpenSpans(turn[t].events) = <<>>
    BY <1>1 DEF Costs, ToldIs, OwnEvents, PaidIs
  <2>2. ASSUME NEW r \in Streaming
        PROVE  /\ LET sent(i) == {j \in 1..i : queue[r][j].by = r} IN
                    /\ Cardinality(sent(Len(queue[r]))) = Len(turn[r].events)
                    /\ \A i \in sent(Len(queue[r])) : queue[r][i] = turn[r].events[Cardinality(sent(i))]
               /\ consumer[r] = "ended" => turn[r].pc \in Finished
               /\ turn[r].pc \in Finished => Contains(queue[r], End)
    <3>1. r \in Roots
      BY TurnsAssumption
    <3>2. QueueIs(r, queue[r], taken[r], consumer[r], turn[r].events, turn[r].pc)
      BY <1>1, <3>1 DEF Sent
    <3>3. /\ SentIs(queue[r], r, turn[r].events) /\ (HasEnd(queue[r]) <=> turn[r].pc \in Finished)
          /\ consumer[r] = "ended" => turn[r].pc \in Finished
      BY <3>2 DEF QueueIs
    <3>4. /\ Cardinality({j \in 1..Len(queue[r]) : queue[r][j].by = r}) = Len(turn[r].events)
          /\ \A i \in {j \in 1..Len(queue[r]) : queue[r][j].by = r} :
               queue[r][i] = turn[r].events[Cardinality({j \in 1..i : queue[r][j].by = r})]
      <4>1. PICK q, ev : q = queue[r] /\ ev = turn[r].events
        OBVIOUS
      <4>2. \A i : SentTo(q, r, i) = {j \in 1..i : q[j].by = r}
        BY DEF SentTo
      <4>3. /\ Cardinality(SentTo(q, r, Len(q))) = Len(ev)
            /\ \A i \in SentTo(q, r, Len(q)) : q[i] = ev[Cardinality(SentTo(q, r, i))]
        <5>1. SentIs(q, r, ev)
          BY <3>3, <4>1
        <5> QED  BY <5>1 DEF SentIs
      <4>4. /\ Cardinality({j \in 1..Len(q) : q[j].by = r}) = Len(ev)
            /\ \A i \in {j \in 1..Len(q) : q[j].by = r} : q[i] = ev[Cardinality({j \in 1..i : q[j].by = r})]
        BY ONLY <4>2, <4>3, Zenon
      <4> QED  BY <4>1, <4>4
    <3>5. HasEnd(queue[r]) => Contains(queue[r], End)
      BY DEF HasEnd, Contains
    <3> QED  BY <3>3, <3>4, <3>5
  <2> QED  BY <2>1, <2>2 DEF RecordIsOwn
<1>5. UsageOnce
  <2>1. SUFFICES ASSUME NEW t \in LoopTurns, turn[t].pc \in {"done", "added"}, ~turn[t].clarify
        PROVE  LET usage == [s \in Subs |-> turn[s].usage]
               IN turn[t].usage = turn[t].spent + MapThenSumSet(LAMBDA s : usage[s], SubsOf(t))
    BY DEF UsageOnce
  <2>2. turn[t].subUse = UsageSum(turn, t) /\ turn[t].usage = turn[t].spent + turn[t].subUse
    BY <1>1, <2>1 DEF Costs, ToldIs, PaidIs
  <2>3. SubsOf(t) = SubsIn(turn, t)
    BY DEF SubsOf, SubsIn
  <2> QED  BY <2>2, <2>3 DEF UsageSum, SumOver
<1> QED  BY <1>3, <1>4, <1>5 DEF RecordSound

\* Whatever the interleaving of the turns and sub-agents that share the loop, a
\* turn's record and stream hold its own events in their order and no other's, its
\* usage is what it and its sub-agents spent, each of them once, and a verdict is
\* earned by the turn it is given to (AgentLoop.stream, EventEmitter.emit,
\* HierarchicalPlanner._run_sub_agents, TerminationJudge.forward).
THEOREM TurnsSoundHolds == LoopSpec => TurnsSound
<1>1. LoopInit => LoopInv
  BY LoopStarts
<1>2. LoopInv /\ [LoopNext]_agentVars => LoopInv'
  BY LoopKeeps
<1>3. LoopInv /\ [LoopNext]_agentVars => [VerdictsEarned]_agentVars
  BY LoopKeeps
<1>4. LoopInv => RecordSound
  BY LoopSound
<1> QED  BY <1>1, <1>2, <1>3, <1>4, PTL DEF LoopSpec, TurnsSound, VerdictSound
=============================================================================
