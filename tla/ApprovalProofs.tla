--------------------------- MODULE ApprovalProofs ---------------------------
(***************************************************************************)
(* Theorems about Approval, for any streams, tools, policies, annotations  *)
(* and faults, with or without namespaces, and with no bound on the calls  *)
(* of a behaviour other than its being some number.                        *)
(***************************************************************************)
EXTENDS Approval, TLAPS

Early == {"new", "restore", "load"}             \* before the turn begins
Pausing == {"memory", "events", "state", "announce"}

(* The order of a stream's life: one stream at a time, and nothing is told,  *)
(* answered, approved or left on disk by a stream that has not come to it.   *)
Order ==
  /\ \A s, r \in Active : s = r
  /\ \A s \in Streams : pc[s] \in Early =>
       s \notin react /\ drained[s] = 0 /\ s \notin approved
  /\ \A s \in Streams : told[s] # "none" \/ s \in answered => pc[s] = "over"
  /\ \A s \in Streams : stateFile[s] => pc[s] \in {"announce", "over"}

TInv == TypeOK /\ Order

USE ApprovalAssumption DEF Points, Early, Pausing

\* Init is typed and in order.
LEMMA TypeInit == Init => TInv
<1> SUFFICES ASSUME Init PROVE TInv
  OBVIOUS
<1>1. rules \in Seq(Rules) /\ hint \in [Tools -> Hints] /\ pattern \in {"chat", "plan"}
  BY DEF Init
<1>2. Nothing \in Bag
  BY DEF Nothing, Bag
<1>3. calls \in [Streams -> Seq(Tools)]
  BY DEF Init
<1>4. drained \in [Streams -> Nat] /\ \A s \in Streams : drained[s] <= Len(calls[s])
  BY DEF Init
<1>5. held \in [Streams -> Bag] /\ refs \in [Streams -> [memory : BOOLEAN, events : BOOLEAN]]
  BY <1>2 DEF Init
<1>6. TypeOK
  BY <1>1, <1>3, <1>4, <1>5 DEF Init, TypeOK
<1>7. Order
  BY DEF Init, Order, Active
<1> QED BY <1>6, <1>7 DEF TInv

\* The session a turn loads is a bag, the empty one when there is no file.
LEMMA StoredIsBag == TypeOK => Stored \in Bag
<1>1. Nothing \in Bag
  BY DEF Nothing, Bag
<1> QED BY <1>1 DEF TypeOK, Stored

\* Whatever becomes of the snapshot, resume() goes on to the turn.
LEMMA RestoreFrame ==
  ASSUME NEW s \in Streams, Restore(s)
  PROVE  /\ pc[s] = "restore" /\ pc' = [pc EXCEPT ![s] = "load"]
         /\ UNCHANGED <<fixed, stream, turn, pending, files, refs, client>>
  BY DEF Restore, RestoreAs, Goto

\* The snapshot is written, or it is not and the RunState will not refer to it.
LEMMA SnapshotSaved ==
  ASSUME NEW s \in Streams, SaveMemory(s)
  PROVE  \E ok \in BOOLEAN : SaveMemoryAs(s, ok) /\ refs' = [refs EXCEPT ![s].memory = ok]
  BY DEF SaveMemory

\* Setting one of the two references of a stream.
LEMMA RefsKept ==
  ASSUME TypeOK, NEW s \in Streams, NEW ok \in BOOLEAN
  PROVE  /\ [refs EXCEPT ![s].memory = ok] \in [Streams -> [memory : BOOLEAN, events : BOOLEAN]]
         /\ [refs EXCEPT ![s].events = ok] \in [Streams -> [memory : BOOLEAN, events : BOOLEAN]]
<1>1. refs \in [Streams -> [memory : BOOLEAN, events : BOOLEAN]]
  BY DEF TypeOK
<1>2. refs[s] \in [memory : BOOLEAN, events : BOOLEAN]
  BY <1>1
<1>3. /\ [refs[s] EXCEPT !.memory = ok] \in [memory : BOOLEAN, events : BOOLEAN]
      /\ [refs[s] EXCEPT !.events = ok] \in [memory : BOOLEAN, events : BOOLEAN]
  BY <1>2
<1> QED BY <1>1, <1>3

\* A sweep removes files or leaves them alone.
LEMMA SweepKeeps ==
  ASSUME TypeOK, SweepRuns
  PROVE  /\ memoryFile' \in [Streams -> Bag \cup {NoFile}]
         /\ eventsFile' \in [Streams -> BOOLEAN] /\ stateFile' \in [Streams -> BOOLEAN]
<1>1. CASE Isolated
  <2>1. /\ memoryFile' = [s \in Streams |-> NoFile]
        /\ eventsFile' = [s \in Streams |-> FALSE] /\ stateFile' = [s \in Streams |-> FALSE]
    BY <1>1 DEF SweepRuns
  <2> QED BY <2>1
<1>2. CASE ~Isolated
  BY <1>2 DEF SweepRuns, files, TypeOK
<1> QED BY <1>1, <1>2

\* Every step keeps the types.
LEMMA TypeStep == TInv /\ [Next]_vars => TypeOK'
<1> SUFFICES ASSUME TInv, [Next]_vars PROVE TypeOK'
  OBVIOUS
<1> USE DEF TInv
<1>1. ASSUME NEW s \in Streams, Send(s) PROVE TypeOK'
  BY <1>1 DEF Send, Goto, TypeOK, fixed, stream, turn, files, client
<1>2. ASSUME NEW s \in Streams, NEW p \in Streams, TurnDown(s, p) PROVE TypeOK'
  BY <1>2 DEF TurnDown, Goto, TypeOK, fixed, stream, turn, files, client
<1>3. ASSUME NEW s \in Streams, NEW p \in Streams, NEW r \in {"request", "safe"}, Continue(s, p, r)
      PROVE TypeOK'
  BY <1>3 DEF Continue, Goto, TypeOK, fixed, turn, files
<1>4. ASSUME NEW s \in Streams, Restore(s) PROVE TypeOK'
  <2>1. Snapshot(resumed[s]) \in Bag \cup {NoFile}
    BY DEF Snapshot, TypeOK
  <2>2. session' \in Bag \cup {NoFile} /\ degraded' \in BOOLEAN
    BY <1>4, <2>1 DEF Restore, RestoreAs, TypeOK
  <2> QED BY <1>4, <2>2, RestoreFrame DEF TypeOK, fixed, stream, turn, files, client
<1>5. ASSUME NEW s \in Streams, Load(s) PROVE TypeOK'
  <2>1. [Stored EXCEPT ![origin[s]] = @ + 1] \in Bag
    <3>1. Stored \in [Streams -> Nat] /\ origin[s] \in Streams
      BY StoredIsBag DEF TypeOK, Bag
    <3> QED BY <3>1 DEF Bag
  <2>3. held' \in [Streams -> Bag]
    BY <1>5, <2>1 DEF Load, TypeOK
  <2>2. react' \subseteq Streams \ answered
    BY <1>5 DEF Load, TypeOK, Order
  <2> QED BY <1>5, <2>2, <2>3 DEF Load, Goto, TypeOK, fixed, stream, files, client
<1>6. ASSUME NEW s \in Streams, NEW t \in Tools, Call(s, t) PROVE TypeOK'
  <2>1. calls' \in [Streams -> Seq(Tools)]
    BY <1>6 DEF Call, TypeOK
  <2>2. calls[s] \in Seq(Tools) /\ calls'[s] = Append(calls[s], t)
    BY <1>6 DEF Call, TypeOK
  <2>3. Len(calls'[s]) = Len(calls[s]) + 1 /\ Len(calls[s]) \in Nat
    BY <2>2
  <2>5. \A q \in Streams : drained'[q] <= Len(calls'[q])
    BY <1>6, <2>1, <2>3 DEF Call, TypeOK
  <2>4. ran' \subseteq Streams \X Tools /\ refused' \subseteq Streams \X Tools
    BY <1>6 DEF Call, TypeOK
  <2> QED BY <1>6, <2>1, <2>4, <2>5 DEF Call, TypeOK, fixed, stream, files, client
<1>7. ASSUME NEW s \in Streams, Settle(s) PROVE TypeOK'
  BY <1>7 DEF Settle, TypeOK, fixed, stream, files, client
<1>8. ASSUME NEW s \in Streams, Drain(s) PROVE
        /\ drained' \in [Streams -> Nat]
        /\ \A q \in Streams : drained'[q] <= Len(calls'[q])
        /\ NextCall(s) \in Tools
  <2>1. calls[s] \in Seq(Tools) /\ drained[s] \in Nat /\ drained[s] < Len(calls[s])
    BY <1>8 DEF Drain, DrainWhen, TypeOK
  <2>2. drained[s] + 1 \in 1..Len(calls[s])
    BY <2>1
  <2>3. NextCall(s) \in Tools
    BY <2>1, <2>2 DEF NextCall
  <2> QED BY <1>8, <2>1, <2>2, <2>3 DEF Drain, DrainWhen, TypeOK
<1>9. ASSUME NEW s \in Streams, Pass(s) PROVE TypeOK'
  BY <1>9, <1>8 DEF Pass, Drain, DrainWhen, TypeOK, fixed, stream, files, client
<1>10. ASSUME NEW s \in Streams, Pause(s) PROVE TypeOK'
  BY <1>10, <1>8 DEF Pause, Goto, Drain, DrainWhen, TypeOK, fixed, stream, files, client
<1>11. ASSUME NEW s \in Streams, Save(s) PROVE TypeOK'
  BY <1>11 DEF Save, SaveWhen, Goto, TypeOK, fixed, stream, turn, files
<1>12. ASSUME NEW s \in Streams, SaveMemory(s) PROVE TypeOK'
  <2>1. PICK ok \in BOOLEAN : SaveMemoryAs(s, ok) /\ refs' = [refs EXCEPT ![s].memory = ok]
    BY <1>12, SnapshotSaved
  <2>2. memoryFile' \in [Streams -> Bag \cup {NoFile}]
    BY <2>1, StoredIsBag DEF SaveMemoryAs, TypeOK
  <2>3. refs' \in [Streams -> [memory : BOOLEAN, events : BOOLEAN]]
    BY <2>1, RefsKept
  <2> QED BY <2>1, <2>2, <2>3 DEF SaveMemoryAs, Goto, TypeOK, fixed, stream, turn, client
<1>13. ASSUME NEW s \in Streams, SaveEvents(s) PROVE TypeOK'
  <2>1. eventsFile' \in [Streams -> BOOLEAN]
    BY <1>13 DEF SaveEvents, TypeOK
  <2>2. refs' \in [Streams -> [memory : BOOLEAN, events : BOOLEAN]]
    <3>1. PICK ok \in BOOLEAN : refs' = [refs EXCEPT ![s].events = ok]
      BY <1>13 DEF SaveEvents
    <3> QED BY <3>1, RefsKept
  <2> QED BY <1>13, <2>1, <2>2 DEF SaveEvents, Goto, TypeOK, fixed, stream, turn, client
<1>14. ASSUME NEW s \in Streams, SaveState(s) PROVE TypeOK'
  BY <1>14 DEF SaveState, Goto, TypeOK, fixed, stream, turn, client
<1>15. ASSUME NEW s \in Streams, Announce(s) PROVE TypeOK'
  BY <1>15 DEF Announce, Goto, TypeOK, fixed, stream, turn, files
<1>16. CASE Delete
  <2>1. memoryFile' \in [Streams -> Bag \cup {NoFile}]
    BY <1>16, SweepKeeps DEF Delete
  <2>2. eventsFile' \in [Streams -> BOOLEAN] /\ stateFile' \in [Streams -> BOOLEAN]
    BY <1>16, SweepKeeps DEF Delete
  <2> QED BY <1>16, <2>1, <2>2 DEF Delete, TypeOK, fixed, stream, turn, files
<1>17. CASE Crash
  BY <1>17 DEF Crash, TypeOK, fixed, stream, files, client
<1>18. CASE UNCHANGED vars
  BY <1>18 DEF vars, TypeOK, fixed, stream, turn, files, client
<1> QED
  BY <1>1, <1>2, <1>3, <1>4, <1>5, <1>6, <1>7, <1>9, <1>10, <1>11, <1>12, <1>13, <1>14, <1>15, <1>16, <1>17, <1>18
     DEF Next, Begin, Step

\* Every step keeps the order.
LEMMA OrderStep == TInv /\ [Next]_vars => Order'
<1> SUFFICES ASSUME TInv, [Next]_vars PROVE Order'
  OBVIOUS
<1> USE DEF TInv, TypeOK, Order, Active
<1>1. ASSUME NEW s \in Streams, Send(s) PROVE Order'
  BY <1>1 DEF Send, Goto, stream, turn, files, client
<1>2. ASSUME NEW s \in Streams, NEW p \in Streams, TurnDown(s, p) PROVE Order'
  BY <1>2 DEF TurnDown, Goto, stream, turn, files, client
<1>3. ASSUME NEW s \in Streams, NEW p \in Streams, NEW r \in {"request", "safe"}, Continue(s, p, r) PROVE Order'
  BY <1>3 DEF Continue, Goto, Found, turn, files
<1>4. ASSUME NEW s \in Streams, Restore(s) PROVE Order'
  <2>1. pc[s] = "restore" /\ pc' = [pc EXCEPT ![s] = "load"]
    BY <1>4, RestoreFrame
  <2>2. UNCHANGED <<told, answered, approved, stateFile, react, drained>>
    BY <1>4, RestoreFrame DEF turn, files, client
  <2> QED BY <2>1, <2>2
<1>5. ASSUME NEW s \in Streams, Load(s) PROVE Order'
  BY <1>5 DEF Load, Goto, stream, files, client
<1>6. ASSUME NEW s \in Streams, NEW t \in Tools, Call(s, t) PROVE Order'
  BY <1>6 DEF Call, stream, files, client
<1>7. ASSUME NEW s \in Streams, Settle(s) PROVE Order'
  BY <1>7 DEF Settle, stream, files, client
<1>8. ASSUME NEW s \in Streams, Pass(s) PROVE Order'
  BY <1>8 DEF Pass, Drain, DrainWhen, stream, files, client
<1>9. ASSUME NEW s \in Streams, Pause(s) PROVE Order'
  BY <1>9 DEF Pause, Goto, Drain, DrainWhen, stream, files, client
<1>10. ASSUME NEW s \in Streams, Save(s) PROVE Order'
  BY <1>10 DEF Save, SaveWhen, Goto, stream, turn, files
<1>11. ASSUME NEW s \in Streams, SaveMemory(s) PROVE Order'
  BY <1>11 DEF SaveMemory, SaveMemoryAs, Goto, stream, turn, client
<1>12. ASSUME NEW s \in Streams, SaveEvents(s) PROVE Order'
  BY <1>12 DEF SaveEvents, Goto, stream, turn, client
<1>13. ASSUME NEW s \in Streams, SaveState(s) PROVE Order'
  BY <1>13 DEF SaveState, Goto, stream, turn, client
<1>14. ASSUME NEW s \in Streams, Announce(s) PROVE Order'
  BY <1>14 DEF Announce, Goto, stream, turn, files
<1>15. CASE Delete
  BY <1>15 DEF Delete, SweepRuns, stream, turn, files
<1>16. CASE Crash
  BY <1>16 DEF Crash, stream, files, client
<1>17. CASE UNCHANGED vars
  BY <1>17 DEF vars, stream, turn, files, client
<1> QED
  BY <1>1, <1>2, <1>3, <1>4, <1>5, <1>6, <1>7, <1>8, <1>9, <1>10, <1>11, <1>12, <1>13, <1>14, <1>15, <1>16, <1>17
     DEF Next, Begin, Step

\* What TypeOK says the state is made of is what the stores, the policy and the
\* streams' own variables hold, through every pause, resume and crash.
THEOREM TypeCorrect == Spec => []TypeOK
<1>1. TInv /\ [Next]_vars => TInv'
  BY TypeStep, OrderStep DEF TInv
<1>2. Spec => []TInv
  BY <1>1, TypeInit, PTL DEF Spec
<1> QED BY <1>2, PTL DEF TInv

-----------------------------------------------------------------------------
(* The three files of a pause.                                               *)

FilesInv ==
  \A s \in Streams :
    /\ stateFile[s] \/ pc[s] \in {"events", "state"} => (refs[s].memory => memoryFile[s] # NoFile)
    /\ stateFile[s] \/ pc[s] = "state" => (refs[s].events => eventsFile[s])

\* Every step keeps the references of a pause good.
LEMMA FilesStep == TInv /\ FilesInv /\ [Next]_vars => FilesInv'
<1> SUFFICES ASSUME TInv, FilesInv, [Next]_vars PROVE FilesInv'
  OBVIOUS
<1> USE DEF TInv, TypeOK, Order, FilesInv, Active
<1>1. ASSUME NEW s \in Streams, Send(s) PROVE FilesInv'
  BY <1>1 DEF Send, Goto, stream, turn, files, client
<1>2. ASSUME NEW s \in Streams, NEW p \in Streams, TurnDown(s, p) PROVE FilesInv'
  BY <1>2 DEF TurnDown, Goto, stream, turn, files, client
<1>3. ASSUME NEW s \in Streams, NEW p \in Streams, NEW r \in {"request", "safe"}, Continue(s, p, r) PROVE FilesInv'
  BY <1>3 DEF Continue, Goto, Found, turn, files
<1>4. ASSUME NEW s \in Streams, Restore(s) PROVE FilesInv'
  BY <1>4, RestoreFrame DEF stream, turn, files, client
<1>5. ASSUME NEW s \in Streams, Load(s) PROVE FilesInv'
  BY <1>5 DEF Load, Goto, stream, files, client
<1>6. ASSUME NEW s \in Streams, NEW t \in Tools, Call(s, t) PROVE FilesInv'
  BY <1>6 DEF Call, stream, files, client
<1>7. ASSUME NEW s \in Streams, Settle(s) PROVE FilesInv'
  BY <1>7 DEF Settle, stream, files, client
<1>8. ASSUME NEW s \in Streams, Pass(s) PROVE FilesInv'
  BY <1>8 DEF Pass, Drain, DrainWhen, stream, files, client
<1>9. ASSUME NEW s \in Streams, Pause(s) PROVE FilesInv'
  BY <1>9 DEF Pause, Goto, Drain, DrainWhen, stream, files, client
<1>10. ASSUME NEW s \in Streams, Save(s) PROVE FilesInv'
  BY <1>10 DEF Save, SaveWhen, Goto, stream, turn, files
<1>11. ASSUME NEW s \in Streams, SaveMemory(s) PROVE FilesInv'
  <2>1. PICK ok \in BOOLEAN : SaveMemoryAs(s, ok) /\ refs' = [refs EXCEPT ![s].memory = ok]
    BY <1>11, SnapshotSaved
  <2>2. Stored # NoFile
    BY StoredIsBag
  <2>3. refs'[s].memory = ok /\ refs'[s].events = refs[s].events /\ \A q \in Streams \ {s} : refs'[q] = refs[q]
    BY <2>1
  <2> QED BY <2>1, <2>2, <2>3 DEF SaveMemoryAs, Goto, stream, turn, client
<1>12. ASSUME NEW s \in Streams, SaveEvents(s) PROVE FilesInv'
  <2>1. PICK ok \in BOOLEAN : /\ eventsFile' = [eventsFile EXCEPT ![s] = ok]
                              /\ refs' = [refs EXCEPT ![s].events = ok]
    BY <1>12 DEF SaveEvents
  <2>2. refs'[s].events = ok /\ refs'[s].memory = refs[s].memory /\ \A q \in Streams \ {s} : refs'[q] = refs[q]
    BY <2>1
  <2> QED BY <1>12, <2>1, <2>2 DEF SaveEvents, Goto, stream, turn, client
<1>13. ASSUME NEW s \in Streams, SaveState(s) PROVE FilesInv'
  BY <1>13 DEF SaveState, Goto, stream, turn, client
<1>14. ASSUME NEW s \in Streams, Announce(s) PROVE FilesInv'
  BY <1>14 DEF Announce, Goto, stream, turn, files
<1>15. CASE Delete
  <2>1. \A s \in Streams : pc[s] \in {"new", "over"} /\ pc'[s] = pc[s] /\ refs'[s] = refs[s]
    BY <1>15 DEF Delete
  <2>2. CASE Isolated
    <3>1. stateFile' = [s \in Streams |-> FALSE]
      BY <1>15, <2>2 DEF Delete, SweepRuns
    <3> QED BY <2>1, <3>1
  <2>3. CASE ~Isolated
    <3>1. UNCHANGED files
      BY <1>15, <2>3 DEF Delete, SweepRuns
    <3> QED BY <2>1, <3>1 DEF files
  <2> QED BY <2>2, <2>3
<1>16. CASE Crash
  BY <1>16 DEF Crash, stream, files, client
<1>17. CASE UNCHANGED vars
  BY <1>17 DEF vars, fixed, stream, turn, files, client
<1> QED
  BY <1>1, <1>2, <1>3, <1>4, <1>5, <1>6, <1>7, <1>8, <1>9, <1>10, <1>11, <1>12, <1>13, <1>14, <1>15, <1>16, <1>17
     DEF Next, Begin, Step

\* StateNamesFiles, for any faults and any number of pauses: the order of the three
\* writes of _pause_for_approval makes a RunState on disk one that can be restored.
THEOREM StateNamesFilesHolds == Spec => []StateNamesFiles
<1>1. Init => FilesInv
  BY DEF Init, FilesInv
<1>2. TInv /\ [Next]_vars => TInv'
  BY TypeStep, OrderStep DEF TInv
<1>3. Spec => [](TInv /\ FilesInv)
  BY <1>1, <1>2, TypeInit, FilesStep, PTL DEF Spec
<1>4. FilesInv => StateNamesFiles
  BY DEF FilesInv, StateNamesFiles
<1> QED BY <1>3, <1>4, PTL

-----------------------------------------------------------------------------
(* Tools that need approval.                                                 *)

AskInv ==
  /\ \A s \in Streams : policy[s] = "safe" => \E p \in approved : origin[p] = origin[s]
  /\ \A e \in ran : pc[e[1]] \notin Early
  /\ AskedWaits

\* Every step keeps the tools that need approval waiting.
LEMMA AskStep == TInv /\ AskInv /\ [Next]_vars => AskInv'
<1> SUFFICES ASSUME TInv, AskInv, [Next]_vars PROVE AskInv'
  OBVIOUS
<1> USE DEF TInv, TypeOK, Order, AskInv, AskedWaits, Active
<1>1. ASSUME NEW s \in Streams, Send(s) PROVE AskInv'
  BY <1>1 DEF Send, Goto, fixed, stream, turn, files, client
<1>2. ASSUME NEW s \in Streams, NEW p \in Streams, TurnDown(s, p) PROVE AskInv'
  BY <1>2 DEF TurnDown, Goto, fixed, stream, turn, files, client
<1>3. ASSUME NEW s \in Streams, NEW p \in Streams, NEW r \in {"request", "safe"}, Continue(s, p, r) PROVE AskInv'
  <2>1. pc[s] = "new" /\ pc[p] \notin Early /\ approved' = approved \cup {p}
    BY <1>3 DEF Continue, Found
  <2>2. origin' = [origin EXCEPT ![s] = origin[p]] /\ policy' = [policy EXCEPT ![s] = r]
    BY <1>3 DEF Continue
  <2>3. s \notin approved /\ s # p
    BY <2>1
  <2>4. origin'[s] = origin[p] /\ \A q \in Streams \ {s} : origin'[q] = origin[q] /\ policy'[q] = policy[q]
    BY <2>2
  <2>5. \A q \in approved \cup {p} : origin'[q] = origin[q]
    BY <2>3, <2>4
  <2>6. \A q \in Streams : policy'[q] = "safe" => \E x \in approved' : origin'[x] = origin'[q]
    <3> TAKE q \in Streams
    <3> HAVE policy'[q] = "safe"
    <3>1. CASE q = s
      BY <3>1, <2>1, <2>4, <2>5
    <3>2. CASE q # s
      <4>1. policy[q] = "safe" /\ origin'[q] = origin[q]
        BY <3>2, <2>4
      <4>2. PICK x \in approved : origin[x] = origin[q]
        BY <4>1
      <4> QED BY <4>1, <4>2, <2>1, <2>5
    <3> QED BY <3>1, <3>2
  <2>7. ran' = ran /\ rules' = rules /\ hint' = hint /\ pc' = [pc EXCEPT ![s] = "restore"]
    BY <1>3 DEF Continue, Goto, fixed, turn
  <2>8. \A e \in ran : e[1] \in Streams \ {s}
    BY <2>1
  <2>9. \A e \in ran' : pc'[e[1]] \notin Early
    BY <2>7, <2>8
  <2>10. ASSUME NEW e \in ran, \E x \in approved : origin[x] = origin[e[1]]
         PROVE  \E x \in approved' : origin'[x] = origin'[e[1]]
    <3>1. PICK x \in approved : origin[x] = origin[e[1]]
      BY <2>10
    <3> QED BY <3>1, <2>1, <2>4, <2>5, <2>8
  <2>11. AskedWaits'
    BY <2>7, <2>10
  <2> QED BY <2>6, <2>9, <2>11
<1>4. ASSUME NEW s \in Streams, Restore(s) PROVE AskInv'
  <2>1. pc[s] = "restore" /\ pc' = [pc EXCEPT ![s] = "load"] /\ UNCHANGED <<fixed, stream, turn, client>>
    BY <1>4, RestoreFrame
  <2>2. \A e \in ran : e[1] \in Streams \ {s}
    BY <2>1
  <2> QED BY <2>1, <2>2 DEF fixed, stream, turn, client
<1>5. ASSUME NEW s \in Streams, Load(s) PROVE AskInv'
  BY <1>5 DEF Load, Goto, fixed, stream, files, client
<1>6. ASSUME NEW s \in Streams, NEW t \in Tools, Call(s, t) PROVE AskInv'
  BY <1>6 DEF Call, CallGate, RulesOf, fixed, stream, files, client
<1>7. ASSUME NEW s \in Streams, Settle(s) PROVE AskInv'
  BY <1>7 DEF Settle, fixed, stream, files, client
<1>8. ASSUME NEW s \in Streams, Pass(s) PROVE AskInv'
  BY <1>8 DEF Pass, Drain, DrainWhen, fixed, stream, files, client
<1>9. ASSUME NEW s \in Streams, Pause(s) PROVE AskInv'
  BY <1>9 DEF Pause, Goto, Drain, DrainWhen, fixed, stream, files, client
<1>10. ASSUME NEW s \in Streams, Save(s) PROVE AskInv'
  BY <1>10 DEF Save, SaveWhen, Goto, fixed, stream, turn, files
<1>11. ASSUME NEW s \in Streams, SaveMemory(s) PROVE AskInv'
  BY <1>11 DEF SaveMemory, SaveMemoryAs, Goto, fixed, stream, turn, client
<1>12. ASSUME NEW s \in Streams, SaveEvents(s) PROVE AskInv'
  BY <1>12 DEF SaveEvents, Goto, fixed, stream, turn, client
<1>13. ASSUME NEW s \in Streams, SaveState(s) PROVE AskInv'
  BY <1>13 DEF SaveState, Goto, fixed, stream, turn, client
<1>14. ASSUME NEW s \in Streams, Announce(s) PROVE AskInv'
  BY <1>14 DEF Announce, Goto, fixed, stream, turn, files
<1>15. CASE Delete
  BY <1>15 DEF Delete, SweepRuns, fixed, stream, turn, files
<1>16. CASE Crash
  BY <1>16 DEF Crash, fixed, stream, files, client
<1>17. CASE UNCHANGED vars
  BY <1>17 DEF vars, fixed, stream, turn, files, client
<1> QED
  BY <1>1, <1>2, <1>3, <1>4, <1>5, <1>6, <1>7, <1>8, <1>9, <1>10, <1>11, <1>12, <1>13, <1>14, <1>15, <1>16, <1>17
     DEF Next, Begin, Step

\* AskedWaits, for any policy, any annotations and any interleaving of the loops
\* that outlive a pause: the gate of tool_bridge lets no asked-about tool run before
\* an approval of its message.
THEOREM AskedWaitsHolds == Spec => []AskedWaits
<1>1. Init => AskInv
  BY DEF Init, AskInv, AskedWaits
<1>2. TInv /\ [Next]_vars => TInv'
  BY TypeStep, OrderStep DEF TInv
<1>3. Spec => [](TInv /\ AskInv)
  BY <1>1, <1>2, TypeInit, AskStep, PTL DEF Spec
<1> QED BY <1>3, PTL DEF AskInv

-----------------------------------------------------------------------------
(* A plan's walk is over when its first span reaches the Runner.             *)

StopInv ==
  pattern = "plan" =>
    \A s \in Streams : pc[s] \in Pausing \/ told[s] # "none" => s \notin react

\* Every step keeps the loops of paused plans stopped.
LEMMA StopStep == TInv /\ StopInv /\ [Next]_vars => StopInv'
<1> SUFFICES ASSUME TInv, StopInv, [Next]_vars PROVE StopInv'
  OBVIOUS
<1> USE DEF TInv, TypeOK, Order, StopInv, Active
<1>1. ASSUME NEW s \in Streams, Send(s) PROVE StopInv'
  BY <1>1 DEF Send, Goto, fixed, stream, turn, files, client
<1>2. ASSUME NEW s \in Streams, NEW p \in Streams, TurnDown(s, p) PROVE StopInv'
  BY <1>2 DEF TurnDown, Goto, fixed, stream, turn, files, client
<1>3. ASSUME NEW s \in Streams, NEW p \in Streams, NEW r \in {"request", "safe"}, Continue(s, p, r) PROVE StopInv'
  BY <1>3 DEF Continue, Goto, Found, fixed, turn, files
<1>4. ASSUME NEW s \in Streams, Restore(s) PROVE StopInv'
  BY <1>4, RestoreFrame DEF fixed, stream, turn, files, client
<1>5. ASSUME NEW s \in Streams, Load(s) PROVE StopInv'
  BY <1>5 DEF Load, Goto, fixed, stream, files, client
<1>6. ASSUME NEW s \in Streams, NEW t \in Tools, Call(s, t) PROVE StopInv'
  BY <1>6 DEF Call, fixed, stream, files, client
<1>7. ASSUME NEW s \in Streams, Settle(s) PROVE StopInv'
  BY <1>7 DEF Settle, fixed, stream, files, client
<1>8. ASSUME NEW s \in Streams, Pass(s) PROVE StopInv'
  BY <1>8 DEF Pass, Drain, DrainWhen, fixed, stream, files, client
<1>9. ASSUME NEW s \in Streams, Pause(s) PROVE StopInv'
  BY <1>9 DEF Pause, Goto, Drain, DrainWhen, fixed, stream, files, client
<1>10. ASSUME NEW s \in Streams, Save(s) PROVE StopInv'
  BY <1>10 DEF Save, SaveWhen, Goto, fixed, stream, turn, files
<1>11. ASSUME NEW s \in Streams, SaveMemory(s) PROVE StopInv'
  BY <1>11 DEF SaveMemory, SaveMemoryAs, Goto, fixed, stream, turn, client
<1>12. ASSUME NEW s \in Streams, SaveEvents(s) PROVE StopInv'
  BY <1>12 DEF SaveEvents, Goto, fixed, stream, turn, client
<1>13. ASSUME NEW s \in Streams, SaveState(s) PROVE StopInv'
  BY <1>13 DEF SaveState, Goto, fixed, stream, turn, client
<1>14. ASSUME NEW s \in Streams, Announce(s) PROVE StopInv'
  BY <1>14 DEF Announce, Goto, fixed, stream, turn, files
<1>15. CASE Delete
  BY <1>15 DEF Delete, SweepRuns, fixed, stream, turn, files
<1>16. CASE Crash
  BY <1>16 DEF Crash, fixed, stream, files, client
<1>17. CASE UNCHANGED vars
  BY <1>17 DEF vars, fixed, stream, turn, files, client
<1> QED
  BY <1>1, <1>2, <1>3, <1>4, <1>5, <1>6, <1>7, <1>8, <1>9, <1>10, <1>11, <1>12, <1>13, <1>14, <1>15, <1>16, <1>17
     DEF Next, Begin, Step

\* Only a call executes a tool.
LEMMA RanChanges == [Next]_vars => \/ \E s \in Streams, t \in Tools : Call(s, t)
                                  \/ UNCHANGED ran
  BY RestoreFrame DEF Next, Begin, Step, Send, TurnDown, Continue, Load, Settle, Pass, Pause, Drain,
     DrainWhen, Save, SaveWhen, SaveMemory, SaveMemoryAs, SaveEvents, SaveState, Announce, Delete,
     Crash, vars, turn

\* PlanStops, for any plan and any faults: nothing of a plan runs behind the pause the
\* client was told of.
THEOREM PlanStopsHolds == Spec => PlanStops
<1>1. Init => StopInv
  BY DEF Init, StopInv
<1>2. TInv /\ [Next]_vars => TInv'
  BY TypeStep, OrderStep DEF TInv
<1>3. Spec => [](TInv /\ StopInv)
  BY <1>1, <1>2, TypeInit, StopStep, PTL DEF Spec
<1> DEFINE Stops == pattern = "plan" => \A e \in ran' \ ran : told[e[1]] = "none"
<1>4. TInv /\ StopInv /\ [Next]_vars => [Stops]_vars
  <2> SUFFICES ASSUME TInv, StopInv, [Next]_vars PROVE Stops \/ UNCHANGED vars
    OBVIOUS
  <2>1. CASE \E s \in Streams, t \in Tools : Call(s, t)
    BY <2>1 DEF Call, StopInv
  <2>2. CASE UNCHANGED ran
    BY <2>2
  <2>3. CASE UNCHANGED vars
    BY <2>3
  <2> QED
    BY <2>1, <2>2, <2>3, RanChanges DEF TInv
<1> QED BY <1>3, <1>4, PTL DEF Spec, PlanStops

-----------------------------------------------------------------------------
(* Refusals in chat.                                                         *)

\* A span the Runner let pass is none it would pause on.
PassedOnly ==
  \A s \in Streams : pc[s] = "turn" => \A i \in 1..drained[s] : SpanGate(s, calls[s][i]) # "ask"

\* A refused call is one whose span the Runner has to pause on.
RefusalSeen ==
  \A e \in refused :
    /\ pc[e[1]] \notin Early
    /\ SpanGate(e[1], e[2]) = "ask"
    /\ \E i \in 1..Len(calls[e[1]]) : calls[e[1]][i] = e[2]

ChatInv == pattern = "chat" => PassedOnly /\ RefusalSeen /\ RefusalPauses

\* What leaves the calls, the refusals and the answers alone, and the gate of every
\* stream under way, leaves ChatInv alone.
ChatFrame ==
  /\ UNCHANGED <<fixed, calls, drained, refused, answered>>
  /\ \A s \in Streams :
       /\ pc[s] \notin Early => pc'[s] \notin Early /\ policy'[s] = policy[s]
       /\ pc'[s] = "turn" => pc[s] = "turn" \/ drained[s] = 0

\* The Runner decides about a tool in the same way for the whole of a turn.
LEMMA GateSame ==
  ASSUME UNCHANGED fixed, NEW s \in Streams, policy'[s] = policy[s]
  PROVE  \A t \in Tools : SpanGate(s, t)' = SpanGate(s, t)
  BY DEF SpanGate, RulesOf, fixed

\* The i-th call of a stream is a tool.
LEMMA CallIsTool ==
  ASSUME TypeOK, NEW s \in Streams, NEW i \in 1..Len(calls[s])
  PROVE  calls[s][i] \in Tools
<1>1. calls[s] \in Seq(Tools)
  BY DEF TypeOK
<1> QED BY <1>1

\* So ChatInv is kept by such a step.
LEMMA ChatKept == TInv /\ ChatInv /\ ChatFrame => ChatInv'
<1> SUFFICES ASSUME TInv, ChatInv, ChatFrame, pattern' = "chat"
             PROVE  PassedOnly' /\ RefusalSeen' /\ RefusalPauses'
  BY DEF ChatInv
<1>1. pattern = "chat" /\ UNCHANGED <<fixed, calls, drained, refused, answered>>
  BY DEF ChatFrame, fixed
<1>2. PassedOnly /\ RefusalSeen /\ RefusalPauses
  BY <1>1 DEF ChatInv
<1>3. PassedOnly'
  <2> SUFFICES ASSUME NEW s \in Streams, pc'[s] = "turn", NEW i \in 1..drained'[s]
               PROVE  SpanGate(s, calls[s][i])' # "ask"
    BY DEF PassedOnly
  <2>1. drained[s] \in Nat /\ drained[s] <= Len(calls[s]) /\ Len(calls[s]) \in Nat
    BY DEF TInv, TypeOK
  <2>2. i \in 1..drained[s] /\ drained[s] # 0 /\ i \in 1..Len(calls[s])
    BY <1>1, <2>1
  <2>3. pc[s] = "turn" /\ policy'[s] = policy[s]
    BY <2>2 DEF ChatFrame
  <2>4. SpanGate(s, calls[s][i]) # "ask"
    BY <1>2, <2>2, <2>3 DEF PassedOnly
  <2>5. calls[s][i] \in Tools
    BY <2>2, CallIsTool DEF TInv
  <2> QED BY <1>1, <2>3, <2>4, <2>5, GateSame
<1>4. RefusalSeen'
  <2> SUFFICES ASSUME NEW e \in refused
               PROVE  /\ pc'[e[1]] \notin Early
                      /\ SpanGate(e[1], e[2])' = "ask"
                      /\ \E i \in 1..Len(calls[e[1]]) : calls[e[1]][i] = e[2]
    BY <1>1 DEF RefusalSeen
  <2>1. e[1] \in Streams /\ e[2] \in Tools
    BY DEF TInv, TypeOK
  <2>2. pc[e[1]] \notin Early /\ SpanGate(e[1], e[2]) = "ask"
        /\ \E i \in 1..Len(calls[e[1]]) : calls[e[1]][i] = e[2]
    BY <1>2 DEF RefusalSeen
  <2>3. pc'[e[1]] \notin Early /\ policy'[e[1]] = policy[e[1]]
    BY <2>1, <2>2 DEF ChatFrame
  <2> QED BY <1>1, <2>1, <2>2, <2>3, GateSame
<1>5. RefusalPauses'
  BY <1>1, <1>2 DEF RefusalPauses
<1> QED BY <1>3, <1>4, <1>5

\* A call the executor refuses is one the Runner pauses on.
LEMMA RefusedIsSeen ==
  ASSUME NEW s \in Streams, NEW t \in Tools, CallGate(s, t) = "ask"
  PROVE  SpanGate(s, t) = "ask"
  BY DEF CallGate, SpanGate

\* Every step of a chat keeps refusals waiting.
LEMMA ChatStep == TInv /\ ChatInv /\ [Next]_vars => ChatInv'
<1> SUFFICES ASSUME TInv, ChatInv, [Next]_vars PROVE ChatInv'
  OBVIOUS
<1>0. /\ pc \in [Streams -> Points] /\ policy \in [Streams -> {"request", "safe"}]
      /\ drained \in [Streams -> Nat] /\ calls \in [Streams -> Seq(Tools)]
      /\ \A s \in Streams : drained[s] <= Len(calls[s]) /\ Len(calls[s]) \in Nat
      /\ \A s \in Streams : pc[s] \in Early => drained[s] = 0
  BY DEF TInv, TypeOK, Order
<1>1. ASSUME NEW s \in Streams, Send(s) PROVE ChatFrame
  BY <1>0, <1>1 DEF Send, Goto, fixed, stream, turn, files, client, ChatFrame
<1>2. ASSUME NEW s \in Streams, NEW p \in Streams, TurnDown(s, p) PROVE ChatFrame
  BY <1>0, <1>2 DEF TurnDown, Goto, fixed, stream, turn, files, client, ChatFrame
<1>3. ASSUME NEW s \in Streams, NEW p \in Streams, NEW r \in {"request", "safe"}, Continue(s, p, r) PROVE ChatFrame
  BY <1>0, <1>3 DEF Continue, Goto, Found, fixed, turn, files, ChatFrame
<1>4. ASSUME NEW s \in Streams, Restore(s) PROVE ChatFrame
  BY <1>0, <1>4, RestoreFrame DEF fixed, stream, turn, files, client, ChatFrame
<1>5. ASSUME NEW s \in Streams, Load(s) PROVE ChatFrame
  BY <1>0, <1>5 DEF Load, Goto, fixed, stream, files, client, ChatFrame
<1>6. ASSUME NEW s \in Streams, Settle(s) PROVE ChatFrame
  BY <1>0, <1>6 DEF Settle, fixed, stream, files, client, ChatFrame
<1>7. ASSUME NEW s \in Streams, SaveMemory(s) PROVE ChatFrame
  BY <1>0, <1>7 DEF SaveMemory, SaveMemoryAs, Goto, fixed, stream, turn, client, ChatFrame
<1>8. ASSUME NEW s \in Streams, SaveEvents(s) PROVE ChatFrame
  BY <1>0, <1>8 DEF SaveEvents, Goto, fixed, stream, turn, client, ChatFrame
<1>9. ASSUME NEW s \in Streams, SaveState(s) PROVE ChatFrame
  BY <1>0, <1>9 DEF SaveState, Goto, fixed, stream, turn, client, ChatFrame
<1>10. ASSUME NEW s \in Streams, Announce(s) PROVE ChatFrame
  BY <1>0, <1>10 DEF Announce, Goto, fixed, stream, turn, files, ChatFrame
<1>11. ASSUME Delete PROVE ChatFrame
  BY <1>0, <1>11 DEF Delete, fixed, stream, turn, ChatFrame
<1>12. ASSUME Crash PROVE ChatFrame
  BY <1>0, <1>12 DEF Crash, fixed, stream, client, ChatFrame, Active
<1>13. ASSUME UNCHANGED vars PROVE ChatFrame
  BY <1>13 DEF vars, fixed, stream, turn, client, ChatFrame
<1>14. ASSUME NEW s \in Streams, NEW t \in Tools, Call(s, t) PROVE ChatInv'
  <2>1. /\ s \in react /\ calls' = [calls EXCEPT ![s] = Append(@, t)]
        /\ refused' = IF CallGate(s, t) = "ask" THEN refused \cup {<<s, t>>} ELSE refused
        /\ UNCHANGED <<fixed, pc, policy, drained, answered>>
    BY <1>14 DEF Call, stream, client
  <2> SUFFICES ASSUME pattern = "chat" PROVE PassedOnly' /\ RefusalSeen' /\ RefusalPauses'
    BY <2>1 DEF ChatInv, fixed
  <2>2. PassedOnly /\ RefusalSeen /\ RefusalPauses
    BY DEF ChatInv
  <2>3. s \notin answered /\ pc[s] \notin Early
    BY <2>1 DEF TInv, TypeOK, Order
  <2>4. \A q \in Streams : \A i \in 1..Len(calls[q]) :
          Len(calls[q]) <= Len(calls'[q]) /\ Len(calls'[q]) \in Nat /\ calls'[q][i] = calls[q][i]
    <3> TAKE q \in Streams
    <3> TAKE i \in 1..Len(calls[q])
    <3>1. CASE q = s
      <4>1. calls[s] \in Seq(Tools) /\ calls'[s] = Append(calls[s], t)
        BY <1>0, <2>1
      <4> QED BY <3>1, <4>1
    <3>2. CASE q # s
      BY <1>0, <2>1, <3>2
    <3> QED BY <3>1, <3>2
  <2>5. \A q \in Streams, u \in Tools : SpanGate(q, u)' = SpanGate(q, u)
    BY <2>1, GateSame
  <2>6. PassedOnly'
    <3> SUFFICES ASSUME NEW q \in Streams, pc[q] = "turn", NEW i \in 1..drained[q]
                 PROVE  SpanGate(q, calls[q][i])' # "ask"
      BY <2>1 DEF PassedOnly
    <3>1. i \in 1..Len(calls[q])
      BY <1>0
    <3>2. calls'[q][i] = calls[q][i] /\ calls[q][i] \in Tools
      BY <2>4, <3>1, CallIsTool DEF TInv
    <3>3. SpanGate(q, calls[q][i]) # "ask"
      BY <2>2 DEF PassedOnly
    <3> QED BY <2>1, <2>5, <3>2, <3>3
  <2>7. RefusalSeen'
    <3> SUFFICES ASSUME NEW e \in refused'
                 PROVE  /\ pc[e[1]] \notin Early
                        /\ SpanGate(e[1], e[2])' = "ask"
                        /\ \E i \in 1..Len(calls'[e[1]]) : calls'[e[1]][i] = e[2]
      BY <2>1 DEF RefusalSeen
    <3>1. CASE e \in refused
      <4>1. e[1] \in Streams /\ e[2] \in Tools
        BY <3>1 DEF TInv, TypeOK
      <4>2. PICK i \in 1..Len(calls[e[1]]) : calls[e[1]][i] = e[2]
        BY <2>2, <3>1 DEF RefusalSeen
      <4>3. i \in 1..Len(calls'[e[1]]) /\ calls'[e[1]][i] = e[2]
        BY <1>0, <2>4, <4>1, <4>2
      <4> QED BY <2>2, <2>5, <3>1, <4>1, <4>3 DEF RefusalSeen
    <3>2. CASE e \notin refused
      <4>1. e = <<s, t>> /\ CallGate(s, t) = "ask"
        BY <2>1, <3>2
      <4>2. SpanGate(s, t)' = "ask"
        BY <2>5, <4>1, RefusedIsSeen
      <4>3. calls[s] \in Seq(Tools) /\ calls'[s] = Append(calls[s], t)
        BY <1>0, <2>1
      <4>4. Len(calls'[s]) \in 1..Len(calls'[s]) /\ calls'[s][Len(calls'[s])] = t
        BY <4>3
      <4> QED BY <2>3, <4>1, <4>2, <4>4
    <3> QED BY <3>1, <3>2
  <2>8. RefusalPauses'
    BY <2>1, <2>2, <2>3 DEF RefusalPauses
  <2> QED BY <2>6, <2>7, <2>8
<1>15. ASSUME NEW s \in Streams, Drain(s),
              \/ UNCHANGED pc /\ (pattern = "plan" \/ SpanGate(s, NextCall(s)) # "ask")
              \/ pc' = [pc EXCEPT ![s] = "memory"]
       PROVE  ChatInv'
  <2>1. /\ pc[s] = "turn" /\ drained[s] < Len(calls[s]) /\ drained' = [drained EXCEPT ![s] = @ + 1]
        /\ UNCHANGED <<fixed, policy, calls, refused, answered>>
    BY <1>15 DEF Drain, DrainWhen, stream, client
  <2> SUFFICES ASSUME pattern = "chat" PROVE PassedOnly' /\ RefusalSeen' /\ RefusalPauses'
    BY <2>1 DEF ChatInv, fixed
  <2>2. PassedOnly /\ RefusalSeen /\ RefusalPauses
    BY DEF ChatInv
  <2>3. \A q \in Streams, u \in Tools : SpanGate(q, u)' = SpanGate(q, u)
    BY <2>1, GateSame
  <2>4. PassedOnly'
    <3> SUFFICES ASSUME NEW q \in Streams, pc'[q] = "turn", NEW i \in 1..drained'[q]
                 PROVE  SpanGate(q, calls[q][i]) # "ask" /\ calls[q][i] \in Tools
      BY <2>1, <2>3 DEF PassedOnly
    <3>1. i \in 1..Len(calls[q]) /\ pc[q] = "turn"
      BY <1>0, <1>15, <2>1
    <3>2. calls[q][i] \in Tools
      BY <3>1, CallIsTool DEF TInv
    <3>3. CASE i \in 1..drained[q]
      BY <2>2, <3>1, <3>2, <3>3 DEF PassedOnly
    <3>4. CASE i \notin 1..drained[q]
      <4>1. q = s /\ i = drained[s] + 1
        BY <1>0, <2>1, <3>4
      <4>2. UNCHANGED pc
        BY <1>0, <1>15, <4>1
      <4>3. pc' # [pc EXCEPT ![s] = "memory"]
        BY <1>0, <2>1, <4>2
      <4> QED BY <1>15, <3>2, <4>1, <4>3 DEF NextCall
    <3> QED BY <3>3, <3>4
  <2>5. RefusalSeen'
    <3> SUFFICES ASSUME NEW e \in refused
                 PROVE  pc'[e[1]] \notin Early /\ SpanGate(e[1], e[2])' = "ask"
      BY <2>1, <2>2 DEF RefusalSeen
    <3>1. e[1] \in Streams /\ e[2] \in Tools
      BY DEF TInv, TypeOK
    <3>2. pc'[e[1]] \notin Early
      BY <1>0, <1>15, <2>2, <3>1 DEF RefusalSeen
    <3> QED BY <2>2, <2>3, <3>1, <3>2 DEF RefusalSeen
  <2>6. RefusalPauses'
    BY <2>1, <2>2 DEF RefusalPauses
  <2> QED BY <2>4, <2>5, <2>6
<1>16. ASSUME NEW s \in Streams, Save(s) PROVE ChatInv'
  <2>1. /\ pc[s] = "turn" /\ drained[s] = Len(calls[s]) /\ answered' = answered \cup {s}
        /\ pc' = [pc EXCEPT ![s] = "over"]
        /\ UNCHANGED <<fixed, policy, calls, drained, refused>>
    BY <1>16 DEF Save, SaveWhen, Goto, stream, turn
  <2> SUFFICES ASSUME pattern = "chat" PROVE PassedOnly' /\ RefusalSeen' /\ RefusalPauses'
    BY <2>1 DEF ChatInv, fixed
  <2>2. PassedOnly /\ RefusalSeen /\ RefusalPauses
    BY DEF ChatInv
  <2>3. \A e \in refused : e[1] # s
    BY <2>1, <2>2 DEF PassedOnly, RefusalSeen
  <2>4. \A q \in Streams, u \in Tools : SpanGate(q, u)' = SpanGate(q, u)
    BY <2>1, GateSame
  <2>5. PassedOnly'
    <3> SUFFICES ASSUME NEW q \in Streams, pc'[q] = "turn", NEW i \in 1..drained[q]
                 PROVE  SpanGate(q, calls[q][i]) # "ask" /\ calls[q][i] \in Tools
      BY <2>1, <2>4 DEF PassedOnly
    <3>1. pc[q] = "turn" /\ i \in 1..Len(calls[q])
      BY <1>0, <2>1
    <3> QED BY <2>2, <3>1, CallIsTool DEF PassedOnly, TInv
  <2>6. RefusalSeen'
    <3> SUFFICES ASSUME NEW e \in refused
                 PROVE  pc'[e[1]] \notin Early /\ SpanGate(e[1], e[2])' = "ask"
      BY <2>1, <2>2 DEF RefusalSeen
    <3>1. e[1] \in Streams /\ e[2] \in Tools
      BY DEF TInv, TypeOK
    <3> QED BY <1>0, <2>1, <2>2, <2>4, <3>1 DEF RefusalSeen
  <2>7. RefusalPauses'
    BY <2>1, <2>2, <2>3 DEF RefusalPauses
  <2> QED BY <2>5, <2>6, <2>7
<1>17. ASSUME NEW s \in Streams, Pass(s) PROVE ChatInv'
  BY <1>15, <1>17 DEF Pass
<1>18. ASSUME NEW s \in Streams, Pause(s) PROVE ChatInv'
  BY <1>15, <1>18 DEF Pause, Goto
<1> QED
  BY ChatKept, <1>1, <1>2, <1>3, <1>4, <1>5, <1>6, <1>7, <1>8, <1>9, <1>10, <1>11, <1>12, <1>13, <1>14, <1>16, <1>17, <1>18
     DEF Next, Begin, Step

\* AskPauses, for any number of calls and however the loop outruns the Runner: in chat
\* a turn in which a call was refused for want of approval does not go on to an answer.
THEOREM AskPausesHolds == Spec => []AskPauses
<1>1. Init => ChatInv
  BY DEF Init, ChatInv, PassedOnly, RefusalSeen, RefusalPauses
<1>2. TInv /\ [Next]_vars => TInv'
  BY TypeStep, OrderStep DEF TInv
<1>3. Spec => [](TInv /\ ChatInv)
  BY <1>1, <1>2, TypeInit, ChatStep, PTL DEF Spec
<1>4. ChatInv => AskPauses
  BY DEF ChatInv, AskPauses
<1> QED BY <1>3, <1>4, PTL

-----------------------------------------------------------------------------
(* A message is recorded once: a snapshot is the session as it was before    *)
(* the message of the paused run, so the run that continues it may record    *)
(* it again.                                                                 *)

\* Whose message a stream answers is known from its beginning.
Lineage ==
  /\ \A s \in Streams : pc[s] = "new" => origin[s] = s
  /\ \A s \in Streams : pc[s] # "new" => pc[origin[s]] # "new"
  /\ \A s \in Streams : pc[s] = "restore" => origin[s] = origin[resumed[s]]
  /\ \A s \in Streams : memoryFile[s] # NoFile => pc[s] \in {"events", "state", "announce", "over"}

\* Every step keeps the lineage of the streams.
LEMMA LineageStep == TInv /\ Lineage /\ [Next]_vars => Lineage'
<1> SUFFICES ASSUME TInv, Lineage, [Next]_vars PROVE Lineage'
  OBVIOUS
<1> USE DEF TInv, TypeOK, Order, Lineage, Active
<1>1. ASSUME NEW s \in Streams, Send(s) PROVE Lineage'
  BY <1>1 DEF Send, Goto, stream, turn, files, client
<1>2. ASSUME NEW s \in Streams, NEW p \in Streams, TurnDown(s, p) PROVE Lineage'
  BY <1>2 DEF TurnDown, Goto, stream, turn, files, client
<1>3. ASSUME NEW s \in Streams, NEW p \in Streams, NEW r \in {"request", "safe"}, Continue(s, p, r) PROVE Lineage'
  <2>1. pc[s] = "new" /\ pc[p] \notin {"new"} /\ Active = {} /\ s # p
    BY <1>3 DEF Continue, Found
  <2>2. /\ pc' = [pc EXCEPT ![s] = "restore"] /\ origin' = [origin EXCEPT ![s] = origin[p]]
        /\ resumed' = [resumed EXCEPT ![s] = p] /\ UNCHANGED memoryFile
    BY <1>3 DEF Continue, Goto, files
  <2>3. /\ origin'[s] = origin[p] /\ origin'[p] = origin[p] /\ resumed'[s] = p /\ pc'[s] = "restore"
        /\ \A q \in Streams \ {s} : origin'[q] = origin[q] /\ resumed'[q] = resumed[q] /\ pc'[q] = pc[q]
    BY <2>1, <2>2
  <2>4. \A q \in Streams : pc[q] # "restore"
    BY <2>1
  <2>5. origin[p] # s /\ pc[origin[p]] # "new"
    BY <2>1
  <2> QED BY <2>1, <2>2, <2>3, <2>4, <2>5
<1>4. ASSUME NEW s \in Streams, Restore(s) PROVE Lineage'
  <2>1. pc[s] = "restore" /\ pc' = [pc EXCEPT ![s] = "load"] /\ UNCHANGED <<origin, resumed, memoryFile>>
    BY <1>4, RestoreFrame DEF stream, files
  <2> QED BY <2>1
<1>5. ASSUME NEW s \in Streams, Load(s) PROVE Lineage'
  BY <1>5 DEF Load, Goto, stream, files, client
<1>6. ASSUME NEW s \in Streams, NEW t \in Tools, Call(s, t) PROVE Lineage'
  BY <1>6 DEF Call, stream, files, client
<1>7. ASSUME NEW s \in Streams, Settle(s) PROVE Lineage'
  BY <1>7 DEF Settle, stream, files, client
<1>8. ASSUME NEW s \in Streams, Pass(s) PROVE Lineage'
  BY <1>8 DEF Pass, Drain, DrainWhen, stream, files, client
<1>9. ASSUME NEW s \in Streams, Pause(s) PROVE Lineage'
  BY <1>9 DEF Pause, Goto, Drain, DrainWhen, stream, files, client
<1>10. ASSUME NEW s \in Streams, Save(s) PROVE Lineage'
  BY <1>10 DEF Save, SaveWhen, Goto, stream, turn, files
<1>11. ASSUME NEW s \in Streams, SaveMemory(s) PROVE Lineage'
  <2>1. /\ pc[s] = "memory" /\ pc' = [pc EXCEPT ![s] = "events"] /\ UNCHANGED <<origin, resumed>>
        /\ \A q \in Streams \ {s} : memoryFile'[q] = memoryFile[q]
    BY <1>11 DEF SaveMemory, SaveMemoryAs, Goto, stream
  <2> QED BY <2>1
<1>12. ASSUME NEW s \in Streams, SaveEvents(s) PROVE Lineage'
  BY <1>12 DEF SaveEvents, Goto, stream, turn, client
<1>13. ASSUME NEW s \in Streams, SaveState(s) PROVE Lineage'
  BY <1>13 DEF SaveState, Goto, stream, turn, client
<1>14. ASSUME NEW s \in Streams, Announce(s) PROVE Lineage'
  BY <1>14 DEF Announce, Goto, stream, turn, files
<1>15. CASE Delete
  <2>1. UNCHANGED <<pc, origin, resumed>>
    BY <1>15 DEF Delete, stream
  <2>2. \A q \in Streams : memoryFile'[q] \in {memoryFile[q], NoFile}
    <3>1. CASE Isolated
      BY <1>15, <3>1 DEF Delete, SweepRuns
    <3>2. CASE ~Isolated
      BY <1>15, <3>2 DEF Delete, SweepRuns, files
    <3> QED BY <3>1, <3>2
  <2> QED BY <2>1, <2>2
<1>16. CASE Crash
  BY <1>16 DEF Crash, stream, files, client
<1>17. CASE UNCHANGED vars
  BY <1>17 DEF vars, fixed, stream, turn, files, client
<1> QED
  BY <1>1, <1>2, <1>3, <1>4, <1>5, <1>6, <1>7, <1>8, <1>9, <1>10, <1>11, <1>12, <1>13, <1>14, <1>15, <1>16, <1>17
     DEF Next, Begin, Step

\* A bag holds no message twice, and none that was not sent.
Plain(b) == \A m \in Streams : b[m] <= 1 /\ (pc[m] = "new" => b[m] = 0)

OnceInv ==
  ~degraded =>
    /\ Plain(Stored)
    /\ \A p \in Streams : memoryFile[p] # NoFile => Plain(memoryFile[p]) /\ memoryFile[p][origin[p]] = 0
    /\ \A s \in Streams : pc[s] = "turn" => Plain(held[s])
    /\ \A s \in Streams : pc[s] \in {"load", "turn", "memory"} => Stored[origin[s]] = 0

\* What changes no stored message, and no held one that will be stored, leaves OnceInv
\* alone.
OnceFrame ==
  /\ UNCHANGED <<session, memoryFile, degraded>>
  /\ \A s \in Streams :
       /\ pc'[s] = "new" => pc[s] = "new"
       /\ pc[s] # "new" => origin'[s] = origin[s]
       /\ pc'[s] = "turn" => pc[s] = "turn" /\ held'[s] = held[s]
       /\ pc'[s] \in {"load", "turn", "memory"} => pc[s] \in {"load", "turn", "memory"}

\* So OnceInv is kept by such a step.
LEMMA OnceKept == Lineage /\ OnceInv /\ OnceFrame => OnceInv'
<1> SUFFICES ASSUME Lineage, OnceInv, OnceFrame, ~degraded PROVE OnceInv'
  BY DEF OnceFrame, OnceInv
<1>1. UNCHANGED Stored
  BY DEF OnceFrame, Stored
<1>2. \A b : Plain(b) => \A m \in Streams : b[m] <= 1 /\ (pc'[m] = "new" => b[m] = 0)
  BY DEF OnceFrame, Plain
<1>3. Plain(Stored)'
  BY <1>1, <1>2 DEF OnceInv, Plain
<1>4. ASSUME NEW p \in Streams, memoryFile'[p] # NoFile
      PROVE  Plain(memoryFile[p])' /\ memoryFile'[p][origin'[p]] = 0
  <2>1. memoryFile[p] # NoFile /\ memoryFile'[p] = memoryFile[p] /\ origin'[p] = origin[p]
    BY <1>4 DEF OnceFrame, Lineage
  <2>2. Plain(memoryFile[p]) /\ memoryFile[p][origin[p]] = 0
    BY <2>1 DEF OnceInv
  <2> QED BY <1>2, <2>1, <2>2 DEF Plain
<1>5. ASSUME NEW s \in Streams, pc'[s] = "turn" PROVE Plain(held[s])'
  <2>1. Plain(held[s]) /\ held'[s] = held[s]
    BY <1>5 DEF OnceFrame, OnceInv
  <2> QED BY <1>2, <2>1 DEF Plain
<1>6. ASSUME NEW s \in Streams, pc'[s] \in {"load", "turn", "memory"} PROVE Stored'[origin'[s]] = 0
  BY <1>1, <1>6 DEF OnceFrame, OnceInv
<1> QED BY <1>3, <1>4, <1>5, <1>6 DEF OnceInv

\* Every step records a message at most once.
LEMMA OnceStep == TInv /\ Lineage /\ OnceInv /\ [Next]_vars => OnceInv'
<1> SUFFICES ASSUME TInv, Lineage, OnceInv, [Next]_vars PROVE OnceInv'
  OBVIOUS
<1>0. /\ pc \in [Streams -> Points] /\ origin \in [Streams -> Streams]
      /\ held \in [Streams -> Bag] /\ memoryFile \in [Streams -> Bag \cup {NoFile}]
      /\ resumed \in [Streams -> Streams] /\ degraded \in BOOLEAN
      /\ \A s, r \in Active : s = r
      /\ Stored \in Bag
  BY StoredIsBag DEF TInv, TypeOK, Order
<1>1. ASSUME NEW s \in Streams, NEW p \in Streams, TurnDown(s, p) PROVE OnceFrame
  BY <1>0, <1>1 DEF TurnDown, Goto, stream, turn, files, client, OnceFrame
<1>2. ASSUME NEW s \in Streams, NEW p \in Streams, NEW r \in {"request", "safe"}, Continue(s, p, r) PROVE OnceFrame
  BY <1>0, <1>2 DEF Continue, Goto, Found, turn, files, OnceFrame
<1>3. ASSUME NEW s \in Streams, NEW t \in Tools, Call(s, t) PROVE OnceFrame
  BY <1>0, <1>3 DEF Call, stream, files, client, OnceFrame
<1>4. ASSUME NEW s \in Streams, Settle(s) PROVE OnceFrame
  BY <1>0, <1>4 DEF Settle, stream, files, client, OnceFrame
<1>5. ASSUME NEW s \in Streams, Pass(s) PROVE OnceFrame
  BY <1>0, <1>5 DEF Pass, Drain, DrainWhen, stream, files, client, OnceFrame
<1>6. ASSUME NEW s \in Streams, Pause(s) PROVE OnceFrame
  BY <1>0, <1>6 DEF Pause, Goto, Drain, DrainWhen, stream, files, client, OnceFrame
<1>7. ASSUME NEW s \in Streams, SaveEvents(s) PROVE OnceFrame
  BY <1>0, <1>7 DEF SaveEvents, Goto, stream, turn, client, OnceFrame
<1>8. ASSUME NEW s \in Streams, SaveState(s) PROVE OnceFrame
  BY <1>0, <1>8 DEF SaveState, Goto, stream, turn, client, OnceFrame
<1>9. ASSUME NEW s \in Streams, Announce(s) PROVE OnceFrame
  BY <1>0, <1>9 DEF Announce, Goto, stream, turn, files, OnceFrame
<1>10. ASSUME Crash PROVE OnceFrame
  BY <1>0, <1>10 DEF Crash, stream, files, client, OnceFrame, Active
<1>11. ASSUME UNCHANGED vars PROVE OnceFrame
  BY <1>11 DEF vars, stream, turn, files, OnceFrame
<1>12. ASSUME NEW s \in Streams, Send(s) PROVE OnceInv'
  <2>1. /\ pc[s] = "new" /\ Active = {} /\ pc' = [pc EXCEPT ![s] = "load"] /\ origin[s] = s
        /\ UNCHANGED <<session, memoryFile, degraded, origin, held>>
    BY <1>12 DEF Send, Goto, stream, turn, files, Lineage
  <2>2. UNCHANGED Stored
    BY <2>1 DEF Stored
  <2>3. \A q \in Streams \ {s} : pc'[q] = pc[q] /\ pc[q] \in {"new", "over"}
    BY <1>0, <2>1 DEF Active
  <2> SUFFICES ASSUME ~degraded PROVE OnceInv'
    BY <2>1 DEF OnceInv
  <2>4. pc'[s] = "load" /\ Stored[s] = 0
    BY <1>0, <2>1 DEF OnceInv, Plain
  <2> QED BY <2>1, <2>2, <2>3, <2>4 DEF OnceInv, Plain
<1>13. ASSUME NEW s \in Streams, Restore(s) PROVE OnceInv'
  <2>1. /\ pc[s] = "restore" /\ pc' = [pc EXCEPT ![s] = "load"]
        /\ UNCHANGED <<memoryFile, origin, held>>
    BY <1>13, RestoreFrame DEF stream, turn, files
  <2> DEFINE p == resumed[s]
  <2> SUFFICES ASSUME ~degraded' PROVE OnceInv'
    BY DEF OnceInv
  <2>2. ~degraded /\ Snapshot(p) # NoFile /\ session' = Snapshot(p)
    BY <1>0, <1>13 DEF Restore, RestoreAs
  <2>3. session' = memoryFile[p] /\ memoryFile[p] # NoFile /\ p \in Streams
    BY <1>0, <2>2 DEF Snapshot
  <2>4. Stored' = memoryFile[p] /\ Plain(memoryFile[p]) /\ memoryFile[p][origin[s]] = 0
    BY <2>1, <2>2, <2>3 DEF Stored, OnceInv, Lineage
  <2>5. \A q \in Streams \ {s} : pc'[q] = pc[q] /\ pc[q] \in {"new", "over"}
    BY <1>0, <2>1 DEF Active
  <2>6. pc'[s] = "load"
    BY <1>0, <2>1
  <2> QED BY <2>1, <2>2, <2>4, <2>5, <2>6 DEF OnceInv, Plain
<1>14. ASSUME NEW s \in Streams, Load(s) PROVE OnceInv'
  <2>1. /\ pc[s] = "load" /\ pc' = [pc EXCEPT ![s] = "turn"]
        /\ held' = [held EXCEPT ![s] = [Stored EXCEPT ![origin[s]] = @ + 1]]
        /\ UNCHANGED <<session, memoryFile, degraded, origin>>
    BY <1>14 DEF Load, Goto, stream, files
  <2> SUFFICES ASSUME ~degraded PROVE OnceInv'
    BY <2>1 DEF OnceInv
  <2>2. UNCHANGED Stored
    BY <2>1 DEF Stored
  <2>3. \A q \in Streams \ {s} : pc'[q] = pc[q] /\ pc[q] \in {"new", "over"}
    BY <1>0, <2>1 DEF Active
  <2>4. pc'[s] = "turn" /\ held'[s] = [Stored EXCEPT ![origin[s]] = @ + 1]
    BY <1>0, <2>1
  <2>5. Plain(Stored) /\ Stored[origin[s]] = 0 /\ pc[origin[s]] # "new" /\ Stored \in [Streams -> Nat]
    BY <1>0, <2>1 DEF OnceInv, Lineage, Bag
  <2>6. Plain(held[s])'
    BY <1>0, <2>1, <2>3, <2>4, <2>5 DEF Plain
  <2> QED BY <2>1, <2>2, <2>3, <2>4, <2>5, <2>6 DEF OnceInv, Plain
<1>15. ASSUME NEW s \in Streams, Save(s) PROVE OnceInv'
  <2>1. /\ pc[s] = "turn" /\ pc' = [pc EXCEPT ![s] = "over"] /\ session' = held[s]
        /\ UNCHANGED <<held, memoryFile, degraded, origin>>
    BY <1>15 DEF Save, SaveWhen, Goto, stream, turn, files
  <2> SUFFICES ASSUME ~degraded PROVE OnceInv'
    BY <2>1 DEF OnceInv
  <2>2. Stored' = held[s] /\ Plain(held[s])
    BY <1>0, <2>1 DEF Stored, OnceInv
  <2>3. \A q \in Streams \ {s} : pc'[q] = pc[q] /\ pc[q] \in {"new", "over"}
    BY <1>0, <2>1 DEF Active
  <2>4. pc'[s] = "over"
    BY <1>0, <2>1
  <2> QED BY <2>1, <2>2, <2>3, <2>4 DEF OnceInv, Plain
<1>16. ASSUME NEW s \in Streams, SaveMemory(s) PROVE OnceInv'
  <2>1. /\ pc[s] = "memory" /\ pc' = [pc EXCEPT ![s] = "events"]
        /\ memoryFile' \in {memoryFile, [memoryFile EXCEPT ![s] = Stored]}
        /\ UNCHANGED <<session, held, degraded, origin>>
    BY <1>16 DEF SaveMemory, SaveMemoryAs, Goto, stream, turn
  <2> SUFFICES ASSUME ~degraded PROVE OnceInv'
    BY <2>1 DEF OnceInv
  <2>2. UNCHANGED Stored
    BY <2>1 DEF Stored
  <2>3. \A q \in Streams \ {s} : pc'[q] = pc[q] /\ pc[q] \in {"new", "over"}
    BY <1>0, <2>1 DEF Active
  <2>4. Plain(Stored) /\ Stored[origin[s]] = 0 /\ pc'[s] = "events"
    BY <1>0, <2>1 DEF OnceInv
  <2>5. \A q \in Streams : memoryFile'[q] \in {memoryFile[q], Stored} /\ (q # s => memoryFile'[q] = memoryFile[q])
    BY <1>0, <2>1
  <2>6. ASSUME NEW q \in Streams, memoryFile'[q] # NoFile
        PROVE  Plain(memoryFile[q])' /\ memoryFile'[q][origin'[q]] = 0
    BY <2>1, <2>3, <2>4, <2>5, <2>6 DEF OnceInv, Plain
  <2> QED BY <2>1, <2>2, <2>3, <2>4, <2>6 DEF OnceInv, Plain
<1>17. ASSUME Delete PROVE OnceInv'
  <2>1. Active = {} /\ session' = NoFile /\ UNCHANGED <<pc, origin, held, degraded>>
    BY <1>17 DEF Delete, stream, turn
  <2>2. Stored' = Nothing
    BY <2>1 DEF Stored
  <2>3. \A q \in Streams : memoryFile'[q] \in {memoryFile[q], NoFile}
    <3>1. CASE Isolated
      BY <1>17, <3>1 DEF Delete, SweepRuns
    <3>2. CASE ~Isolated
      BY <1>17, <3>2 DEF Delete, SweepRuns, files
    <3> QED BY <3>1, <3>2
  <2>4. \A q \in Streams : pc[q] \in {"new", "over"}
    BY <2>1 DEF Active
  <2>5. \A m \in Streams : Nothing[m] = 0
    BY DEF Nothing
  <2> QED BY <2>1, <2>2, <2>3, <2>4, <2>5 DEF OnceInv, Plain
<1> QED
  BY OnceKept, <1>1, <1>2, <1>3, <1>4, <1>5, <1>6, <1>7, <1>8, <1>9, <1>10, <1>11, <1>12, <1>13, <1>14, <1>15, <1>16, <1>17
     DEF Next, Begin, Step

\* MessageOnce, for any number of pauses, approvals and crashes: as long as snapshots
\* are there to restore, the conversation holds a message at most once, even when a
\* run is approved twice or pauses again after it was resumed.
THEOREM MessageOnceHolds == Spec => []MessageOnce
<1>1. Init => Lineage /\ OnceInv
  <2> SUFFICES ASSUME Init PROVE Lineage /\ OnceInv
    OBVIOUS
  <2>1. \A m \in Streams : Stored[m] = 0
    BY DEF Init, Stored, Nothing
  <2> QED BY <2>1 DEF Init, Lineage, OnceInv, Plain
<1>2. TInv /\ [Next]_vars => TInv'
  BY TypeStep, OrderStep DEF TInv
<1>3. Spec => [](TInv /\ Lineage /\ OnceInv)
  BY <1>1, <1>2, TypeInit, LineageStep, OnceStep, PTL DEF Spec
<1>4. OnceInv => MessageOnce
  BY DEF OnceInv, MessageOnce, Plain, Stored
<1> QED BY <1>3, <1>4, PTL

\* Asked tools wait for an approval of their message, and a refused chat turn does not end
\* in an answer, for any streams, rules, hints and faults.
THEOREM AskIsKept == Spec => []AskHolds
BY AskedWaitsHolds, AskPausesHolds, PTL DEF AskHolds

\* A paused run can be restored and its message is recorded once, whatever fails.
THEOREM PauseSoundHolds == Spec => []PauseSound
BY StateNamesFilesHolds, MessageOnceHolds, PTL DEF PauseSound

=============================================================================
