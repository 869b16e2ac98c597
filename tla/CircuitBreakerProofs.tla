------------------------ MODULE CircuitBreakerProofs ------------------------
(* What is proved of a turn and of the hooks that watch it: of CircuitBreaker, for  *)
(* any number of calls and any threshold; of Tracing, for any turns, programs and   *)
(* ids, and any bounds; of AgentTurn, for any agents and sessions, prices, caps and *)
(* any number of tool calls.                                                        *)
EXTENDS CircuitBreaker, Tracing, AgentTurn, TLAPS

\* The types of what the breaker and the calls keep.
Typed ==
  /\ state \in {"closed", "open", "half_open"}
  /\ failures \in 0..MaxCount
  /\ due \in BOOLEAN /\ probe \in BOOLEAN
  /\ call \in [Calls -> {"idle", "running", "probing", "refused"}]

\* The three invariants hold together and each other's steps.
IInv == Typed /\ TrippedIffFailures /\ ProbeOnlyHalfOpen

\* A breaker starts closed.
LEMMA IInvInit == Init => IInv
<1> SUFFICES ASSUME Init PROVE IInv
  OBVIOUS
<1>1. call \in [Calls -> {"idle", "running", "probing", "refused"}]
  BY DEF Init
<1>2. 0 < Threshold /\ 0 \in 0..MaxCount
  BY CircuitBreakerAssumption
<1> QED
  BY <1>1, <1>2, CircuitBreakerAssumption DEF Init, IInv, Typed, TrippedIffFailures, ProbeOnlyHalfOpen

\* Every allow, report and passing of time keeps the invariant.
LEMMA IInvStep == IInv /\ [Next]_vars => IInv'
<1> SUFFICES ASSUME IInv, [Next]_vars PROVE IInv'
  OBVIOUS
<1> USE CircuitBreakerAssumption DEF IInv, Typed, TrippedIffFailures, ProbeOnlyHalfOpen
<1>1. CASE TimeOut
  BY <1>1 DEF TimeOut
<1>2. ASSUME NEW c \in Calls, AllowClosed(c) PROVE IInv'
  BY <1>2 DEF AllowClosed
<1>3. ASSUME NEW c \in Calls, AllowProbe(c) PROVE IInv'
  BY <1>3 DEF AllowProbe, Probing
<1>4. ASSUME NEW c \in Calls, Refuse(c) PROVE IInv'
  BY <1>4 DEF Refuse
<1>5. ASSUME NEW c \in Calls, Succeed(c) PROVE IInv'
  <2>1. call' \in [Calls -> {"idle", "running", "probing", "refused"}]
    BY <1>5 DEF Succeed
  <2>2. state' = "closed" /\ failures' = 0 /\ probe' = FALSE /\ due' = due
    BY <1>5 DEF Succeed, RecordSuccess
  <2>3. failures' \in 0..MaxCount /\ TrippedIffFailures'
    BY <2>2
  <2>4. Typed'
    BY <2>1, <2>2, <2>3, Zenon
  <2>5. ProbeOnlyHalfOpen'
    BY <2>2, Zenon
  <2> QED  BY <2>3, <2>4, <2>5, Zenon
<1>6. ASSUME NEW c \in Calls, Fail(c) PROVE IInv'
  <2>1. call' \in [Calls -> {"idle", "running", "probing", "refused"}]
    BY <1>6 DEF Fail
  <2>2. failures' = failures + 1 /\ failures' \in 0..MaxCount
    BY <1>6 DEF Fail, RecordFailure
  <2>3. CASE state = "half_open" \/ failures' >= Threshold
    <3>1. state' = "open" /\ due' = FALSE /\ probe' = FALSE
      BY <1>6, <2>3 DEF Fail, RecordFailure
    <3>2. TrippedIffFailures'
      BY <2>2, <2>3, <3>1
    <3>3. Typed'
      BY <2>1, <2>2, <3>1, Zenon
    <3>4. ProbeOnlyHalfOpen'
      BY <3>1, Zenon
    <3> QED  BY <3>2, <3>3, <3>4, Zenon
  <2>4. CASE ~(state = "half_open" \/ failures' >= Threshold)
    <3>1. UNCHANGED <<state, due, probe>>
      BY <1>6, <2>4 DEF Fail, RecordFailure
    <3> QED  BY <2>1, <2>2, <2>4, <3>1
  <2> QED  BY <2>3, <2>4
<1>7. ASSUME NEW c \in Calls, Lose(c) PROVE IInv'
  BY <1>7 DEF Lose
<1>8. CASE UNCHANGED vars
  BY <1>8 DEF vars
<1> QED  BY <1>1, <1>2, <1>3, <1>4, <1>5, <1>6, <1>7, <1>8 DEF Next, Report

LostTyped == lost \in BOOLEAN

\* A probe that got lost stays lost.
LEMMA LostStep == LostTyped /\ [Next]_vars => LostTyped' /\ (lost => lost')
<1> SUFFICES ASSUME LostTyped, [Next]_vars
             PROVE  LostTyped' /\ (lost => lost')
  OBVIOUS
<1> USE DEF LostTyped
<1>1. ASSUME NEW c \in Calls, Lose(c) PROVE LostTyped' /\ (lost => lost')
  BY <1>1, Zenon DEF Lose
<1>2. CASE UNCHANGED lost
  BY <1>2, Zenon
<1>3. ASSUME NEW c \in Calls, AllowClosed(c) \/ AllowProbe(c) \/ Refuse(c) PROVE UNCHANGED lost
  BY <1>3 DEF AllowClosed, AllowProbe, Refuse
<1>4. ASSUME NEW c \in Calls, Succeed(c) \/ Fail(c) PROVE UNCHANGED lost
  BY <1>4 DEF Succeed, Fail
<1>5. CASE TimeOut \/ UNCHANGED vars
  BY <1>5, <1>2 DEF TimeOut, vars
<1> QED  BY <1>1, <1>2, <1>3, <1>4, <1>5, Zenon DEF Next, Report

\* Every variable keeps its type.
THEOREM TypeCorrect == Spec => []TypeOK
<1>1. Init => LostTyped
  BY Zenon DEF Init, LostTyped
<1>2. IInv /\ LostTyped => TypeOK
  BY Zenon DEF IInv, Typed, TypeOK, LostTyped
<1> QED  BY <1>1, <1>2, LostStep, IInvInit, IInvStep, PTL DEF Spec

\* The circuit is closed exactly while fewer than Threshold failures came in a row,
\* for any interleaving of the reports of any number of calls, lost ones included.
THEOREM TrippedIffFailuresHolds == Spec => []TrippedIffFailures
<1>1. IInv => TrippedIffFailures
  BY DEF IInv
<1> QED  BY <1>1, IInvInit, IInvStep, PTL DEF Spec

\* The one-probe flag is up in HALF_OPEN only.
THEOREM ProbeOnlyHalfOpenHolds == Spec => []ProbeOnlyHalfOpen
<1>1. IInv => ProbeOnlyHalfOpen
  BY DEF IInv
<1> QED  BY <1>1, IInvInit, IInvStep, PTL DEF Spec

\* While no probe gets lost, a step leaves the flag standing for a running probe.
LEMMA FlagStep ==
  ASSUME IInv, LostTyped, FlagMeansProbe, ~lost', [Next]_vars
  PROVE  FlagMeansProbe'
<1> USE DEF IInv, Typed, FlagMeansProbe, LostTyped
<1>1. CASE TimeOut \/ UNCHANGED vars
  BY <1>1 DEF TimeOut, vars
<1>2. ASSUME NEW c \in Calls, AllowProbe(c) PROVE FlagMeansProbe'
  BY <1>2 DEF AllowProbe
<1>3. ASSUME NEW c \in Calls, AllowClosed(c) \/ Refuse(c) PROVE FlagMeansProbe'
  BY <1>3 DEF AllowClosed, Refuse
<1>4. ASSUME NEW c \in Calls, Succeed(c) PROVE FlagMeansProbe'
  BY <1>4 DEF Succeed, RecordSuccess
<1>5. ASSUME NEW c \in Calls, Fail(c) PROVE FlagMeansProbe'
  BY <1>5 DEF Fail, RecordFailure, ProbeOnlyHalfOpen
<1>6. ASSUME NEW c \in Calls, Lose(c) PROVE FlagMeansProbe'
  <2>1. call[c] # "probing"
    BY <1>6, Zenon DEF Lose
  <2> QED  BY <1>6, <2>1 DEF Lose
<1> QED  BY <1>1, <1>2, <1>3, <1>4, <1>5, <1>6 DEF Next, Report

\* As long as every probe reports, the flag says the truth.
THEOREM ProbeInFlightHolds == Spec => []ProbeInFlight
<1>1. Init => ProbeInFlight /\ LostTyped
  BY Zenon DEF Init, ProbeInFlight, FlagMeansProbe, LostTyped
<1>2. IInv /\ LostTyped /\ ProbeInFlight /\ [Next]_vars => ProbeInFlight'
  BY FlagStep, LostStep DEF ProbeInFlight
<1> QED  BY <1>1, <1>2, LostStep, IInvInit, IInvStep, PTL DEF Spec

\* The probe flag is up in HALF_OPEN only, and stands for a running probe unless one got lost.
THEOREM ProbeSoundHolds == Spec => []ProbeSound
BY ProbeOnlyHalfOpenHolds, ProbeInFlightHolds, PTL DEF ProbeSound

\* When the circuit opens and what its probe flag means, for any calls and threshold
\* (circuit.py, allow, record_success, record_failure).
THEOREM BreakerSoundHolds == Spec => []BreakerSound
BY TrippedIffFailuresHolds, ProbeSoundHolds, PTL DEF BreakerSound

-----------------------------------------------------------------------------
(* Tracing.  What the hook keeps (HookInv) is proved of a start and of an end told  *)
(* to it, and lifted over the actions; Observed relates its spans to the turns and     *)
(* programs, and InOrder the dispatches that wait to their programs.                *)

Owners == Turns \cup Programs
SpanRecords ==
  [key : Keys, owner : Owners, state : {"open", "ended", "failed"}, endedBy : Owners, parent : Nat]
ProgramKey == <<"step", NoId>>

\* The dictionaries hold open spans, under their own keys.
Filed ==
  /\ spans \in Seq(SpanRecords) /\ open \in [Keys -> Nat] /\ mixed \in BOOLEAN
  /\ \A k \in Keys : open[k] # 0 =>
       open[k] \in DOMAIN spans /\ spans[open[k]].state = "open" /\ spans[open[k]].key = k

\* The span of a turn has its key, that of a program the one all programs have; and a
\* parent is an earlier span, of the turn that owns the child.
Shaped ==
  \A s \in DOMAIN spans :
    /\ spans[s].key[1] = "turn" => spans[s].key = <<"turn", spans[s].owner>>
    /\ spans[s].owner \in Programs => spans[s].key = ProgramKey
    /\ spans[s].parent # 0 =>
         spans[s].parent < s /\ spans[spans[s].parent].key = <<"turn", spans[s].owner>>

\* Until a key is in use twice, an open span is the one under its key, and a span was ended
\* by its owner.
Unmixed ==
  ~mixed => \A s \in DOMAIN spans :
    /\ spans[s].state = "open" => open[spans[s].key] = s
    /\ spans[s].endedBy = spans[s].owner

HookInv == Filed /\ Shaped /\ Unmixed

\* A start that is told to the hook.
LEMMA StartSpanKeeps ==
  ASSUME HookInv, NEW key \in Keys, NEW owner \in Owners, StartSpan(key, owner),
         key[1] = "turn" => key = <<"turn", owner>>, owner \in Programs => key = ProgramKey
  PROVE  /\ HookInv'
         /\ Len(spans') = Len(spans) + 1 /\ DOMAIN spans' = DOMAIN spans \cup {Len(spans) + 1}
         /\ \A s \in DOMAIN spans : spans'[s] = spans[s] /\ s # Len(spans) + 1
         /\ spans'[Len(spans) + 1].key = key /\ spans'[Len(spans) + 1].owner = owner
         /\ open'[key] = Len(spans) + 1 /\ \A k \in Keys : k # key => open'[k] = open[k]
         /\ ~mixed' => ~mixed /\ open[key] = 0
<1>1. /\ spans \in Seq(SpanRecords) /\ open \in [Keys -> Nat] /\ mixed \in BOOLEAN
      /\ Len(spans) \in Nat /\ DOMAIN spans = 1..Len(spans)
  BY DEF HookInv, Filed
<1>2. PICK parent : parent = IF key[1] = "turn" THEN 0 ELSE ParentOf(owner)
  OBVIOUS
<1>3. /\ parent \in Nat
      /\ parent # 0 => parent \in DOMAIN spans /\ spans[parent].key = <<"turn", owner>>
  <2>1. owner \in Turns => <<"turn", owner>> \in Keys
    BY DEF Keys
  <2>2. CASE owner \in Turns /\ key[1] # "turn"
    <3>1. parent = open[<<"turn", owner>>]
      BY <1>2, <2>2 DEF ParentOf
    <3> QED  BY <1>1, <2>1, <2>2, <3>1 DEF HookInv, Filed
  <2>3. CASE ~(owner \in Turns /\ key[1] # "turn")
    BY <1>2, <2>3 DEF ParentOf
  <2> QED  BY <2>2, <2>3
<1>4. PICK new : new = [key |-> key, owner |-> owner, state |-> "open", endedBy |-> owner, parent |-> parent]
  OBVIOUS
<1>5. /\ new \in SpanRecords /\ new.key = key /\ new.owner = owner /\ new.state = "open"
      /\ new.endedBy = owner /\ new.parent = parent
  BY <1>3, <1>4 DEF SpanRecords
<1>6. /\ spans' = Append(spans, new) /\ open' = [open EXCEPT ![key] = Len(spans) + 1]
      /\ mixed' = (mixed \/ open[key] # 0)
  BY <1>2, <1>4 DEF StartSpan
<1>7. /\ spans' \in Seq(SpanRecords) /\ Len(spans') = Len(spans) + 1
      /\ DOMAIN spans' = DOMAIN spans \cup {Len(spans) + 1}
      /\ \A s \in DOMAIN spans : spans'[s] = spans[s] /\ s # Len(spans) + 1
      /\ spans'[Len(spans) + 1] = new
  BY <1>1, <1>5, <1>6
<1>8. /\ open' \in [Keys -> Nat] /\ open'[key] = Len(spans) + 1
      /\ \A k \in Keys : k # key => open'[k] = open[k]
  BY <1>1, <1>6
<1>9. mixed' \in BOOLEAN /\ (~mixed' => ~mixed /\ open[key] = 0)
  BY <1>1, <1>6
<1>10. Filed'
  <2> SUFFICES ASSUME NEW k \in Keys, open'[k] # 0
        PROVE open'[k] \in DOMAIN spans' /\ spans'[open'[k]].state = "open" /\ spans'[open'[k]].key = k
    BY <1>7, <1>8, <1>9 DEF Filed
  <2>1. CASE k = key
    BY <1>5, <1>7, <1>8, <2>1
  <2>2. CASE k # key
    <3>1. open[k] \in DOMAIN spans /\ spans[open[k]].state = "open" /\ spans[open[k]].key = k
      BY <1>8, <2>2 DEF HookInv, Filed
    <3> QED  BY <1>7, <1>8, <2>2, <3>1
  <2> QED  BY <2>1, <2>2
<1>11. Shaped'
  <2> SUFFICES ASSUME NEW s \in DOMAIN spans'
        PROVE /\ spans'[s].key[1] = "turn" => spans'[s].key = <<"turn", spans'[s].owner>>
              /\ spans'[s].owner \in Programs => spans'[s].key = ProgramKey
              /\ spans'[s].parent # 0 =>
                   spans'[s].parent < s /\ spans'[spans'[s].parent].key = <<"turn", spans'[s].owner>>
    BY DEF Shaped, ProgramKey
  <2>1. CASE s \in DOMAIN spans
    <3>1. PICK sp \in SpanRecords : sp = spans[s] /\ sp = spans'[s]
      BY <1>1, <1>7, <2>1
    <3>2. /\ sp.key[1] = "turn" => sp.key = <<"turn", sp.owner>>
          /\ sp.owner \in Programs => sp.key = ProgramKey
          /\ sp.parent # 0 => sp.parent < s /\ spans[sp.parent].key = <<"turn", sp.owner>>
      BY <2>1, <3>1 DEF HookInv, Shaped
    <3>3. sp.parent # 0 => sp.parent \in DOMAIN spans
      BY <1>1, <2>1, <3>2 DEF SpanRecords
    <3> QED  BY <1>7, <3>1, <3>2, <3>3
  <2>2. CASE s = Len(spans) + 1
    <3>1. spans'[s] = new
      BY <1>7, <2>2
    <3>2. parent # 0 => parent < s /\ spans'[parent].key = <<"turn", owner>>
      BY <1>1, <1>3, <1>7, <2>2
    <3> QED  BY <1>5, <3>1, <3>2
  <2> QED  BY <1>7, <2>1, <2>2
<1>12. Unmixed'
  <2> SUFFICES ASSUME ~mixed', NEW s \in DOMAIN spans'
        PROVE /\ spans'[s].state = "open" => open'[spans'[s].key] = s
              /\ spans'[s].endedBy = spans'[s].owner
    BY DEF Unmixed
  <2>1. CASE s \in DOMAIN spans
    <3>1. PICK sp \in SpanRecords : sp = spans[s] /\ sp = spans'[s]
      BY <1>1, <1>7, <2>1
    <3>2. (sp.state = "open" => open[sp.key] = s) /\ sp.endedBy = sp.owner
      BY <1>9, <2>1, <3>1 DEF HookInv, Unmixed
    <3>3. sp.state = "open" => sp.key # key
      BY <1>1, <1>9, <2>1, <3>2
    <3>4. sp.key \in Keys
      BY DEF SpanRecords
    <3> QED  BY <1>8, <3>1, <3>2, <3>3, <3>4
  <2>2. CASE s = Len(spans) + 1
    BY <1>5, <1>7, <1>8, <2>2
  <2> QED  BY <1>7, <2>1, <2>2
<1> QED  BY <1>5, <1>7, <1>8, <1>9, <1>10, <1>11, <1>12 DEF HookInv

\* An end that is told to the hook.
LEMMA EndSpanKeeps ==
  ASSUME HookInv, NEW key \in Keys, NEW by \in Owners, NEW how \in {"ended", "failed"},
         EndSpan(key, by, how), mixed' \in BOOLEAN,
         ~mixed' => ~mixed /\ (open[key] # 0 => spans[open[key]].owner = by)
  PROVE  /\ HookInv'
         /\ Len(spans') = Len(spans) /\ DOMAIN spans' = DOMAIN spans
         /\ \A s \in DOMAIN spans : /\ spans'[s].key = spans[s].key /\ spans'[s].owner = spans[s].owner
                                    /\ spans'[s].state = "open" => s # open[key] /\ spans[s].state = "open"
         /\ open'[key] = 0 /\ \A k \in Keys : k # key => open'[k] = open[k]
<1>1. /\ spans \in Seq(SpanRecords) /\ open \in [Keys -> Nat]
      /\ Len(spans) \in Nat /\ DOMAIN spans = 1..Len(spans)
  BY DEF HookInv, Filed
<1>2. /\ open' = [open EXCEPT ![key] = 0] /\ spans' = EndedSpan(key, by, how)
      /\ open' \in [Keys -> Nat] /\ open'[key] = 0 /\ \A k \in Keys : k # key => open'[k] = open[k]
  BY <1>1 DEF EndSpan
<1>3. /\ spans' \in Seq(SpanRecords) /\ Len(spans') = Len(spans) /\ DOMAIN spans' = DOMAIN spans
      /\ \A s \in DOMAIN spans : s # open[key] => spans'[s] = spans[s]
      /\ open[key] # 0 =>
           LET s == open[key] IN
           /\ spans'[s].key = spans[s].key /\ spans'[s].owner = spans[s].owner
           /\ spans'[s].parent = spans[s].parent /\ spans'[s].state = how /\ spans'[s].endedBy = by
  <2>1. CASE open[key] = 0
    BY <1>1, <1>2, <2>1 DEF EndedSpan
  <2>2. CASE open[key] # 0
    <3>1. PICK s \in DOMAIN spans : s = open[key]
      BY <2>2 DEF HookInv, Filed
    <3>2. PICK sp \in SpanRecords : sp = spans[s]
      BY <1>1
    <3>3. PICK new : new = [sp EXCEPT !.state = how, !.endedBy = by]
      OBVIOUS
    <3>4. /\ new \in SpanRecords /\ new.key = sp.key /\ new.owner = sp.owner /\ new.parent = sp.parent
          /\ new.state = how /\ new.endedBy = by
      BY <3>3 DEF SpanRecords
    <3>5. spans' = [spans EXCEPT ![s] = new]
      <4>1. spans' = [[spans EXCEPT ![s].state = how] EXCEPT ![s].endedBy = by]
        BY <1>2, <2>2, <3>1 DEF EndedSpan
      <4> QED  BY <1>1, <3>2, <3>3, <4>1
    <3>6. spans' \in Seq(SpanRecords) /\ Len(spans') = Len(spans) /\ DOMAIN spans' = DOMAIN spans
      BY <1>1, <3>4, <3>5
    <3> QED  BY <1>1, <3>1, <3>2, <3>4, <3>5, <3>6
  <2> QED  BY <2>1, <2>2
<1>4. \A s \in DOMAIN spans :
        /\ spans'[s].key = spans[s].key /\ spans'[s].owner = spans[s].owner
        /\ spans'[s].parent = spans[s].parent
        /\ spans'[s].state = "open" => s # open[key] /\ spans[s].state = "open"
  <2> SUFFICES ASSUME NEW s \in DOMAIN spans
        PROVE /\ spans'[s].key = spans[s].key /\ spans'[s].owner = spans[s].owner
              /\ spans'[s].parent = spans[s].parent
              /\ spans'[s].state = "open" => s # open[key] /\ spans[s].state = "open"
    OBVIOUS
  <2>1. CASE s = open[key]
    BY <1>1, <1>3, <2>1
  <2>2. CASE s # open[key]
    BY <1>3, <2>2
  <2> QED  BY <2>1, <2>2
<1>5. Filed'
  <2> SUFFICES ASSUME NEW k \in Keys, open'[k] # 0
        PROVE open'[k] \in DOMAIN spans' /\ spans'[open'[k]].state = "open" /\ spans'[open'[k]].key = k
    BY <1>2, <1>3 DEF Filed
  <2>1. k # key /\ open'[k] = open[k]
    BY <1>2
  <2>2. open[k] \in DOMAIN spans /\ spans[open[k]].state = "open" /\ spans[open[k]].key = k
    BY <2>1 DEF HookInv, Filed
  <2>3. open[k] # open[key]
    BY <2>1, <2>2 DEF HookInv, Filed
  <2> QED  BY <1>3, <2>1, <2>2, <2>3
<1>6. Shaped'
  <2> SUFFICES ASSUME NEW s \in DOMAIN spans
        PROVE /\ spans'[s].key[1] = "turn" => spans'[s].key = <<"turn", spans'[s].owner>>
              /\ spans'[s].owner \in Programs => spans'[s].key = ProgramKey
              /\ spans'[s].parent # 0 =>
                   spans'[s].parent < s /\ spans'[spans'[s].parent].key = <<"turn", spans'[s].owner>>
    BY <1>3 DEF Shaped, ProgramKey
  <2>1. PICK sp \in SpanRecords : sp = spans[s]
    BY <1>1
  <2>2. /\ sp.key[1] = "turn" => sp.key = <<"turn", sp.owner>>
        /\ sp.owner \in Programs => sp.key = ProgramKey
        /\ sp.parent # 0 => sp.parent < s /\ spans[sp.parent].key = <<"turn", sp.owner>>
    BY <2>1 DEF HookInv, Shaped
  <2>3. sp.parent # 0 => sp.parent \in DOMAIN spans
    BY <1>1, <2>2 DEF SpanRecords
  <2>4. spans'[s].key = sp.key /\ spans'[s].owner = sp.owner /\ spans'[s].parent = sp.parent
    BY <1>4, <2>1
  <2> QED  BY <1>4, <2>2, <2>3, <2>4
<1>7. Unmixed'
  <2> SUFFICES ASSUME ~mixed', NEW s \in DOMAIN spans
        PROVE /\ spans'[s].state = "open" => open'[spans'[s].key] = s
              /\ spans'[s].endedBy = spans'[s].owner
    BY <1>3 DEF Unmixed
  <2>1. /\ spans[s].state = "open" => open[spans[s].key] = s
        /\ spans[s].endedBy = spans[s].owner
    BY DEF HookInv, Unmixed
  <2>2. spans[s].key \in Keys
    <3>1. spans[s] \in SpanRecords
      BY <1>1
    <3> QED  BY <3>1 DEF SpanRecords
  <2>3. CASE s = open[key]
    BY <1>1, <1>3, <1>4, <2>3
  <2>4. CASE s # open[key]
    BY <1>2, <1>3, <2>1, <2>2, <2>4
  <2> QED  BY <2>3, <2>4
<1> QED  BY <1>2, <1>3, <1>4, <1>5, <1>6, <1>7 DEF HookInv

LEMMA HookIdle == ASSUME HookInv, UNCHANGED hookVars PROVE HookInv'
  BY DEF hookVars, HookInv, Filed, Shaped, Unmixed

-----------------------------------------------------------------------------
EventIds == {"program", "call", "stray"} \X Programs \X Nat
Events ==
  [program : Programs, subject : {"program", "call"}, phase : {"start", "progress", "complete", "error"},
   id : EventIds, no : Nat]

RunTypes ==
  /\ turn \in [Turns -> {"new", "open", "errored", "done", "left"}]
  /\ active \in [Turns -> SUBSET ({"tool", "step"} \X Ids)]
  /\ program \in [Programs -> {"idle", "running", "done", "failed", "cancelled"}]
  /\ calls \in [Programs -> Nat] /\ unit \in [Programs -> Nat]
  /\ spanIds \in [Programs -> [program : EventIds \cup {<<>>}, call : EventIds \cup {<<>>}]]
  /\ pending \in Seq(Events)

\* A scheduled event of program p, and that there is one.
Tells(e, p, phase) == e.program = p /\ e.subject = "program" /\ e.phase = phase
Awaits(p, phase) == \E i \in DOMAIN pending : Tells(pending[i], p, phase)

\* An event carries the id its call or program started with, and the entries are there.
Carries(e) == IF e.subject = "call" THEN e.id = <<"call", e.program, e.no>> ELSE e.id[1] = "program"
Carried ==
  /\ \A i \in DOMAIN pending : Carries(pending[i])
  /\ \A p \in Programs :
       /\ program[p] = "running" => spanIds[p].program \in EventIds /\ spanIds[p].program[1] = "program"
       /\ unit[p] # 0 => spanIds[p].call = <<"call", p, unit[p]>>

\* A program is started before its start waits, and done, once, before its end does.
InOrder ==
  /\ \A p \in Programs :
       /\ Awaits(p, "start") => program[p] # "idle"
       /\ Awaits(p, "complete") => program[p] = "done"
       /\ ~mixed /\ program[p] = "done" /\ Awaits(p, "start") => Awaits(p, "complete")
  /\ \A i, j \in DOMAIN pending : \A p \in Programs :
       Tells(pending[i], p, "complete") /\ Tells(pending[j], p, "complete") => i = j

\* The hook was told that p started and not that it is done.
Told(p) ==
  program[p] # "idle" /\ ~Awaits(p, "start") /\ (program[p] # "done" \/ Awaits(p, "complete"))

\* Until a key is in use twice, spans are open for work that goes on, and that work has them.
Observed ==
  ~mixed =>
    /\ \A s \in DOMAIN spans : spans[s].state = "open" => Untold(spans[s])
    /\ \A t \in Turns : \A key \in active[t] : open[key] # 0 /\ spans[open[key]].owner = t
    /\ \A p \in Programs : Told(p) => open[ProgramKey] # 0 /\ spans[open[ProgramKey]].owner = p

TraceInv == HookInv /\ RunTypes /\ Carried /\ InOrder /\ Observed

LEMMA TraceInvInit == TraceInit => TraceInv
<1> SUFFICES ASSUME TraceInit PROVE TraceInv
  OBVIOUS
<1>1. /\ spans = <<>> /\ open = [k \in Keys |-> 0] /\ mixed = FALSE /\ pending = <<>>
      /\ turn = [t \in Turns |-> "new"] /\ active = [t \in Turns |-> {}]
      /\ program = [p \in Programs |-> "idle"] /\ calls = [p \in Programs |-> 0]
      /\ spanIds = [p \in Programs |-> [program |-> <<>>, call |-> <<>>]]
      /\ unit = [p \in Programs |-> 0]
  BY DEF TraceInit
<1>2. HookInv
  <2>1. Filed
    <3>1. <<>> \in Seq(SpanRecords) /\ \A k \in Keys : open[k] = 0
      BY <1>1
    <3> QED  BY <1>1, <3>1 DEF Filed
  <2>2. Shaped /\ Unmixed
    <3>1. DOMAIN spans = {}
      BY <1>1
    <3> QED  BY <3>1 DEF Shaped, Unmixed
  <2> QED  BY <2>1, <2>2 DEF HookInv
<1>3. RunTypes
  BY <1>1 DEF RunTypes
<1>4. \A p, phase : ~Awaits(p, phase)
  BY <1>1 DEF Awaits
<1>5. Carried /\ InOrder
  BY <1>1, <1>4 DEF Carried, InOrder
<1>6. Observed
  BY <1>1 DEF Observed, Told
<1> QED  BY <1>2, <1>3, <1>5, <1>6 DEF TraceInv

\* What waits for whom is as it was when no event was scheduled or reached.
LEMMA AwaitsStays == ASSUME UNCHANGED pending PROVE \A p, phase : Awaits(p, phase)' = Awaits(p, phase)
  BY DEF Awaits

\* What a turn does leaves the programs and their events.
LEMMA TurnLeaves ==
  ASSUME TraceInv, UNCHANGED adapterVars, ~mixed' => ~mixed,
         turn' \in [Turns -> {"new", "open", "errored", "done", "left"}],
         active' \in [Turns -> SUBSET ({"tool", "step"} \X Ids)]
  PROVE  RunTypes' /\ Carried' /\ InOrder' /\ \A p : Told(p)' = Told(p)
<1>1. UNCHANGED <<program, calls, spanIds, unit, pending>>
  BY DEF adapterVars
<1>2. \A p, phase : Awaits(p, phase)' = Awaits(p, phase)
  BY <1>1, AwaitsStays
<1>3. RunTypes' /\ Carried'
  BY <1>1 DEF TraceInv, RunTypes, Carried, Carries
<1>4. InOrder'
  BY <1>1, <1>2 DEF TraceInv, InOrder, Tells
<1>5. \A p : Told(p)' = Told(p)
  BY <1>1, <1>2 DEF Told
<1> QED  BY <1>3, <1>4, <1>5

\* Keys of turns, of their work and of programs are different keys.
LEMMA KeysDiffer ==
  /\ ProgramKey \in Keys /\ \A t \in Turns : <<"turn", t>> \in Keys /\ <<"turn", t>> # ProgramKey
  /\ \A key \in {"tool", "step"} \X Ids :
       key \in Keys /\ key # ProgramKey /\ key[1] # "turn" /\ \A t \in Turns : key # <<"turn", t>>
  BY TraceAssumption DEF Keys, ProgramKey

\* A turn or a piece of its work starts.
LEMMA StartedTurn ==
  ASSUME TraceInv, NEW t \in Turns, NEW key \in Keys, StartSpan(key, t), UNCHANGED adapterVars,
         \/ key = <<"turn", t>> /\ turn' = [turn EXCEPT ![t] = "open"] /\ active' = active
         \/ /\ key \in {"tool", "step"} \X Ids /\ turn' = turn
            /\ active' = [active EXCEPT ![t] = @ \cup {key}]
  PROVE  TraceInv'
<1>1. /\ turn \in [Turns -> {"new", "open", "errored", "done", "left"}]
      /\ active \in [Turns -> SUBSET ({"tool", "step"} \X Ids)]
      /\ spans \in Seq(SpanRecords) /\ open \in [Keys -> Nat]
  BY DEF TraceInv, RunTypes, HookInv, Filed
<1>2. /\ HookInv'
      /\ Len(spans') = Len(spans) + 1 /\ DOMAIN spans' = DOMAIN spans \cup {Len(spans) + 1}
      /\ \A s \in DOMAIN spans : spans'[s] = spans[s] /\ s # Len(spans) + 1
      /\ spans'[Len(spans) + 1].key = key /\ spans'[Len(spans) + 1].owner = t
      /\ open'[key] = Len(spans) + 1 /\ \A k \in Keys : k # key => open'[k] = open[k]
      /\ ~mixed' => ~mixed /\ open[key] = 0
  <2>1. key[1] = "turn" => key = <<"turn", t>>
    BY KeysDiffer
  <2>2. t \in Owners /\ t \notin Programs
    BY TraceAssumption DEF Owners
  <2> QED  BY <2>1, <2>2, StartSpanKeeps DEF TraceInv
<1>3. /\ turn' \in [Turns -> {"new", "open", "errored", "done", "left"}]
      /\ active' \in [Turns -> SUBSET ({"tool", "step"} \X Ids)]
      /\ \A u \in Turns : active[u] \subseteq active'[u]
      /\ \A u \in Turns : \A k \in active'[u] : k \in active[u] \/ (u = t /\ k = key)
      /\ \A u \in Turns : turn'[u] \in {"errored", "done"} => turn[u] \in {"errored", "done"}
  <2>1. CASE turn' = [turn EXCEPT ![t] = "open"] /\ active' = active
    BY <1>1, <2>1
  <2>2. CASE /\ key \in {"tool", "step"} \X Ids /\ turn' = turn
             /\ active' = [active EXCEPT ![t] = @ \cup {key}]
    <3>1. \A u \in Turns : active'[u] = IF u = t THEN active[u] \cup {key} ELSE active[u]
      BY <1>1, <2>2
    <3> QED  BY <1>1, <2>2, <3>1
  <2> QED  BY <2>1, <2>2
<1>4. RunTypes' /\ Carried' /\ InOrder' /\ \A p : Told(p)' = Told(p)
  BY <1>2, <1>3, TurnLeaves
<1>5. Observed'
  <2> SUFFICES ASSUME ~mixed'
        PROVE /\ \A s \in DOMAIN spans' : spans'[s].state = "open" => Untold(spans[s])'
              /\ \A u \in Turns : \A k \in active'[u] : open'[k] # 0 /\ spans'[open'[k]].owner = u
              /\ \A p \in Programs : Told(p) => open'[ProgramKey] # 0 /\ spans'[open'[ProgramKey]].owner = p
    BY <1>4 DEF Observed, ProgramKey
  <2>1. ~mixed /\ open[key] = 0
    BY <1>2
  <2>2. \A p, phase : Awaits(p, phase)' = Awaits(p, phase)
    BY AwaitsStays DEF adapterVars
  <2>3. ASSUME NEW s \in DOMAIN spans', spans'[s].state = "open" PROVE Untold(spans[s])'
    <3>1. CASE s \in DOMAIN spans
      <4>1. PICK sp \in SpanRecords : sp = spans[s] /\ sp = spans'[s]
        BY <1>1, <1>2, <3>1
      <4>a. spans[s].state = "open"
        BY <2>3, <4>1
      <4>b. Untold(spans[s])
        BY <2>1, <3>1, <4>a DEF TraceInv, Observed
      <4>2. Untold(sp)
        BY <4>1, <4>b
      <4>3. Untold(sp)'
        BY <1>3, <4>2 DEF Untold, adapterVars
      <4> QED  BY <4>1, <4>3
    <3>2. CASE s = Len(spans) + 1
      <4>1. PICK sp : sp = spans'[s]
        OBVIOUS
      <4>2. sp.key = key /\ sp.owner = t
        BY <1>2, <3>2, <4>1
      <4>3. CASE key = <<"turn", t>> /\ turn' = [turn EXCEPT ![t] = "open"]
        <5>1. Untold(sp)'
          BY <1>1, <4>2, <4>3 DEF Untold
        <5> QED  BY <4>1, <5>1
      <4>4. CASE key \in {"tool", "step"} \X Ids /\ active' = [active EXCEPT ![t] = @ \cup {key}]
        <5>1. key \in active'[t] /\ key[1] # "turn"
          BY <1>1, <4>4, KeysDiffer
        <5>2. Untold(sp)'
          BY <4>2, <5>1 DEF Untold
        <5> QED  BY <4>1, <5>2
      <4> QED  BY <4>3, <4>4
    <3> QED  BY <1>2, <3>1, <3>2
  <2>4. ASSUME NEW u \in Turns, NEW k \in active'[u] PROVE open'[k] # 0 /\ spans'[open'[k]].owner = u
    <3>1. CASE k \in active[u]
      <4>1. open[k] # 0 /\ spans[open[k]].owner = u /\ k \in Keys /\ k # key
        BY <1>1, <2>1, <3>1, KeysDiffer DEF TraceInv, Observed
      <4>2. open[k] \in DOMAIN spans
        BY <4>1 DEF TraceInv, HookInv, Filed
      <4> QED  BY <1>2, <4>1, <4>2
    <3>2. CASE u = t /\ k = key
      BY <1>1, <1>2, <3>2
    <3> QED  BY <1>3, <3>1, <3>2
  <2>5. ASSUME NEW p \in Programs, Told(p)
        PROVE  open'[ProgramKey] # 0 /\ spans'[open'[ProgramKey]].owner = p
    <3>1. open[ProgramKey] # 0 /\ spans[open[ProgramKey]].owner = p /\ ProgramKey # key
      BY <2>1, <2>5, KeysDiffer DEF TraceInv, Observed
    <3>2. open[ProgramKey] \in DOMAIN spans
      BY <3>1, KeysDiffer DEF TraceInv, HookInv, Filed
    <3> QED  BY <1>2, <3>1, <3>2, KeysDiffer
  <2> QED  BY <2>3, <2>4, <2>5
<1> QED  BY <1>2, <1>4, <1>5 DEF TraceInv

\* A turn or a piece of its work ends.
LEMMA EndedTurn ==
  ASSUME TraceInv, NEW t \in Turns, NEW key \in Keys, NEW how \in {"ended", "failed"},
         EndSpan(key, t, how), UNCHANGED adapterVars, mixed' = mixed,
         \/ key = <<"turn", t>> /\ active' = active
              /\ \E now \in {"errored", "done"} : turn' = [turn EXCEPT ![t] = now]
         \/ /\ key \in active[t] /\ turn' = turn
            /\ active' = [active EXCEPT ![t] = @ \ {key}]
  PROVE  TraceInv'
<1>1. /\ turn \in [Turns -> {"new", "open", "errored", "done", "left"}]
      /\ active \in [Turns -> SUBSET ({"tool", "step"} \X Ids)]
      /\ spans \in Seq(SpanRecords) /\ open \in [Keys -> Nat] /\ mixed \in BOOLEAN
  BY DEF TraceInv, RunTypes, HookInv, Filed
<1>2. ~mixed /\ open[key] # 0 => spans[open[key]].owner = t
  <2> SUFFICES ASSUME ~mixed, open[key] # 0 PROVE spans[open[key]].owner = t
    OBVIOUS
  <2>1. CASE key = <<"turn", t>>
    <3>1. open[key] \in DOMAIN spans /\ spans[open[key]].key = key
      BY DEF TraceInv, HookInv, Filed
    <3>2. key[1] = "turn" /\ <<"turn", spans[open[key]].owner>> = <<"turn", t>>
      BY <2>1, <3>1 DEF TraceInv, HookInv, Shaped
    <3> QED  BY <3>2
  <2>2. CASE key \in active[t]
    BY <2>2 DEF TraceInv, Observed
  <2> QED  BY <2>1, <2>2
<1>3. /\ HookInv'
      /\ Len(spans') = Len(spans) /\ DOMAIN spans' = DOMAIN spans
      /\ \A s \in DOMAIN spans : /\ spans'[s].key = spans[s].key /\ spans'[s].owner = spans[s].owner
                                 /\ spans'[s].state = "open" => s # open[key] /\ spans[s].state = "open"
      /\ open'[key] = 0 /\ \A k \in Keys : k # key => open'[k] = open[k]
  <2>1. t \in Owners
    BY DEF Owners
  <2> QED  BY <1>1, <1>2, <2>1, EndSpanKeeps DEF TraceInv
<1>4. /\ turn' \in [Turns -> {"new", "open", "errored", "done", "left"}]
      /\ active' \in [Turns -> SUBSET ({"tool", "step"} \X Ids)]
      /\ \A u \in Turns : active'[u] \subseteq active[u]
      /\ \A u \in Turns : \A k \in active[u] : k \in active'[u] \/ (u = t /\ k = key)
      /\ \A u \in Turns : u # t => turn'[u] = turn[u]
      /\ turn' = turn \/ key = <<"turn", t>>
  BY <1>1
<1>5. RunTypes' /\ Carried' /\ InOrder' /\ \A p : Told(p)' = Told(p)
  BY <1>4, TurnLeaves
<1>6. Observed'
  <2> SUFFICES ASSUME ~mixed
        PROVE /\ \A s \in DOMAIN spans : spans'[s].state = "open" => Untold(spans[s])'
              /\ \A u \in Turns : \A k \in active'[u] : open'[k] # 0 /\ spans'[open'[k]].owner = u
              /\ \A p \in Programs : Told(p) => open'[ProgramKey] # 0 /\ spans'[open'[ProgramKey]].owner = p
    BY <1>3, <1>5 DEF Observed, ProgramKey
  <2>3. ASSUME NEW s \in DOMAIN spans, spans'[s].state = "open" PROVE Untold(spans[s])'
    <3>1. PICK sp : sp = spans[s]
      OBVIOUS
    <3>2. PICK new : new = spans'[s]
      OBVIOUS
    <3>3. new.key = sp.key /\ new.owner = sp.owner /\ sp.state = "open" /\ s # open[key]
      BY <1>3, <2>3, <3>1, <3>2
    <3>4. Untold(sp) /\ open[sp.key] = s /\ sp.key # key
      BY <3>1, <3>3 DEF TraceInv, Observed, HookInv, Unmixed
    <3>5. sp.key[1] = "turn" => sp.key = <<"turn", sp.owner>>
      BY <3>1 DEF TraceInv, HookInv, Shaped
    <3>6. CASE sp.owner \in Turns /\ sp.key[1] = "turn"
      <4>1. turn'[sp.owner] = turn[sp.owner]
        BY <1>4, <3>4, <3>5, <3>6
      <4>2. Untold(new)'
        BY <3>3, <3>4, <3>6, <4>1 DEF Untold
      <4> QED  BY <3>2, <4>2
    <3>7. CASE sp.owner \in Turns /\ sp.key[1] # "turn"
      <4>1. sp.key \in active'[sp.owner]
        BY <1>4, <3>4, <3>7 DEF Untold
      <4>2. Untold(new)'
        BY <3>3, <3>7, <4>1 DEF Untold
      <4> QED  BY <3>2, <4>2
    <3>8. CASE sp.owner \notin Turns
      <4>1. Untold(new)'
        BY <3>3, <3>4, <3>8 DEF Untold, adapterVars
      <4> QED  BY <3>2, <4>1
    <3> QED  BY <3>6, <3>7, <3>8
  <2>4. ASSUME NEW u \in Turns, NEW k \in active'[u] PROVE open'[k] # 0 /\ spans'[open'[k]].owner = u
    <3>1. k \in active[u] /\ k \in Keys /\ open[k] # 0 /\ spans[open[k]].owner = u
      BY <1>1, <1>4, KeysDiffer DEF TraceInv, Observed
    <3>2. k # key
      <4>1. CASE key = <<"turn", t>>
        BY <1>1, <3>1, <4>1, KeysDiffer
      <4>2. CASE key \in active[t] /\ active' = [active EXCEPT ![t] = @ \ {key}]
        <5>1. SUFFICES ASSUME k = key PROVE FALSE
          OBVIOUS
        <5>2. u = t
          BY <3>1, <4>2, <5>1 DEF TraceInv, Observed
        <5> QED  BY <1>1, <4>2, <5>1, <5>2
      <4> QED  BY <4>1, <4>2
    <3>3. open[k] \in DOMAIN spans
      BY <3>1 DEF TraceInv, HookInv, Filed
    <3> QED  BY <1>3, <3>1, <3>2, <3>3
  <2>5. ASSUME NEW p \in Programs, Told(p)
        PROVE  open'[ProgramKey] # 0 /\ spans'[open'[ProgramKey]].owner = p
    <3>1. open[ProgramKey] # 0 /\ spans[open[ProgramKey]].owner = p
      BY <2>5 DEF TraceInv, Observed
    <3>2. key # ProgramKey
      BY <1>1, KeysDiffer
    <3>3. open[ProgramKey] \in DOMAIN spans
      BY <3>1, KeysDiffer DEF TraceInv, HookInv, Filed
    <3> QED  BY <1>3, <3>1, <3>2, <3>3, KeysDiffer
  <2> QED  BY <2>3, <2>4, <2>5
<1> QED  BY <1>3, <1>5, <1>6 DEF TraceInv

LEMMA TurnOfKeeps == ASSUME TraceInv, NEW t \in Turns, TurnOf(t) PROVE TraceInv'
<1>0. /\ turn \in [Turns -> {"new", "open", "errored", "done", "left"}]
      /\ active \in [Turns -> SUBSET ({"tool", "step"} \X Ids)] /\ mixed \in BOOLEAN
  BY DEF TraceInv, RunTypes, HookInv, Filed
<1>1. CASE StartTurn(t)
  BY <1>1, KeysDiffer, StartedTurn DEF StartTurn
<1>2. ASSUME NEW kind \in {"tool", "step"}, NEW id \in Ids, StartWork(t, kind, id) PROVE TraceInv'
  BY <1>2, KeysDiffer, StartedTurn DEF StartWork
<1>3. ASSUME NEW kind \in {"tool", "step"}, NEW id \in Ids, CompleteWork(t, kind, id) PROVE TraceInv'
  BY <1>3, KeysDiffer, EndedTurn DEF CompleteWork
<1>4. CASE TellError(t)
  BY <1>4, KeysDiffer, EndedTurn DEF TellError
<1>5. CASE Summarise(t)
  BY <1>5, KeysDiffer, EndedTurn DEF Summarise
<1>6. CASE LeaveTurn(t)
  <2>1. /\ UNCHANGED <<active, adapterVars>> /\ UNCHANGED hookVars
        /\ turn' = [turn EXCEPT ![t] = "left"]
    BY <1>6 DEF LeaveTurn
  <2>2. HookInv' /\ UNCHANGED <<open, spans, mixed>>
    BY <2>1, HookIdle DEF TraceInv, hookVars
  <2>3. turn' \in [Turns -> {"new", "open", "errored", "done", "left"}]
    BY <1>0, <2>1
  <2>4. RunTypes' /\ Carried' /\ InOrder' /\ \A p : Told(p)' = Told(p)
    BY <1>0, <2>1, <2>2, <2>3, TurnLeaves
  <2>5. \A s \in DOMAIN spans : Untold(spans[s]) => Untold(spans[s])'
    <3> SUFFICES ASSUME NEW s \in DOMAIN spans, Untold(spans[s]) PROVE Untold(spans[s])'
      OBVIOUS
    <3>1. PICK sp : sp = spans[s]
      OBVIOUS
    <3>2. \A u \in Turns : turn'[u] \in {"errored", "done"} => turn[u] \in {"errored", "done"}
      BY <1>0, <2>1
    <3>3. Untold(sp)'
      BY <2>1, <3>1, <3>2 DEF Untold, adapterVars
    <3> QED  BY <2>2, <3>1, <3>3
  <2>6. Observed'
    BY <2>1, <2>2, <2>4, <2>5 DEF TraceInv, Observed
  <2> QED  BY <2>2, <2>4, <2>6 DEF TraceInv
<1> QED  BY <1>1, <1>2, <1>3, <1>4, <1>5, <1>6 DEF TurnOf

\* What a program does leaves the hook and the turns; it may schedule one event.
LEMMA ProgramLeaves ==
  ASSUME TraceInv, UNCHANGED <<runVars, hookVars>>, RunTypes',
         \A p \in Programs : Awaits(p, "complete") => Awaits(p, "complete")',
         \A p \in Programs : program'[p] = "done" => program[p] = "done" \/ Awaits(p, "complete")',
         \A p \in Programs : Told(p)' => Told(p)
  PROVE  HookInv' /\ Observed'
<1>1. HookInv' /\ UNCHANGED <<open, spans, mixed, turn, active>>
  BY HookIdle DEF TraceInv, hookVars, runVars
<1>2. \A s \in DOMAIN spans : Untold(spans[s]) => Untold(spans[s])'
  <2> SUFFICES ASSUME NEW s \in DOMAIN spans, Untold(spans[s]) PROVE Untold(spans[s])'
    OBVIOUS
  <2>1. PICK sp \in SpanRecords : sp = spans[s]
    BY DEF TraceInv, HookInv, Filed
  <2>2. Untold(sp)
    BY <2>1
  <2>3. Untold(sp)'
    <3>1. CASE sp.owner \in Turns
      BY <1>1, <2>2, <3>1 DEF Untold
    <3>2. CASE sp.owner \notin Turns
      <4>1. sp.owner \in Programs
        BY <3>2 DEF SpanRecords, Owners
      <4>2. program[sp.owner] # "done" \/ Awaits(sp.owner, "complete")
        BY <2>2, <3>2 DEF Untold, Awaits, Tells
      <4>3. program'[sp.owner] # "done" \/ Awaits(sp.owner, "complete")'
        BY <4>1, <4>2
      <4> QED  BY <3>2, <4>3 DEF Untold, Awaits, Tells
    <3> QED  BY <3>1, <3>2
  <2> QED  BY <1>1, <2>1, <2>3
<1>3. Observed'
  BY <1>1, <1>2 DEF TraceInv, Observed, ProgramKey
<1> QED  BY <1>1, <1>3

\* One more event waits.
LEMMA OneMore ==
  ASSUME pending \in Seq(Events), NEW e \in Events, pending' = Append(pending, e)
  PROVE  /\ pending' \in Seq(Events)
         /\ DOMAIN pending' = DOMAIN pending \cup {Len(pending) + 1}
         /\ \A i \in DOMAIN pending : pending'[i] = pending[i] /\ i # Len(pending) + 1
         /\ pending'[Len(pending) + 1] = e
         /\ \A p, phase : Awaits(p, phase)' <=> Awaits(p, phase) \/ Tells(e, p, phase)
<1>1. /\ pending' \in Seq(Events)
      /\ DOMAIN pending' = DOMAIN pending \cup {Len(pending) + 1}
      /\ \A i \in DOMAIN pending : pending'[i] = pending[i] /\ i # Len(pending) + 1
      /\ pending'[Len(pending) + 1] = e
  OBVIOUS
<1>2. ASSUME NEW p, NEW phase
      PROVE  Awaits(p, phase)' <=> Awaits(p, phase) \/ Tells(e, p, phase)
  BY <1>1 DEF Awaits, Tells
<1> QED  BY <1>1, <1>2

\* What an event that is neither the start nor the end of a program needs to keep all.
LEMMA EventKeeps ==
  ASSUME TraceInv, UNCHANGED <<runVars, hookVars, program>>, RunTypes',
         NEW e \in Events, pending' = Append(pending, e), Carries(e),
         \A p : ~Tells(e, p, "start") /\ ~Tells(e, p, "complete"),
         \A p \in Programs :
           /\ program[p] = "running" => spanIds'[p].program \in EventIds /\ spanIds'[p].program[1] = "program"
           /\ unit'[p] # 0 => spanIds'[p].call = <<"call", p, unit'[p]>>
  PROVE  TraceInv'
<1>1. pending \in Seq(Events) /\ mixed' = mixed
  BY DEF TraceInv, RunTypes, hookVars
<1>2. /\ DOMAIN pending' = DOMAIN pending \cup {Len(pending) + 1}
      /\ \A i \in DOMAIN pending : pending'[i] = pending[i] /\ i # Len(pending) + 1
      /\ pending'[Len(pending) + 1] = e
      /\ \A p, phase : Awaits(p, phase)' <=> Awaits(p, phase) \/ Tells(e, p, phase)
  BY <1>1, OneMore
<1>3. \A p \in Programs : /\ Awaits(p, "complete")' <=> Awaits(p, "complete")
                          /\ Awaits(p, "start")' <=> Awaits(p, "start")
  BY <1>2
<1>4. HookInv' /\ Observed'
  <2>1. \A p \in Programs : Told(p)' => Told(p)
    BY <1>3 DEF Told
  <2>2. \A p \in Programs : program'[p] = "done" => program[p] = "done" \/ Awaits(p, "complete")'
    OBVIOUS
  <2> QED  BY <1>3, <2>1, <2>2, ProgramLeaves
<1>5. Carried'
  BY <1>2 DEF TraceInv, Carried, Carries
<1>6. InOrder'
  <2>1. \A i, j \in DOMAIN pending' : \A p \in Programs :
          Tells(pending'[i], p, "complete") /\ Tells(pending'[j], p, "complete") => i = j
    BY <1>2 DEF TraceInv, InOrder
  <2> QED  BY <1>1, <1>3, <2>1 DEF TraceInv, InOrder, Tells
<1> QED  BY <1>4, <1>5, <1>6 DEF TraceInv

\* The types of what programs and the adapter keep.
LEMMA AdapterTypes ==
  ASSUME TraceInv, NEW p \in Programs
  PROVE  /\ program \in [Programs -> {"idle", "running", "done", "failed", "cancelled"}]
         /\ calls \in [Programs -> Nat] /\ unit \in [Programs -> Nat]
         /\ spanIds \in [Programs -> [program : EventIds \cup {<<>>}, call : EventIds \cup {<<>>}]]
         /\ pending \in Seq(Events) /\ calls[p] \in Nat /\ unit[p] \in Nat
         /\ Fresh(p, "program") \in EventIds /\ Fresh(p, "program")[1] = "program"
         /\ \A n \in Nat : <<"call", p, n>> \in EventIds /\ <<"call", p, n>> # <<>>
         /\ <<>> \notin EventIds
         /\ program[p] = "running" => IdOf(p, "program") \in EventIds /\ IdOf(p, "program")[1] = "program"
         /\ unit[p] # 0 => IdOf(p, "call") = <<"call", p, unit[p]>>
<1>1. /\ program \in [Programs -> {"idle", "running", "done", "failed", "cancelled"}]
      /\ calls \in [Programs -> Nat] /\ unit \in [Programs -> Nat]
      /\ spanIds \in [Programs -> [program : EventIds \cup {<<>>}, call : EventIds \cup {<<>>}]]
      /\ pending \in Seq(Events) /\ calls[p] \in Nat /\ unit[p] \in Nat
  BY DEF TraceInv, RunTypes
<1>2. Fresh(p, "program") \in EventIds /\ Fresh(p, "program")[1] = "program"
  BY <1>1 DEF Fresh, EventIds
<1>3. \A n \in Nat : <<"call", p, n>> \in EventIds /\ <<"call", p, n>> # <<>>
  BY DEF EventIds
<1>4. <<>> \notin EventIds
  BY DEF EventIds
<1>5. program[p] = "running" => IdOf(p, "program") \in EventIds /\ IdOf(p, "program")[1] = "program"
  BY <1>4 DEF TraceInv, Carried, IdOf
<1>6. unit[p] # 0 => IdOf(p, "call") = <<"call", p, unit[p]>>
  BY <1>1, <1>3 DEF TraceInv, Carried, IdOf
<1> QED  BY <1>1, <1>2, <1>3, <1>4, <1>5, <1>6

\* A program starts, and its start waits.
LEMMA StartProgramKeeps == ASSUME TraceInv, NEW p \in Programs, StartProgram(p) PROVE TraceInv'
<1>1. PICK id \in EventIds : id = Fresh(p, "program") /\ id[1] = "program"
  BY AdapterTypes
<1>2. PICK e : e = [program |-> p, subject |-> "program", phase |-> "start", id |-> id, no |-> 0]
  OBVIOUS
<1>3. /\ e \in Events /\ e.program = p /\ e.subject = "program" /\ e.phase = "start" /\ e.id = id
  BY <1>1, <1>2 DEF Events
<1>4. /\ program[p] = "idle" /\ program' = [program EXCEPT ![p] = "running"]
      /\ spanIds' = [spanIds EXCEPT ![p].program = id] /\ pending' = Append(pending, e)
      /\ UNCHANGED <<runVars, hookVars>> /\ UNCHANGED <<turn, active, calls, unit, mixed>>
  BY <1>1, <1>2 DEF StartProgram, Dispatch, runVars, hookVars
<1>5. /\ program \in [Programs -> {"idle", "running", "done", "failed", "cancelled"}]
      /\ spanIds \in [Programs -> [program : EventIds \cup {<<>>}, call : EventIds \cup {<<>>}]]
      /\ pending \in Seq(Events) /\ calls \in [Programs -> Nat] /\ unit \in [Programs -> Nat]
  BY DEF TraceInv, RunTypes
<1>6. /\ pending' \in Seq(Events) /\ DOMAIN pending' = DOMAIN pending \cup {Len(pending) + 1}
      /\ \A i \in DOMAIN pending : pending'[i] = pending[i] /\ i # Len(pending) + 1
      /\ pending'[Len(pending) + 1] = e
      /\ \A q, phase : Awaits(q, phase)' <=> Awaits(q, phase) \/ Tells(e, q, phase)
  BY <1>3, <1>4, <1>5, OneMore
<1>7. /\ \A q \in Programs : Awaits(q, "complete")' <=> Awaits(q, "complete")
      /\ \A q \in Programs : Awaits(q, "start")' <=> Awaits(q, "start") \/ q = p
      /\ \A q : ~Tells(e, q, "complete")
  BY <1>3, <1>6 DEF Tells
<1>8. /\ program' \in [Programs -> {"idle", "running", "done", "failed", "cancelled"}]
      /\ program'[p] = "running" /\ \A q \in Programs : q # p => program'[q] = program[q]
      /\ spanIds' \in [Programs -> [program : EventIds \cup {<<>>}, call : EventIds \cup {<<>>}]]
      /\ spanIds'[p].program = id /\ spanIds'[p].call = spanIds[p].call
      /\ \A q \in Programs : q # p => spanIds'[q] = spanIds[q]
  BY <1>1, <1>4, <1>5
<1>9. RunTypes'
  BY <1>4, <1>5, <1>6, <1>8 DEF TraceInv, RunTypes
<1>10. Carried'
  <2>1. \A i \in DOMAIN pending' : Carries(pending'[i])
    BY <1>1, <1>3, <1>6 DEF TraceInv, Carried, Carries
  <2>2. \A q \in Programs :
       /\ program'[q] = "running" => spanIds'[q].program \in EventIds /\ spanIds'[q].program[1] = "program"
       /\ unit'[q] # 0 => spanIds'[q].call = <<"call", q, unit'[q]>>
    BY <1>1, <1>4, <1>8 DEF TraceInv, Carried
  <2> QED  BY <2>1, <2>2 DEF Carried, Carries
<1>11. InOrder'
  <2>1. \A q \in Programs :
       /\ Awaits(q, "start")' => program'[q] # "idle"
       /\ Awaits(q, "complete")' => program'[q] = "done"
       /\ ~mixed' /\ program'[q] = "done" /\ Awaits(q, "start")' => Awaits(q, "complete")'
    BY <1>4, <1>7, <1>8 DEF TraceInv, InOrder
  <2>2. \A i, j \in DOMAIN pending' : \A q \in Programs :
          Tells(pending'[i], q, "complete") /\ Tells(pending'[j], q, "complete") => i = j
    BY <1>6, <1>7 DEF TraceInv, InOrder
  <2> QED  BY <2>1, <2>2 DEF InOrder, Tells
<1>12. \A q \in Programs : Told(q)' => Told(q)
  BY <1>7, <1>8 DEF Told
<1>13. HookInv' /\ Observed'
  BY <1>4, <1>7, <1>8, <1>9, <1>12, ProgramLeaves
<1> QED  BY <1>9, <1>10, <1>11, <1>13 DEF TraceInv

\* A program ends, and its end waits.
LEMMA FinishProgramKeeps ==
  ASSUME TraceInv, NEW p \in Programs, NEW end \in {"done", "failed"}, NEW phase \in {"complete", "error"},
         end = "done" <=> phase = "complete", FinishProgram(p, end, phase)
  PROVE  TraceInv'
<1>0. program[p] = "running" /\ unit[p] = 0
  BY DEF FinishProgram, Running
<1>1. PICK id \in EventIds : id = IdOf(p, "program") /\ id[1] = "program"
  BY <1>0, AdapterTypes
<1>2. PICK e : e = [program |-> p, subject |-> "program", phase |-> phase, id |-> id, no |-> 0]
  OBVIOUS
<1>3. /\ e \in Events /\ e.program = p /\ e.subject = "program" /\ e.phase = phase /\ e.id = id
  BY <1>1, <1>2 DEF Events
<1>4. /\ program' = [program EXCEPT ![p] = end]
      /\ spanIds' = [spanIds EXCEPT ![p].program = <<>>] /\ pending' = Append(pending, e)
      /\ UNCHANGED <<runVars, hookVars>> /\ UNCHANGED <<turn, active, calls, unit, mixed>>
  BY <1>1, <1>2 DEF FinishProgram, Dispatch, runVars, hookVars
<1>5. /\ program \in [Programs -> {"idle", "running", "done", "failed", "cancelled"}]
      /\ spanIds \in [Programs -> [program : EventIds \cup {<<>>}, call : EventIds \cup {<<>>}]]
      /\ pending \in Seq(Events) /\ calls \in [Programs -> Nat] /\ unit \in [Programs -> Nat]
  BY DEF TraceInv, RunTypes
<1>6. /\ pending' \in Seq(Events) /\ DOMAIN pending' = DOMAIN pending \cup {Len(pending) + 1}
      /\ \A i \in DOMAIN pending : pending'[i] = pending[i] /\ i # Len(pending) + 1
      /\ pending'[Len(pending) + 1] = e
      /\ \A q, ph : Awaits(q, ph)' <=> Awaits(q, ph) \/ Tells(e, q, ph)
  BY <1>3, <1>4, <1>5, OneMore
<1>7. /\ \A q \in Programs : Awaits(q, "complete")' <=> Awaits(q, "complete") \/ (q = p /\ phase = "complete")
      /\ \A q \in Programs : Awaits(q, "start")' <=> Awaits(q, "start")
      /\ \A q : Tells(e, q, "complete") => q = p
  BY <1>3, <1>6 DEF Tells
<1>8. /\ program' \in [Programs -> {"idle", "running", "done", "failed", "cancelled"}]
      /\ program'[p] = end /\ \A q \in Programs : q # p => program'[q] = program[q]
      /\ spanIds' \in [Programs -> [program : EventIds \cup {<<>>}, call : EventIds \cup {<<>>}]]
      /\ spanIds'[p].call = spanIds[p].call
      /\ \A q \in Programs : q # p => spanIds'[q] = spanIds[q]
  BY <1>1, <1>4, <1>5
<1>9. RunTypes'
  BY <1>4, <1>5, <1>6, <1>8 DEF TraceInv, RunTypes
<1>10. Carried'
  <2>1. \A i \in DOMAIN pending' : Carries(pending'[i])
    BY <1>1, <1>3, <1>6 DEF TraceInv, Carried, Carries
  <2>2. \A q \in Programs :
       /\ program'[q] = "running" => spanIds'[q].program \in EventIds /\ spanIds'[q].program[1] = "program"
       /\ unit'[q] # 0 => spanIds'[q].call = <<"call", q, unit'[q]>>
    BY <1>4, <1>8 DEF TraceInv, Carried
  <2> QED  BY <2>1, <2>2 DEF Carried, Carries
<1>11. InOrder'
  <2>0. ~Awaits(p, "complete")
    BY <1>0 DEF TraceInv, InOrder
  <2>1. ASSUME NEW q \in Programs
        PROVE  /\ Awaits(q, "start")' => program'[q] # "idle"
               /\ Awaits(q, "complete")' => program'[q] = "done"
               /\ ~mixed' /\ program'[q] = "done" /\ Awaits(q, "start")' => Awaits(q, "complete")'
    <3>1. CASE q = p /\ phase = "complete"
      BY <1>7, <1>8, <3>1
    <3>2. CASE q = p /\ phase = "error"
      BY <1>7, <1>8, <2>0, <3>2
    <3>3. CASE q # p
      <4>1. /\ Awaits(q, "start") => program[q] # "idle"
            /\ Awaits(q, "complete") => program[q] = "done"
            /\ ~mixed /\ program[q] = "done" /\ Awaits(q, "start") => Awaits(q, "complete")
        BY DEF TraceInv, InOrder
      <4> QED  BY <1>4, <1>7, <1>8, <3>3, <4>1
    <3> QED  BY <3>1, <3>2, <3>3
  <2>2. \A i, j \in DOMAIN pending' : \A q \in Programs :
          Tells(pending'[i], q, "complete") /\ Tells(pending'[j], q, "complete") => i = j
    BY <1>6, <1>7, <2>0 DEF TraceInv, InOrder, Awaits
  <2> QED  BY <2>1, <2>2 DEF InOrder, Tells
<1>12. \A q \in Programs : Told(q)' => Told(q)
  BY <1>0, <1>7, <1>8 DEF Told
<1>13. HookInv' /\ Observed'
  BY <1>4, <1>7, <1>8, <1>9, <1>12, ProgramLeaves
<1> QED  BY <1>9, <1>10, <1>11, <1>13 DEF TraceInv

LEMMA ProgramOfKeeps == ASSUME TraceInv, NEW p \in Programs, ProgramOf(p) PROVE TraceInv'
<1>0. /\ program \in [Programs -> {"idle", "running", "done", "failed", "cancelled"}]
      /\ calls \in [Programs -> Nat] /\ unit \in [Programs -> Nat]
      /\ spanIds \in [Programs -> [program : EventIds \cup {<<>>}, call : EventIds \cup {<<>>}]]
      /\ pending \in Seq(Events) /\ calls[p] \in Nat /\ unit[p] \in Nat
      /\ \A n \in Nat : <<"call", p, n>> \in EventIds /\ <<"call", p, n>> # <<>>
      /\ program[p] = "running" => IdOf(p, "program") \in EventIds /\ IdOf(p, "program")[1] = "program"
      /\ unit[p] # 0 => IdOf(p, "call") = <<"call", p, unit[p]>>
  BY AdapterTypes
<1>00. \A q \in Programs :
       /\ program[q] = "running" => spanIds[q].program \in EventIds /\ spanIds[q].program[1] = "program"
       /\ unit[q] # 0 => spanIds[q].call = <<"call", q, unit[q]>>
  BY DEF TraceInv, Carried
<1>1. CASE StartProgram(p)
  BY <1>1, StartProgramKeeps
<1>2. CASE Iterate(p)
  <2>1. PICK e : e = [program |-> p, subject |-> "program", phase |-> "progress",
                      id |-> IdOf(p, "program"), no |-> 0]
    OBVIOUS
  <2>2. /\ program[p] = "running" /\ pending' = Append(pending, e)
        /\ UNCHANGED <<runVars, hookVars, program>> /\ UNCHANGED <<turn, active, calls, spanIds, unit>>
    BY <1>2, <2>1 DEF Iterate, Running, Dispatch, runVars
  <2>3. e \in Events /\ e.subject = "program" /\ e.phase = "progress" /\ e.id[1] = "program"
    BY <1>0, <2>1, <2>2 DEF Events
  <2>4. RunTypes'
    BY <1>0, <2>2, <2>3, OneMore DEF TraceInv, RunTypes
  <2> QED  BY <1>00, <2>2, <2>3, <2>4, EventKeeps DEF Carries, Tells
<1>3. CASE StartCall(p)
  <2>0. PICK n \in Nat : n = calls[p] + 1 /\ n # 0
    BY <1>0
  <2>1. PICK e : e = [program |-> p, subject |-> "call", phase |-> "start", id |-> <<"call", p, n>>, no |-> n]
    OBVIOUS
  <2>2. /\ program[p] = "running" /\ pending' = Append(pending, e)
        /\ calls' = [calls EXCEPT ![p] = @ + 1] /\ unit' = [unit EXCEPT ![p] = n]
        /\ spanIds' = [spanIds EXCEPT ![p].call = <<"call", p, n>>]
        /\ UNCHANGED <<runVars, hookVars, program>> /\ UNCHANGED <<turn, active>>
    BY <1>3, <2>0, <2>1 DEF StartCall, Running, Dispatch, runVars
  <2>3. /\ e \in Events /\ e.subject = "call" /\ e.phase = "start" /\ e.id = <<"call", p, n>>
        /\ e.program = p /\ e.no = n
    BY <1>0, <2>1, <2>2 DEF Events
  <2>4. /\ calls' \in [Programs -> Nat] /\ unit' \in [Programs -> Nat] /\ unit'[p] = n
        /\ \A q \in Programs : q # p => unit'[q] = unit[q] /\ spanIds'[q] = spanIds[q]
        /\ spanIds' \in [Programs -> [program : EventIds \cup {<<>>}, call : EventIds \cup {<<>>}]]
        /\ spanIds'[p].call = <<"call", p, n>> /\ spanIds'[p].program = spanIds[p].program
    <3>1. /\ calls' = [calls EXCEPT ![p] = n] /\ unit' = [unit EXCEPT ![p] = n]
      BY <1>0, <2>0, <2>2
    <3>2. calls' \in [Programs -> Nat] /\ unit' \in [Programs -> Nat] /\ unit'[p] = n
      BY <1>0, <3>1
    <3>3. PICK c \in EventIds : c = <<"call", p, n>>
      BY <1>0
    <3>4. spanIds' = [spanIds EXCEPT ![p].call = c]
      BY <2>2, <3>3
    <3>5. /\ spanIds' \in [Programs -> [program : EventIds \cup {<<>>}, call : EventIds \cup {<<>>}]]
          /\ spanIds'[p].call = c /\ spanIds'[p].program = spanIds[p].program
          /\ \A q \in Programs : q # p => spanIds'[q] = spanIds[q]
      BY <1>0, <3>4
    <3> QED  BY <1>0, <3>1, <3>2, <3>3, <3>5
  <2>5. RunTypes'
    BY <1>0, <2>2, <2>3, <2>4, OneMore DEF TraceInv, RunTypes
  <2>6. Carries(e) /\ \A q : ~Tells(e, q, "start") /\ ~Tells(e, q, "complete")
    BY <2>3 DEF Carries, Tells
  <2>7. \A q \in Programs :
       /\ program[q] = "running" => spanIds'[q].program \in EventIds /\ spanIds'[q].program[1] = "program"
       /\ unit'[q] # 0 => spanIds'[q].call = <<"call", q, unit'[q]>>
    BY <1>00, <2>4
  <2> QED  BY <2>2, <2>3, <2>5, <2>6, <2>7, EventKeeps
<1>4. CASE RetryCall(p)
  <2>1. PICK e : e = [program |-> p, subject |-> "call", phase |-> "progress", id |-> <<"call", p, unit[p]>>,
                      no |-> unit[p]]
    OBVIOUS
  <2>2. /\ pending' = Append(pending, e) /\ spanIds' = [spanIds EXCEPT ![p].call = @]
        /\ UNCHANGED <<runVars, hookVars, program>> /\ UNCHANGED <<turn, active, calls, unit>>
    BY <1>0, <1>4, <2>1 DEF RetryCall, Dispatch, runVars, AfterRetry
  <2>3. /\ e \in Events /\ e.subject = "call" /\ e.phase = "progress" /\ Carries(e)
    BY <1>0, <2>1, <2>2 DEF Events, Carries
  <2>4. spanIds' = spanIds
    BY <1>0, <2>2
  <2>5. RunTypes'
    BY <1>0, <2>2, <2>3, <2>4, OneMore DEF TraceInv, RunTypes
  <2> QED  BY <1>00, <2>2, <2>3, <2>4, <2>5, EventKeeps DEF Tells
<1>5. CASE FinishCall(p)
  <2>0. PICK phase \in {"complete", "error"} : Dispatch(p, "call", phase, IdOf(p, "call"), unit[p])
    BY <1>5 DEF FinishCall
  <2>1. PICK e : e = [program |-> p, subject |-> "call", phase |-> phase, id |-> <<"call", p, unit[p]>>,
                      no |-> unit[p]]
    OBVIOUS
  <2>2. /\ pending' = Append(pending, e) /\ spanIds' = [spanIds EXCEPT ![p].call = <<>>]
        /\ unit' = [unit EXCEPT ![p] = 0]
        /\ UNCHANGED <<runVars, hookVars, program>> /\ UNCHANGED <<turn, active, calls>>
    BY <1>0, <1>5, <2>0, <2>1 DEF FinishCall, Dispatch, runVars
  <2>3. /\ e \in Events /\ e.subject = "call" /\ Carries(e)
    BY <1>0, <2>1, <2>2 DEF Events, Carries
  <2>4. /\ unit' \in [Programs -> Nat] /\ unit'[p] = 0
        /\ \A q \in Programs : q # p => unit'[q] = unit[q] /\ spanIds'[q] = spanIds[q]
        /\ spanIds' \in [Programs -> [program : EventIds \cup {<<>>}, call : EventIds \cup {<<>>}]]
        /\ spanIds'[p].program = spanIds[p].program
    BY <1>0, <2>2
  <2>5. RunTypes'
    BY <1>0, <2>2, <2>3, <2>4, OneMore DEF TraceInv, RunTypes
  <2>6. \A q \in Programs :
       /\ program[q] = "running" => spanIds'[q].program \in EventIds /\ spanIds'[q].program[1] = "program"
       /\ unit'[q] # 0 => spanIds'[q].call = <<"call", q, unit'[q]>>
    BY <1>00, <2>4
  <2>7. \A q : ~Tells(e, q, "start") /\ ~Tells(e, q, "complete")
    BY <2>3 DEF Tells
  <2> QED  BY <2>2, <2>3, <2>5, <2>6, <2>7, EventKeeps
<1>6. CASE FinishProgram(p, "done", "complete")
  BY <1>6, FinishProgramKeeps
<1>7. CASE FinishProgram(p, "failed", "error")
  BY <1>7, FinishProgramKeeps
<1>8. CASE CancelProgram(p)
  <2>1. /\ program[p] = "running" /\ program' = [program EXCEPT ![p] = "cancelled"]
        /\ unit' = [unit EXCEPT ![p] = 0]
        /\ UNCHANGED <<runVars, hookVars>> /\ UNCHANGED <<turn, active, mixed, calls, spanIds, pending>>
    BY <1>8 DEF CancelProgram, runVars, hookVars
  <2>2. /\ program' \in [Programs -> {"idle", "running", "done", "failed", "cancelled"}]
        /\ program'[p] = "cancelled" /\ \A q \in Programs : q # p => program'[q] = program[q]
        /\ unit' \in [Programs -> Nat] /\ unit'[p] = 0 /\ \A q \in Programs : q # p => unit'[q] = unit[q]
    BY <1>0, <2>1
  <2>3. \A q, phase : Awaits(q, phase)' = Awaits(q, phase)
    BY <2>1, AwaitsStays
  <2>4. RunTypes'
    BY <2>1, <2>2 DEF TraceInv, RunTypes
  <2>5. Carried'
    BY <1>00, <2>1, <2>2 DEF TraceInv, Carried, Carries
  <2>6. InOrder'
    BY <2>1, <2>2, <2>3 DEF TraceInv, InOrder, Tells
  <2>7. \A q \in Programs : Told(q)' => Told(q)
    BY <2>1, <2>2, <2>3 DEF Told
  <2>8. HookInv' /\ Observed'
    BY <2>1, <2>2, <2>3, <2>4, <2>7, ProgramLeaves
  <2> QED  BY <2>4, <2>5, <2>6, <2>8 DEF TraceInv
<1> QED  BY <1>1, <1>2, <1>3, <1>4, <1>5, <1>6, <1>7, <1>8 DEF ProgramOf

\* A scheduled event has been taken out: the others keep their order.
LEMMA OneLess ==
  ASSUME pending \in Seq(Events), NEW i \in DOMAIN pending, pending' = RemoveAt(pending, i)
  PROVE  /\ pending' \in Seq(Events) /\ DOMAIN pending' = 1..(Len(pending) - 1)
         /\ \A k \in DOMAIN pending' : pending'[k] = pending[IF k < i THEN k ELSE k + 1]
         /\ \A p, phase : Awaits(p, phase)' =>
              \E j \in DOMAIN pending : j # i /\ Tells(pending[j], p, phase)
         /\ \A p, phase : (\E j \in DOMAIN pending : j # i /\ Tells(pending[j], p, phase)) =>
              Awaits(p, phase)'
<1>1. PICK n \in Nat : n = Len(pending) /\ DOMAIN pending = 1..n
  OBVIOUS
<1>2. /\ i \in 1..n /\ i - 1 \in Nat /\ n - i \in Nat /\ n - 1 \in Nat
  BY <1>1
<1>3. PICK before : before = SubSeq(pending, 1, i - 1)
  OBVIOUS
<1>4. PICK behind : behind = SubSeq(pending, i + 1, n)
  OBVIOUS
<1>5. before \in Seq(Events) /\ Len(before) = i - 1 /\ \A k \in 1..(i - 1) : before[k] = pending[k]
  BY <1>1, <1>2, <1>3
<1>6. behind \in Seq(Events) /\ Len(behind) = n - i /\ \A k \in 1..(n - i) : behind[k] = pending[k + i]
  BY <1>1, <1>2, <1>4
<1>7. pending' = before \o behind
  BY <1>1, <1>3, <1>4 DEF RemoveAt
<1>8. /\ pending' \in Seq(Events) /\ Len(pending') = n - 1 /\ DOMAIN pending' = 1..(n - 1)
      /\ \A k \in 1..(n - 1) : pending'[k] = IF k < i THEN before[k] ELSE behind[k - (i - 1)]
  <2>1. pending' \in Seq(Events) /\ Len(pending') = Len(before) + Len(behind)
    <3>1. before \in Seq(Events) /\ behind \in Seq(Events)
      BY <1>5, <1>6
    <3>2. before \o behind \in Seq(Events) /\ Len(before \o behind) = Len(before) + Len(behind)
      BY <3>1
    <3> QED  BY <1>7, <3>2
  <2>2. Len(pending') = n - 1 /\ DOMAIN pending' = 1..(n - 1)
    BY <1>2, <1>5, <1>6, <2>1
  <2>3. \A k \in 1..Len(pending') : pending'[k] = IF k <= Len(before) THEN before[k] ELSE behind[k - Len(before)]
    BY <1>5, <1>6, <1>7
  <2>4. \A k \in 1..(n - 1) : k <= i - 1 <=> k < i
    BY <1>2
  <2> QED  BY <1>5, <2>1, <2>2, <2>3, <2>4
<1>9. ASSUME NEW k \in 1..(n - 1) PROVE pending'[k] = pending[IF k < i THEN k ELSE k + 1]
  <2>1. CASE k < i
    BY <1>2, <1>5, <1>8, <2>1
  <2>2. CASE ~(k < i)
    <3>1. k - (i - 1) \in 1..(n - i) /\ (k - (i - 1)) + i = k + 1
      BY <1>2, <2>2
    <3> QED  BY <1>6, <1>8, <2>2, <3>1
  <2> QED  BY <2>1, <2>2
<1>10. ASSUME NEW p, NEW phase, NEW j \in DOMAIN pending, j # i, Tells(pending[j], p, phase)
      PROVE  Awaits(p, phase)'
  <2>1. PICK k \in 1..(n - 1) : j = IF k < i THEN k ELSE k + 1
    <3>1. CASE j < i
      <4>1. j \in 1..(n - 1)
        BY <1>1, <1>2, <3>1
      <4> QED  BY <3>1, <4>1
    <3>2. CASE ~(j < i)
      <4>1. j - 1 \in 1..(n - 1) /\ ~(j - 1 < i) /\ j = (j - 1) + 1
        BY <1>1, <1>2, <1>10, <3>2
      <4> QED  BY <4>1
    <3> QED  BY <3>1, <3>2
  <2>2. pending'[k] = pending[j]
    BY <1>9, <2>1
  <2> QED  BY <1>8, <1>10, <2>2 DEF Awaits, Tells
<1>11. ASSUME NEW p, NEW phase, Awaits(p, phase)'
      PROVE  \E j \in DOMAIN pending : j # i /\ Tells(pending[j], p, phase)
  <2>1. PICK k \in 1..(n - 1) : Tells(pending'[k], p, phase)
    BY <1>8, <1>11 DEF Awaits, Tells
  <2>2. PICK j : j = IF k < i THEN k ELSE k + 1
    OBVIOUS
  <2>3. j \in DOMAIN pending /\ j # i
    BY <1>1, <1>2, <2>2
  <2> QED  BY <1>9, <2>1, <2>2, <2>3
<1> QED  BY <1>1, <1>8, <1>9, <1>10, <1>11

\* A scheduled event reaches the hook.
LEMMA ReachKeeps == ASSUME TraceInv, NEW i \in DOMAIN pending, Reach(i) PROVE TraceInv'
<1>0. PICK e \in Events : e = pending[i]
  BY DEF TraceInv, RunTypes
<1>1. PICK p \in Programs : p = e.program
  BY DEF Events
<1>2. /\ pending' = RemoveAt(pending, i)
      /\ UNCHANGED <<turn, active, program, calls, spanIds, unit>>
      /\ e.subject = "program" /\ e.phase = "start" => StartSpan(ProgramKey, p)
      /\ e.subject = "program" /\ e.phase = "complete" =>
           EndSpan(ProgramKey, p, "ended") /\ mixed' = (mixed \/ Awaits(p, "start"))
      /\ e.subject = "call" \/ e.phase \in {"progress", "error"} => UNCHANGED hookVars
  <2>1. Awaits(p, "start") <=> \E j \in DOMAIN pending :
          pending[j].program = p /\ pending[j].subject = "program" /\ pending[j].phase = "start"
    BY DEF Awaits, Tells
  <2> QED  BY <1>0, <1>1, <2>1 DEF Reach, ProgramKey, runVars
<1>3. /\ pending \in Seq(Events) /\ spans \in Seq(SpanRecords) /\ open \in [Keys -> Nat] /\ mixed \in BOOLEAN
      /\ active \in [Turns -> SUBSET ({"tool", "step"} \X Ids)]
  BY DEF TraceInv, RunTypes, HookInv, Filed
<1>4. /\ pending' \in Seq(Events) /\ DOMAIN pending' = 1..(Len(pending) - 1)
      /\ \A k \in DOMAIN pending' : pending'[k] = pending[IF k < i THEN k ELSE k + 1]
      /\ \A q, phase : Awaits(q, phase)' =>
           \E j \in DOMAIN pending : j # i /\ Tells(pending[j], q, phase)
      /\ \A q, phase : (\E j \in DOMAIN pending : j # i /\ Tells(pending[j], q, phase)) =>
           Awaits(q, phase)'
  BY <1>2, <1>3, OneLess
<1>5. /\ \A q, phase : Awaits(q, phase)' => Awaits(q, phase)
      /\ \A q, phase : Awaits(q, phase) => Awaits(q, phase)' \/ Tells(e, q, phase)
  <2>1. \A q, phase : Awaits(q, phase) <=> \E j \in DOMAIN pending : Tells(pending[j], q, phase)
    BY DEF Awaits
  <2> QED  BY <1>0, <1>4, <2>1
<1>6. /\ \A k \in DOMAIN pending' : (IF k < i THEN k ELSE k + 1) \in DOMAIN pending
      /\ \A k, m \in DOMAIN pending' : (IF k < i THEN k ELSE k + 1) = (IF m < i THEN m ELSE m + 1) => k = m
  <2>1. Len(pending) \in Nat /\ DOMAIN pending = 1..Len(pending)
    BY <1>3
  <2> QED  BY <1>4, <2>1
<1>7. RunTypes'
  BY <1>2, <1>4 DEF TraceInv, RunTypes
<1>8. Carried'
  <2>1. \A k \in DOMAIN pending' : Carries(pending'[k])
    BY <1>4, <1>6 DEF TraceInv, Carried
  <2>2. \A q \in Programs :
       /\ program'[q] = "running" => spanIds'[q].program \in EventIds /\ spanIds'[q].program[1] = "program"
       /\ unit'[q] # 0 => spanIds'[q].call = <<"call", q, unit'[q]>>
    BY <1>2 DEF TraceInv, Carried
  <2> QED  BY <2>1, <2>2 DEF Carried, Carries
<1>9. ~mixed' => ~mixed
  <2>1. CASE e.subject = "program" /\ e.phase = "start"
    BY <1>2, <1>3, <2>1 DEF StartSpan
  <2>2. CASE e.subject = "program" /\ e.phase = "complete"
    BY <1>2, <2>2
  <2>3. CASE e.subject = "call" \/ e.phase \in {"progress", "error"}
    BY <1>2, <2>3 DEF hookVars
  <2> QED  BY <2>1, <2>2, <2>3 DEF Events
<1>10. InOrder'
  <2>1. ASSUME NEW q \in Programs
        PROVE  /\ Awaits(q, "start")' => program'[q] # "idle"
               /\ Awaits(q, "complete")' => program'[q] = "done"
               /\ ~mixed' /\ program'[q] = "done" /\ Awaits(q, "start")' => Awaits(q, "complete")'
    <3>1. /\ Awaits(q, "start") => program[q] # "idle"
          /\ Awaits(q, "complete") => program[q] = "done"
          /\ ~mixed /\ program[q] = "done" /\ Awaits(q, "start") => Awaits(q, "complete")
      BY DEF TraceInv, InOrder
    <3>2. ASSUME Tells(e, q, "complete"), ~mixed' PROVE ~Awaits(q, "start")'
      <4>1. e.subject = "program" /\ e.phase = "complete" /\ q = p
        BY <1>1, <3>2 DEF Tells
      <4>2. ~Awaits(q, "start")
        BY <1>2, <3>2, <4>1
      <4> QED  BY <1>5, <4>2
    <3> QED  BY <1>2, <1>5, <1>9, <3>1, <3>2
  <2>2. ASSUME NEW k \in DOMAIN pending', NEW m \in DOMAIN pending', NEW q \in Programs,
               Tells(pending'[k], q, "complete"), Tells(pending'[m], q, "complete")
        PROVE  k = m
    <3>1. PICK a \in DOMAIN pending : a = IF k < i THEN k ELSE k + 1
      BY <1>6
    <3>2. PICK b \in DOMAIN pending : b = IF m < i THEN m ELSE m + 1
      BY <1>6
    <3>3. Tells(pending[a], q, "complete") /\ Tells(pending[b], q, "complete")
      BY <1>4, <2>2, <3>1, <3>2
    <3>4. a = b
      BY <3>3 DEF TraceInv, InOrder
    <3> QED  BY <1>6, <3>1, <3>2, <3>4
  <2> QED  BY <2>1, <2>2 DEF InOrder, Tells
\* A span of a turn, or of a program whose end has not just been told, stays untold.
<1>11. ASSUME NEW span \in SpanRecords, Untold(span), ~Tells(e, span.owner, "complete") PROVE Untold(span)'
  <2>1. CASE span.owner \in Turns
    BY <1>2, <1>11, <2>1 DEF Untold
  <2>2. CASE span.owner \notin Turns
    <3>1. program[span.owner] # "done" \/ Awaits(span.owner, "complete")
      BY <1>11, <2>2 DEF Untold, Awaits, Tells
    <3>2. program'[span.owner] # "done" \/ Awaits(span.owner, "complete")'
      BY <1>2, <1>5, <1>11, <3>1
    <3> QED  BY <2>2, <3>2 DEF Untold, Awaits, Tells
  <2> QED  BY <2>1, <2>2
<1>12. CASE e.subject = "program" /\ e.phase = "start"
  <2>1. /\ HookInv'
        /\ Len(spans') = Len(spans) + 1 /\ DOMAIN spans' = DOMAIN spans \cup {Len(spans) + 1}
        /\ \A s \in DOMAIN spans : spans'[s] = spans[s] /\ s # Len(spans) + 1
        /\ spans'[Len(spans) + 1].key = ProgramKey /\ spans'[Len(spans) + 1].owner = p
        /\ open'[ProgramKey] = Len(spans) + 1 /\ \A k \in Keys : k # ProgramKey => open'[k] = open[k]
        /\ ~mixed' => ~mixed /\ open[ProgramKey] = 0
    <3>1. p \in Owners /\ ProgramKey \in Keys /\ ProgramKey[1] # "turn"
      BY KeysDiffer DEF Owners, ProgramKey
    <3> QED  BY <1>2, <1>12, <3>1, StartSpanKeeps DEF TraceInv
  <2>2. \A q : ~Tells(e, q, "complete") /\ (Tells(e, q, "start") <=> q = p)
    BY <1>1, <1>12 DEF Tells
  <2>3. ASSUME ~mixed', NEW s \in DOMAIN spans', spans'[s].state = "open" PROVE Untold(spans[s])'
    <3>1. CASE s \in DOMAIN spans
      <4>1. PICK sp \in SpanRecords : sp = spans[s] /\ sp = spans'[s]
        BY <1>3, <2>1, <3>1
      <4>2. spans[s].state = "open"
        BY <2>3, <4>1
      <4>3. Untold(spans[s])
        BY <2>1, <2>3, <3>1, <4>2 DEF TraceInv, Observed
      <4>4. Untold(sp)
        BY <4>1, <4>3
      <4>5. Untold(sp)'
        BY <1>11, <2>2, <4>4
      <4> QED  BY <4>1, <4>5
    <3>2. CASE s = Len(spans) + 1
      <4>1. PICK sp : sp = spans'[s]
        OBVIOUS
      <4>2. sp.key = ProgramKey /\ sp.owner = p /\ p \notin Turns
        BY <2>1, <3>2, <4>1, TraceAssumption
      <4>3. Awaits(p, "start")
        BY <1>0, <2>2 DEF Awaits
      <4>4. program[p] = "done" => Awaits(p, "complete")
        BY <2>1, <2>3, <4>3 DEF TraceInv, InOrder
      <4>5. program'[p] = "done" => Awaits(p, "complete")'
        BY <1>2, <1>5, <2>2, <4>4
      <4>6. Untold(sp)'
        BY <4>2, <4>5 DEF Untold, Awaits, Tells
      <4> QED  BY <4>1, <4>6
    <3> QED  BY <2>1, <3>1, <3>2
  <2>4. ASSUME ~mixed', NEW u \in Turns, NEW k \in active'[u] PROVE open'[k] # 0 /\ spans'[open'[k]].owner = u
    <3>1. k \in active[u] /\ k \in Keys /\ k # ProgramKey
      BY <1>2, <1>3, KeysDiffer
    <3>2. open[k] # 0 /\ spans[open[k]].owner = u
      BY <2>1, <2>4, <3>1 DEF TraceInv, Observed
    <3>3. open[k] \in DOMAIN spans
      BY <3>1, <3>2 DEF TraceInv, HookInv, Filed
    <3> QED  BY <2>1, <3>1, <3>2, <3>3
  <2>5. ASSUME ~mixed', NEW q \in Programs, Told(q)'
        PROVE  open'[ProgramKey] # 0 /\ spans'[open'[ProgramKey]].owner = q
    <3>1. CASE q = p
      <4>1. Len(spans) \in Nat
        BY <1>3
      <4> QED  BY <2>1, <3>1, <4>1
    <3>2. CASE q # p
      <4>1. Told(q)
        BY <1>2, <1>5, <2>2, <2>5, <3>2 DEF Told
      <4>2. open[ProgramKey] # 0
        BY <2>1, <2>5, <4>1 DEF TraceInv, Observed
      <4> QED  BY <2>1, <2>5, <4>2
    <3> QED  BY <3>1, <3>2
  <2>6. Observed'
    BY <2>3, <2>4, <2>5 DEF Observed, ProgramKey
  <2> QED  BY <1>7, <1>8, <1>10, <2>1, <2>6 DEF TraceInv
<1>13. CASE e.subject = "program" /\ e.phase = "complete"
  <2>1. \A q : ~Tells(e, q, "start") /\ (Tells(e, q, "complete") <=> q = p)
    BY <1>1, <1>13 DEF Tells
  <2>2. Awaits(p, "complete")
    BY <1>0, <2>1 DEF Awaits
  <2>3. program[p] = "done"
    BY <2>2 DEF TraceInv, InOrder
  <2>4. ~mixed' => ~mixed /\ open[ProgramKey] # 0 /\ spans[open[ProgramKey]].owner = p
    <3>1. SUFFICES ASSUME ~mixed' PROVE ~mixed /\ open[ProgramKey] # 0 /\ spans[open[ProgramKey]].owner = p
      OBVIOUS
    <3>2. ~mixed /\ ~Awaits(p, "start")
      BY <1>2, <1>13, <3>1
    <3>3. Told(p)
      BY <2>2, <2>3, <3>2 DEF Told
    <3> QED  BY <3>2, <3>3 DEF TraceInv, Observed
  <2>5. /\ HookInv'
        /\ Len(spans') = Len(spans) /\ DOMAIN spans' = DOMAIN spans
        /\ \A s \in DOMAIN spans : /\ spans'[s].key = spans[s].key /\ spans'[s].owner = spans[s].owner
                                   /\ spans'[s].state = "open" => s # open[ProgramKey] /\ spans[s].state = "open"
        /\ open'[ProgramKey] = 0 /\ \A k \in Keys : k # ProgramKey => open'[k] = open[k]
    <3>1. p \in Owners /\ ProgramKey \in Keys
      BY KeysDiffer DEF Owners
    <3>2. mixed' \in BOOLEAN
      BY <1>2, <1>13 DEF Awaits
    <3> QED  BY <1>2, <1>13, <2>4, <3>1, <3>2, EndSpanKeeps DEF TraceInv
  <2>6. ASSUME ~mixed', NEW s \in DOMAIN spans, spans'[s].state = "open" PROVE Untold(spans[s])'
    <3>1. PICK sp \in SpanRecords : sp = spans[s]
      BY <1>3
    <3>2. PICK new : new = spans'[s]
      OBVIOUS
    <3>3. new.key = sp.key /\ new.owner = sp.owner /\ sp.state = "open" /\ s # open[ProgramKey]
      BY <2>5, <2>6, <3>1, <3>2
    <3>4. Untold(spans[s]) /\ open[sp.key] = s /\ (sp.owner \in Programs => sp.key = ProgramKey)
      BY <2>4, <2>6, <3>1, <3>3 DEF TraceInv, Observed, HookInv, Unmixed, Shaped
    <3>5. sp.owner # p
      BY <3>3, <3>4
    <3>6. Untold(sp)
      BY <3>1, <3>4
    <3>7. Untold(sp)'
      BY <1>11, <2>1, <3>5, <3>6
    <3>8. Untold(new)'
      BY <3>3, <3>7 DEF Untold
    <3> QED  BY <3>2, <3>8
  <2>7. ASSUME ~mixed', NEW u \in Turns, NEW k \in active'[u] PROVE open'[k] # 0 /\ spans'[open'[k]].owner = u
    <3>1. k \in active[u] /\ k \in Keys /\ k # ProgramKey
      BY <1>2, <1>3, KeysDiffer
    <3>2. open[k] # 0 /\ spans[open[k]].owner = u
      BY <2>4, <2>7, <3>1 DEF TraceInv, Observed
    <3>3. open[k] \in DOMAIN spans
      BY <3>1, <3>2 DEF TraceInv, HookInv, Filed
    <3> QED  BY <2>5, <3>1, <3>2, <3>3
  <2>8. ASSUME ~mixed', NEW q \in Programs, Told(q)' PROVE FALSE
    <3>1. CASE q = p
      <4>1. Awaits(p, "complete")'
        BY <1>2, <2>3, <2>8, <3>1 DEF Told
      <4>2. PICK j \in DOMAIN pending : j # i /\ Tells(pending[j], p, "complete")
        BY <1>4, <4>1
      <4>3. Tells(pending[i], p, "complete")
        BY <1>0, <2>1
      <4> QED  BY <4>2, <4>3 DEF TraceInv, InOrder
    <3>2. CASE q # p
      <4>1. Told(q)
        BY <1>2, <1>5, <2>1, <2>8, <3>2 DEF Told
      <4>2. spans[open[ProgramKey]].owner = q
        BY <2>4, <2>8, <4>1 DEF TraceInv, Observed
      <4> QED  BY <2>4, <2>8, <3>2, <4>2
    <3> QED  BY <3>1, <3>2
  <2>9. Observed'
    BY <2>5, <2>6, <2>7, <2>8 DEF Observed
  <2> QED  BY <1>7, <1>8, <1>10, <2>5, <2>9 DEF TraceInv
<1>14. CASE e.subject = "call" \/ e.phase \in {"progress", "error"}
  <2>1. UNCHANGED <<open, spans, mixed>> /\ HookInv'
    BY <1>2, <1>14, HookIdle DEF TraceInv, hookVars
  <2>2. \A q : ~Tells(e, q, "start") /\ ~Tells(e, q, "complete")
    BY <1>14 DEF Tells
  <2>3. \A s \in DOMAIN spans : Untold(spans[s]) => Untold(spans[s])'
    <3> SUFFICES ASSUME NEW s \in DOMAIN spans, Untold(spans[s]) PROVE Untold(spans[s])'
      OBVIOUS
    <3>1. PICK sp \in SpanRecords : sp = spans[s]
      BY <1>3
    <3>2. Untold(sp)
      BY <3>1
    <3>3. Untold(sp)'
      BY <1>11, <2>2, <3>2
    <3> QED  BY <2>1, <3>1, <3>3
  <2>4. \A q : Told(q)' => Told(q)
    BY <1>2, <1>5, <2>2 DEF Told
  <2>5. Observed'
    BY <1>2, <2>1, <2>3, <2>4 DEF TraceInv, Observed, ProgramKey
  <2> QED  BY <1>7, <1>8, <1>10, <2>1, <2>5 DEF TraceInv
<1> QED  BY <1>12, <1>13, <1>14 DEF Events

LEMMA TraceInvStep == TraceInv /\ [TraceNext]_traceVars => TraceInv'
<1> SUFFICES ASSUME TraceInv, [TraceNext]_traceVars PROVE TraceInv'
  OBVIOUS
<1>1. ASSUME NEW t \in Turns, TurnOf(t) PROVE TraceInv'
  BY <1>1, TurnOfKeeps
<1>2. ASSUME NEW p \in Programs, ProgramOf(p) PROVE TraceInv'
  BY <1>2, ProgramOfKeeps
<1>3. ASSUME NEW i \in DOMAIN pending, Reach(i) PROVE TraceInv'
  BY <1>3, ReachKeeps
<1>4. CASE UNCHANGED traceVars
  <2>1. /\ UNCHANGED hookVars /\ UNCHANGED <<open, spans, mixed>>
        /\ UNCHANGED <<turn, active, program, calls, spanIds, unit, pending>>
    BY <1>4 DEF traceVars, hookVars, runVars, adapterVars
  <2>2. HookInv'
    BY <2>1, HookIdle DEF TraceInv
  <2>3. RunTypes' /\ Carried'
    BY <2>1 DEF TraceInv, RunTypes, Carried, Carries
  <2>4. InOrder' /\ Observed'
    BY <2>1 DEF TraceInv, InOrder, Observed, Told, Awaits, Tells, Untold, ProgramKey
  <2> QED  BY <2>2, <2>3, <2>4 DEF TraceInv
<1> QED  BY <1>1, <1>2, <1>3, <1>4 DEF TraceNext

LEMMA TraceInvSound == TraceInv => TraceSound
<1> SUFFICES ASSUME TraceInv PROVE TraceSound
  OBVIOUS
<1>1. NoSpanLost
  BY DEF TraceInv, HookInv, Filed, Unmixed, Observed, NoSpanLost
<1>2. Correlated
  BY DEF TraceInv, HookInv, Shaped, Carried, Carries, Correlated
<1> QED  BY <1>1, <1>2 DEF TraceSound

\* However turns, model calls and overtaking dispatches interleave, the dictionaries of the
\* one OTelHook hold open spans under their own keys, no span is lost or ended by other work
\* until an id is in use twice, and children and events are correlated (hooks/otel.py,
\* hooks/adapter.py).
THEOREM TraceSoundHolds == TraceSpec => []TraceSound
<1>1. TraceInit => TraceInv
  BY TraceInvInit
<1>2. TraceInv /\ [TraceNext]_traceVars => TraceInv'
  BY TraceInvStep
<1>3. TraceInv => TraceSound
  BY TraceInvSound
<1> QED  BY <1>1, <1>2, <1>3, PTL DEF TraceSpec

-----------------------------------------------------------------------------
(* AgentTurn. The invariant follows the turn: what every variable is where it waits *)
(* (Placed), the outer stream of a redirected handler and what was billed (Waits),  *)
(* the gates (Gated), the span stack (Formed), and the tape of the tool loop, its   *)
(* calls in order from the first taken off the queue to the one that runs (Tooled). *)
Words ==
  {"reply", "findings", "stopped", "no_evidence", "draft", "over_cap", "answer", "insufficient",
   "retried"}
Marks == {"run_error", "mismatch", "budget", "refusal", "evidence"}
CallRecords == [span : Spans, failed : BOOLEAN]
Stream ==
  [stack : Seq(Spans), open : SUBSET Spans, parents : SUBSET (Spans \X (Spans \cup {Nothing})),
   calls : Seq(CallRecords), text : Seq(Words), usage : Nat, cites : SUBSET BOOLEAN,
   marks : SUBSET Marks]
Items == {"start", "end", "eof"} \X (0..MaxCalls) \X BOOLEAN
Loop ==
  [state : {"idle", "running", "answered", "failed"}, left : Nat, drops : Nat,
   running : 0..MaxCalls, obs : Seq(CallRecords), calls : 0..MaxCalls, cost : Nat, draft : BOOLEAN]
Added ==
  [user : BOOLEAN, reply : Seq(Words), calls : Seq(CallRecords), findings : Nat,
   noted : BOOLEAN, saved : BOOLEAN]

\* Where the turn may wait: before the tool loop, with or after it, at its end.
Looking == {"begin", "classify", "documents", "query", "retry", "findings"}
Early == Looking \cup {"tools"}
Busy == {"drain", "judge", "reply"}

\* The spans of handlers, which a failure may leave open.
Handlers == {Turn, Query, Retry, Escalation, Subagent, Synthetic}

TurnTypes ==
  /\ setup \in Setups /\ pc \in Early \cup Busy \cup {"finish"} \cup Over
  /\ task \in Loop /\ queue \in Seq(Items) /\ out \in Stream /\ held \in Stream
  /\ first \in {NoResult} \cup Results /\ lacking \in BOOLEAN
  /\ ragSpent \in Nat /\ billed \in Nat /\ ragSpent <= billed /\ memory \in Added

\* The query that told what the documents lack is told before the calls of the tool loop.
Looked(told) == IF told # <<>> /\ told[1].span = Query THEN 1 ELSE 0
Own(told) == Len(told) - Looked(told)

\* What is settled once the turn waits at a place.
Placed ==
  /\ pc = "begin" => out = NoEvents
  /\ pc # "begin" => memory.user = ~setup.replay
  /\ memory.saved => pc = "done"
  /\ pc \in Looking => held = NoEvents /\ out.text = <<>> /\ ~lacking /\ memory.findings = 0
  /\ pc \in Looking \ {"retry"} => ragSpent = 0
  /\ pc \in Early => task = Idle /\ queue = <<>> /\ Own(out.calls) = 0
  /\ pc \in Looking => out.calls = <<>>
  /\ pc = "reply" =>
       /\ task.state \in {"idle", "failed"}
       /\ why \in {"no_documents", "documents_failed", "no_corpus"} => held = NoEvents /\ ~lacking
  /\ pc = "judge" => task.state \in {"answered", "failed"}
  /\ task.state = "running" => pc \in {"drain", "abandoned"}
  /\ pc \in {"finish", "done"} => held = NoEvents

\* An outer stream waits as it was, while the handler under it tells calls and nothing else.
\* What was billed is on the stream that will be shown.
Waits ==
  IF Redirected
    THEN /\ out.text = <<>> /\ out.usage = 0 /\ Looked(out.calls) = 0
         /\ held.text = <<>> /\ held.calls = <<>> /\ held.usage = billed
    ELSE out.usage = billed

\* The gates, with the money that is left for one more query.
Gated ==
  /\ Shown("answer") \/ memory.findings > 0 =>
       first.kind = "answer" /\ (setup.floor => first.sure) /\ (setup.strict => first.verified)
  /\ Shown("draft") =>
       /\ task.state = "answered"
       /\ ~Capped(setup.chatCap, task.cost)
       /\ setup.files /\ task.obs # <<>> => \E i \in DOMAIN task.obs : ~task.obs[i].failed
  /\ setup.cap # NoCap /\ ragSpent > 0 =>
       \E last \in Costs : ragSpent - last + Estimate <= setup.cap
  /\ pc \in {"query", "retry"} /\ setup.cap # NoCap => ragSpent + Estimate <= setup.cap

\* The span of the turn is at the bottom of the stack.
Rooted(stack) == stack # <<>> /\ stack[1] = Turn /\ \A i \in DOMAIN stack : stack[i] = Turn => i = 1
OfHandlers(stack) == \A i \in DOMAIN stack : stack[i] \in Handlers
Calm(stack) == Rooted(stack) /\ OfHandlers(stack) /\ Top(stack) \in {Turn, Escalation}

\* Tool spans start under the turn or the escalation, a query and a sub-agent under the turn.
Edges(parents) ==
  \A edge \in parents :
    /\ edge[1] \in {Call(n) : n \in 1..MaxCalls} => edge[2] \in {Turn, Escalation}
    /\ edge[1] \in {Query, Subagent} => edge[2] = Turn

Settled == Over \cup {"drain"}
Formed ==
  /\ pc \notin Settled \cup {"begin"} => Rooted(out.stack)
  /\ pc \in {"classify", "documents"} => out.stack = <<Turn>>
  /\ pc \in {"query", "retry"} => OfHandlers(out.stack)
  /\ pc \in {"tools", "judge"} => Calm(out.stack)
  /\ pc \notin Settled => out.open \subseteq Handlers
  /\ held.open \subseteq Handlers
  /\ Edges(out.parents) /\ Edges(held.parents)

Numbered(told) ==
  /\ Own(told) <= MaxCalls
  /\ \A i \in DOMAIN told : i > Looked(told) => told[i].span = Call(i - Looked(told))
Distinct(told) == \A i, j \in DOMAIN told : told[i].span = told[j].span => i = j
Recorded(obs, told) ==
  \A n \in DOMAIN obs : \E i \in DOMAIN told :
    /\ told[i].failed = obs[n].failed
    /\ told[i].span \in {obs[n].span} \cup {Replayed(k) : k \in 1..MaxCalls}

\* The loop tells the start and the end of its first call, of its second, and so on: as many
\* items as were taken, with those on the queue, are all it told.
Tape(taken) ==
  /\ task.state # "idle" /\ task.running \in {0, task.calls}
  /\ \A j \in DOMAIN queue :
       /\ queue[j][1] = "start" => taken + j = 2 * queue[j][2] - 1
       /\ queue[j][1] = "end" => taken + j = 2 * queue[j][2]
       /\ queue[j][1] = "eof" => task.state # "running" /\ j = Len(queue)
  /\ task.state = "running" =>
       /\ task.running = 0 => taken + Len(queue) = 2 * task.calls
       /\ task.running # 0 => taken + Len(queue) = 2 * task.calls - 1
  /\ task.state # "running" =>
       task.running = 0 /\ queue # <<>> /\ queue[Len(queue)][1] = "eof"
         /\ taken + Len(queue) = 2 * task.calls + 1

\* The turn has taken whole calls, or the start of one more, which is on top of its stack.
Between(taken) == taken = 2 * Own(out.calls) /\ Calm(out.stack) /\ out.open \subseteq Handlers
Within(taken) ==
  LET next == Call(Own(out.calls) + 1)
  IN /\ taken = 2 * Own(out.calls) + 1
     /\ \E base \in Seq(Spans) : Calm(base) /\ out.stack = Append(base, next)
     /\ out.open \subseteq Handlers \cup {next}

\* An observation of the loop was told already, or its end is on the queue.
Telling(obs) ==
  \/ \E i \in DOMAIN out.calls : out.calls[i] = obs
  \/ \E j \in DOMAIN queue :
       queue[j][1] = "end" /\ obs = [span |-> Call(queue[j][2]), failed |-> queue[j][3]]

Tooled ==
  /\ pc \in Busy => Numbered(out.calls)
  /\ pc = "drain" => \E taken \in Nat : Tape(taken) /\ (Between(taken) \/ Within(taken))
  /\ pc = "drain" => \A n \in DOMAIN task.obs : Telling(task.obs[n])
  /\ pc = "judge" => \A n \in DOMAIN task.obs : \E i \in DOMAIN out.calls : out.calls[i] = task.obs[n]
  /\ pc = "finish" => Distinct(out.calls) /\ (task.state = "answered" => Recorded(task.obs, out.calls))

TurnInv ==
  /\ TurnTypes /\ Placed /\ Waits /\ Gated /\ Formed /\ Tooled /\ StreamRecorded

-----------------------------------------------------------------------------
\* The constants, and what a setup is.
LEMMA TurnConstants ==
  /\ {MaxCalls, MaxDrops, Bypass, TopK, Estimate} \subseteq Nat /\ Costs \subseteq Nat /\ NoCap \notin Nat
  /\ setup \in Setups =>
       /\ setup.tools \in Nat /\ setup.room \in Nat /\ setup.cap \in Nat \cup {NoCap}
       /\ setup.chatCap \in Nat \cup {NoCap} /\ setup.replay \in BOOLEAN
       /\ setup.floor \in BOOLEAN /\ setup.strict \in BOOLEAN /\ setup.files \in BOOLEAN
  BY BoundsAssumption, SetupsAssumption DEF Setup

\* The spans are different spans.
LEMMA SpansDiffer ==
  /\ Handlers \subseteq Spans
  /\ \A n \in 1..MaxCalls : Call(n) \in Spans /\ Replayed(n) \in Spans
  /\ \A n \in Nat : Call(n) \notin Handlers /\ Replayed(n) \notin Handlers
  /\ \A m, n \in Nat : /\ Call(n) # Replayed(m) /\ (Call(n) = Call(m) => n = m)
                       /\ (Replayed(n) = Replayed(m) => n = m)
  /\ Turn # Query /\ Turn # Retry /\ Turn # Escalation /\ Turn # Subagent /\ Turn # Synthetic
  /\ Query # Retry /\ Query # Escalation /\ Query # Subagent /\ Query # Synthetic
  /\ Subagent # Retry /\ Subagent # Escalation /\ Subagent # Synthetic
  BY DEF Handlers, Spans, Call, Replayed, Turn, Query, Retry, Escalation, Subagent, Synthetic

\* Popping a span that is there once leaves what is below it.
LEMMA PopAt ==
  ASSUME NEW S, NEW stack \in Seq(S), NEW k \in DOMAIN stack, NEW s, stack[k] = s,
         \A i \in DOMAIN stack : stack[i] = s => i = k
  PROVE  PopTo(stack, s) = SubSeq(stack, 1, k - 1)
<1>1. (CHOOSE i \in DOMAIN stack : stack[i] = s) = k
  OBVIOUS
<1> QED  BY <1>1 DEF PopTo

\* Popping leaves a part of the stack from the bottom.
LEMMA PopKeeps ==
  ASSUME NEW S, NEW stack \in Seq(S), NEW s
  PROVE  /\ PopTo(stack, s) \in Seq(S) /\ Len(PopTo(stack, s)) <= Len(stack)
         /\ \A i \in DOMAIN PopTo(stack, s) : i \in DOMAIN stack /\ PopTo(stack, s)[i] = stack[i]
         /\ stack # <<>> /\ stack[1] # s => PopTo(stack, s) # <<>>
<1>1. CASE \E i \in DOMAIN stack : stack[i] = s
  <2>1. PICK k : k = CHOOSE i \in DOMAIN stack : stack[i] = s
    OBVIOUS
  <2>2. k \in DOMAIN stack /\ stack[k] = s
    BY <1>1, <2>1
  <2>3. PopTo(stack, s) = SubSeq(stack, 1, k - 1)
    BY <1>1, <2>1 DEF PopTo
  <2>4. Len(stack) \in Nat /\ k \in 1..Len(stack)
    BY <2>2
  <2>5. PICK low : low = SubSeq(stack, 1, k - 1)
    OBVIOUS
  <2>6. low \in Seq(S) /\ Len(low) = k - 1 /\ \A i \in 1..(k - 1) : low[i] = stack[i]
    BY <2>4, <2>5
  <2>7. stack # <<>> /\ stack[1] # s => k # 1
    BY <2>2
  <2> QED  BY <2>3, <2>4, <2>5, <2>6, <2>7
<1>2. CASE ~\E i \in DOMAIN stack : stack[i] = s
  BY <1>2 DEF PopTo
<1> QED  BY <1>1, <1>2

\* Popping the span that was pushed.
LEMMA PopPushed ==
  ASSUME NEW S, NEW stack \in Seq(S), NEW s \in S, \A i \in DOMAIN stack : stack[i] # s
  PROVE  PopTo(Append(stack, s), s) = stack
<1>0. Append(stack, s) \in Seq(S)
  OBVIOUS
<1>1. PICK high \in Seq(S) : high = Append(stack, s)
  BY <1>0, Zenon
<1>2. PICK n \in Nat : n = Len(stack)
  OBVIOUS
<1>3. /\ n + 1 \in DOMAIN high /\ high[n + 1] = s /\ DOMAIN high = 1..(n + 1)
      /\ \A i \in 1..n : high[i] = stack[i] /\ high[i] # s
  BY <1>1, <1>2
<1>4. \A i \in DOMAIN high : high[i] = s => i = n + 1
  BY <1>2, <1>3
<1>5. PopTo(high, s) = SubSeq(high, 1, (n + 1) - 1)
  BY <1>3, <1>4, PopAt
<1>6. SubSeq(high, 1, n) = stack
  BY <1>2, <1>3
<1>7. (n + 1) - 1 = n
  OBVIOUS
<1> QED  BY <1>1, <1>5, <1>6, <1>7

\* The span of the turn stays at the bottom until it completes, and then nothing is left.
LEMMA RootedOps ==
  ASSUME NEW stack \in Seq(Spans), Rooted(stack), NEW s \in Spans, s # Turn
  PROVE  Rooted(Append(stack, s)) /\ Rooted(PopTo(stack, s)) /\ PopTo(stack, Turn) = <<>>
<1>1. PICK n \in Nat : n = Len(stack) /\ n > 0 /\ DOMAIN stack = 1..n
  BY DEF Rooted
<1>2. Rooted(Append(stack, s))
  <2>0. Append(stack, s) \in Seq(Spans)
    OBVIOUS
  <2>1. PICK high \in Seq(Spans) : high = Append(stack, s)
    BY <2>0, Zenon
  <2>2. high # <<>> /\ high[n + 1] = s /\ \A i \in 1..n : high[i] = stack[i]
    BY <1>1, <2>1
  <2>3. DOMAIN high = 1..(n + 1)
    BY <1>1, <2>1
  <2>4. high[1] = Turn /\ \A i \in DOMAIN high : high[i] = Turn => i = 1
    BY <1>1, <2>2, <2>3 DEF Rooted
  <2> QED  BY <2>1, <2>2, <2>4 DEF Rooted
<1>3. Rooted(PopTo(stack, s))
  <2>0. stack # <<>> /\ stack[1] = Turn /\ stack[1] # s
    BY DEF Rooted
  <2>1. /\ PopTo(stack, s) # <<>> /\ PopTo(stack, s) \in Seq(Spans)
        /\ \A i \in DOMAIN PopTo(stack, s) : i \in DOMAIN stack /\ PopTo(stack, s)[i] = stack[i]
    BY <2>0, PopKeeps
  <2>2. PICK low \in Seq(Spans) : low = PopTo(stack, s)
    BY <2>1
  <2>3. 1 \in DOMAIN low
    BY <2>1, <2>2
  <2> QED  BY <2>0, <2>1, <2>2, <2>3 DEF Rooted
<1>4. PopTo(stack, Turn) = <<>>
  <2>1. 1 \in DOMAIN stack /\ stack[1] = Turn /\ \A i \in DOMAIN stack : stack[i] = Turn => i = 1
    BY <1>1 DEF Rooted
  <2>2. PopTo(stack, Turn) = SubSeq(stack, 1, 1 - 1)
    BY <2>1, PopAt
  <2> QED  BY <1>1, <2>2
<1> QED  BY <1>2, <1>3, <1>4

\* Spans of handlers only stay so when one of them is pushed, and when anything is popped.
LEMMA HandlersOps ==
  ASSUME NEW stack \in Seq(Spans), OfHandlers(stack), NEW s \in Handlers
  PROVE  OfHandlers(Append(stack, s)) /\ OfHandlers(PopTo(stack, s)) /\ Top(Append(stack, s)) = s
<1>1. OfHandlers(Append(stack, s))
  BY DEF OfHandlers
<1>2. OfHandlers(PopTo(stack, s))
  BY PopKeeps DEF OfHandlers
<1>3. Top(Append(stack, s)) = s
  BY DEF Top
<1> QED  BY <1>1, <1>2, <1>3

\* What is told on a stream besides its spans.
SameSpans(o, p) == p.stack = o.stack /\ p.open = o.open /\ p.parents = o.parents /\ p.calls = o.calls
Alike(o, p) == p \in Stream /\ SameSpans(o, p) /\ p.text = o.text /\ p.usage = o.usage
LEMMA MarkKeeps ==
  ASSUME NEW o \in Stream, NEW m \in Marks
  PROVE  Alike(o, Mark(o, m))
  BY DEF Stream, Mark, SameSpans, Alike

LEMMA CiteKeeps ==
  ASSUME NEW o \in Stream, NEW v \in BOOLEAN
  PROVE  Alike(o, Cite(o, v))
  BY DEF Stream, Cite, SameSpans, Alike

Texted(o, p, m) ==
  /\ p \in Stream /\ SameSpans(o, p) /\ p.usage = o.usage
  /\ \A kind : (\E i \in DOMAIN p.text : p.text[i] = kind)
                 => kind = m \/ \E i \in DOMAIN o.text : o.text[i] = kind
LEMMA TextKeeps ==
  ASSUME NEW o \in Stream, NEW m \in Words
  PROVE  Texted(o, Text(o, m), m)
<1>1. o.text \in Seq(Words)
  BY DEF Stream
<1>2. Append(o.text, m) \in Seq(Words)
  BY <1>1
<1>3. PICK more \in Seq(Words) : more = Append(o.text, m)
  BY <1>2, Zenon
<1>4. \A kind : (\E i \in DOMAIN more : more[i] = kind)
                  => kind = m \/ \E i \in DOMAIN o.text : o.text[i] = kind
  BY <1>1, <1>3
<1>5. PICK p : p = [o EXCEPT !.text = more]
  OBVIOUS
<1>6. p \in Stream /\ SameSpans(o, p) /\ p.usage = o.usage /\ p.text = more
  BY <1>5 DEF Stream, SameSpans
<1>7. Text(o, m) = p
  BY <1>3, <1>5 DEF Text
<1> QED  BY <1>3, <1>4, <1>6, <1>7 DEF Texted

Used(o, p, n) == p \in Stream /\ SameSpans(o, p) /\ p.text = o.text /\ p.usage = o.usage + n
LEMMA UsageKeeps ==
  ASSUME NEW o \in Stream, NEW n \in Nat
  PROVE  Used(o, Usage(o, n), n)
<1>1. PICK more \in Nat : more = o.usage + n
  BY DEF Stream
<1>2. Usage(o, n) = [o EXCEPT !.usage = more]
  BY <1>1 DEF Usage
<1>3. LET p == [o EXCEPT !.usage = more] IN
        p \in Stream /\ SameSpans(o, p) /\ p.text = o.text /\ p.usage = more
  BY DEF Stream, SameSpans
<1> QED  BY <1>1, <1>2, <1>3 DEF Used

\* What starts and completes on a stream.
Starts(o, p, s) ==
  /\ p \in Stream /\ p.calls = o.calls /\ p.text = o.text /\ p.usage = o.usage
  /\ p.stack = Append(o.stack, s) /\ p.open = o.open \cup {s}
  /\ p.parents = o.parents \cup {<<s, Top(o.stack)>>}
LEMMA StartKeeps ==
  ASSUME NEW o \in Stream, NEW s \in Spans
  PROVE  Starts(o, SpanStart(o, s), s)
<1>1. o.stack \in Seq(Spans) /\ o.parents \in SUBSET (Spans \X (Spans \cup {Nothing}))
      /\ o.open \in SUBSET Spans
  BY DEF Stream
<1>2. Append(o.stack, s) \in Seq(Spans)
  BY <1>1
<1>3. Top(o.stack) \in Spans \cup {Nothing}
  <2>1. CASE o.stack = <<>>
    BY <2>1 DEF Top
  <2>2. CASE o.stack # <<>>
    BY <1>1, <2>2 DEF Top
  <2> QED  BY <2>1, <2>2
<1>4. PICK top \in Spans \cup {Nothing} : top = Top(o.stack)
  BY <1>3
<1>5. PICK high \in Seq(Spans) : high = Append(o.stack, s)
  BY <1>2, Zenon
<1>6. PICK edges \in SUBSET (Spans \X (Spans \cup {Nothing})) : edges = o.parents \cup {<<s, top>>}
  <2>1. <<s, top>> \in Spans \X (Spans \cup {Nothing})
    BY <1>4
  <2>2. PICK edge \in Spans \X (Spans \cup {Nothing}) : edge = <<s, top>>
    BY <2>1, Zenon
  <2>3. o.parents \cup {edge} \in SUBSET (Spans \X (Spans \cup {Nothing}))
    BY <1>1, Zenon
  <2> QED  BY <2>2, <2>3, Zenon
<1>7. PICK now \in SUBSET Spans : now = o.open \cup {s}
  BY <1>1
<1>8. SpanStart(o, s) = [o EXCEPT !.stack = high, !.open = now, !.parents = edges]
  BY <1>4, <1>5, <1>6, <1>7 DEF SpanStart
<1>9. LET p == [o EXCEPT !.stack = high, !.open = now, !.parents = edges] IN
        /\ p \in Stream /\ p.calls = o.calls /\ p.text = o.text /\ p.usage = o.usage
        /\ p.stack = high /\ p.open = now /\ p.parents = edges
  BY DEF Stream
<1> QED  BY <1>4, <1>5, <1>6, <1>7, <1>8, <1>9 DEF Starts

Completes(o, p, s) ==
  /\ p \in Stream /\ p.text = o.text /\ p.usage = o.usage
  /\ p.stack = PopTo(o.stack, s) /\ p.open = o.open \ {s} /\ p.parents = o.parents
LEMMA CompleteKeeps ==
  ASSUME NEW o \in Stream, NEW s
  PROVE  Completes(o, SpanComplete(o, s), s) /\ SpanComplete(o, s).calls = o.calls
<1>1. o.stack \in Seq(Spans) /\ o.open \in SUBSET Spans
  BY DEF Stream
<1>2. PICK low \in Seq(Spans) : low = PopTo(o.stack, s)
  BY <1>1, PopKeeps
<1>3. PICK now \in SUBSET Spans : now = o.open \ {s}
  BY <1>1
<1>4. SpanComplete(o, s) = [o EXCEPT !.stack = low, !.open = now]
  BY <1>2, <1>3 DEF SpanComplete
<1>5. LET p == [o EXCEPT !.stack = low, !.open = now] IN
        /\ p \in Stream /\ p.calls = o.calls /\ p.text = o.text /\ p.usage = o.usage
        /\ p.stack = low /\ p.open = now /\ p.parents = o.parents
  BY DEF Stream
<1> QED  BY <1>2, <1>3, <1>4, <1>5 DEF Completes

LEMMA ToolKeeps ==
  ASSUME NEW o \in Stream, NEW s \in Spans, NEW failed \in BOOLEAN
  PROVE  /\ Completes(o, ToolComplete(o, s, failed), s)
         /\ ToolComplete(o, s, failed).calls = Append(o.calls, [span |-> s, failed |-> failed])
<1>0. PICK q : q = SpanComplete(o, s)
  OBVIOUS
<1>1. Completes(o, q, s) /\ q.calls = o.calls /\ q \in Stream
  BY <1>0, CompleteKeeps DEF Completes
<1>2. [span |-> s, failed |-> failed] \in CallRecords
  BY DEF CallRecords
<1>3. q.calls \in Seq(CallRecords)
  BY <1>1 DEF Stream
<1>4. Append(q.calls, [span |-> s, failed |-> failed]) \in Seq(CallRecords)
  BY <1>2, <1>3
<1>5. PICK more \in Seq(CallRecords) : more = Append(q.calls, [span |-> s, failed |-> failed])
  BY <1>4, Zenon
<1>6. ToolComplete(o, s, failed) = [q EXCEPT !.calls = more]
  BY <1>0, <1>5 DEF ToolComplete
<1>7. LET p == [q EXCEPT !.calls = more] IN
        /\ p \in Stream /\ p.calls = more /\ p.stack = q.stack /\ p.open = q.open
        /\ p.parents = q.parents /\ p.text = q.text /\ p.usage = q.usage
  BY <1>1 DEF Stream
<1> QED  BY <1>1, <1>5, <1>6, <1>7 DEF Completes

\* A span that starts leaves the edges right, when it is where it belongs.
LEMMA EdgesGrow ==
  ASSUME NEW parents, Edges(parents), NEW s, NEW top,
         s \in {Call(n) : n \in 1..MaxCalls} => top \in {Turn, Escalation},
         s \in {Query, Subagent} => top = Turn
  PROVE  Edges(parents \cup {<<s, top>>})
  BY DEF Edges

\* A stream whose span of the turn is open and whose tools are done.
Fit(o) == Rooted(o.stack) /\ o.open \subseteq Handlers /\ Edges(o.parents)

LEMMA FitKeeps ==
  ASSUME NEW o, NEW p, SameSpans(o, p)
  PROVE  (Fit(o) => Fit(p)) /\ (OfHandlers(o.stack) => OfHandlers(p.stack))
  BY DEF SameSpans, Fit

LEMMA FitStart ==
  ASSUME NEW o \in Stream, Fit(o), NEW s \in {Retry, Escalation, Synthetic}
  PROVE  Fit(SpanStart(o, s)) /\ (OfHandlers(o.stack) => OfHandlers(SpanStart(o, s).stack))
<1>1. o.stack \in Seq(Spans) /\ s \in Handlers /\ s \in Spans /\ s # Turn
  BY SpansDiffer DEF Stream, Handlers
<1>2. s \notin {Call(n) : n \in 1..MaxCalls} /\ s \notin {Query, Subagent}
  BY TurnConstants DEF Call, Turn, Query, Retry, Escalation, Subagent, Synthetic
<1>3. PICK p : p = SpanStart(o, s)
  OBVIOUS
<1>4. p.stack = Append(o.stack, s) /\ p.open = o.open \cup {s}
      /\ p.parents = o.parents \cup {<<s, Top(o.stack)>>}
  BY <1>1, <1>3, StartKeeps DEF Starts
<1>5. Edges(p.parents)
  <2>1. PICK top : top = Top(o.stack)
    OBVIOUS
  <2>2. Edges(o.parents)
    BY DEF Fit
  <2>3. Edges(o.parents \cup {<<s, top>>})
    BY <1>2, <2>2, EdgesGrow
  <2> QED  BY <1>4, <2>1, <2>3
<1>6. Rooted(p.stack)
  BY <1>1, <1>4, RootedOps DEF Fit
<1>7. OfHandlers(o.stack) => OfHandlers(p.stack)
  BY <1>1, <1>4, HandlersOps
<1>8. p.open \subseteq Handlers
  BY <1>1, <1>4 DEF Fit
<1> QED  BY <1>3, <1>5, <1>6, <1>7, <1>8 DEF Fit

LEMMA FitComplete ==
  ASSUME NEW o \in Stream, Fit(o), NEW s \in Handlers \ {Turn}, NEW failed \in BOOLEAN
  PROVE  /\ Fit(SpanComplete(o, s)) /\ Fit(ToolComplete(o, s, failed))
         /\ OfHandlers(o.stack) => OfHandlers(SpanComplete(o, s).stack)
         /\ OfHandlers(o.stack) => OfHandlers(ToolComplete(o, s, failed).stack)
<1>1. o.stack \in Seq(Spans) /\ s \in Spans /\ s # Turn /\ s \in Handlers
  BY SpansDiffer DEF Stream
<1>2. Rooted(PopTo(o.stack, s)) /\ o.open \ {s} \subseteq Handlers /\ Edges(o.parents)
  BY <1>1, RootedOps DEF Fit
<1>3. OfHandlers(o.stack) => OfHandlers(PopTo(o.stack, s))
  BY <1>1, HandlersOps
<1>4. Fit(SpanComplete(o, s)) /\ (OfHandlers(o.stack) => OfHandlers(SpanComplete(o, s).stack))
  BY <1>2, <1>3, CompleteKeeps DEF Fit, Completes
<1>5. Fit(ToolComplete(o, s, failed))
      /\ (OfHandlers(o.stack) => OfHandlers(ToolComplete(o, s, failed).stack))
  <2>1. PICK p : p = ToolComplete(o, s, failed)
    OBVIOUS
  <2>2. p.stack = PopTo(o.stack, s) /\ p.open = o.open \ {s} /\ p.parents = o.parents
    <3>1. Completes(o, ToolComplete(o, s, failed), s)
      BY <1>1, ToolKeeps, Zenon
    <3> QED  BY <2>1, <3>1 DEF Completes
  <2> QED  BY <1>2, <1>3, <2>1, <2>2 DEF Fit
<1> QED  BY <1>4, <1>5

\* Where the turn goes on from the document path, and with which stream.
LEMMA DocumentsReturned ==
  ASSUME NEW o \in Stream, Fit(o), NEW lack \in BOOLEAN, OfHandlers(o.stack) \/ ~lack,
         DocumentsReturn(o, lack)
  PROVE  /\ out' \in Stream /\ Fit(out') /\ held' = held /\ lacking' = lack
         /\ out'.calls = o.calls /\ out'.text = o.text /\ out'.usage = o.usage
         /\ pc' \in {"tools", "finish"}
         /\ pc' = "tools" => lack /\ Calm(out'.stack)
<1>1. CASE lack /\ setup.corpus = "large"
  <2>1. out' = SpanStart(o, Escalation) /\ pc' = "tools" /\ held' = held /\ lacking' = lack
    BY <1>1 DEF DocumentsReturn
  <2>2. Escalation \in Spans /\ Escalation \in Handlers /\ o.stack \in Seq(Spans)
    BY SpansDiffer DEF Handlers, Stream
  <2>3. PICK p : p = SpanStart(o, Escalation)
    OBVIOUS
  <2>4. /\ p \in Stream /\ p.calls = o.calls /\ p.text = o.text /\ p.usage = o.usage
        /\ p.stack = Append(o.stack, Escalation)
    BY <2>2, <2>3, StartKeeps DEF Starts
  <2>5. Fit(p) /\ OfHandlers(p.stack)
    BY <1>1, <2>3, FitStart
  <2>6. Top(p.stack) = Escalation
    BY <1>1, <2>2, <2>4, HandlersOps
  <2>7. Calm(p.stack)
    BY <2>5, <2>6 DEF Calm, Fit
  <2> QED  BY <1>1, <2>1, <2>3, <2>4, <2>5, <2>7
<1>2. CASE ~(lack /\ setup.corpus = "large")
  BY <1>2 DEF DocumentsReturn
<1> QED  BY <1>1, <1>2

LEMMA NoEventsFit ==
  /\ NoEvents \in Stream /\ NoEvents.stack = <<>> /\ NoEvents.open = {} /\ NoEvents.parents = {}
  /\ NoEvents.calls = <<>> /\ NoEvents.text = <<>> /\ NoEvents.usage = 0
  /\ Edges(NoEvents.parents)
  BY DEF NoEvents, Stream, Edges

\* The loop's own calls are those after the query's, and one more each time.
LEMMA OwnCalls ==
  ASSUME NEW told \in Seq(CallRecords)
  PROVE  /\ Looked(told) \in {0, 1} /\ Own(told) \in Nat /\ Len(told) = Own(told) + Looked(told)
         /\ Own(told) = 0 => Numbered(told)
<1>1. PICK l \in {0, 1} : l = Looked(told)
  BY DEF Looked
<1>2. PICK n \in Nat : n = Len(told) /\ DOMAIN told = 1..n
  OBVIOUS
<1>3. l = 1 => n > 0
  BY <1>1, <1>2 DEF Looked
<1>4. Own(told) = n - l /\ n - l \in Nat /\ n = (n - l) + l
  BY <1>1, <1>2, <1>3 DEF Own
<1>5. ASSUME Own(told) = 0 PROVE Numbered(told)
  <2>1. n = l
    BY <1>4, <1>5
  <2>2. \A i \in DOMAIN told : ~(i > Looked(told))
    BY <1>1, <1>2, <2>1
  <2> QED  BY <1>5, <2>2, TurnConstants DEF Numbered
<1> QED  BY <1>1, <1>2, <1>4, <1>5

LEMMA OwnGrows ==
  ASSUME NEW told \in Seq(CallRecords), NEW record \in CallRecords, record.span # Query,
         NEW more \in Seq(CallRecords), more = Append(told, record)
  PROVE  Looked(more) = Looked(told) /\ Own(more) = Own(told) + 1
<1>1. /\ Len(more) = Len(told) + 1 /\ more # <<>> /\ Len(told) \in Nat
      /\ \A i \in DOMAIN told : more[i] = told[i]
  OBVIOUS
<1>2. Looked(more) = Looked(told)
  <2>1. CASE told = <<>>
    <3>1. more[1] = record
      BY <2>1
    <3> QED  BY <2>1, <3>1 DEF Looked
  <2>2. CASE told # <<>>
    <3>1. more[1] = told[1]
      BY <1>1, <2>2
    <3> QED  BY <1>1, <2>2, <3>1 DEF Looked
  <2> QED  BY <2>1, <2>2
<1> QED  BY <1>1, <1>2, OwnCalls DEF Own

\* Different numbers, different spans.
LEMMA NumberedDistinct ==
  ASSUME NEW told \in Seq(CallRecords), Numbered(told)
  PROVE  Distinct(told)
<1>1. PICK l \in {0, 1}, n \in Nat : l = Looked(told) /\ n = Len(told) /\ DOMAIN told = 1..n
  BY OwnCalls
<1>2. \A i \in 1..n : i > l => i - l \in Nat /\ told[i].span = Call(i - l)
  BY <1>1 DEF Numbered
<1>3. \A i \in 1..n : i <= l => i = 1 /\ told[i].span = Query
  BY <1>1 DEF Looked
<1>4. \A k \in Nat : Call(k) # Query
  BY SpansDiffer DEF Handlers
<1>5. SUFFICES ASSUME NEW i \in 1..n, NEW j \in 1..n, told[i].span = told[j].span PROVE i = j
  BY <1>1 DEF Distinct
<1>6. CASE i > l /\ j > l
  BY <1>2, <1>5, <1>6, SpansDiffer
<1>7. CASE i <= l \/ j <= l
  BY <1>2, <1>3, <1>4, <1>5, <1>7
<1> QED  BY <1>6, <1>7

\* A stream within a stream is shown by its calls, its texts and its usage.
Shows(h, o, p) ==
  /\ p \in Stream /\ Fit(p) /\ p.usage = h.usage + o.usage /\ p.text = o.text
  /\ Distinct(p.calls) /\ DOMAIN p.calls = DOMAIN o.calls
  /\ \A i \in DOMAIN o.calls :
       p.calls[i].failed = o.calls[i].failed /\ p.calls[i].span = Replayed(i) /\ i \in 1..MaxCalls
LEMMA Replays ==
  ASSUME NEW h \in Stream, NEW o \in Stream, Rooted(o.stack), h.open \subseteq Handlers,
         Edges(h.parents), h.calls = <<>>, h.text = <<>>, Numbered(o.calls),
         Looked(o.calls) = 0
  PROVE  Shows(h, o, Replay(h, o))
<1>1. /\ o.calls \in Seq(CallRecords) /\ o.stack \in Seq(Spans) /\ o.text \in Seq(Words)
      /\ h.usage \in Nat /\ o.usage \in Nat /\ MaxCalls \in Nat
      /\ h.parents \in SUBSET (Spans \X (Spans \cup {Nothing}))
  BY TurnConstants DEF Stream
<1>2. PICK told : told = o.calls
  OBVIOUS
<1>3. told \in Seq(CallRecords) /\ \A i \in DOMAIN told : i \in 1..MaxCalls /\ told[i].failed \in BOOLEAN
  <2>1. PICK n \in Nat : n = Len(told) /\ DOMAIN told = 1..n /\ n <= MaxCalls
    BY <1>1, <1>2 DEF Numbered, Own
  <2>2. \A i \in DOMAIN told : told[i] \in CallRecords
    BY <1>1, <1>2
  <2> QED  BY <1>1, <1>2, <2>1, <2>2 DEF CallRecords
<1>4. PICK again : again = [i \in DOMAIN told |-> [span |-> Replayed(i), failed |-> told[i].failed]]
  OBVIOUS
<1>5. \A i \in DOMAIN told : [span |-> Replayed(i), failed |-> told[i].failed] \in CallRecords
  BY <1>3, SpansDiffer DEF CallRecords
<1>6. again \in Seq(CallRecords) /\ DOMAIN again = DOMAIN told
  <2>1. PICK n \in Nat : n = Len(told) /\ DOMAIN told = 1..n
    BY <1>3
  <2>2. again \in [1..n -> CallRecords]
    BY <1>4, <1>5, <2>1
  <2> QED  BY <2>1, <2>2, <1>4
<1>7. \A i \in DOMAIN told : again[i].span = Replayed(i) /\ again[i].failed = told[i].failed
  BY <1>4
<1>8. PICK empty \in Seq(CallRecords) : empty = <<>>
  <2>1. <<>> \in Seq(CallRecords)
    OBVIOUS
  <2> QED  BY <2>1, Zenon
<1>9. empty \o again = again
  <2>1. empty \o again \in Seq(CallRecords)
    BY <1>6
  <2>2. Len(empty \o again) = Len(again) /\ \A i \in 1..Len(again) : (empty \o again)[i] = again[i]
    BY <1>6, <1>8
  <2> QED  BY <1>6, <2>1, <2>2
<1>10. PICK none \in Seq(Words) : none = <<>>
  <2>1. <<>> \in Seq(Words)
    OBVIOUS
  <2> QED  BY <2>1, Zenon
<1>11. none \o o.text = o.text
  <2>0. PICK words \in Seq(Words) : words = o.text
    BY <1>1
  <2>1. none \o words \in Seq(Words)
    OBVIOUS
  <2>2. PICK both \in Seq(Words) : both = none \o words
    BY <2>1, Zenon
  <2>3. Len(none) = 0 /\ Len(words) \in Nat
    BY <1>10
  <2>4. Len(both) = Len(words) /\ \A i \in 1..Len(words) : both[i] = words[i]
    BY <2>2, <2>3
  <2>5. both = words
    BY <2>4
  <2> QED  BY <2>0, <2>2, <2>5
<1>12. Top(o.stack) \in Spans
  BY <1>1 DEF Top, Rooted
<1>13. PICK top \in Spans : top = Top(o.stack)
  BY <1>12
<1>14. PICK edges \in SUBSET (Spans \X (Spans \cup {Nothing})) :
         edges = h.parents \cup {<<Replayed(i), top>> : i \in DOMAIN told}
  <2>1. \A i \in DOMAIN told : <<Replayed(i), top>> \in Spans \X (Spans \cup {Nothing})
    BY <1>3, SpansDiffer
  <2> QED  BY <1>1, <2>1
<1>15. Edges(edges)
  <2>1. \A i \in Nat : Replayed(i) \notin {Call(n) : n \in 1..MaxCalls} /\ Replayed(i) \notin {Query, Subagent}
    BY SpansDiffer DEF Handlers
  <2>2. \A i \in DOMAIN told : i \in Nat
    BY <1>3
  <2> QED  BY <1>14, <2>1, <2>2 DEF Edges
<1>16. PICK sum \in Nat : sum = h.usage + o.usage
  BY <1>1
<1>17. Replay(h, o) = [h EXCEPT !.stack = o.stack, !.parents = edges, !.calls = again,
                               !.text = o.text, !.usage = sum]
  BY <1>2, <1>4, <1>8, <1>9, <1>10, <1>11, <1>13, <1>14, <1>16 DEF Replay
<1>18. LET p == [h EXCEPT !.stack = o.stack, !.parents = edges, !.calls = again,
                         !.text = o.text, !.usage = sum] IN
         /\ p \in Stream /\ p.stack = o.stack /\ p.open = h.open /\ p.parents = edges
         /\ p.calls = again /\ p.text = o.text /\ p.usage = sum
  BY <1>1, <1>6 DEF Stream
<1>19. Distinct(again)
  BY <1>3, <1>6, <1>7, SpansDiffer DEF Distinct
<1>20. PICK p : p = Replay(h, o)
  OBVIOUS
<1>21. /\ p \in Stream /\ p.stack = o.stack /\ p.open = h.open /\ p.parents = edges
       /\ p.calls = again /\ p.text = o.text /\ p.usage = sum
  BY <1>17, <1>18, <1>20
<1>22. Fit(p)
  BY <1>15, <1>21 DEF Fit
<1> QED  BY <1>2, <1>3, <1>6, <1>7, <1>16, <1>19, <1>20, <1>21, <1>22 DEF Shows

\* What a handler returns is shown: its own stream, or told again on the stream that waited.
LEMMA Returned ==
  ASSUME TurnTypes, Waits, Formed, NEW o \in Stream, NEW cost \in Nat, Return(o), Rooted(o.stack),
         ~Redirected => o.open \subseteq Handlers /\ Edges(o.parents) /\ Distinct(o.calls),
         Redirected => Numbered(o.calls) /\ Looked(o.calls) = 0, o.usage = out.usage + cost
  PROVE  /\ out' \in Stream /\ Fit(out') /\ held' = NoEvents /\ pc' = "finish"
         /\ out'.usage = billed + cost /\ Distinct(out'.calls)
         /\ \A kind : (\E i \in DOMAIN out'.text : out'.text[i] = kind)
                        => \E i \in DOMAIN o.text : o.text[i] = kind
         /\ \A i \in DOMAIN o.calls : \E k \in DOMAIN out'.calls :
              /\ out'.calls[k].failed = o.calls[i].failed
              /\ out'.calls[k].span \in {o.calls[i].span} \cup {Replayed(n) : n \in 1..MaxCalls}
<1>1. CASE Redirected
  <2>1. /\ out' = Replay(held, o) /\ held' = NoEvents /\ pc' = "finish"
    BY <1>1 DEF Return
  <2>2. /\ held \in Stream /\ held.open \subseteq Handlers /\ Edges(held.parents)
        /\ held.calls = <<>> /\ held.text = <<>> /\ held.usage = billed /\ out.usage = 0
    BY <1>1 DEF TurnTypes, Waits, Formed
  <2>3. PICK p : p = Replay(held, o)
    OBVIOUS
  <2>4. Shows(held, o, p)
    <3>1. Numbered(o.calls) /\ Looked(o.calls) = 0
      BY <1>1
    <3> QED  BY <2>2, <2>3, <3>1, Replays
  <2>5. p.usage = billed + cost /\ p.text = o.text
    BY <2>2, <2>4 DEF TurnTypes, Shows
  <2>6. \A i \in DOMAIN o.calls : \E k \in DOMAIN p.calls :
          /\ p.calls[k].failed = o.calls[i].failed
          /\ p.calls[k].span \in {o.calls[i].span} \cup {Replayed(n) : n \in 1..MaxCalls}
    BY <2>4, Zenon DEF Shows
  <2> QED  BY <2>1, <2>3, <2>4, <2>5, <2>6 DEF Shows
<1>2. CASE ~Redirected
  <2>1. out' = o /\ held' = held /\ pc' = "finish"
    BY <1>2 DEF Return
  <2>2. held' = NoEvents /\ out.usage = billed
    BY <1>2, <2>1 DEF Redirected, Waits
  <2>3. Fit(o)
    BY <1>2 DEF Fit
  <2> QED  BY <1>2, <2>1, <2>2, <2>3
<1> QED  BY <1>1, <1>2

\* A handler that raises leaves its stream, or loses it and leaves the one that waited.
LEMMA Raised ==
  ASSUME TurnTypes, Waits, Formed, Fit(out), Numbered(out.calls), Raise
  PROVE  /\ out' \in Stream /\ Fit(out') /\ held' = NoEvents /\ pc' = "finish"
         /\ out'.usage = billed /\ Distinct(out'.calls)
         /\ \A kind : (\E i \in DOMAIN out'.text : out'.text[i] = kind) => Shown(kind)
<1>1. CASE Redirected
  <2>1. PICK p : p = [held EXCEPT !.stack = out.stack]
    OBVIOUS
  <2>2. /\ held \in Stream /\ out.stack \in Seq(Spans)
        /\ held.open \subseteq Handlers /\ Edges(held.parents) /\ Rooted(out.stack)
        /\ held.calls = <<>> /\ held.text = <<>> /\ held.usage = billed
    BY <1>1 DEF TurnTypes, Waits, Formed, Fit, Stream
  <2>3. p \in Stream /\ p.calls = <<>> /\ p.text = <<>> /\ p.usage = billed /\ Fit(p)
    BY <2>1, <2>2 DEF Stream, Fit
  <2>4. out' = Mark(p, "run_error") /\ held' = NoEvents /\ pc' = "finish"
    BY <1>1, <2>1 DEF Raise
  <2>5. PICK q : q = Mark(p, "run_error")
    OBVIOUS
  <2>6. q \in Stream /\ SameSpans(p, q) /\ q.text = p.text /\ q.usage = p.usage
    <3>0. "run_error" \in Marks
      BY DEF Marks
    <3>1. Alike(p, Mark(p, "run_error"))
      BY <2>3, <3>0, MarkKeeps, Zenon
    <3> QED  BY <2>5, <3>1 DEF Alike
  <2>7. Fit(q) /\ q.calls = <<>>
    BY <2>3, <2>6, FitKeeps DEF SameSpans
  <2>8. Distinct(q.calls)
    BY <2>7 DEF Distinct
  <2> QED  BY <2>3, <2>4, <2>5, <2>6, <2>7, <2>8
<1>2. CASE ~Redirected
  <2>1. out' = Mark(out, "run_error") /\ held' = NoEvents /\ pc' = "finish"
    BY <1>2 DEF Raise
  <2>2. out \in Stream /\ out.usage = billed
    BY <1>2 DEF TurnTypes, Waits
  <2>3. PICK q : q = Mark(out, "run_error")
    OBVIOUS
  <2>4. q \in Stream /\ SameSpans(out, q) /\ q.text = out.text /\ q.usage = out.usage
    <3>0. "run_error" \in Marks
      BY DEF Marks
    <3>1. Alike(out, Mark(out, "run_error"))
      BY <2>2, <3>0, MarkKeeps, Zenon
    <3> QED  BY <2>3, <3>1 DEF Alike
  <2>5. Fit(q) /\ q.calls = out.calls
    BY <2>4, FitKeeps DEF SameSpans
  <2>6. out.calls \in Seq(CallRecords)
    BY <2>2 DEF Stream
  <2>7. Distinct(q.calls)
    BY <2>5, <2>6, NumberedDistinct
  <2> QED  BY <2>1, <2>2, <2>3, <2>4, <2>5, <2>7 DEF Shown
<1> QED  BY <1>1, <1>2

-----------------------------------------------------------------------------
\* A turn begins with nothing told.
LEMMA TurnBegins == TurnInit => TurnInv
<1> SUFFICES ASSUME TurnInit PROVE TurnInv
  OBVIOUS
<1>1. out = NoEvents /\ held = NoEvents /\ pc = "begin" /\ ~Redirected
  BY DEF TurnInit, Redirected
<1>2. TurnTypes
  <2>1. Idle \in Loop
    BY TurnConstants DEF Idle, Loop
  <2>2. memory \in Added
    BY DEF TurnInit, Added
  <2>3. queue \in Seq(Items)
    BY DEF TurnInit
  <2>4. task \in Loop /\ out \in Stream /\ held \in Stream
    BY <2>1, NoEventsFit DEF TurnInit
  <2>5. first \in {NoResult} /\ setup \in Setups /\ pc \in Early /\ lacking \in BOOLEAN
    BY DEF TurnInit, Early, Looking
  <2>6. ragSpent \in Nat /\ billed \in Nat /\ ragSpent <= billed
    BY DEF TurnInit
  <2> QED  BY <2>2, <2>3, <2>4, <2>5, <2>6 DEF TurnTypes
<1>3. Placed
  <2>1. Own(out.calls) = 0
    BY <1>1, NoEventsFit DEF Own, Looked
  <2> QED  BY <1>1, <2>1, NoEventsFit DEF TurnInit, Placed, Over, Looking, Early, Idle
<1>4. Waits
  BY <1>1, NoEventsFit DEF TurnInit, Waits
<1>5. Gated
  BY <1>1, NoEventsFit DEF TurnInit, Gated, Shown
<1>6. Formed
  BY <1>1, NoEventsFit DEF Formed, Settled, Over
<1>7. Tooled
  BY <1>1 DEF Tooled, Busy
<1>8. StreamRecorded
  BY <1>1 DEF StreamRecorded
<1> QED  BY <1>2, <1>3, <1>4, <1>5, <1>6, <1>7, <1>8 DEF TurnInv

LEMMA BeginStep == ASSUME TurnInv, Begin PROVE TurnInv'
<1> USE DEF TurnInv
<1>1. /\ pc = "begin" /\ pc' = "classify" /\ out = NoEvents
      /\ UNCHANGED <<setup, why, task, queue, held, first, lacking, ragSpent, billed, summary>>
      /\ memory' = [memory EXCEPT !.user = ~setup.replay]
  BY DEF Begin, Placed
<1>2. PICK p : p = SpanStart(NoEvents, Turn)
  OBVIOUS
<1>3. /\ p \in Stream /\ p.calls = <<>> /\ p.text = <<>> /\ p.usage = 0
      /\ p.stack = Append(<<>>, Turn) /\ p.open = {Turn} /\ p.parents = {<<Turn, Nothing>>}
  <2>1. Turn \in Spans
    BY SpansDiffer DEF Handlers
  <2> QED  BY <1>2, <2>1, NoEventsFit, StartKeeps DEF Top, Starts
<1>4. out' = p /\ p.stack = <<Turn>>
  BY <1>1, <1>2, <1>3 DEF Begin
<1>5. /\ held = NoEvents /\ ~lacking /\ memory.findings = 0 /\ ragSpent = 0 /\ task = Idle
      /\ queue = <<>> /\ memory.saved = FALSE /\ held' = NoEvents
  BY <1>1 DEF Placed, Looking, Early, TurnTypes, Added
<1>6. /\ setup.replay \in BOOLEAN /\ memory \in Added
  BY TurnConstants DEF TurnTypes
<1>7. memory' \in Added /\ memory'.user = ~setup.replay /\ memory'.findings = 0 /\ memory'.saved = FALSE
  BY <1>1, <1>5, <1>6 DEF Added
<1>8. TurnTypes'
  BY <1>1, <1>3, <1>4, <1>7 DEF TurnTypes, Early, Looking
<1>9. Placed'
  BY <1>1, <1>3, <1>4, <1>5, <1>7 DEF Placed, Looking, Early, Over, Idle
<1>10. Waits'
  BY <1>1, <1>3, <1>4, <1>5, NoEventsFit DEF Waits, Redirected
<1>11. Gated'
  BY <1>1, <1>3, <1>4, <1>5, <1>7 DEF Gated, Shown
<1>12. Formed'
  <2>1. Rooted(p.stack)
    BY <1>4 DEF Rooted
  <2>2. Edges(p.parents)
    BY <1>3 DEF Edges, Turn, Query, Subagent, Call
  <2> QED  BY <1>1, <1>3, <1>4, <1>5, <2>1, <2>2, NoEventsFit DEF Formed, Settled, Over, Handlers
<1>13. Tooled' /\ StreamRecorded'
  BY <1>1 DEF Tooled, StreamRecorded, Busy
<1> QED  BY <1>8, <1>9, <1>10, <1>11, <1>12, <1>13

LEMMA ClassifyFailsStep == ASSUME TurnInv, ClassifyFails PROVE TurnInv'
<1> USE DEF TurnInv
<1>1. /\ pc = "classify" /\ pc' = "done" /\ summary' = << <<>> >>
      /\ out' = SpanComplete(Mark(out, "run_error"), Turn)
      /\ UNCHANGED <<setup, why, task, queue, held, first, lacking, ragSpent, billed, memory>>
  BY DEF ClassifyFails
<1>2. /\ out \in Stream /\ out.stack = <<Turn>> /\ out.open \subseteq Handlers /\ Edges(out.parents)
      /\ out.text = <<>> /\ out.calls = <<>> /\ out.usage = billed /\ held = NoEvents /\ ~lacking
      /\ memory.findings = 0 /\ ragSpent = 0 /\ task = Idle /\ queue = <<>> /\ ~memory.saved
      /\ memory.user = ~setup.replay
  BY <1>1 DEF Placed, Looking, Early, TurnTypes, Formed, Settled, Over, Waits, Redirected
<1>3. PICK q : q = Mark(out, "run_error")
  OBVIOUS
<1>4. q \in Stream /\ SameSpans(out, q) /\ q.text = out.text /\ q.usage = out.usage
  <2>0. "run_error" \in Marks
    BY DEF Marks
  <2>1. Alike(out, Mark(out, "run_error"))
    BY <1>2, <2>0, MarkKeeps, Zenon
  <2> QED  BY <1>3, <2>1 DEF Alike
<1>5. PICK p : p = SpanComplete(q, Turn)
  OBVIOUS
<1>6. /\ p \in Stream /\ p.calls = q.calls /\ p.text = q.text /\ p.usage = q.usage
      /\ p.stack = PopTo(q.stack, Turn) /\ p.open = q.open \ {Turn} /\ p.parents = q.parents
  BY <1>4, <1>5, CompleteKeeps DEF Completes
<1>7. /\ out' = p /\ p.calls = <<>> /\ p.text = <<>> /\ p.usage = billed
      /\ p.open = out.open \ {Turn} /\ p.parents = out.parents
  BY <1>1, <1>2, <1>3, <1>4, <1>5, <1>6 DEF SameSpans
<1>8. p.stack = <<>>
  <2>1. Rooted(out.stack) /\ out.stack \in Seq(Spans)
    BY <1>1, <1>2 DEF Formed, Settled, Over, Stream
  <2>2. Query \in Spans /\ Query # Turn
    BY SpansDiffer DEF Handlers
  <2>3. PopTo(out.stack, Turn) = <<>>
    BY <2>1, <2>2, RootedOps
  <2> QED  BY <1>4, <1>6, <2>3 DEF SameSpans
<1>9. TurnTypes'
  BY <1>1, <1>6, <1>7 DEF TurnTypes, Over
<1>10. Placed'
  BY <1>1, <1>2 DEF Placed, Looking, Early, Over, Idle
<1>11. Waits' /\ Gated'
  BY <1>1, <1>2, <1>7, NoEventsFit DEF Waits, Redirected, Gated, Shown
<1>12. Formed'
  BY <1>1, <1>2, <1>7, NoEventsFit DEF Formed, Settled, Over
<1>13. Tooled'
  BY <1>1 DEF Tooled, Busy
<1>14. StreamRecorded'
  <2>1. p.open \subseteq {Query, Retry, Escalation, Subagent, Synthetic}
    BY <1>2, <1>7 DEF Handlers
  <2>2. task.state # "answered"
    BY <1>2 DEF Idle
  <2> QED  BY <1>1, <1>2, <1>7, <1>8, <2>1, <2>2 DEF StreamRecorded, Edges
<1> QED  BY <1>9, <1>10, <1>11, <1>12, <1>13, <1>14

-----------------------------------------------------------------------------
\* The gates hold on when nothing they are about changes and no answer or draft is added.
LEMMA GatedKeeps ==
  ASSUME Gated, UNCHANGED <<setup, first, task, memory, ragSpent>>, pc' \notin {"query", "retry"},
         \A kind \in {"answer", "draft"} :
           (\E i \in DOMAIN out'.text : out'.text[i] = kind) => Shown(kind)
  PROVE  Gated'
<1>1. Shown("answer")' => Shown("answer")
  BY DEF Shown
<1>2. Shown("draft")' => Shown("draft")
  BY DEF Shown
<1>3. (Shown("answer") \/ memory.findings > 0 =>
        first.kind = "answer" /\ (setup.floor => first.sure) /\ (setup.strict => first.verified))'
  BY <1>1 DEF Gated
<1>4. (Shown("draft") =>
        /\ task.state = "answered"
        /\ ~Capped(setup.chatCap, task.cost)
        /\ setup.files /\ task.obs # <<>> => \E i \in DOMAIN task.obs : ~task.obs[i].failed)'
  BY <1>2, Zenon DEF Gated
<1>5. (setup.cap # NoCap /\ ragSpent > 0 =>
        \E last \in Costs : ragSpent - last + Estimate <= setup.cap)'
  BY DEF Gated
<1> QED  BY <1>3, <1>4, <1>5 DEF Gated

\* Where a handler has come to its end: to that of the turn, or to the tool loop.
LEMMA Arrives ==
  ASSUME TurnInv, TurnTypes', Gated', pc \notin Over \cup {"begin"}, pc' \in {"tools", "finish"},
         setup' = setup, held' = NoEvents, out'.usage = billed', Fit(out'),
         task' = task, queue' = queue,
         pc' = "tools" => Calm(out'.stack) /\ Own(out'.calls) = 0 /\ task = Idle /\ queue = <<>>,
         Distinct(out'.calls), task.state # "running",
         task.state = "answered" => Recorded(task.obs, out'.calls),
         memory'.user = memory.user, memory'.saved = memory.saved
  PROVE  TurnInv'
<1>1. memory.user = ~setup.replay /\ ~memory.saved
  BY DEF TurnInv, Placed, Over
<1>2. Placed'
  BY <1>1 DEF Placed, Looking, Early, Over
<1>3. Waits'
  BY DEF Waits, Redirected
<1>4. Formed'
  BY NoEventsFit DEF Formed, Settled, Over, Fit
<1>5. Tooled' /\ StreamRecorded'
  BY DEF Tooled, Busy, StreamRecorded
<1> QED  BY <1>2, <1>3, <1>4, <1>5 DEF TurnInv

\* Where a handler falls back on a plain reply.
LEMMA FallsBack ==
  ASSUME TurnInv, TurnTypes', Gated', Waits', pc \notin Over \cup {"begin"}, pc' = "reply",
         setup' = setup, held' = held, Fit(out'), Numbered(out'.calls), task' = task,
         task.state \in {"idle", "failed"},
         why' \in {"no_documents", "documents_failed", "no_corpus"} => held = NoEvents /\ ~lacking',
         memory'.user = memory.user, memory'.saved = memory.saved
  PROVE  TurnInv'
<1>1. memory.user = ~setup.replay /\ ~memory.saved
  BY DEF TurnInv, Placed, Over
<1>2. Placed'
  BY <1>1 DEF Placed, Looking, Early, Over
<1>3. Formed'
  BY DEF TurnInv, Formed, Settled, Over, Fit
<1>4. Tooled' /\ StreamRecorded'
  BY DEF Tooled, Busy, StreamRecorded
<1> QED  BY <1>2, <1>3, <1>4 DEF TurnInv

\* What the stream is where the turn waits, outside the tool loop and the ends.
LEMMA StreamFits ==
  ASSUME TurnTypes, Formed, pc \notin Settled \cup {"begin"}
  PROVE  Fit(out) /\ out \in Stream
  BY DEF TurnTypes, Formed, Settled, Fit

LEMMA NothingCalled ==
  /\ Looked(<<>>) = 0 /\ Own(<<>>) = 0 /\ Numbered(<<>>) /\ Distinct(<<>>)
  /\ \A s \in Spans : \A failed \in BOOLEAN : Distinct(<<[span |-> s, failed |-> failed]>>)
  /\ \A failed \in BOOLEAN : Own(<<[span |-> Query, failed |-> failed]>>) = 0
  BY TurnConstants DEF Looked, Own, Numbered, Distinct

LEMMA QueryFailsStep == ASSUME TurnInv, QueryFails PROVE TurnInv'
<1>1. /\ pc \in {"query", "retry"} /\ pc' = "reply" /\ why' = "documents_failed"
      /\ UNCHANGED <<setup, task, queue, out, held, first, lacking, ragSpent, billed, memory, summary>>
  BY DEF QueryFails, ReplyFor
<1>2. held = NoEvents /\ ~lacking /\ task = Idle /\ out.calls = <<>>
  BY <1>1 DEF TurnInv, Placed, Looking, Early
<1>3. TurnTypes'
  BY <1>1 DEF TurnInv, TurnTypes, Busy
<1>4. Gated'
  BY <1>1, GatedKeeps DEF TurnInv, Shown
<1>5. Waits'
  BY <1>1 DEF TurnInv, Waits, Redirected
<1>6. Fit(out)
  BY <1>1, StreamFits DEF TurnInv, Settled, Over
<1>7. pc \notin Over \cup {"begin"} /\ task.state = "idle"
  BY <1>1, <1>2 DEF Over, Idle
<1>8. Numbered(out.calls)
  BY <1>2, NothingCalled
<1> QED  BY <1>1, <1>2, <1>3, <1>4, <1>5, <1>6, <1>7, <1>8, FallsBack

LEMMA StartToolsStep == ASSUME TurnInv, StartTools PROVE TurnInv'
<1>1. /\ pc = "tools"
      /\ UNCHANGED <<setup, queue, out, held, first, lacking, ragSpent, billed, memory, summary>>
  BY DEF StartTools
<1>2. /\ task = Idle /\ queue = <<>> /\ Own(out.calls) = 0 /\ task.state = "idle"
      /\ out \in Stream /\ Fit(out) /\ Calm(out.stack)
      /\ memory.user = ~setup.replay /\ ~memory.saved
  BY <1>1, StreamFits DEF TurnInv, Placed, Early, Idle, Formed, Settled, Over
<1>3. Numbered(out.calls)
  BY <1>2, OwnCalls DEF Stream
<1>4. CASE setup.tools = 0
  <2>1. pc' = "reply" /\ why' = "no_tools" /\ task' = task
    BY <1>4 DEF StartTools, ReplyFor
  <2>2. TurnTypes'
    BY <1>1, <2>1 DEF TurnInv, TurnTypes, Busy
  <2>3. Gated'
    BY <1>1, <2>1, GatedKeeps DEF TurnInv, Shown
  <2>4. Waits'
    BY <1>1 DEF TurnInv, Waits, Redirected
  <2> QED  BY <1>1, <1>2, <1>3, <2>1, <2>2, <2>3, <2>4, FallsBack DEF Over
<1>5. CASE setup.tools # 0
  <2>1. PICK n \in Catalogs : task' = Started(n) /\ pc' = "drain" /\ UNCHANGED why
    BY <1>5 DEF StartTools
  <2>2. n \in Nat
    BY <2>1, TurnConstants DEF Catalogs, TurnInv, TurnTypes
  <2>3. /\ task' \in Loop /\ task'.state = "running" /\ task'.running = 0 /\ task'.calls = 0
        /\ task'.obs = <<>>
    <3>1. Idle \in Loop
      BY TurnConstants DEF Idle, Loop
    <3>2. Idle.running = 0 /\ Idle.calls = 0 /\ Idle.obs = <<>>
      BY DEF Idle
    <3>3. [Idle EXCEPT !.state = "running", !.left = n] \in Loop
      BY <2>2, <3>1 DEF Loop
    <3>4. task' = [Idle EXCEPT !.state = "running", !.left = n]
      BY <2>1 DEF Started
    <3> QED  BY <3>1, <3>2, <3>3, <3>4 DEF Loop
  <2>4. TurnTypes'
    BY <1>1, <2>1, <2>3 DEF TurnInv, TurnTypes, Busy
  <2>5. Placed'
    BY <1>1, <1>2, <2>1, <2>3 DEF TurnInv, Placed, Looking, Early, Over
  <2>6. Waits'
    BY <1>1 DEF TurnInv, Waits, Redirected
  <2>7. ~Shown("draft")
    BY <1>2 DEF TurnInv, Gated
  <2>8. Gated'
    BY <1>1, <2>1, <2>7 DEF TurnInv, Gated, Shown
  <2>9. Formed'
    BY <1>1, <2>1 DEF TurnInv, Formed, Settled, Over
  <2>10. Tooled'
    <3>1. Tape(0)'
      BY <1>1, <1>2, <2>3 DEF Tape
    <3>2. Between(0)'
      <4>1. 0 = 2 * Own(out.calls)
        BY <1>2
      <4> QED  BY <1>1, <1>2, <4>1 DEF Between, Fit
    <3>3. (\E taken \in Nat : Tape(taken) /\ (Between(taken) \/ Within(taken)))'
      BY <3>1, <3>2
    <3> QED  BY <1>1, <1>3, <2>1, <2>3, <3>3 DEF Tooled, Busy
  <2> QED  BY <2>1, <2>4, <2>5, <2>6, <2>8, <2>9, <2>10 DEF TurnInv, StreamRecorded
<1> QED  BY <1>4, <1>5

LEMMA SaveFailsStep == ASSUME TurnInv, SaveFails PROVE TurnInv'
<1>1. /\ pc = "finish" /\ pc' = "crashed"
      /\ UNCHANGED <<setup, why, task, queue, out, held, first, lacking, ragSpent, billed, memory, summary>>
  BY DEF SaveFails
<1>2. TurnTypes' /\ Placed'
  BY <1>1 DEF TurnInv, TurnTypes, Placed, Looking, Early, Busy, Over
<1>3. Gated'
  BY <1>1, GatedKeeps DEF TurnInv, Shown
<1>4. Waits' /\ Formed'
  BY <1>1 DEF TurnInv, Waits, Redirected, Formed, Settled, Over
<1>5. Tooled' /\ StreamRecorded'
  BY <1>1 DEF Tooled, Busy, StreamRecorded
<1> QED  BY <1>2, <1>3, <1>4, <1>5 DEF TurnInv

LEMMA AbandonStep == ASSUME TurnInv, Abandon PROVE TurnInv'
<1>1. /\ pc \notin {"begin"} \cup Over /\ pc' = "abandoned"
      /\ UNCHANGED <<setup, why, task, queue, out, held, first, lacking, ragSpent, billed, memory, summary>>
  BY DEF Abandon
<1>2. TurnTypes' /\ Placed'
  BY <1>1 DEF TurnInv, TurnTypes, Placed, Looking, Early, Busy, Over
<1>3. Gated'
  BY <1>1, GatedKeeps DEF TurnInv, Shown
<1>4. Waits' /\ Formed'
  BY <1>1 DEF TurnInv, Waits, Redirected, Formed, Settled, Over
<1>5. Tooled' /\ StreamRecorded'
  BY <1>1 DEF Tooled, Busy, StreamRecorded
<1> QED  BY <1>2, <1>3, <1>4, <1>5 DEF TurnInv

LEMMA StutterStep == ASSUME TurnInv, UNCHANGED turnVars PROVE TurnInv'
<1> USE DEF TurnInv, turnVars
<1>1. TurnTypes' /\ Placed' /\ Waits'
  BY DEF TurnTypes, Placed, Waits, Redirected
<1>2. Gated'
  BY DEF Gated, Shown
<1>3. Formed' /\ StreamRecorded'
  BY DEF Formed, StreamRecorded
<1>4. Tooled'
  BY DEF Tooled, Tape, Between, Within, Telling
<1> QED  BY <1>1, <1>2, <1>3, <1>4

LEMMA FinishStep == ASSUME TurnInv, Finish PROVE TurnInv'
<1>1. /\ pc = "finish" /\ pc' = "done" /\ summary' = <<out.text>>
      /\ out' = SpanComplete(out, Turn)
      /\ memory' = [memory EXCEPT !.reply = IF setup.replay THEN <<>> ELSE out.text,
                                  !.calls = out.calls, !.saved = TRUE]
      /\ UNCHANGED <<setup, why, task, queue, held, first, lacking, ragSpent, billed>>
  BY DEF Finish
<1>2. /\ out \in Stream /\ Fit(out) /\ memory \in Added /\ held = NoEvents /\ out.usage = billed
      /\ task.state # "running" /\ memory.user = ~setup.replay /\ setup.replay \in BOOLEAN
      /\ Distinct(out.calls) /\ (task.state = "answered" => Recorded(task.obs, out.calls))
  BY <1>1, StreamFits, TurnConstants
     DEF TurnInv, TurnTypes, Placed, Waits, Redirected, Formed, Settled, Over, Tooled
<1>3. PICK said \in Seq(Words) : said = IF setup.replay THEN <<>> ELSE out.text
  <2>1. <<>> \in Seq(Words) /\ out.text \in Seq(Words)
    BY <1>2 DEF Stream
  <2> QED  BY <2>1
<1>4. setup.replay => said = <<>>
  BY <1>3
<1>5. /\ memory' \in Added /\ memory'.user = memory.user /\ memory'.reply = said
      /\ memory'.calls = out.calls /\ memory'.saved = TRUE /\ memory'.findings = memory.findings
  <2>1. memory' = [memory EXCEPT !.reply = said, !.calls = out.calls, !.saved = TRUE]
    BY <1>1, <1>3
  <2>2. out.calls \in Seq(CallRecords)
    BY <1>2 DEF Stream
  <2> HIDE <1>1
  <2> QED  BY <1>2, <2>1, <2>2 DEF Added
<1>6. PICK p : p = SpanComplete(out, Turn)
  OBVIOUS
<1>7. /\ out' = p /\ p \in Stream /\ p.text = out.text /\ p.usage = out.usage /\ p.calls = out.calls
      /\ p.stack = PopTo(out.stack, Turn) /\ p.open = out.open \ {Turn} /\ p.parents = out.parents
  BY <1>1, <1>2, <1>6, CompleteKeeps DEF Completes
<1>8. p.stack = <<>>
  <2>1. Rooted(out.stack) /\ out.stack \in Seq(Spans) /\ Query \in Spans /\ Query # Turn
    BY <1>2, SpansDiffer DEF Fit, Stream, Handlers
  <2>2. PopTo(out.stack, Turn) = <<>>
    BY <2>1, RootedOps
  <2> QED  BY <1>7, <2>2
<1>9. TurnTypes'
  BY <1>1, <1>5, <1>7 DEF TurnInv, TurnTypes, Over
<1>10. Placed'
  BY <1>1, <1>2, <1>5 DEF Placed, Looking, Early, Over
<1>11. Waits'
  BY <1>1, <1>2, <1>7 DEF Waits, Redirected
<1>12. Gated'
  <2>1. Gated
    BY DEF TurnInv
  <2>2. (Shown("answer") <=> Shown("answer")') /\ (Shown("draft") <=> Shown("draft")')
    BY <1>7 DEF Shown
  <2> HIDE <1>1
  <2>3. pc' = "done" /\ UNCHANGED <<setup, task, first, ragSpent>>
    BY <1>1
  <2> QED  BY <1>5, <2>1, <2>2, <2>3 DEF Gated
<1>13. Formed'
  BY <1>1, <1>2, <1>7, NoEventsFit DEF Formed, Settled, Over, Fit
<1>14. Tooled'
  BY <1>1 DEF Tooled, Busy
<1>15. StreamRecorded'
  <2>1. p.open \subseteq {Query, Retry, Escalation, Subagent, Synthetic}
    BY <1>2, <1>7 DEF Handlers, Fit
  <2>2. \A i, j \in DOMAIN out.calls : out.calls[i].span = out.calls[j].span => i = j
    BY <1>2 DEF Distinct
  <2>3. \A edge \in out.parents :
          /\ edge[1] \in {Call(n) : n \in 1..MaxCalls} => edge[2] \in {Turn, Escalation}
          /\ edge[1] \in {Query, Subagent} => edge[2] = Turn
    BY <1>2 DEF Fit, Edges
  <2>4. task.state = "answered" =>
          \A n \in DOMAIN task.obs : \E i \in DOMAIN out.calls :
            /\ out.calls[i].failed = task.obs[n].failed
            /\ out.calls[i].span \in {task.obs[n].span} \cup {Replayed(k) : k \in 1..MaxCalls}
    BY <1>2 DEF Recorded
  <2>5. memory'.calls = out.calls /\ (memory'.reply # <<>> => memory'.user)
    BY <1>2, <1>4, <1>5
  <2>6. /\ summary' = <<p.text>> /\ out' = p /\ p.usage = billed' /\ p.stack = <<>> /\ held' = NoEvents
        /\ p.calls = out.calls /\ p.parents = out.parents /\ task' = task
    BY <1>1, <1>2, <1>7, <1>8
  <2> HIDE <1>1
  <2> QED  BY <2>1, <2>2, <2>3, <2>4, <2>5, <2>6 DEF StreamRecorded
<1> QED  BY <1>9, <1>10, <1>11, <1>12, <1>13, <1>14, <1>15 DEF TurnInv

-----------------------------------------------------------------------------
\* A step of the loop's task moves the loop and its queue only.
LEMMA TaskMoves ==
  ASSUME TurnInv, TaskKeeps, task.state = "running", task' \in Loop, queue' \in Seq(Items),
         pc = "drain" => \A taken \in Nat : Tape(taken) => Tape(taken)',
         pc = "drain" => (\A n \in DOMAIN task.obs : Telling(task.obs[n]))'
  PROVE  TurnInv'
<1> USE DEF TurnInv, TaskKeeps
<1>1. pc \in {"drain", "abandoned"}
  BY DEF Placed
<1>2. TurnTypes'
  BY DEF TurnTypes
<1>3. Placed'
  BY <1>1 DEF Placed, Looking, Early
<1>4. Waits' /\ Formed'
  BY DEF Waits, Redirected, Formed
<1>5. Gated'
  <2>1. ~Shown("draft")
    BY DEF Gated
  <2> QED  BY <1>1, <2>1 DEF Gated, Shown
<1>6. Tooled'
  <2>1. ASSUME pc = "drain" PROVE (\E taken \in Nat : Tape(taken) /\ (Between(taken) \/ Within(taken)))'
    <3>1. PICK taken \in Nat : Tape(taken) /\ (Between(taken) \/ Within(taken))
      BY <2>1 DEF Tooled
    <3>2. Tape(taken)'
      BY <2>1, <3>1
    <3>3. (Between(taken) \/ Within(taken))'
      BY <3>1 DEF Between, Within
    <3> QED  BY <3>2, <3>3
  <2>2. pc' = "drain" => Numbered(out'.calls)
    BY DEF Tooled, Busy
  <2> QED  BY <1>1, <2>1, <2>2 DEF Tooled, Busy
<1>7. StreamRecorded'
  BY <1>1 DEF StreamRecorded
<1> QED  BY <1>2, <1>3, <1>4, <1>5, <1>6, <1>7

\* What is on the queue is there still when an item is added, at its end.
LEMMA QueueGrows ==
  ASSUME queue \in Seq(Items), NEW item \in Items, queue' = Append(queue, item)
  PROVE  /\ queue' \in Seq(Items) /\ Len(queue') = Len(queue) + 1 /\ Len(queue) \in Nat
         /\ DOMAIN queue = 1..Len(queue) /\ DOMAIN queue' = 1..(Len(queue) + 1)
         /\ \A j \in DOMAIN queue : queue'[j] = queue[j]
         /\ queue'[Len(queue) + 1] = item
  OBVIOUS

LEMMA ToolStartsStep == ASSUME TurnInv, ToolStarts PROVE TurnInv'
<1>1. /\ task.state = "running" /\ task.running = 0 /\ task.calls < MaxCalls /\ TaskKeeps
      /\ task \in Loop /\ queue \in Seq(Items) /\ MaxCalls \in Nat
  BY TurnConstants DEF ToolStarts, TurnInv, TurnTypes
<1>2. PICK n \in 1..MaxCalls : n = task.calls + 1
  BY <1>1 DEF Loop
<1>3. task' = [task EXCEPT !.calls = n, !.running = n] /\ queue' = Append(queue, <<"start", n, FALSE>>)
  BY <1>2 DEF ToolStarts
<1>4. /\ task' \in Loop /\ task'.state = "running" /\ task'.running = n /\ task'.calls = n
      /\ task'.obs = task.obs
  <2>1. n \in 0..MaxCalls
    BY <1>1, <1>2
  <2>2. task \in Loop /\ task.state = "running"
    BY <1>1
  <2> QED  BY <1>3, <2>1, <2>2 DEF Loop
<1>5. PICK item \in Items : item = <<"start", n, FALSE>>
  <2>1. n \in 0..MaxCalls
    BY <1>1, <1>2
  <2>2. <<"start", n, FALSE>> \in Items
    BY <2>1 DEF Items
  <2> QED  BY <2>2, Zenon
<1>6. item[1] = "start" /\ item[2] = n
  BY <1>5
<1>7. /\ queue' \in Seq(Items) /\ Len(queue') = Len(queue) + 1 /\ Len(queue) \in Nat
      /\ DOMAIN queue = 1..Len(queue) /\ DOMAIN queue' = 1..(Len(queue) + 1)
      /\ \A j \in DOMAIN queue : queue'[j] = queue[j]
      /\ queue'[Len(queue) + 1] = item
  BY <1>1, <1>3, <1>5, QueueGrows
<1>8. ASSUME NEW taken \in Nat, Tape(taken) PROVE Tape(taken)'
  <2>1. taken + Len(queue) = 2 * task.calls
    BY <1>1, <1>8 DEF Tape
  <2>2. ASSUME NEW j \in DOMAIN queue'
        PROVE  /\ queue'[j][1] = "start" => taken + j = 2 * queue'[j][2] - 1
               /\ queue'[j][1] = "end" => taken + j = 2 * queue'[j][2]
               /\ queue'[j][1] # "eof"
    <3>1. CASE j = Len(queue) + 1
      <4>1. queue'[j][1] = "start" /\ queue'[j][2] = n
        BY <1>6, <1>7, <3>1
      <4>2. taken + j = 2 * n - 1
        <5>1. task.calls \in Nat
          BY <1>1 DEF Loop
        <5> QED  BY <1>2, <1>7, <2>1, <3>1, <5>1
      <4> QED  BY <4>1, <4>2
    <3>2. CASE j \in DOMAIN queue
      BY <1>1, <1>7, <1>8, <3>2 DEF Tape
    <3> QED  BY <1>7, <2>2, <3>1, <3>2
  <2>3. taken + Len(queue') = 2 * n - 1
    <3>1. task.calls \in Nat
      BY <1>1 DEF Loop
    <3> QED  BY <1>2, <1>7, <2>1, <3>1
  <2> QED  BY <1>2, <1>4, <2>2, <2>3 DEF Tape
<1>9. ASSUME pc = "drain" PROVE (\A k \in DOMAIN task.obs : Telling(task.obs[k]))'
  <2>1. \A k \in DOMAIN task.obs : Telling(task.obs[k])
    BY <1>9 DEF TurnInv, Tooled
  <2>2. out' = out /\ task'.obs = task.obs
    BY <1>1, <1>4 DEF TaskKeeps
  <2>3. ASSUME NEW x, Telling(x) PROVE Telling(x)'
    <3>1. CASE \E i \in DOMAIN out.calls : out.calls[i] = x
      BY <2>2, <3>1 DEF Telling
    <3>2. CASE \E j \in DOMAIN queue :
                 queue[j][1] = "end" /\ x = [span |-> Call(queue[j][2]), failed |-> queue[j][3]]
      BY <1>7, <3>2 DEF Telling
    <3> QED  BY <2>3, <3>1, <3>2 DEF Telling
  <2> QED  BY <2>1, <2>2, <2>3
<1> QED  BY <1>1, <1>4, <1>7, <1>8, <1>9, TaskMoves

LEMMA ToolEndsStep == ASSUME TurnInv, ToolEnds PROVE TurnInv'
<1>1. /\ task.state = "running" /\ task.running # 0 /\ TaskKeeps
      /\ task \in Loop /\ queue \in Seq(Items) /\ MaxCalls \in Nat
  BY TurnConstants DEF ToolEnds, TurnInv, TurnTypes
<1>2. PICK n \in 1..MaxCalls : n = task.running
  BY <1>1 DEF Loop
<1>3. PICK failed \in BOOLEAN :
        /\ task' = [task EXCEPT !.running = 0,
                                !.obs = Append(@, [span |-> Call(task.running), failed |-> failed])]
        /\ queue' = Append(queue, <<"end", task.running, failed>>)
  BY DEF ToolEnds
<1>4. PICK record \in CallRecords : record = [span |-> Call(n), failed |-> failed]
  <2>1. [span |-> Call(n), failed |-> failed] \in CallRecords
    BY <1>2, <1>3, SpansDiffer DEF CallRecords
  <2> QED  BY <2>1, Zenon
<1>5. PICK obs \in Seq(CallRecords) : obs = task.obs
  BY <1>1 DEF Loop
<1>6. PICK more \in Seq(CallRecords) : more = Append(obs, record)
  <2>1. Append(obs, record) \in Seq(CallRecords)
    OBVIOUS
  <2> QED  BY <2>1, Zenon
<1>7. task' = [task EXCEPT !.running = 0, !.obs = more]
  BY <1>1, <1>2, <1>3, <1>4, <1>5, <1>6 DEF Loop
<1>8. /\ task' \in Loop /\ task'.state = "running" /\ task'.running = 0 /\ task'.calls = task.calls
      /\ task'.obs = more
  <2>1. task \in Loop /\ task.state = "running" /\ 0 \in 0..MaxCalls
    BY <1>1
  <2> QED  BY <1>7, <2>1 DEF Loop
<1>9. PICK item \in Items : item = <<"end", n, failed>>
  <2>1. n \in 0..MaxCalls
    BY <1>1, <1>2
  <2>2. <<"end", n, failed>> \in Items
    BY <1>3, <2>1 DEF Items
  <2> QED  BY <2>2, Zenon
<1>10. item[1] = "end" /\ item[2] = n /\ item[3] = failed
  BY <1>9
<1>11. queue' = Append(queue, item)
  BY <1>2, <1>3, <1>9
<1>12. /\ queue' \in Seq(Items) /\ Len(queue') = Len(queue) + 1 /\ Len(queue) \in Nat
       /\ DOMAIN queue = 1..Len(queue) /\ DOMAIN queue' = 1..(Len(queue) + 1)
       /\ \A j \in DOMAIN queue : queue'[j] = queue[j]
       /\ queue'[Len(queue) + 1] = item
  BY <1>1, <1>11, QueueGrows
<1>13. ASSUME NEW taken \in Nat, Tape(taken) PROVE Tape(taken)'
  <2>1. taken + Len(queue) = 2 * task.calls - 1 /\ task.calls = n
    BY <1>1, <1>2, <1>13 DEF Tape
  <2>2. ASSUME NEW j \in DOMAIN queue'
        PROVE  /\ queue'[j][1] = "start" => taken + j = 2 * queue'[j][2] - 1
               /\ queue'[j][1] = "end" => taken + j = 2 * queue'[j][2]
               /\ queue'[j][1] # "eof"
    <3>1. CASE j = Len(queue) + 1
      <4>1. queue'[j][1] = "end" /\ queue'[j][2] = n
        BY <1>10, <1>12, <3>1
      <4>2. taken + j = 2 * n
        BY <1>2, <1>12, <2>1, <3>1
      <4> QED  BY <4>1, <4>2
    <3>2. CASE j \in DOMAIN queue
      BY <1>1, <1>12, <1>13, <3>2 DEF Tape
    <3> QED  BY <1>12, <2>2, <3>1, <3>2
  <2>3. taken + Len(queue') = 2 * n
    <3>1. PICK length \in Nat : length = Len(queue)
      BY <1>12
    <3>2. taken + length = 2 * n - 1 /\ Len(queue') = length + 1
      BY <1>12, <2>1, <3>1
    <3> HIDE <3>1
    <3> QED  BY <1>2, <3>2
  <2> QED  BY <1>2, <1>8, <2>1, <2>2, <2>3 DEF Tape
<1>14. ASSUME pc = "drain" PROVE (\A k \in DOMAIN task.obs : Telling(task.obs[k]))'
  <2>1. \A k \in DOMAIN obs : Telling(obs[k])
    BY <1>5, <1>14 DEF TurnInv, Tooled
  <2>2. out' = out
    BY <1>1 DEF TaskKeeps
  <2>3. DOMAIN more = DOMAIN obs \cup {Len(obs) + 1} /\ more[Len(obs) + 1] = record
        /\ \A k \in DOMAIN obs : more[k] = obs[k]
    BY <1>6
  <2>4. ASSUME NEW x, Telling(x) PROVE Telling(x)'
    <3>1. CASE \E i \in DOMAIN out.calls : out.calls[i] = x
      BY <2>2, <3>1 DEF Telling
    <3>2. CASE \E j \in DOMAIN queue :
                 queue[j][1] = "end" /\ x = [span |-> Call(queue[j][2]), failed |-> queue[j][3]]
      BY <1>12, <3>2 DEF Telling
    <3> QED  BY <2>4, <3>1, <3>2 DEF Telling
  <2>5. Telling(record)'
    <3>1. Len(queue) + 1 \in DOMAIN queue'
      BY <1>12
    <3>2. record = [span |-> Call(item[2]), failed |-> item[3]]
      BY <1>4, <1>10
    <3> QED  BY <1>10, <1>12, <3>1, <3>2 DEF Telling
  <2>6. \A k \in DOMAIN more : Telling(more[k])'
    BY <2>1, <2>3, <2>4, <2>5
  <2> QED  BY <1>8, <2>6
<1> QED  BY <1>1, <1>8, <1>12, <1>13, <1>14, TaskMoves

\* The loop ends and says so, or starts again from nothing.
LEMMA LoopTells ==
  ASSUME TurnInv, task.state = "running", task.running = 0, TaskKeeps, task' \in Loop,
         task'.state \in {"answered", "failed"}, task'.running = 0, task'.calls = task.calls,
         task'.obs = task.obs, queue' = Append(queue, Ended)
  PROVE  TurnInv'
<1>1. queue \in Seq(Items) /\ task \in Loop
  BY DEF TurnInv, TurnTypes
<1>2. PICK item \in Items : item = Ended
  <2>1. 0 \in 0..MaxCalls
    BY TurnConstants
  <2>2. Ended \in Items
    BY <2>1 DEF Ended, Items
  <2> QED  BY <2>2, Zenon
<1>3. item[1] = "eof"
  BY <1>2 DEF Ended
<1>4. /\ queue' \in Seq(Items) /\ Len(queue') = Len(queue) + 1 /\ Len(queue) \in Nat
      /\ DOMAIN queue = 1..Len(queue) /\ DOMAIN queue' = 1..(Len(queue) + 1)
      /\ \A j \in DOMAIN queue : queue'[j] = queue[j]
      /\ queue'[Len(queue) + 1] = item
  BY <1>1, <1>2, QueueGrows
<1>5. ASSUME NEW taken \in Nat, Tape(taken) PROVE Tape(taken)'
  <2>1. taken + Len(queue) = 2 * task.calls
    BY <1>5 DEF Tape
  <2>2. ASSUME NEW j \in DOMAIN queue'
        PROVE  /\ queue'[j][1] = "start" => taken + j = 2 * queue'[j][2] - 1
               /\ queue'[j][1] = "end" => taken + j = 2 * queue'[j][2]
               /\ queue'[j][1] = "eof" => j = Len(queue')
    <3>1. CASE j = Len(queue) + 1
      BY <1>3, <1>4, <3>1
    <3>2. CASE j \in DOMAIN queue
      BY <1>4, <1>5, <3>2 DEF Tape
    <3> QED  BY <1>4, <2>2, <3>1, <3>2
  <2>3. taken + Len(queue') = 2 * task.calls + 1
    BY <1>4, <2>1
  <2>4. queue' # <<>> /\ queue'[Len(queue')][1] = "eof"
    BY <1>3, <1>4
  <2> QED  BY <2>2, <2>3, <2>4 DEF Tape
<1>6. ASSUME pc = "drain" PROVE (\A k \in DOMAIN task.obs : Telling(task.obs[k]))'
  <2>1. \A k \in DOMAIN task.obs : Telling(task.obs[k])
    BY <1>6 DEF TurnInv, Tooled
  <2>2. out' = out
    BY DEF TaskKeeps
  <2>3. ASSUME NEW x, Telling(x) PROVE Telling(x)'
    <3>1. CASE \E i \in DOMAIN out.calls : out.calls[i] = x
      BY <2>2, <3>1 DEF Telling
    <3>2. CASE \E j \in DOMAIN queue :
                 queue[j][1] = "end" /\ x = [span |-> Call(queue[j][2]), failed |-> queue[j][3]]
      BY <1>4, <3>2 DEF Telling
    <3> QED  BY <2>3, <3>1, <3>2 DEF Telling
  <2> QED  BY <2>1, <2>3
<1> QED  BY <1>4, <1>5, <1>6, TaskMoves

LEMMA LoopAnswersStep == ASSUME TurnInv, LoopAnswers PROVE TurnInv'
<1>1. /\ task.state = "running" /\ task.running = 0 /\ TaskKeeps /\ task \in Loop
      /\ queue' = Append(queue, Ended)
  BY DEF LoopAnswers, TurnInv, TurnTypes
<1>2. PICK cost \in Costs, draft \in BOOLEAN :
        task' = [task EXCEPT !.state = "answered", !.cost = cost, !.draft = draft]
  BY DEF LoopAnswers
<1>3. cost \in Nat
  BY <1>2, TurnConstants
<1>4. /\ task' \in Loop /\ task'.state = "answered" /\ task'.running = 0 /\ task'.calls = task.calls
      /\ task'.obs = task.obs
  BY <1>1, <1>2, <1>3 DEF Loop
<1> QED  BY <1>1, <1>4, LoopTells

LEMMA LoopFailsStep == ASSUME TurnInv, LoopFails PROVE TurnInv'
<1>1. /\ task.state = "running" /\ task.running = 0 /\ TaskKeeps /\ task \in Loop
      /\ queue' = Append(queue, Ended) /\ task' = [task EXCEPT !.state = "failed"]
  BY DEF LoopFails, TurnInv, TurnTypes
<1>2. /\ task' \in Loop /\ task'.state = "failed" /\ task'.running = 0 /\ task'.calls = task.calls
      /\ task'.obs = task.obs
  BY <1>1 DEF Loop
<1> QED  BY <1>1, <1>2, LoopTells

LEMMA SchemaRejectedStep == ASSUME TurnInv, SchemaRejected PROVE TurnInv'
<1>1. /\ task.state = "running" /\ task.running = 0 /\ TaskKeeps /\ task \in Loop /\ queue \in Seq(Items)
      /\ queue' = queue /\ task.left > 1
  BY DEF SchemaRejected, TurnInv, TurnTypes
<1>2. PICK fewer \in Nat, drops \in Nat : fewer = task.left - 1 /\ drops = task.drops + 1
  BY <1>1 DEF Loop
<1>3. task' = [task EXCEPT !.left = fewer, !.drops = drops, !.obs = <<>>]
  BY <1>2 DEF SchemaRejected
<1>4. /\ task' \in Loop /\ task'.state = "running" /\ task'.running = 0 /\ task'.calls = task.calls
      /\ task'.obs = <<>>
  <2>1. <<>> \in Seq(CallRecords)
    OBVIOUS
  <2>2. task \in Loop /\ task.state = "running" /\ task.running = 0
    BY <1>1
  <2> QED  BY <1>2, <1>3, <2>1, <2>2 DEF Loop
<1>5. ASSUME NEW taken \in Nat, Tape(taken) PROVE Tape(taken)'
  BY <1>1, <1>4, <1>5 DEF Tape
<1>6. (\A k \in DOMAIN task.obs : Telling(task.obs[k]))'
  BY <1>4
<1> QED  BY <1>1, <1>4, <1>5, <1>6, TaskMoves

-----------------------------------------------------------------------------
\* The turn takes an item.
LEMMA QueueShrinks ==
  ASSUME queue \in Seq(Items), queue # <<>>, queue' = Tail(queue)
  PROVE  /\ queue' \in Seq(Items) /\ Len(queue) \in Nat \ {0} /\ Len(queue') = Len(queue) - 1
         /\ DOMAIN queue = 1..Len(queue) /\ DOMAIN queue' = 1..(Len(queue) - 1)
         /\ \A j \in DOMAIN queue' : queue'[j] = queue[j + 1]
         /\ Head(queue) = queue[1] /\ queue[1] \in Items
  OBVIOUS

LEMMA TapeMoves ==
  ASSUME task \in Loop, queue \in Seq(Items), queue # <<>>, queue' = Tail(queue), task' = task,
         queue[1][1] # "eof", NEW taken \in Nat, Tape(taken)
  PROVE  Tape(taken + 1)'
<1>1. /\ queue' \in Seq(Items) /\ Len(queue) \in Nat \ {0} /\ Len(queue') = Len(queue) - 1
      /\ DOMAIN queue = 1..Len(queue) /\ DOMAIN queue' = 1..(Len(queue) - 1)
      /\ \A j \in DOMAIN queue' : queue'[j] = queue[j + 1]
  BY QueueShrinks
<1>2. ASSUME NEW j \in DOMAIN queue'
      PROVE  /\ queue'[j][1] = "start" => taken + 1 + j = 2 * queue'[j][2] - 1
             /\ queue'[j][1] = "end" => taken + 1 + j = 2 * queue'[j][2]
             /\ queue'[j][1] = "eof" => task.state # "running" /\ j = Len(queue')
  <2>1. j + 1 \in DOMAIN queue /\ queue'[j] = queue[j + 1] /\ j \in Nat
    BY <1>1, <1>2
  <2>2. taken + 1 + j = taken + (j + 1)
    BY <2>1
  <2> QED  BY <1>1, <2>1, <2>2 DEF Tape
<1>3. taken + 1 + Len(queue') = taken + Len(queue)
  BY <1>1
<1>4. ASSUME task.state # "running" PROVE queue' # <<>> /\ queue'[Len(queue')][1] = "eof"
  <2>1. queue[Len(queue)][1] = "eof"
    BY <1>4 DEF Tape
  <2>2. Len(queue) # 1
    BY <2>1
  <2>3. PICK m \in Nat \ {0} : m = Len(queue)
    BY <1>1
  <2>4. PICK n \in Nat : n = m - 1
    OBVIOUS
  <2>5. n > 0 /\ n + 1 = m
    BY <2>2, <2>3, <2>4
  <2>6. DOMAIN queue' = 1..n /\ Len(queue') = n
    BY <1>1, <2>3, <2>4
  <2>7. n \in DOMAIN queue'
    BY <2>5, <2>6
  <2>8. queue'[n] = queue[m]
    BY <1>1, <2>5, <2>7
  <2>9. queue'[n][1] = "eof"
    BY <2>1, <2>3, <2>8
  <2>10. queue' # <<>>
    <3>1. DOMAIN <<>> = {}
      OBVIOUS
    <3> QED  BY <2>7, <3>1, Zenon
  <2> QED  BY <2>6, <2>9, <2>10
<1> QED  BY <1>2, <1>3, <1>4 DEF Tape

LEMMA DrainStep == ASSUME TurnInv, Drain PROVE TurnInv'
<1>1. /\ pc = "drain" /\ queue # <<>> /\ queue' = Tail(queue)
      /\ UNCHANGED <<setup, why, task, held, first, lacking, ragSpent, billed, memory, summary>>
      /\ queue \in Seq(Items) /\ task \in Loop /\ out \in Stream
  BY DEF Drain, TurnInv, TurnTypes
<1>2. /\ queue' \in Seq(Items) /\ Len(queue) \in Nat \ {0} /\ Len(queue') = Len(queue) - 1
      /\ DOMAIN queue = 1..Len(queue) /\ DOMAIN queue' = 1..(Len(queue) - 1)
      /\ \A j \in DOMAIN queue' : queue'[j] = queue[j + 1]
      /\ Head(queue) = queue[1] /\ queue[1] \in Items /\ 1 \in DOMAIN queue
  BY <1>1, QueueShrinks
<1>3. PICK item \in Items : item = queue[1]
  BY <1>2
<1>4. /\ item[1] \in {"start", "end", "eof"} /\ item[2] \in 0..MaxCalls /\ item[3] \in BOOLEAN
  BY <1>3 DEF Items
<1>5. PICK taken \in Nat : Tape(taken) /\ (Between(taken) \/ Within(taken))
  BY <1>1 DEF TurnInv, Tooled
<1>6. /\ item[1] = "start" => taken + 1 = 2 * item[2] - 1
      /\ item[1] = "end" => taken + 1 = 2 * item[2]
      /\ item[1] = "eof" => task.state # "running" /\ Len(queue) = 1
  BY <1>2, <1>3, <1>5 DEF Tape
<1>7. PICK told \in Seq(CallRecords) : told = out.calls
  BY <1>1 DEF Stream
<1>8. /\ Own(told) \in Nat /\ Own(told) <= MaxCalls /\ MaxCalls \in Nat /\ Numbered(told)
      /\ Looked(told) \in {0, 1} /\ Len(told) = Own(told) + Looked(told)
  BY <1>1, <1>7, OwnCalls, TurnConstants DEF TurnInv, Tooled, Busy, Numbered
<1>9. /\ ~memory.saved /\ memory.user = ~setup.replay /\ task.state # "idle"
  BY <1>1, <1>5 DEF TurnInv, Placed, Over, Tape
<1>10. \A k \in DOMAIN task.obs : Telling(task.obs[k])
  BY <1>1 DEF TurnInv, Tooled
<1>11. Edges(out.parents) /\ held.open \subseteq Handlers /\ Edges(held.parents)
  BY DEF TurnInv, Formed
<1>12. CASE item[1] = "start"
  <2>1. PICK n \in 1..MaxCalls : n = item[2]
    BY <1>4, <1>5, <1>6, <1>8, <1>12
  <2>2. out' = SpanStart(out, Call(n)) /\ pc' = "drain"
    BY <1>1, <1>2, <1>3, <1>12, <2>1 DEF Drain
  <2>3. Call(n) \in Spans
    BY <2>1, SpansDiffer
  <2>4. PICK p : p = SpanStart(out, Call(n))
    OBVIOUS
  <2>5. Starts(out, p, Call(n))
    BY <1>1, <2>3, <2>4, StartKeeps
  <2>6. out' = p /\ p \in Stream /\ p.text = out.text /\ p.usage = out.usage /\ p.calls = told
        /\ p.stack = Append(out.stack, Call(n)) /\ p.open = out.open \cup {Call(n)}
        /\ p.parents = out.parents \cup {<<Call(n), Top(out.stack)>>}
    BY <1>7, <2>2, <2>4, <2>5 DEF Starts
  <2>7. Between(taken) /\ n = Own(told) + 1
    <3>1. taken = 2 * n - 2
      BY <1>5, <1>6, <1>12, <2>1
    <3>2. ~Within(taken)
      <4>1. SUFFICES ASSUME taken = 2 * Own(told) + 1 PROVE FALSE
        BY <1>7 DEF Within
      <4> QED  BY <1>8, <2>1, <3>1, <4>1
    <3>3. taken = 2 * Own(told)
      BY <1>5, <1>7, <3>2 DEF Between
    <3> QED  BY <1>5, <1>8, <2>1, <3>1, <3>2, <3>3
  <2>8. Within(taken + 1)'
    <3>1. out.stack \in Seq(Spans) /\ Calm(out.stack)
      BY <1>1, <2>7 DEF Stream, Between
    <3>2. taken + 1 = 2 * Own(told) + 1 /\ out.open \subseteq Handlers
      BY <1>7, <2>7 DEF Between
    <3> QED  BY <2>6, <2>7, <3>1, <3>2 DEF Within
  <2>9. Tape(taken + 1)'
    BY <1>1, <1>3, <1>5, <1>12, TapeMoves
  <2>10. Edges(p.parents)
    <3>1. PICK top : top = Top(out.stack)
      OBVIOUS
    <3>2. top \in {Turn, Escalation}
      BY <2>7, <3>1 DEF Between, Calm
    <3>3. Call(n) \notin {Query, Subagent}
      BY <2>1, SpansDiffer DEF Handlers
    <3>4. Edges(out.parents \cup {<<Call(n), top>>})
      BY <1>11, <3>2, <3>3, EdgesGrow
    <3> QED  BY <2>6, <3>1, <3>4
  <2>11. ASSUME NEW x, Telling(x) PROVE Telling(x)'
    <3>1. CASE \E i \in DOMAIN out.calls : out.calls[i] = x
      BY <1>7, <2>6, <3>1 DEF Telling
    <3>2. CASE \E j \in DOMAIN queue :
                 queue[j][1] = "end" /\ x = [span |-> Call(queue[j][2]), failed |-> queue[j][3]]
      <4>1. PICK j \in DOMAIN queue :
              queue[j][1] = "end" /\ x = [span |-> Call(queue[j][2]), failed |-> queue[j][3]]
        BY <3>2
      <4>2. j # 1
        BY <1>3, <1>12, <4>1
      <4>3. j - 1 \in DOMAIN queue' /\ queue'[j - 1] = queue[j]
        BY <1>2, <4>1, <4>2
      <4> QED  BY <4>1, <4>3 DEF Telling
    <3> QED  BY <2>11, <3>1, <3>2 DEF Telling
  <2>12. Tooled'
    <3>1. (\A k \in DOMAIN task.obs : Telling(task.obs[k]))'
      BY <1>1, <1>10, <2>11
    <3>2. (\E some \in Nat : Tape(some) /\ (Between(some) \/ Within(some)))'
      BY <2>8, <2>9
    <3> QED  BY <1>8, <2>2, <2>6, <3>1, <3>2 DEF Tooled, Busy
  <2>13. TurnTypes'
    BY <1>1, <1>2, <2>2, <2>6 DEF TurnInv, TurnTypes
  <2>14. Placed' /\ Waits'
    BY <1>1, <1>7, <2>2, <2>6 DEF TurnInv, Placed, Looking, Early, Waits, Redirected
  <2>15. Gated'
    BY <1>1, <2>2, <2>6, GatedKeeps DEF TurnInv, Shown
  <2>16. Formed'
    BY <1>1, <1>11, <2>2, <2>6, <2>10 DEF Formed, Settled, Over
  <2> QED  BY <2>2, <2>12, <2>13, <2>14, <2>15, <2>16 DEF TurnInv, StreamRecorded
<1>13. CASE item[1] = "end"
  <2>1. PICK n \in 1..MaxCalls, failed \in BOOLEAN : n = item[2] /\ failed = item[3]
    BY <1>4, <1>5, <1>6, <1>8, <1>13
  <2>2. out' = ToolComplete(out, Call(n), failed) /\ pc' = "drain"
    BY <1>1, <1>2, <1>3, <1>13, <2>1 DEF Drain
  <2>3. Call(n) \in Spans
    BY <2>1, SpansDiffer
  <2>4. PICK p : p = ToolComplete(out, Call(n), failed)
    OBVIOUS
  <2>5. /\ Completes(out, p, Call(n))
        /\ p.calls = Append(out.calls, [span |-> Call(n), failed |-> failed])
    BY <1>1, <2>3, <2>4, ToolKeeps, Zenon
  <2>6. PICK record \in CallRecords : record = [span |-> Call(n), failed |-> failed]
    <3>1. [span |-> Call(n), failed |-> failed] \in CallRecords
      BY <2>3 DEF CallRecords
    <3> QED  BY <3>1, Zenon
  <2>7. out' = p /\ p \in Stream /\ p.text = out.text /\ p.usage = out.usage /\ p.calls = Append(told, record)
        /\ p.stack = PopTo(out.stack, Call(n)) /\ p.open = out.open \ {Call(n)} /\ p.parents = out.parents
    BY <1>7, <2>2, <2>4, <2>5, <2>6 DEF Completes
  <2>8. Within(taken) /\ n = Own(told) + 1
    <3>1. taken = 2 * n - 1
      BY <1>5, <1>6, <1>13, <2>1
    <3>2. ~Between(taken)
      <4>1. SUFFICES ASSUME taken = 2 * Own(told) PROVE FALSE
        BY <1>7 DEF Between
      <4> QED  BY <1>8, <2>1, <3>1, <4>1
    <3>3. taken = 2 * Own(told) + 1
      BY <1>5, <1>7, <3>2 DEF Within
    <3> QED  BY <1>5, <1>8, <2>1, <3>1, <3>2, <3>3
  <2>9. PICK base \in Seq(Spans) : Calm(base) /\ out.stack = Append(base, Call(n))
    BY <1>7, <2>8 DEF Within
  <2>10. p.stack = base
    <3>1. \A i \in DOMAIN base : base[i] # Call(n)
      BY <2>1, <2>9, SpansDiffer DEF Calm, OfHandlers
    <3>2. PopTo(Append(base, Call(n)), Call(n)) = base
      BY <2>3, <3>1, PopPushed
    <3> QED  BY <2>7, <2>9, <3>2
  <2>11. PICK more \in Seq(CallRecords) : more = Append(told, record)
    <3>1. Append(told, record) \in Seq(CallRecords)
      OBVIOUS
    <3> QED  BY <3>1, Zenon
  <2>12. /\ Len(told) + 1 \in DOMAIN more /\ more[Len(told) + 1] = record
         /\ DOMAIN told = 1..Len(told) /\ DOMAIN more = 1..(Len(told) + 1)
         /\ \A i \in DOMAIN told : i \in DOMAIN more /\ more[i] = told[i]
    BY <2>11
  <2>22. Looked(more) = Looked(told) /\ Own(more) = n
    <3>1. record.span # Query
      BY <2>1, <2>6, SpansDiffer DEF Handlers
    <3>2. Looked(more) = Looked(told) /\ Own(more) = Own(told) + 1
      BY <2>11, <3>1, OwnGrows
    <3> QED  BY <2>8, <3>2
  <2>13. Numbered(more)
    <3>1. ASSUME NEW i \in DOMAIN more, i > Looked(more) PROVE more[i].span = Call(i - Looked(more))
      <4>1. CASE i \in DOMAIN told
        BY <1>8, <2>12, <2>22, <3>1, <4>1 DEF Numbered
      <4>2. CASE i = Len(told) + 1
        <5>1. i - Looked(more) = n /\ record.span = Call(n)
          BY <1>8, <2>1, <2>6, <2>8, <2>22, <4>2
        <5> QED  BY <2>12, <4>2, <5>1
      <4> QED  BY <1>8, <2>12, <4>1, <4>2
    <3>2. Own(more) <= MaxCalls
      BY <2>1, <2>22
    <3> QED  BY <3>1, <3>2 DEF Numbered
  <2>14. Between(taken + 1)'
    <3>1. taken + 1 = 2 * Own(more)
      BY <1>7, <1>8, <2>1, <2>8, <2>22 DEF Within
    <3>2. p.open \subseteq Handlers
      BY <1>7, <2>7, <2>8 DEF Within
    <3> QED  BY <2>7, <2>9, <2>10, <2>11, <3>1, <3>2 DEF Between
  <2>15. Tape(taken + 1)'
    BY <1>1, <1>3, <1>5, <1>13, TapeMoves
  <2>16. ASSUME NEW x, Telling(x) PROVE Telling(x)'
    <3>1. CASE \E i \in DOMAIN out.calls : out.calls[i] = x
      <4>1. PICK i \in DOMAIN told : told[i] = x
        BY <1>7, <3>1
      <4>2. i \in DOMAIN more /\ more[i] = x
        BY <2>1, <2>12, <4>1
      <4> QED  BY <2>7, <2>11, <4>2 DEF Telling
    <3>2. CASE \E j \in DOMAIN queue :
                 queue[j][1] = "end" /\ x = [span |-> Call(queue[j][2]), failed |-> queue[j][3]]
      <4>1. PICK j \in DOMAIN queue :
              queue[j][1] = "end" /\ x = [span |-> Call(queue[j][2]), failed |-> queue[j][3]]
        BY <3>2
      <4>2. CASE j = 1
        <5>1. x = record
          BY <1>3, <2>1, <2>6, <4>1, <4>2
        <5>2. Len(told) + 1 \in DOMAIN more /\ more[Len(told) + 1] = x
          BY <2>12, <5>1
        <5> QED  BY <2>7, <2>11, <5>2 DEF Telling
      <4>3. CASE j # 1
        <5>1. j - 1 \in DOMAIN queue' /\ queue'[j - 1] = queue[j]
          BY <1>2, <4>1, <4>3
        <5> QED  BY <4>1, <5>1 DEF Telling
      <4> QED  BY <4>2, <4>3
    <3> QED  BY <2>16, <3>1, <3>2 DEF Telling
  <2>17. Tooled'
    <3>1. (\A k \in DOMAIN task.obs : Telling(task.obs[k]))'
      BY <1>1, <1>10, <2>16
    <3>2. (\E some \in Nat : Tape(some) /\ (Between(some) \/ Within(some)))'
      BY <2>14, <2>15
    <3>3. out'.calls = more
      BY <2>7, <2>11
    <3> QED  BY <2>2, <2>13, <3>1, <3>2, <3>3 DEF Tooled, Busy
  <2>18. TurnTypes'
    BY <1>1, <1>2, <2>2, <2>7 DEF TurnInv, TurnTypes
  <2>19. Placed' /\ Waits'
    <3>1. Looked(out'.calls) = Looked(out.calls)
      BY <1>7, <2>7, <2>11, <2>22
    <3> QED  BY <1>1, <2>2, <2>7, <3>1 DEF TurnInv, Placed, Looking, Early, Waits, Redirected
  <2>20. Gated'
    BY <1>1, <2>2, <2>7, GatedKeeps DEF TurnInv, Shown
  <2>21. Formed'
    BY <1>1, <1>11, <2>2, <2>7 DEF Formed, Settled, Over
  <2> QED  BY <2>2, <2>17, <2>18, <2>19, <2>20, <2>21 DEF TurnInv, StreamRecorded
<1>14. CASE item[1] = "eof"
  <2>1. pc' = "judge" /\ out' = out
    BY <1>1, <1>2, <1>3, <1>14 DEF Drain
  <2>2. task.state \in {"answered", "failed"} /\ Len(queue) = 1
    BY <1>1, <1>6, <1>9, <1>14 DEF Loop
  <2>3. Between(taken)
    <3>1. taken + 1 = 2 * task.calls + 1 /\ task.calls \in Nat
      BY <1>1, <2>2, <1>5 DEF Tape, Loop
    <3>2. ~Within(taken)
      <4>1. SUFFICES ASSUME taken = 2 * Own(told) + 1 PROVE FALSE
        BY <1>7 DEF Within
      <4> QED  BY <1>8, <3>1, <4>1
    <3> QED  BY <1>5, <3>2
  <2>4. \A k \in DOMAIN task.obs : \E i \in DOMAIN out.calls : out.calls[i] = task.obs[k]
    <3>1. \A j \in DOMAIN queue : j = 1
      BY <1>2, <2>2
    <3>2. \A j \in DOMAIN queue : queue[j][1] # "end"
      BY <1>3, <1>14, <3>1
    <3> QED  BY <1>10, <3>2 DEF Telling
  <2>5. TurnTypes'
    BY <1>1, <1>2, <2>1 DEF TurnInv, TurnTypes, Busy
  <2>6. Placed'
    BY <1>1, <1>9, <2>1, <2>2 DEF Placed, Looking, Early, Over
  <2>7. Waits'
    BY <1>1, <2>1 DEF TurnInv, Waits, Redirected
  <2>8. Gated'
    BY <1>1, <2>1, GatedKeeps DEF TurnInv, Shown
  <2>9. Formed'
    BY <1>1, <1>11, <2>1, <2>3 DEF Formed, Settled, Over, Between, Calm
  <2>10. Tooled'
    BY <1>1, <1>7, <1>8, <2>1, <2>4 DEF Tooled, Busy
  <2> QED  BY <2>1, <2>5, <2>6, <2>7, <2>8, <2>9, <2>10 DEF TurnInv, StreamRecorded
<1> QED  BY <1>4, <1>12, <1>13, <1>14

-----------------------------------------------------------------------------
\* What is known where a handler's answer is shown, or where it raises.
LEMMA Answering ==
  ASSUME TurnInv, pc \in {"reply", "findings", "judge"}
  PROVE  /\ TurnTypes /\ Waits /\ Formed /\ Gated /\ pc \notin Over \cup {"begin"}
         /\ out \in Stream /\ Fit(out) /\ Numbered(out.calls) /\ task.state # "running"
         /\ billed \in Nat /\ (Redirected => Looked(out.calls) = 0)
<1>1. Numbered(out.calls)
  BY NothingCalled DEF TurnInv, Placed, Looking, Tooled, Busy
<1>2. Fit(out) /\ out \in Stream
  BY StreamFits DEF TurnInv, Settled, Over
<1> QED  BY <1>1, <1>2 DEF TurnInv, TurnTypes, Over, Placed, Waits

\* Two streams with the same spans are told the same calls.
LEMMA SameFit ==
  ASSUME NEW o, NEW p, SameSpans(o, p), Fit(o)
  PROVE  Rooted(p.stack) /\ p.open \subseteq Handlers /\ Edges(p.parents) /\ p.calls = o.calls
  BY DEF SameSpans, Fit

LEMMA ReplyFailsStep == ASSUME TurnInv, ReplyFails PROVE TurnInv'
<1>1. /\ pc = "reply" /\ Raise
      /\ UNCHANGED <<setup, why, task, queue, first, lacking, ragSpent, billed, memory, summary>>
  BY DEF ReplyFails
<1>2. task.state \in {"idle", "failed"}
  BY <1>1 DEF TurnInv, Placed
<1>3. /\ out' \in Stream /\ Fit(out') /\ held' = NoEvents /\ pc' = "finish"
      /\ out'.usage = billed /\ Distinct(out'.calls)
      /\ \A kind : (\E i \in DOMAIN out'.text : out'.text[i] = kind) => Shown(kind)
  BY <1>1, Answering, Raised
<1>4. TurnTypes'
  BY <1>1, <1>3, NoEventsFit DEF TurnInv, TurnTypes
<1>5. Gated'
  BY <1>1, <1>3, GatedKeeps DEF TurnInv
<1> QED  BY <1>1, <1>2, <1>3, <1>4, <1>5, Answering, Arrives

LEMMA JudgeStep == ASSUME TurnInv, Judge PROVE TurnInv'
<1>1. /\ pc = "judge" /\ UNCHANGED <<setup, task, queue, first, lacking, ragSpent, memory, summary>>
  BY DEF Judge
<1>2. /\ TurnTypes /\ Waits /\ Formed /\ Gated /\ pc \notin Over \cup {"begin"}
      /\ out \in Stream /\ Fit(out) /\ Numbered(out.calls) /\ billed \in Nat
      /\ (Redirected => Looked(out.calls) = 0)
      /\ task \in Loop /\ task.state \in {"answered", "failed"}
      /\ \A n \in DOMAIN task.obs : \E i \in DOMAIN out.calls : out.calls[i] = task.obs[n]
  BY <1>1, Answering DEF TurnInv, TurnTypes, Placed, Tooled
<1>3. CASE task.state = "failed"
  <2>1. pc' = "reply" /\ why' = "tools_failed" /\ UNCHANGED <<out, held, billed>>
    BY <1>3 DEF Judge, ReplyFor
  <2>2. TurnTypes'
    BY <1>1, <2>1 DEF TurnInv, TurnTypes, Busy
  <2>3. Gated'
    BY <1>1, <2>1, GatedKeeps DEF TurnInv, Shown
  <2>4. Waits'
    BY <2>1 DEF TurnInv, Waits, Redirected
  <2> QED  BY <1>1, <1>2, <1>3, <2>1, <2>2, <2>3, <2>4, FallsBack
<1>4. CASE task.state # "failed"
  <2>1. PICK cost \in Nat : cost = task.cost
    BY <1>2 DEF Loop
  <2>2. PICK o : o = CASE Capped(setup.chatCap, task.cost) ->
                        Text(Mark(out, "budget"), "stopped")
                   [] ~Capped(setup.chatCap, task.cost) /\ NoEvidence(task.obs) ->
                        Text(Mark(out, "refusal"), "no_evidence")
                   [] OTHER -> IF task.draft THEN Text(out, "draft") ELSE out
    OBVIOUS
  <2>3. Return(Usage(o, cost)) /\ billed' = billed + cost /\ UNCHANGED why
    BY <1>4, <2>1, <2>2 DEF Judge
  <2>4. \/ Texted(out, o, "stopped")
        \/ Texted(out, o, "no_evidence")
        \/ Texted(out, o, "draft") /\ ~Capped(setup.chatCap, task.cost) /\ ~NoEvidence(task.obs)
        \/ o = out
    <3>1. ASSUME NEW m \in Marks, NEW w \in Words PROVE Texted(out, Text(Mark(out, m), w), w)
      <4>1. PICK q : q = Mark(out, m)
        OBVIOUS
      <4>2. Alike(out, q)
        BY <1>2, <3>1, <4>1, MarkKeeps
      <4>3. PICK p : p = Text(q, w)
        OBVIOUS
      <4>4. Texted(q, p, w)
        BY <3>1, <4>2, <4>3, TextKeeps DEF Alike
      <4> QED  BY <4>1, <4>2, <4>3, <4>4 DEF Alike, Texted, SameSpans
    <3>2. CASE Capped(setup.chatCap, task.cost)
      <4>1. "budget" \in Marks /\ "stopped" \in Words
        BY DEF Marks, Words
      <4>2. Texted(out, Text(Mark(out, "budget"), "stopped"), "stopped")
        BY <3>1, <4>1, Zenon
      <4> QED  BY <2>2, <3>2, <4>2
    <3>3. CASE ~Capped(setup.chatCap, task.cost) /\ NoEvidence(task.obs)
      <4>1. "refusal" \in Marks /\ "no_evidence" \in Words
        BY DEF Marks, Words
      <4>2. Texted(out, Text(Mark(out, "refusal"), "no_evidence"), "no_evidence")
        BY <3>1, <4>1, Zenon
      <4> QED  BY <2>2, <3>3, <4>2
    <3>4. CASE ~Capped(setup.chatCap, task.cost) /\ ~NoEvidence(task.obs)
      <4>1. "draft" \in Words
        BY DEF Words
      <4>2. Texted(out, Text(out, "draft"), "draft")
        BY <1>2, <4>1, TextKeeps, Zenon
      <4> QED  BY <2>2, <3>4, <4>2
    <3> QED  BY <3>2, <3>3, <3>4
  <2>5. o \in Stream /\ SameSpans(out, o) /\ o.usage = out.usage
    BY <1>2, <2>4 DEF Texted, SameSpans
  <2>6. \A kind \in {"answer", "draft"} :
          (\E i \in DOMAIN o.text : o.text[i] = kind) =>
            \/ Shown(kind)
            \/ kind = "draft" /\ ~Capped(setup.chatCap, task.cost) /\ ~NoEvidence(task.obs)
    BY <2>4 DEF Texted, Shown
  <2>7. PICK p : p = Usage(o, cost)
    OBVIOUS
  <2>8. Used(o, p, cost)
    BY <2>5, <2>7, UsageKeeps
  <2>9. /\ p \in Stream /\ SameSpans(out, p) /\ p.usage = out.usage + cost /\ p.text = o.text
        /\ p.calls = out.calls /\ Return(p)
    BY <2>3, <2>5, <2>7, <2>8 DEF Used, SameSpans
  <2>10. Rooted(p.stack) /\ p.open \subseteq Handlers /\ Edges(p.parents)
    BY <1>2, <2>9, SameFit
  <2>11. Distinct(p.calls) /\ Numbered(p.calls) /\ (Redirected => Looked(p.calls) = 0)
    <3>1. out.calls \in Seq(CallRecords)
      BY <1>2 DEF Stream
    <3> QED  BY <1>2, <2>9, <3>1, NumberedDistinct
  <2>12. /\ out' \in Stream /\ Fit(out') /\ held' = NoEvents /\ pc' = "finish"
         /\ out'.usage = billed + cost /\ Distinct(out'.calls)
         /\ \A kind : (\E i \in DOMAIN out'.text : out'.text[i] = kind)
                        => \E i \in DOMAIN p.text : p.text[i] = kind
         /\ \A i \in DOMAIN p.calls : \E k \in DOMAIN out'.calls :
              /\ out'.calls[k].failed = p.calls[i].failed
              /\ out'.calls[k].span \in {p.calls[i].span} \cup {Replayed(n) : n \in 1..MaxCalls}
    BY <1>2, <2>9, <2>10, <2>11, Returned
  <2>13. TurnTypes'
    <3>1. billed' \in Nat /\ ragSpent <= billed'
      BY <1>2, <2>3 DEF TurnTypes
    <3> QED  BY <1>1, <2>3, <2>12, <3>1, NoEventsFit DEF TurnInv, TurnTypes
  <2>14. Gated'
    <3>1. Shown("answer")' => Shown("answer")
      BY <2>6, <2>9, <2>12 DEF Shown
    <3>2. Shown("draft")' => \/ Shown("draft")
                             \/ ~Capped(setup.chatCap, task.cost) /\ ~NoEvidence(task.obs)
      BY <2>6, <2>9, <2>12 DEF Shown
    <3>3. \A i \in DOMAIN task.obs : task.obs[i].failed \in BOOLEAN
      <4>1. PICK obs \in Seq(CallRecords) : obs = task.obs
        BY <1>2 DEF Loop
      <4>2. \A i \in DOMAIN obs : obs[i] \in CallRecords
        OBVIOUS
      <4> QED  BY <4>1, <4>2 DEF CallRecords
    <3>4. ~NoEvidence(task.obs) =>
            (setup.files /\ task.obs # <<>> => \E i \in DOMAIN task.obs : ~task.obs[i].failed)
      BY <3>3 DEF NoEvidence
    <3>5. task.state = "answered"
      BY <1>2, <1>4
    <3>6. (Shown("draft") =>
            /\ task.state = "answered"
            /\ ~Capped(setup.chatCap, task.cost)
            /\ setup.files /\ task.obs # <<>> => \E i \in DOMAIN task.obs : ~task.obs[i].failed)'
      BY <1>1, <1>2, <3>2, <3>4, <3>5, Zenon DEF Gated
    <3>7. (Shown("answer") \/ memory.findings > 0 =>
            first.kind = "answer" /\ (setup.floor => first.sure) /\ (setup.strict => first.verified))'
      BY <1>1, <1>2, <3>1 DEF Gated
    <3>8. (setup.cap # NoCap /\ ragSpent > 0 =>
            \E last \in Costs : ragSpent - last + Estimate <= setup.cap)'
      BY <1>1, <1>2 DEF Gated
    <3> QED  BY <2>12, <3>6, <3>7, <3>8 DEF Gated
  <2>15. Recorded(task.obs, out'.calls)
    <3>1. ASSUME NEW n \in DOMAIN task.obs
          PROVE  \E k \in DOMAIN out'.calls :
                   /\ out'.calls[k].failed = task.obs[n].failed
                   /\ out'.calls[k].span \in {task.obs[n].span} \cup {Replayed(m) : m \in 1..MaxCalls}
      <4>1. PICK i \in DOMAIN out.calls : out.calls[i] = task.obs[n]
        BY <1>2, <3>1
      <4>2. i \in DOMAIN p.calls /\ p.calls[i] = task.obs[n]
        BY <2>9, <4>1
      <4>3. PICK k \in DOMAIN out'.calls :
              /\ out'.calls[k].failed = p.calls[i].failed
              /\ out'.calls[k].span \in {p.calls[i].span} \cup {Replayed(m) : m \in 1..MaxCalls}
        BY <2>12, <4>2
      <4> QED  BY <4>2, <4>3
    <3> QED  BY <3>1, Zenon DEF Recorded
  <2>16. out'.usage = billed'
    BY <2>3, <2>12
  <2> QED  BY <1>1, <1>2, <1>4, <2>12, <2>13, <2>14, <2>15, <2>16, Arrives
<1> QED  BY <1>3, <1>4

LEMMA ReplyStep == ASSUME TurnInv, Reply PROVE TurnInv'
<1>1. /\ pc = "reply" /\ UNCHANGED <<setup, why, task, queue, first, ragSpent, memory, summary>>
  BY DEF Reply
<1>2. /\ TurnTypes /\ Waits /\ Formed /\ Gated /\ pc \notin Over \cup {"begin"}
      /\ out \in Stream /\ Fit(out) /\ Numbered(out.calls) /\ billed \in Nat
      /\ (Redirected => Looked(out.calls) = 0)
      /\ task.state \in {"idle", "failed"}
      /\ (why \in {"no_documents", "documents_failed", "no_corpus"} => held = NoEvents /\ ~lacking)
  BY <1>1, Answering DEF TurnInv, Placed
<1>3. PICK cost \in Costs, o \in {out, Text(out, "reply")} :
        /\ billed' = billed + cost
        /\ IF why \in {"no_documents", "documents_failed"}
             THEN DocumentsReturn(Usage(o, cost), lacking)
             ELSE /\ Return(Usage(IF why = "no_corpus" THEN SpanComplete(o, Subagent) ELSE o, cost))
                  /\ UNCHANGED lacking
  BY DEF Reply
<1>4. cost \in Nat
  BY <1>3, TurnConstants
<1>5. o \in Stream /\ SameSpans(out, o) /\ o.usage = out.usage
      /\ \A kind \in {"answer", "draft"} : (\E i \in DOMAIN o.text : o.text[i] = kind) => Shown(kind)
  <2>1. "reply" \in Words
    BY DEF Words
  <2>2. Texted(out, Text(out, "reply"), "reply")
    BY <1>2, <2>1, TextKeeps, Zenon
  <2>3. CASE o = out
    BY <1>2, <2>3 DEF SameSpans, Shown
  <2>4. CASE o = Text(out, "reply")
    BY <2>2, <2>4 DEF Texted, Shown
  <2> QED  BY <1>3, <2>3, <2>4
<1>6. Fit(o) /\ o.calls = out.calls
  BY <1>2, <1>5, FitKeeps DEF SameSpans
<1>7. Numbered(o.calls) /\ Distinct(o.calls) /\ (Redirected => Looked(o.calls) = 0)
  <2>1. out.calls \in Seq(CallRecords)
    BY <1>2 DEF Stream
  <2> QED  BY <1>2, <1>6, <2>1, NumberedDistinct
<1>8. ASSUME NEW p, p \in Stream, p.usage = o.usage + cost, p.text = o.text,
             out' \in Stream, Fit(out'), held' = NoEvents, pc' \in {"finish"},
             out'.usage = billed + cost, Distinct(out'.calls), lacking' \in BOOLEAN,
             \A kind : (\E i \in DOMAIN out'.text : out'.text[i] = kind)
                         => \E i \in DOMAIN p.text : p.text[i] = kind
      PROVE  TurnInv'
  <2>1. billed' \in Nat /\ ragSpent <= billed' /\ out'.usage = billed'
    BY <1>2, <1>3, <1>4, <1>8 DEF TurnTypes
  <2>2. TurnTypes'
    BY <1>1, <1>2, <1>8, <2>1, NoEventsFit DEF TurnTypes
  <2>3. Gated'
    BY <1>1, <1>2, <1>5, <1>8, GatedKeeps
  <2> QED  BY <1>1, <1>2, <1>8, <2>1, <2>2, <2>3, Arrives
<1>9. CASE why \in {"no_documents", "documents_failed"}
  <2>1. PICK p : p = Usage(o, cost)
    OBVIOUS
  <2>2. Used(o, p, cost)
    BY <1>4, <1>5, <2>1, UsageKeeps
  <2>3. DocumentsReturn(p, lacking) /\ held = NoEvents /\ ~lacking
    BY <1>2, <1>3, <1>9, <2>1
  <2>4. p \in Stream /\ p.usage = o.usage + cost /\ p.text = o.text /\ p.calls = o.calls /\ Fit(p)
    BY <1>6, <2>2, FitKeeps DEF Used, SameSpans
  <2>5. PICK lack \in BOOLEAN : lack = lacking /\ ~lack
    BY <1>2, <2>3 DEF TurnTypes
  <2>6. /\ out' \in Stream /\ Fit(out') /\ held' = held /\ lacking' = lack
        /\ out'.calls = p.calls /\ out'.text = p.text /\ out'.usage = p.usage
        /\ pc' \in {"tools", "finish"} /\ (pc' = "tools" => lack)
    <3>1. DocumentsReturn(p, lack)
      BY <2>3, <2>5
    <3> QED  BY <2>4, <2>5, <3>1, DocumentsReturned
  <2>7. out.usage = billed
    BY <1>2, <2>3 DEF Waits, Redirected
  <2>8. pc' = "finish" /\ held' = NoEvents /\ out'.usage = billed + cost /\ Distinct(out'.calls)
    BY <1>5, <1>7, <2>3, <2>4, <2>5, <2>6, <2>7
  <2> QED  BY <1>8, <2>4, <2>5, <2>6, <2>8
<1>10. CASE why \notin {"no_documents", "documents_failed"}
  <2>1. PICK q : q = IF why = "no_corpus" THEN SpanComplete(o, Subagent) ELSE o
    OBVIOUS
  <2>2. Return(Usage(q, cost)) /\ UNCHANGED lacking
    BY <1>3, <1>10, <2>1
  <2>3. q \in Stream /\ Fit(q) /\ q.calls = o.calls /\ q.text = o.text /\ q.usage = o.usage
    <3>1. Subagent \in Handlers \ {Turn}
      BY SpansDiffer DEF Handlers
    <3>2. Completes(o, SpanComplete(o, Subagent), Subagent) /\ SpanComplete(o, Subagent).calls = o.calls
      BY <1>5, CompleteKeeps
    <3>3. Fit(SpanComplete(o, Subagent))
      <4>1. TRUE \in BOOLEAN
        OBVIOUS
      <4> QED  BY <1>5, <1>6, <3>1, <4>1, FitComplete, Zenon
    <3>4. CASE why = "no_corpus"
      BY <2>1, <3>2, <3>3, <3>4 DEF Completes
    <3>5. CASE why # "no_corpus"
      BY <1>5, <1>6, <2>1, <3>5
    <3> QED  BY <3>4, <3>5
  <2>4. PICK p : p = Usage(q, cost)
    OBVIOUS
  <2>5. Used(q, p, cost)
    BY <1>4, <2>3, <2>4, UsageKeeps
  <2>6. /\ p \in Stream /\ p.usage = o.usage + cost /\ p.text = o.text /\ p.calls = o.calls /\ Fit(p)
        /\ Return(p)
    BY <2>2, <2>3, <2>4, <2>5, FitKeeps DEF Used, SameSpans
  <2>7. Rooted(p.stack) /\ p.open \subseteq Handlers /\ Edges(p.parents)
        /\ Distinct(p.calls) /\ Numbered(p.calls) /\ p.usage = out.usage + cost
        /\ (Redirected => Looked(p.calls) = 0)
    BY <1>5, <1>7, <2>6 DEF Fit
  <2>8. /\ out' \in Stream /\ Fit(out') /\ held' = NoEvents /\ pc' = "finish"
        /\ out'.usage = billed + cost /\ Distinct(out'.calls)
        /\ \A kind : (\E i \in DOMAIN out'.text : out'.text[i] = kind)
                       => \E i \in DOMAIN p.text : p.text[i] = kind
    BY <1>2, <1>4, <2>6, <2>7, Returned
  <2>9. lacking' \in BOOLEAN
    BY <1>2, <2>2 DEF TurnTypes
  <2> QED  BY <1>8, <2>6, <2>8, <2>9
<1> QED  BY <1>9, <1>10

\* A query or a sub-agent starts under the turn alone.
LEMMA FirstSpan ==
  ASSUME out \in Stream, Fit(out), out.stack = <<Turn>>, NEW s \in {Query, Subagent}
  PROVE  LET p == SpanStart(out, s) IN Fit(p) /\ OfHandlers(p.stack)
<1>1. s \in Spans /\ s \in Handlers /\ s # Turn /\ out.stack \in Seq(Spans)
  BY SpansDiffer DEF Handlers, Stream
<1>2. PICK p : p = SpanStart(out, s)
  OBVIOUS
<1>3. Starts(out, p, s)
  BY <1>1, <1>2, StartKeeps
<1>4. Top(out.stack) = Turn
  BY DEF Top
<1>5. s \notin {Call(n) : n \in 1..MaxCalls}
  BY TurnConstants DEF Call, Query, Subagent
<1>6. Edges(out.parents) /\ Rooted(out.stack) /\ out.open \subseteq Handlers
  BY DEF Fit
<1>7. Edges(out.parents \cup {<<s, Turn>>})
  BY <1>5, <1>6, EdgesGrow
<1>8. Edges(p.parents)
  BY <1>3, <1>4, <1>7 DEF Starts
<1>9. Rooted(p.stack)
  BY <1>1, <1>3, <1>6, RootedOps DEF Starts
<1>10. OfHandlers(p.stack)
  <2>1. OfHandlers(out.stack)
    BY DEF OfHandlers, Handlers
  <2> QED  BY <1>1, <1>3, <2>1, HandlersOps DEF Starts
<1>11. p.open \subseteq Handlers
  BY <1>1, <1>3, <1>6 DEF Starts
<1> QED  BY <1>2, <1>8, <1>9, <1>10, <1>11 DEF Fit

\* What is known before the tool loop.
LEMMA BeforeTools ==
  ASSUME TurnInv, pc \in Looking \ {"begin"}
  PROVE  /\ TurnTypes /\ Waits /\ Formed /\ Gated /\ pc \notin Over \cup {"begin"}
         /\ out \in Stream /\ Fit(out) /\ out.calls = <<>> /\ out.text = <<>> /\ out.usage = billed
         /\ held = NoEvents /\ ~Redirected /\ ~lacking /\ memory.findings = 0 /\ memory \in Added
         /\ task = Idle /\ task.state = "idle" /\ queue = <<>> /\ billed \in Nat /\ ragSpent \in Nat
         /\ memory.user = ~setup.replay /\ ~memory.saved
         /\ (pc \in {"query", "retry"} => OfHandlers(out.stack))
         /\ (pc # "retry" => ragSpent = 0)
<1>1. Fit(out) /\ out \in Stream
  BY StreamFits DEF TurnInv, Settled, Over, Looking
<1>2. held = NoEvents /\ ~lacking /\ out.text = <<>> /\ memory.findings = 0 /\ task = Idle /\ queue = <<>>
      /\ out.calls = <<>> /\ memory.user = ~setup.replay /\ ~memory.saved
      /\ (pc # "retry" => ragSpent = 0)
  BY DEF TurnInv, Placed, Looking, Early
<1>3. out.usage = billed /\ ~Redirected
  BY <1>2 DEF TurnInv, Waits, Redirected
<1> QED  BY <1>1, <1>2, <1>3 DEF TurnInv, TurnTypes, Formed, Idle, Looking, Over

\* Where the turn goes on along the document path.
LEMMA LooksOn ==
  ASSUME TurnInv, TurnTypes', pc \in {"classify", "documents", "query"}, pc' \in {"documents", "query", "retry", "findings"},
         UNCHANGED <<setup, task, queue, held, lacking, memory>>, out'.usage = billed', Fit(out'),
         out'.text = <<>>, out'.calls = <<>>,
         pc' = "documents" => out' = out /\ out.stack = <<Turn>>,
         pc' \in {"query", "retry"} => OfHandlers(out'.stack), pc' # "retry" => ragSpent' = 0,
         setup.cap # NoCap /\ ragSpent' > 0 =>
           \E last \in Costs : ragSpent' - last + Estimate <= setup.cap,
         pc' \in {"query", "retry"} /\ setup.cap # NoCap => ragSpent' + Estimate <= setup.cap
  PROVE  TurnInv'
<1>1. /\ Formed /\ held = NoEvents /\ ~lacking /\ memory.findings = 0 /\ task = Idle /\ queue = <<>>
      /\ memory.user = ~setup.replay /\ ~memory.saved /\ ~Redirected
  BY BeforeTools DEF Looking
<1>2. Placed'
  BY <1>1, NothingCalled DEF Placed, Looking, Early, Over, Idle
<1>3. Waits'
  BY <1>1 DEF Waits, Redirected
<1>4. Gated'
  BY <1>1 DEF Gated, Shown
<1>5. Formed'
  BY <1>1 DEF Formed, Settled, Over, Fit
<1>6. Tooled' /\ StreamRecorded'
  BY DEF Tooled, Busy, StreamRecorded
<1> QED  BY <1>2, <1>3, <1>4, <1>5, <1>6 DEF TurnInv

LEMMA ClassifyStep == ASSUME TurnInv, Classify PROVE TurnInv'
<1>1. /\ pc = "classify"
      /\ UNCHANGED <<setup, task, queue, first, lacking, ragSpent, billed, memory, summary>>
  BY DEF Classify
<1>2. /\ TurnTypes /\ Waits /\ Formed /\ Gated /\ pc \notin Over \cup {"begin"}
      /\ out \in Stream /\ Fit(out) /\ out.calls = <<>> /\ out.text = <<>> /\ out.usage = billed
      /\ held = NoEvents /\ ~Redirected /\ ~lacking /\ memory.findings = 0
      /\ task = Idle /\ task.state = "idle" /\ queue = <<>> /\ ragSpent = 0
      /\ memory.user = ~setup.replay /\ ~memory.saved
  BY <1>1, BeforeTools DEF Looking
<1>3. out.stack = <<Turn>>
  BY <1>1, <1>2 DEF Formed
<1>4. Calm(out.stack)
  BY <1>2, <1>3 DEF Calm, Fit, OfHandlers, Handlers, Top
<1>5. PICK intent \in Intents :
       CASE intent = "research" /\ setup.agent = "research" ->
                 pc' = "documents" /\ UNCHANGED <<why, out, held>>
            [] intent = "research" /\ setup.agent = "chat" ->
                 /\ pc' = "findings"
                 /\ out' = SpanStart(out, Subagent)
                 /\ UNCHANGED <<why, held>>
            [] intent = "tool_use" -> pc' = "tools" /\ UNCHANGED <<why, out, held>>
            [] intent = "plan" ->
                 /\ held' = Mark(out, "mismatch")
                 /\ out' = [NoEvents EXCEPT !.stack = out.stack]
                 /\ pc' = "tools"
                 /\ UNCHANGED why
            [] OTHER -> ReplyFor(intent) /\ UNCHANGED <<out, held>>
  BY DEF Classify
<1>6. \/ pc' = "documents" /\ UNCHANGED <<why, out, held>>
      \/ pc' = "findings" /\ out' = SpanStart(out, Subagent) /\ UNCHANGED <<why, held>>
      \/ pc' = "tools" /\ UNCHANGED <<why, out, held>>
      \/ /\ held' = Mark(out, "mismatch") /\ out' = [NoEvents EXCEPT !.stack = out.stack]
         /\ pc' = "tools" /\ UNCHANGED why
      \/ pc' = "reply" /\ UNCHANGED <<out, held>>
  <2>1. setup.agent \in {"chat", "research"}
    BY <1>2, SetupsAssumption DEF TurnTypes, Setup
  <2> QED  BY <1>5, <2>1 DEF ReplyFor
<1>7. CASE pc' = "documents" /\ UNCHANGED <<why, out, held>>
  <2>1. TurnTypes'
    BY <1>1, <1>2, <1>7 DEF TurnTypes, Early, Looking
  <2> QED  BY <1>1, <1>2, <1>3, <1>7, <2>1, LooksOn
<1>8. CASE pc' = "findings" /\ out' = SpanStart(out, Subagent) /\ UNCHANGED <<why, held>>
  <2>1. PICK p : p = SpanStart(out, Subagent)
    OBVIOUS
  <2>2. Subagent \in Spans
    BY SpansDiffer DEF Handlers
  <2>3. Starts(out, p, Subagent)
    BY <1>2, <2>1, <2>2, StartKeeps
  <2>4. Fit(p)
    BY <1>2, <1>3, <2>1, FirstSpan
  <2>5. out' = p /\ p \in Stream /\ p.usage = billed /\ p.text = <<>> /\ p.calls = <<>>
    BY <1>2, <1>8, <2>1, <2>3 DEF Starts
  <2>6. TurnTypes'
    BY <1>1, <1>2, <1>8, <2>5 DEF TurnTypes, Early, Looking
  <2> QED  BY <1>1, <1>2, <1>8, <2>4, <2>5, <2>6, LooksOn
<1>9. CASE pc' = "tools" /\ UNCHANGED <<why, out, held>>
  <2>1. TurnTypes'
    BY <1>1, <1>2, <1>9 DEF TurnTypes, Early, Looking
  <2>2. Gated'
    BY <1>1, <1>2, <1>9, GatedKeeps DEF Shown
  <2>3. Distinct(out.calls) /\ Own(out.calls) = 0
    BY <1>2, NothingCalled
  <2> QED  BY <1>1, <1>2, <1>4, <1>9, <2>1, <2>2, <2>3, Arrives
<1>10. CASE /\ held' = Mark(out, "mismatch") /\ out' = [NoEvents EXCEPT !.stack = out.stack]
            /\ pc' = "tools" /\ UNCHANGED why
  <2>1. "mismatch" \in Marks
    BY DEF Marks
  <2>2. Alike(out, Mark(out, "mismatch"))
    BY <1>2, <2>1, MarkKeeps, Zenon
  <2>3. PICK h : h = Mark(out, "mismatch")
    OBVIOUS
  <2>4. /\ held' = h /\ h \in Stream /\ h.open = out.open /\ h.parents = out.parents /\ h.calls = <<>>
        /\ h.text = <<>> /\ h.usage = billed
    BY <1>2, <1>10, <2>2, <2>3 DEF Alike, SameSpans
  <2>5. h # NoEvents
    <3>1. h.marks = out.marks \cup {"mismatch"}
      BY <1>2, <2>3 DEF Mark, Stream
    <3>2. NoEvents.marks = {}
      BY DEF NoEvents
    <3> QED  BY <3>1, <3>2
  <2>6. PICK p : p = [NoEvents EXCEPT !.stack = out.stack]
    OBVIOUS
  <2>7. /\ p \in Stream /\ p.stack = out.stack /\ p.open = {} /\ p.parents = {} /\ p.calls = <<>>
        /\ p.text = <<>> /\ p.usage = 0
    <3>1. out.stack \in Seq(Spans)
      BY <1>2 DEF Stream
    <3> QED  BY <2>6, <3>1, NoEventsFit DEF Stream
  <2>8. out' = p
    BY <1>10, <2>6
  <2>9. TurnTypes'
    BY <1>1, <1>2, <1>10, <2>4, <2>7, <2>8 DEF TurnTypes, Early, Looking
  <2>10. Placed'
    BY <1>1, <1>2, <1>10, <2>7, <2>8, NothingCalled DEF Placed, Looking, Early, Over, Idle
  <2>11. Waits'
    BY <1>1, <2>4, <2>5, <2>7, <2>8, NothingCalled DEF Waits, Redirected
  <2>12. Gated'
    <3>1. \A kind \in {"answer", "draft"} :
            (\E i \in DOMAIN out'.text : out'.text[i] = kind) => Shown(kind)
      BY <2>7, <2>8
    <3>2. Gated /\ pc' \notin {"query", "retry"}
          /\ UNCHANGED <<setup, first, task, memory, ragSpent>>
      BY <1>1, <1>2, <1>10
    <3> QED  BY <3>1, <3>2, GatedKeeps, Zenon
  <2>13. Formed'
    BY <1>2, <1>4, <1>10, <2>4, <2>7, <2>8 DEF Formed, Settled, Over, Fit, Edges
  <2>14. Tooled' /\ StreamRecorded'
    BY <1>10 DEF Tooled, Busy, StreamRecorded
  <2> QED  BY <2>9, <2>10, <2>11, <2>12, <2>13, <2>14 DEF TurnInv
<1>11. CASE pc' = "reply" /\ UNCHANGED <<out, held>>
  <2>1. TurnTypes'
    BY <1>1, <1>2, <1>11 DEF TurnTypes, Busy
  <2>2. Gated'
    BY <1>1, <1>2, <1>11, GatedKeeps DEF Shown
  <2>3. Waits'
    BY <1>1, <1>2, <1>11 DEF Waits, Redirected
  <2>4. Numbered(out.calls)
    BY <1>2, NothingCalled
  <2> QED  BY <1>1, <1>2, <1>11, <2>1, <2>2, <2>3, <2>4, FallsBack
<1> QED  BY <1>6, <1>7, <1>8, <1>9, <1>10, <1>11

LEMMA FindingsAnswerStep == ASSUME TurnInv, FindingsAnswer PROVE TurnInv'
<1>1. /\ pc = "findings" /\ UNCHANGED <<setup, task, queue, first, lacking, ragSpent, memory, summary>>
  BY DEF FindingsAnswer
<1>2. /\ TurnTypes /\ Waits /\ Formed /\ Gated /\ pc \notin Over \cup {"begin"}
      /\ out \in Stream /\ Fit(out) /\ out.calls = <<>> /\ out.text = <<>> /\ out.usage = billed
      /\ held = NoEvents /\ ~Redirected /\ ~lacking
      /\ task = Idle /\ task.state = "idle" /\ billed \in Nat
  BY <1>1, BeforeTools DEF Looking
<1>3. CASE ReplyFor("no_corpus") /\ UNCHANGED <<out, held, billed>>
  <2>1. pc' = "reply"
    BY <1>3 DEF ReplyFor
  <2>2. TurnTypes'
    BY <1>1, <1>2, <1>3, <2>1 DEF TurnTypes, Busy
  <2>3. Gated'
    BY <1>1, <1>2, <1>3, <2>1, GatedKeeps DEF Shown
  <2>4. Waits'
    BY <1>2, <1>3 DEF Waits, Redirected
  <2>5. Numbered(out.calls)
    BY <1>2, NothingCalled
  <2> QED  BY <1>1, <1>2, <1>3, <2>1, <2>2, <2>3, <2>4, <2>5, FallsBack
<1>4. CASE Raise /\ UNCHANGED <<why, billed>>
  <2>1. Numbered(out.calls)
    BY <1>2, NothingCalled
  <2>2. /\ out' \in Stream /\ Fit(out') /\ held' = NoEvents /\ pc' = "finish"
        /\ out'.usage = billed /\ Distinct(out'.calls)
        /\ \A kind : (\E i \in DOMAIN out'.text : out'.text[i] = kind) => Shown(kind)
    BY <1>2, <1>4, <2>1, Raised
  <2>3. TurnTypes'
    BY <1>1, <1>2, <1>4, <2>2, NoEventsFit DEF TurnTypes
  <2>4. Gated'
    BY <1>1, <1>2, <2>2, GatedKeeps
  <2> QED  BY <1>1, <1>2, <1>4, <2>2, <2>3, <2>4, Arrives
<1>5. CASE \E cost \in Costs, cited \in BOOLEAN, answered \in BOOLEAN :
             LET o == SpanStart(out, Synthetic)
                 c == ToolComplete(IF cited THEN Cite(o, TRUE) ELSE o, Synthetic, FALSE)
                 t == IF answered THEN Text(c, "findings") ELSE c
             IN /\ Return(SpanComplete(Usage(t, cost), Subagent))
                /\ billed' = billed + cost
                /\ UNCHANGED why
  <2>1. PICK cost \in Costs, cited \in BOOLEAN, answered \in BOOLEAN :
             LET o == SpanStart(out, Synthetic)
                 c == ToolComplete(IF cited THEN Cite(o, TRUE) ELSE o, Synthetic, FALSE)
                 t == IF answered THEN Text(c, "findings") ELSE c
             IN /\ Return(SpanComplete(Usage(t, cost), Subagent))
                /\ billed' = billed + cost
                /\ UNCHANGED why
    BY <1>5
  <2>2. cost \in Nat /\ Synthetic \in Spans /\ Synthetic \in Handlers \ {Turn}
        /\ Subagent \in Handlers \ {Turn} /\ FALSE \in BOOLEAN /\ TRUE \in BOOLEAN /\ "findings" \in Words
    BY <2>1, TurnConstants, SpansDiffer DEF Handlers, Words
  <2>3. PICK o : o = SpanStart(out, Synthetic)
    OBVIOUS
  <2>4. PICK b : b = IF cited THEN Cite(o, TRUE) ELSE o
    OBVIOUS
  <2>5. PICK c : c = ToolComplete(b, Synthetic, FALSE)
    OBVIOUS
  <2>6. PICK t : t = IF answered THEN Text(c, "findings") ELSE c
    OBVIOUS
  <2>7. PICK u : u = Usage(t, cost)
    OBVIOUS
  <2>8. PICK p : p = SpanComplete(u, Subagent)
    OBVIOUS
  <2>9. Return(p) /\ billed' = billed + cost /\ UNCHANGED why
    BY <2>1, <2>3, <2>4, <2>5, <2>6, <2>7, <2>8
  <2>10. o \in Stream /\ Fit(o) /\ o.calls = <<>> /\ o.text = <<>> /\ o.usage = billed
    BY <1>2, <2>2, <2>3, StartKeeps, FitStart DEF Starts
  <2>11. b \in Stream /\ Fit(b) /\ b.calls = <<>> /\ b.text = <<>> /\ b.usage = billed
    <3>1. Alike(o, Cite(o, TRUE))
      BY <2>2, <2>10, CiteKeeps, Zenon
    <3>2. CASE cited
      BY <2>4, <2>10, <3>1, <3>2, FitKeeps DEF Alike, SameSpans
    <3>3. CASE ~cited
      BY <2>4, <2>10, <3>3
    <3> QED  BY <3>2, <3>3
  <2>12. c \in Stream /\ Fit(c) /\ c.text = <<>> /\ c.usage = billed /\ Distinct(c.calls)
    <3>1. Completes(b, c, Synthetic) /\ c.calls = Append(b.calls, [span |-> Synthetic, failed |-> FALSE])
      BY <2>2, <2>5, <2>11, ToolKeeps, Zenon
    <3>2. Fit(c)
      BY <2>2, <2>5, <2>11, FitComplete, Zenon
    <3>3. Distinct(<<[span |-> Synthetic, failed |-> FALSE]>>)
      BY <2>2, NothingCalled, Zenon
    <3>4. c.calls = <<[span |-> Synthetic, failed |-> FALSE]>>
      BY <2>11, <3>1
    <3> QED  BY <2>11, <3>1, <3>2, <3>3, <3>4 DEF Completes
  <2>13. /\ t \in Stream /\ Fit(t) /\ t.usage = billed /\ t.calls = c.calls
         /\ \A kind : (\E i \in DOMAIN t.text : t.text[i] = kind) => kind = "findings"
    <3>1. Texted(c, Text(c, "findings"), "findings")
      BY <2>2, <2>12, TextKeeps, Zenon
    <3>2. CASE answered
      BY <2>6, <2>12, <3>1, <3>2, FitKeeps DEF Texted, SameSpans
    <3>3. CASE ~answered
      BY <2>6, <2>12, <3>3
    <3> QED  BY <3>2, <3>3
  <2>14. u \in Stream /\ Fit(u) /\ u.usage = billed + cost /\ u.calls = c.calls /\ u.text = t.text
    BY <2>2, <2>7, <2>13, UsageKeeps, FitKeeps DEF Used, SameSpans
  <2>15. p \in Stream /\ Fit(p) /\ p.usage = billed + cost /\ p.calls = c.calls /\ p.text = t.text
    <3>1. Completes(u, p, Subagent) /\ p.calls = u.calls
      BY <2>8, <2>14, CompleteKeeps
    <3>2. Fit(p)
      BY <2>2, <2>8, <2>14, FitComplete, Zenon
    <3> QED  BY <2>14, <3>1, <3>2 DEF Completes
  <2>16. Rooted(p.stack) /\ p.open \subseteq Handlers /\ Edges(p.parents) /\ Distinct(p.calls)
         /\ p.usage = out.usage + cost
    BY <1>2, <2>12, <2>15 DEF Fit
  <2>17. /\ out' \in Stream /\ Fit(out') /\ held' = NoEvents /\ pc' = "finish"
         /\ out'.usage = billed + cost /\ Distinct(out'.calls)
         /\ \A kind : (\E i \in DOMAIN out'.text : out'.text[i] = kind)
                        => \E i \in DOMAIN p.text : p.text[i] = kind
    BY <1>2, <2>2, <2>9, <2>15, <2>16, Returned
  <2>18. billed' \in Nat /\ ragSpent <= billed' /\ out'.usage = billed'
    BY <1>2, <2>2, <2>9, <2>17 DEF TurnTypes
  <2>19. TurnTypes'
    BY <1>1, <1>2, <2>17, <2>18, NoEventsFit DEF TurnTypes
  <2>20. Gated'
    BY <1>1, <1>2, <2>13, <2>15, <2>17, GatedKeeps
  <2> QED  BY <1>1, <1>2, <2>17, <2>18, <2>19, <2>20, Arrives
<1> QED  BY <1>3, <1>4, <1>5 DEF FindingsAnswer

LEMMA DocumentsStep == ASSUME TurnInv, Documents PROVE TurnInv'
<1>1. /\ pc = "documents" /\ UNCHANGED <<setup, task, queue, first, ragSpent, billed, memory, summary>>
  BY DEF Documents
<1>2. /\ TurnTypes /\ Waits /\ Formed /\ Gated /\ pc \notin Over \cup {"begin"}
      /\ out \in Stream /\ Fit(out) /\ out.calls = <<>> /\ out.text = <<>> /\ out.usage = billed
      /\ held = NoEvents /\ ~Redirected /\ ~lacking
      /\ task = Idle /\ task.state = "idle" /\ queue = <<>> /\ ragSpent = 0
  BY <1>1, BeforeTools DEF Looking
<1>3. out.stack = <<Turn>> /\ OfHandlers(out.stack)
  BY <1>1, <1>2 DEF Formed, OfHandlers, Handlers
<1>4. Distinct(out.calls) /\ Numbered(out.calls)
  BY <1>2, NothingCalled
<1>5. CASE setup.corpus = "none"
  <2>1. pc' = "reply" /\ UNCHANGED <<out, held, lacking>>
    BY <1>5 DEF Documents, ReplyFor
  <2>2. TurnTypes'
    BY <1>1, <1>2, <2>1 DEF TurnTypes, Busy
  <2>3. Gated'
    BY <1>1, <1>2, <2>1, GatedKeeps DEF Shown
  <2>4. Waits'
    BY <1>1, <1>2, <2>1 DEF Waits, Redirected
  <2> QED  BY <1>1, <1>2, <1>4, <2>1, <2>2, <2>3, <2>4, FallsBack
<1>6. CASE setup.corpus # "none" /\ ~Affords
  <2>1. DocumentsReturn(Text(Mark(out, "evidence"), "over_cap"), TRUE) /\ UNCHANGED why
    BY <1>6 DEF Documents
  <2>2. PICK q : q = Mark(out, "evidence")
    OBVIOUS
  <2>3. PICK p : p = Text(q, "over_cap")
    OBVIOUS
  <2>4. "evidence" \in Marks /\ "over_cap" \in Words
    BY DEF Marks, Words
  <2>5. Alike(out, q)
    BY <1>2, <2>2, <2>4, MarkKeeps, Zenon
  <2>6. q \in Stream /\ Fit(q) /\ OfHandlers(q.stack) /\ q.calls = <<>> /\ q.text = <<>> /\ q.usage = billed
    BY <1>2, <1>3, <2>5, FitKeeps DEF Alike, SameSpans
  <2>7. Texted(q, p, "over_cap")
    BY <2>3, <2>4, <2>6, TextKeeps, Zenon
  <2>8. /\ p \in Stream /\ Fit(p) /\ OfHandlers(p.stack) /\ p.calls = <<>> /\ p.usage = billed
        /\ \A kind : (\E i \in DOMAIN p.text : p.text[i] = kind) => kind = "over_cap"
    BY <2>6, <2>7, FitKeeps DEF Texted, SameSpans
  <2>9. /\ out' \in Stream /\ Fit(out') /\ held' = held /\ lacking' = TRUE
        /\ out'.calls = p.calls /\ out'.text = p.text /\ out'.usage = p.usage
        /\ pc' \in {"tools", "finish"} /\ (pc' = "tools" => Calm(out'.stack))
    <3>1. PICK lack \in BOOLEAN : lack = TRUE
      OBVIOUS
    <3>2. DocumentsReturn(p, lack)
      BY <2>1, <2>2, <2>3, <3>1
    <3> QED  BY <2>8, <3>1, <3>2, DocumentsReturned
  <2>10. lacking' \in BOOLEAN /\ held' = NoEvents /\ Distinct(out'.calls) /\ Own(out'.calls) = 0
    BY <1>2, <1>4, <2>8, <2>9, NothingCalled
  <2>11. TurnTypes'
    BY <1>1, <1>2, <2>1, <2>9, <2>10, NoEventsFit DEF TurnTypes, Early, Looking
  <2>12. Gated'
    BY <1>1, <1>2, <2>8, <2>9, GatedKeeps
  <2> QED  BY <1>1, <1>2, <2>8, <2>9, <2>10, <2>11, <2>12, Arrives
<1>7. CASE setup.corpus # "none" /\ Affords
  <2>1. out' = SpanStart(out, Query) /\ pc' = "query" /\ UNCHANGED <<why, held, lacking>>
    BY <1>7 DEF Documents
  <2>2. PICK p : p = SpanStart(out, Query)
    OBVIOUS
  <2>3. Query \in Spans
    BY SpansDiffer DEF Handlers
  <2>4. Starts(out, p, Query)
    BY <1>2, <2>2, <2>3, StartKeeps
  <2>5. Fit(p) /\ OfHandlers(p.stack)
    BY <1>2, <1>3, <2>2, FirstSpan
  <2>6. out' = p /\ p \in Stream /\ p.usage = billed /\ p.text = <<>> /\ p.calls = <<>>
    BY <1>2, <2>1, <2>2, <2>4 DEF Starts
  <2>7. setup.cap # NoCap => ragSpent + Estimate <= setup.cap
    BY <1>2, <1>7, TurnConstants DEF Affords, Capped, TurnTypes
  <2>8. TurnTypes'
    BY <1>1, <1>2, <2>1, <2>6 DEF TurnTypes, Early, Looking
  <2> QED  BY <1>1, <1>2, <2>1, <2>5, <2>6, <2>7, <2>8, LooksOn
<1> QED  BY <1>5, <1>6, <1>7

-----------------------------------------------------------------------------
\* What was spent before the last query, with the estimate of one, is within the cap.
LEMMA Spends ==
  ASSUME TurnTypes, Gated, pc \in {"query", "retry"}, NEW cost \in Costs, ragSpent' = ragSpent + cost,
         setup' = setup
  PROVE  setup.cap # NoCap => \E last \in Costs : ragSpent' - last + Estimate <= setup.cap
<1>1. setup.cap # NoCap => ragSpent + Estimate <= setup.cap
  BY DEF Gated
<1>2. ragSpent \in Nat /\ cost \in Nat /\ Estimate \in Nat
  BY TurnConstants DEF TurnTypes
<1>3. ragSpent' - cost + Estimate = ragSpent + Estimate
  BY <1>2
<1> QED  BY <1>1, <1>3

\* A refusal is told as such, after the query it came from, and leaves the spans of handlers.
LEMMA TellsInsufficient ==
  ASSUME NEW o \in Stream, Fit(o), OfHandlers(o.stack), o.calls = <<>>, o.text = <<>>
  PROVE  LET p == TellInsufficient(o, Query)
         IN /\ p \in Stream /\ Fit(p) /\ OfHandlers(p.stack) /\ p.usage = o.usage
            /\ Distinct(p.calls) /\ Own(p.calls) = 0
            /\ \A kind : (\E i \in DOMAIN p.text : p.text[i] = kind) => kind = "insufficient"
<1>1. "evidence" \in Marks /\ "insufficient" \in Words /\ Query \in Handlers \ {Turn} /\ Query \in Spans
  BY SpansDiffer DEF Marks, Words, Handlers
<1>2. PICK q : q = Mark(o, "evidence")
  OBVIOUS
<1>3. PICK c : c = ToolComplete(q, Query, FALSE)
  OBVIOUS
<1>4. PICK p : p = Text(c, "insufficient")
  OBVIOUS
<1>5. Alike(o, q)
  BY <1>1, <1>2, MarkKeeps, Zenon
<1>6. /\ q \in Stream /\ Fit(q) /\ OfHandlers(q.stack) /\ q.calls = <<>> /\ q.text = <<>>
      /\ q.usage = o.usage
  BY <1>5, FitKeeps DEF Alike, SameSpans
<1>7. /\ c \in Stream /\ Fit(c) /\ OfHandlers(c.stack) /\ c.text = <<>> /\ c.usage = o.usage
      /\ Distinct(c.calls) /\ Own(c.calls) = 0
  <2>0. FALSE \in BOOLEAN
    OBVIOUS
  <2>1. Completes(q, c, Query) /\ c.calls = Append(q.calls, [span |-> Query, failed |-> FALSE])
    BY <1>1, <1>3, <1>6, <2>0, ToolKeeps, Zenon
  <2>2. Fit(c) /\ OfHandlers(c.stack)
    BY <1>1, <1>3, <1>6, <2>0, FitComplete, Zenon
  <2>3. /\ Distinct(<<[span |-> Query, failed |-> FALSE]>>)
        /\ Own(<<[span |-> Query, failed |-> FALSE]>>) = 0
    BY <1>1, <2>0, NothingCalled, Zenon
  <2>4. c.calls = <<[span |-> Query, failed |-> FALSE]>>
    BY <1>6, <2>1
  <2> QED  BY <1>6, <2>1, <2>2, <2>3, <2>4 DEF Completes
<1>8. Texted(c, p, "insufficient")
  BY <1>1, <1>4, <1>7, TextKeeps, Zenon
<1>9. /\ p \in Stream /\ Fit(p) /\ OfHandlers(p.stack) /\ p.usage = o.usage
      /\ Distinct(p.calls) /\ Own(p.calls) = 0
      /\ \A kind : (\E i \in DOMAIN p.text : p.text[i] = kind) => kind = "insufficient"
  BY <1>7, <1>8, FitKeeps DEF Texted, SameSpans
<1> QED  BY <1>2, <1>3, <1>4, <1>9 DEF TellInsufficient

\* An answer is told after the query it came from.
Answers(o, p, m) ==
  /\ p \in Stream /\ Fit(p) /\ Distinct(p.calls) /\ p.usage = o.usage
  /\ \A kind : (\E i \in DOMAIN p.text : p.text[i] = kind) => kind = m
LEMMA TellsAnswer ==
  ASSUME NEW o \in Stream, Fit(o), o.calls = <<>>, o.text = <<>>,
         NEW s \in {Query, Retry}, NEW verified \in BOOLEAN, NEW m \in {"answer", "retried"}
  PROVE  Answers(o, Text(ToolComplete(Cite(o, verified), s, FALSE), m), m)
<1>1. m \in Words /\ s \in Handlers \ {Turn} /\ s \in Spans /\ FALSE \in BOOLEAN
  BY SpansDiffer DEF Words, Handlers
<1>2. PICK q : q = Cite(o, verified)
  OBVIOUS
<1>3. PICK c : c = ToolComplete(q, s, FALSE)
  OBVIOUS
<1>4. PICK p : p = Text(c, m)
  OBVIOUS
<1>5. Alike(o, q)
  BY <1>2, CiteKeeps, Zenon
<1>6. q \in Stream /\ Fit(q) /\ q.calls = <<>> /\ q.text = <<>> /\ q.usage = o.usage
  BY <1>5, FitKeeps DEF Alike, SameSpans
<1>7. c \in Stream /\ Fit(c) /\ c.text = <<>> /\ c.usage = o.usage /\ Distinct(c.calls)
  <2>1. Completes(q, c, s) /\ c.calls = Append(q.calls, [span |-> s, failed |-> FALSE])
    BY <1>1, <1>3, <1>6, ToolKeeps, Zenon
  <2>2. Fit(c)
    BY <1>1, <1>3, <1>6, FitComplete, Zenon
  <2>3. Distinct(<<[span |-> s, failed |-> FALSE]>>)
    BY <1>1, NothingCalled, Zenon
  <2>4. c.calls = <<[span |-> s, failed |-> FALSE]>>
    BY <1>6, <2>1
  <2> QED  BY <1>6, <2>1, <2>2, <2>3, <2>4 DEF Completes
<1>8. Texted(c, p, m)
  BY <1>1, <1>4, <1>7, TextKeeps, Zenon
<1>9. Answers(o, p, m)
  BY <1>7, <1>8, FitKeeps DEF Texted, SameSpans, Answers
<1> QED  BY <1>2, <1>3, <1>4, <1>9

\* A query comes back, and the document path with it.
LEMMA QueryReturns ==
  ASSUME TurnInv, pc \in {"query", "retry"}, UNCHANGED <<setup, task, queue>>,
         NEW cost \in Costs, Asked(cost), NEW p \in Stream, NEW lack \in BOOLEAN, Fit(p),
         OfHandlers(p.stack) \/ ~lack, Distinct(p.calls), lack => Own(p.calls) = 0, p.usage = billed + cost,
         DocumentsReturn(p, lack), memory' \in Added, memory'.user = memory.user,
         memory'.saved = memory.saved, first' \in {NoResult} \cup Results,
         \A kind : (\E i \in DOMAIN p.text : p.text[i] = kind) => kind # "draft",
         (\E i \in DOMAIN p.text : p.text[i] = "answer") \/ memory'.findings > 0 =>
           first'.kind = "answer" /\ (setup.floor => first'.sure) /\ (setup.strict => first'.verified)
  PROVE  TurnInv'
<1>1. /\ TurnTypes /\ Gated /\ pc \notin Over \cup {"begin"} /\ held = NoEvents
      /\ task = Idle /\ task.state = "idle" /\ queue = <<>> /\ billed \in Nat /\ ragSpent \in Nat
  BY BeforeTools DEF Looking
<1>2. /\ out' \in Stream /\ Fit(out') /\ held' = NoEvents /\ lacking' = lack
      /\ out'.calls = p.calls /\ out'.text = p.text /\ out'.usage = p.usage
      /\ pc' \in {"tools", "finish"}
      /\ pc' = "tools" => Calm(out'.stack) /\ Own(out'.calls) = 0
  BY <1>1, DocumentsReturned
<1>3. ragSpent' = ragSpent + cost /\ billed' = billed + cost /\ cost \in Nat
  BY TurnConstants DEF Asked
<1>4. ragSpent' \in Nat /\ billed' \in Nat /\ ragSpent' <= billed'
  BY <1>1, <1>3 DEF TurnTypes
<1>5. TurnTypes'
  BY <1>1, <1>2, <1>4, NoEventsFit DEF TurnTypes, Early, Looking
<1>6. setup.cap # NoCap => \E last \in Costs : ragSpent' - last + Estimate <= setup.cap
  BY <1>1, <1>3, Spends
<1>7. Gated'
  <2>1. ~Shown("draft")' /\ (Shown("answer")' => \E i \in DOMAIN p.text : p.text[i] = "answer")
    BY <1>2 DEF Shown
  <2> QED  BY <1>2, <1>6, <2>1 DEF Gated
<1> QED  BY <1>1, <1>2, <1>3, <1>5, <1>7, Arrives

LEMMA RetryAnswersStep == ASSUME TurnInv, RetryAnswers PROVE TurnInv'
<1>1. /\ pc = "retry" /\ memory' = [memory EXCEPT !.noted = TRUE]
      /\ UNCHANGED <<setup, why, task, queue, first, summary>>
  BY DEF RetryAnswers
<1>2. /\ TurnTypes /\ Gated /\ out \in Stream /\ Fit(out) /\ out.calls = <<>> /\ out.text = <<>>
      /\ out.usage = billed /\ ~lacking /\ memory \in Added /\ memory.findings = 0
      /\ OfHandlers(out.stack)
  BY <1>1, BeforeTools DEF Looking
<1>3. /\ memory' \in Added /\ memory'.user = memory.user /\ memory'.saved = memory.saved
      /\ memory'.findings = 0
  BY <1>1, <1>2 DEF Added
<1>4. PICK r \in Results, cost \in Costs :
        /\ Asked(cost)
        /\ IF r.kind = "answer"
             THEN DocumentsReturn(Text(ToolComplete(Cite(Usage(out, cost), r.verified), Retry, FALSE),
                                       "retried"), lacking)
             ELSE DocumentsReturn(TellInsufficient(Usage(out, cost), Query), TRUE)
  BY DEF RetryAnswers
<1>5. PICK o : o = Usage(out, cost)
  OBVIOUS
<1>6. /\ o \in Stream /\ Fit(o) /\ o.calls = <<>> /\ o.text = <<>> /\ o.usage = billed + cost
      /\ OfHandlers(o.stack)
  <2>1. cost \in Nat
    BY <1>4, TurnConstants
  <2> QED  BY <1>2, <1>5, <2>1, UsageKeeps, FitKeeps DEF Used, SameSpans
<1>7. first' \in {NoResult} \cup Results /\ UNCHANGED <<setup, task, queue>>
  BY <1>1, <1>2 DEF TurnTypes
<1>8. CASE r.kind = "answer"
  <2>1. r.verified \in BOOLEAN
    BY <1>4 DEF Results
  <2>2. PICK p : p = Text(ToolComplete(Cite(o, r.verified), Retry, FALSE), "retried")
    OBVIOUS
  <2>3. /\ p \in Stream /\ Fit(p) /\ Distinct(p.calls) /\ p.usage = billed + cost
        /\ \A kind : (\E i \in DOMAIN p.text : p.text[i] = kind) => kind = "retried"
    <3>1. Retry \in {Query, Retry} /\ "retried" \in {"answer", "retried"}
      OBVIOUS
    <3>2. Answers(o, p, "retried")
      BY <1>6, <2>1, <2>2, <3>1, TellsAnswer, Zenon
    <3> QED  BY <1>6, <3>2 DEF Answers
  <2>4. PICK lack \in BOOLEAN : lack = FALSE
    OBVIOUS
  <2>5. DocumentsReturn(p, lack)
    <3>1. lacking = lack
      BY <1>2, <2>4 DEF TurnTypes
    <3> QED  BY <1>4, <1>5, <1>8, <2>2, <3>1, Zenon
  <2>6. /\ \A kind : (\E i \in DOMAIN p.text : p.text[i] = kind) => kind # "draft"
        /\ ~\E i \in DOMAIN p.text : p.text[i] = "answer"
    BY <2>3
  <2>7. pc \in {"query", "retry"} /\ Asked(cost) /\ ~lack
    BY <1>1, <1>4, <2>4
  <2> QED  BY <1>3, <1>4, <1>7, <2>3, <2>5, <2>6, <2>7, QueryReturns
<1>9. CASE r.kind # "answer"
  <2>1. PICK p : p = TellInsufficient(o, Query)
    OBVIOUS
  <2>2. /\ p \in Stream /\ Fit(p) /\ OfHandlers(p.stack) /\ p.usage = billed + cost
        /\ Distinct(p.calls) /\ Own(p.calls) = 0
        /\ \A kind : (\E i \in DOMAIN p.text : p.text[i] = kind) => kind = "insufficient"
    BY <1>6, <2>1, TellsInsufficient
  <2>3. PICK lack \in BOOLEAN : lack = TRUE
    OBVIOUS
  <2>4. DocumentsReturn(p, lack)
    BY <1>4, <1>5, <1>9, <2>1, <2>3
  <2>5. /\ \A kind : (\E i \in DOMAIN p.text : p.text[i] = kind) => kind # "draft"
        /\ ~\E i \in DOMAIN p.text : p.text[i] = "answer"
    BY <2>2
  <2>6. pc \in {"query", "retry"} /\ Asked(cost) /\ Distinct(p.calls)
    BY <1>1, <1>4, <2>2
  <2> QED  BY <1>3, <1>4, <1>7, <2>2, <2>4, <2>5, <2>6, QueryReturns
<1> QED  BY <1>8, <1>9

\* An answer that passed the switches is stored and told, or given up for a plain reply.
LEMMA Accepts ==
  ASSUME TurnInv, pc = "query", UNCHANGED <<setup, task, queue>>, NEW r \in Results, first' = r,
         r.kind = "answer", ~Refused(r), NEW cost \in Costs, Asked(cost), Accept(Usage(out, cost), r)
  PROVE  TurnInv'
<1>1. /\ TurnTypes /\ Gated /\ Waits /\ pc \notin Over \cup {"begin"} /\ out \in Stream /\ Fit(out)
      /\ out.calls = <<>> /\ out.text = <<>> /\ out.usage = billed /\ ~lacking /\ memory \in Added
      /\ held = NoEvents /\ ~Redirected /\ task = Idle /\ task.state = "idle" /\ queue = <<>>
      /\ memory.findings = 0 /\ billed \in Nat /\ ragSpent \in Nat
  BY BeforeTools DEF Looking
<1>2. cost \in Nat /\ setup.room \in Nat /\ r.claims \in Nat /\ r.verified \in BOOLEAN
  <2>1. setup.room \in Nat /\ cost \in Nat
    BY <1>1, TurnConstants DEF TurnTypes
  <2>2. r.claims \in Nat /\ r.verified \in BOOLEAN
    <3>1. \/ r \in [kind : {"answer"}, claims : {1, 2}, verified : BOOLEAN, sure : BOOLEAN,
                    hint : {FALSE}]
          \/ r \in [kind : {"insufficient"}, claims : {0}, verified : BOOLEAN, sure : {FALSE},
                    hint : BOOLEAN]
      BY DEF Results
    <3>2. r.claims \in {0, 1, 2} /\ r.verified \in BOOLEAN
      BY <3>1
    <3> QED  BY <3>2
  <2> QED  BY <2>1, <2>2
<1>3. (setup.floor => r.sure) /\ (setup.strict => r.verified)
  BY DEF Refused, Unsure, Unverified
<1>4. PICK o : o = Usage(out, cost)
  OBVIOUS
<1>5. o \in Stream /\ Fit(o) /\ o.calls = <<>> /\ o.text = <<>> /\ o.usage = billed + cost
  BY <1>1, <1>2, <1>4, UsageKeeps, FitKeeps DEF Used, SameSpans
<1>6. CASE r.claims <= setup.room
  <2>1. /\ memory' = [memory EXCEPT !.findings = @ + r.claims, !.noted = TRUE]
        /\ DocumentsReturn(Text(ToolComplete(Cite(o, r.verified), Query, FALSE), "answer"), lacking)
    BY <1>4, <1>6 DEF Accept
  <2>2. memory' \in Added /\ memory'.user = memory.user /\ memory'.saved = memory.saved
    <3>1. PICK found \in Nat : found = memory.findings + r.claims
      BY <1>1, <1>2
    <3>2. memory' = [memory EXCEPT !.findings = found, !.noted = TRUE]
      BY <2>1, <3>1
    <3> HIDE <2>1
    <3> QED  BY <1>1, <3>2 DEF Added
  <2>3. PICK p : p = Text(ToolComplete(Cite(o, r.verified), Query, FALSE), "answer")
    OBVIOUS
  <2>4. /\ p \in Stream /\ Fit(p) /\ Distinct(p.calls) /\ p.usage = billed + cost
        /\ \A kind : (\E i \in DOMAIN p.text : p.text[i] = kind) => kind = "answer"
    <3>1. Query \in {Query, Retry} /\ "answer" \in {"answer", "retried"}
      OBVIOUS
    <3>2. Answers(o, p, "answer")
      BY <1>2, <1>5, <2>3, <3>1, TellsAnswer, Zenon
    <3> QED  BY <1>5, <3>2 DEF Answers
  <2>5. PICK lack \in BOOLEAN : lack = FALSE
    OBVIOUS
  <2>6. DocumentsReturn(p, lack) /\ ~lack
    <3>1. lacking = lack
      BY <1>1, <2>5 DEF TurnTypes
    <3> QED  BY <2>1, <2>3, <2>5, <3>1, Zenon
  <2>7. /\ \A kind : (\E i \in DOMAIN p.text : p.text[i] = kind) => kind # "draft"
        /\ first'.kind = "answer" /\ (setup.floor => first'.sure) /\ (setup.strict => first'.verified)
        /\ first' \in {NoResult} \cup Results
    BY <1>3, <2>4
  <2> QED  BY <2>2, <2>4, <2>6, <2>7, QueryReturns
<1>7. CASE ~(r.claims <= setup.room)
  <2>1. /\ memory' = [memory EXCEPT !.findings = @ + setup.room]
        /\ pc' = "reply" /\ why' = "documents_failed" /\ out' = Cite(o, r.verified)
        /\ UNCHANGED <<held, lacking>>
    BY <1>4, <1>7 DEF Accept, ReplyFor
  <2>2. memory' \in Added /\ memory'.user = memory.user /\ memory'.saved = memory.saved
    <3>1. PICK found \in Nat : found = memory.findings + setup.room
      BY <1>1, <1>2
    <3>2. memory' = [memory EXCEPT !.findings = found]
      BY <2>1, <3>1
    <3> HIDE <2>1
    <3> QED  BY <1>1, <3>2 DEF Added
  <2>3. PICK p : p = Cite(o, r.verified)
    OBVIOUS
  <2>4. Alike(o, p)
    BY <1>2, <1>5, <2>3, CiteKeeps, Zenon
  <2>5. out' = p /\ p \in Stream /\ Fit(p) /\ p.calls = <<>> /\ p.text = <<>> /\ p.usage = billed + cost
    BY <1>5, <2>1, <2>3, <2>4, FitKeeps DEF Alike, SameSpans
  <2>6. ragSpent' = ragSpent + cost /\ billed' = billed + cost
    BY DEF Asked
  <2>7. ragSpent' \in Nat /\ billed' \in Nat /\ ragSpent' <= billed'
    BY <1>1, <1>2, <2>6 DEF TurnTypes
  <2>8. TurnTypes'
    BY <1>1, <2>1, <2>2, <2>5, <2>7 DEF TurnTypes, Busy
  <2>9. setup.cap # NoCap => \E last \in Costs : ragSpent' - last + Estimate <= setup.cap
    BY <1>1, <2>6, Spends
  <2>10. Gated'
    <3>1. ~Shown("draft")'
      BY <2>5 DEF Shown
    <3> QED  BY <1>3, <2>1, <2>9, <3>1 DEF Gated
  <2>11. Waits'
    BY <1>1, <2>1, <2>5, <2>6 DEF Waits, Redirected
  <2>12. Numbered(out'.calls)
    BY <2>5, NothingCalled
  <2> QED  BY <1>1, <2>1, <2>2, <2>5, <2>8, <2>10, <2>11, <2>12, FallsBack
<1> QED  BY <1>6, <1>7

LEMMA QueryAnswersStep == ASSUME TurnInv, QueryAnswers PROVE TurnInv'
<1>1. pc = "query" /\ UNCHANGED <<setup, task, queue, summary>>
  BY DEF QueryAnswers
<1>2. /\ TurnTypes /\ Gated /\ out \in Stream /\ Fit(out) /\ out.calls = <<>> /\ out.text = <<>>
      /\ out.usage = billed /\ memory \in Added /\ memory.findings = 0 /\ OfHandlers(out.stack)
      /\ billed \in Nat /\ ragSpent \in Nat
  BY <1>1, BeforeTools DEF Looking
<1>3. PICK r \in Results, cost \in Costs :
       LET o == Usage(out, cost)
           collapsed == r.kind = "answer" /\ Refused(r)
           told == IF collapsed /\ Unsure(r) THEN Mark(o, "refusal") ELSE o
       IN /\ first' = r
          /\ Asked(cost)
          /\ IF r.kind = "answer" /\ ~collapsed
               THEN Accept(o, r)
               ELSE \E found \in BOOLEAN :
                      IF found /\ MayRetry(r.hint, ragSpent + cost)
                        THEN /\ out' = SpanStart(told, Retry)
                             /\ pc' = "retry"
                             /\ UNCHANGED <<why, held, lacking, memory>>
                        ELSE /\ LET tried == IF MayRetry(r.hint, ragSpent + cost)
                                               THEN SpanStart(told, Retry) ELSE told
                                IN DocumentsReturn(TellInsufficient(tried, Query), TRUE)
                             /\ memory' = [memory EXCEPT !.noted = TRUE]
                             /\ UNCHANGED why
  BY DEF QueryAnswers
<1>4. cost \in Nat /\ first' = r /\ Asked(cost) /\ ragSpent' = ragSpent + cost /\ billed' = billed + cost
  BY <1>3, TurnConstants DEF Asked
<1>5. CASE r.kind = "answer" /\ ~Refused(r)
  <2>1. Accept(Usage(out, cost), r)
    BY <1>3, <1>5
  <2> QED  BY <1>1, <1>3, <1>4, <1>5, <2>1, Accepts
<1>6. CASE ~(r.kind = "answer" /\ ~Refused(r))
  <2>1. PICK o : o = Usage(out, cost)
    OBVIOUS
  <2>2. o \in Stream /\ Fit(o) /\ o.calls = <<>> /\ o.text = <<>> /\ o.usage = billed + cost
        /\ OfHandlers(o.stack)
    BY <1>2, <1>4, <2>1, UsageKeeps, FitKeeps DEF Used, SameSpans
  <2>3. PICK t : t = IF r.kind = "answer" /\ Refused(r) /\ Unsure(r) THEN Mark(o, "refusal") ELSE o
    OBVIOUS
  <2>4. t \in Stream /\ Fit(t) /\ t.calls = <<>> /\ t.text = <<>> /\ t.usage = billed + cost
        /\ OfHandlers(t.stack)
    <3>1. "refusal" \in Marks
      BY DEF Marks
    <3>2. Alike(o, Mark(o, "refusal"))
      BY <2>2, <3>1, MarkKeeps, Zenon
    <3>3. PICK q : q = Mark(o, "refusal")
      OBVIOUS
    <3>4. q \in Stream /\ Fit(q) /\ q.calls = <<>> /\ q.text = <<>> /\ q.usage = billed + cost
          /\ OfHandlers(q.stack)
      BY <2>2, <3>2, <3>3, FitKeeps DEF Alike, SameSpans
    <3>5. t = q \/ t = o
      BY <2>3, <3>3
    <3> QED  BY <2>2, <3>4, <3>5
  <2>5. PICK s : s = SpanStart(t, Retry)
    OBVIOUS
  <2>6. s \in Stream /\ Fit(s) /\ s.calls = <<>> /\ s.text = <<>> /\ s.usage = billed + cost
        /\ OfHandlers(s.stack)
    <3>1. Retry \in Spans
      BY SpansDiffer DEF Handlers
    <3>2. Starts(t, s, Retry)
      BY <2>4, <2>5, <3>1, StartKeeps
    <3>3. Fit(s) /\ OfHandlers(s.stack)
      BY <2>4, <2>5, FitStart
    <3> QED  BY <2>4, <3>2, <3>3 DEF Starts
  <2>7. PICK found \in BOOLEAN :
          IF found /\ MayRetry(r.hint, ragSpent + cost)
            THEN /\ out' = s /\ pc' = "retry" /\ UNCHANGED <<why, held, lacking, memory>>
            ELSE /\ DocumentsReturn(TellInsufficient(
                       IF MayRetry(r.hint, ragSpent + cost) THEN s ELSE t, Query), TRUE)
                 /\ memory' = [memory EXCEPT !.noted = TRUE]
    BY <1>3, <1>6, <2>1, <2>3, <2>5
  <2>8. CASE found /\ MayRetry(r.hint, ragSpent + cost)
    <3>1. /\ out' = s /\ pc' = "retry" /\ UNCHANGED <<why, held, lacking, memory>>
      BY <2>7, <2>8
    <3>2. setup.cap # NoCap => ragSpent' + Estimate <= setup.cap
      <4>1. setup.cap # NoCap => ~(ragSpent + cost + Estimate > setup.cap) /\ setup.cap \in Nat
        BY <1>2, <2>8, TurnConstants DEF MayRetry, Capped, TurnTypes
      <4> QED  BY <1>2, <1>4, <4>1, TurnConstants
    <3>3. setup.cap # NoCap => \E last \in Costs : ragSpent' - last + Estimate <= setup.cap
      BY <1>1, <1>2, <1>4, Spends
    <3>4. ragSpent' \in Nat /\ billed' \in Nat /\ ragSpent' <= billed'
      BY <1>2, <1>4 DEF TurnTypes
    <3>5. TurnTypes'
      BY <1>1, <1>2, <1>3, <1>4, <2>6, <3>1, <3>4 DEF TurnTypes, Early, Looking
    <3>6. out'.usage = billed' /\ Fit(out') /\ out'.text = <<>> /\ out'.calls = <<>>
          /\ OfHandlers(out'.stack)
      BY <1>4, <2>6, <3>1
    <3> QED  BY <1>1, <3>1, <3>2, <3>3, <3>5, <3>6, LooksOn
  <2>9. CASE ~(found /\ MayRetry(r.hint, ragSpent + cost))
    <3>1. PICK b : b = IF MayRetry(r.hint, ragSpent + cost) THEN s ELSE t
      OBVIOUS
    <3>2. b \in Stream /\ Fit(b) /\ b.calls = <<>> /\ b.text = <<>> /\ b.usage = billed + cost
          /\ OfHandlers(b.stack)
      BY <2>4, <2>6, <3>1
    <3>3. PICK p : p = TellInsufficient(b, Query)
      OBVIOUS
    <3>4. /\ p \in Stream /\ Fit(p) /\ OfHandlers(p.stack) /\ p.usage = billed + cost
          /\ Distinct(p.calls) /\ Own(p.calls) = 0
          /\ \A kind : (\E i \in DOMAIN p.text : p.text[i] = kind) => kind = "insufficient"
      BY <3>2, <3>3, TellsInsufficient
    <3>5. PICK lack \in BOOLEAN : lack = TRUE
      OBVIOUS
    <3>6. DocumentsReturn(p, lack) /\ memory' = [memory EXCEPT !.noted = TRUE]
      BY <2>7, <2>9, <3>1, <3>3, <3>5
    <3>7. /\ memory' \in Added /\ memory'.user = memory.user /\ memory'.saved = memory.saved
          /\ memory'.findings = 0
      BY <1>2, <3>6 DEF Added
    <3>8. /\ \A kind : (\E i \in DOMAIN p.text : p.text[i] = kind) => kind # "draft"
          /\ ~\E i \in DOMAIN p.text : p.text[i] = "answer"
      BY <3>4
    <3>9. pc \in {"query", "retry"} /\ Distinct(p.calls) /\ first' \in {NoResult} \cup Results
          /\ UNCHANGED <<setup, task, queue>>
      BY <1>1, <1>3, <1>4, <3>4
    <3>10. cost \in Costs /\ Asked(cost) /\ (OfHandlers(p.stack) \/ ~lack) /\ (lack => Own(p.calls) = 0)
      BY <1>3, <1>4, <3>4
    <3>11. (\E i \in DOMAIN p.text : p.text[i] = "answer") \/ memory'.findings > 0 =>
             first'.kind = "answer" /\ (setup.floor => first'.sure) /\ (setup.strict => first'.verified)
      BY <3>7, <3>8
    <3>12. /\ p \in Stream /\ Fit(p) /\ p.usage = billed + cost
           /\ \A kind : (\E i \in DOMAIN p.text : p.text[i] = kind) => kind # "draft"
      BY <3>4, <3>8
    <3>13. memory' \in Added /\ memory'.user = memory.user /\ memory'.saved = memory.saved
      BY <3>7
    <3> QED  BY <3>6, <3>9, <3>10, <3>11, <3>12, <3>13, QueryReturns
  <2> QED  BY <2>8, <2>9
<1> QED  BY <1>5, <1>6

-----------------------------------------------------------------------------
LEMMA TurnNextKeeps == ASSUME TurnInv, [TurnNext]_turnVars PROVE TurnInv'
<1>1. CASE TaskStep
  BY <1>1, ToolStartsStep, ToolEndsStep, LoopAnswersStep, LoopFailsStep, SchemaRejectedStep DEF TaskStep
<1>2. CASE TurnStep
  BY <1>2, BeginStep, ClassifyStep, ClassifyFailsStep, ReplyStep, ReplyFailsStep, FindingsAnswerStep,
     StartToolsStep, DrainStep, JudgeStep, DocumentsStep, QueryAnswersStep, RetryAnswersStep,
     QueryFailsStep, FinishStep, SaveFailsStep DEF TurnStep
<1>3. CASE Abandon
  BY <1>3, AbandonStep
<1>4. CASE UNCHANGED turnVars
  BY <1>4, StutterStep
<1> QED  BY <1>1, <1>2, <1>3, <1>4 DEF TurnNext, Finished

LEMMA TurnInvSound == ASSUME TurnInv PROVE TurnSound
<1>1. TurnTypeOK
  <2>1. /\ TurnTypes /\ task \in Loop /\ out \in Stream /\ held \in Stream
    BY DEF TurnInv, TurnTypes
  <2>2. \A o \in Stream :
          /\ {o.stack[i] : i \in DOMAIN o.stack} \subseteq Spans
          /\ {o.calls[i].span : i \in DOMAIN o.calls} \subseteq Spans
          /\ o.open \subseteq Spans
    <3>1. TAKE o \in Stream
    <3>2. o.stack \in Seq(Spans) /\ o.calls \in Seq(CallRecords) /\ o.open \subseteq Spans
      BY DEF Stream
    <3>3. PICK stack \in Seq(Spans), told \in Seq(CallRecords) : stack = o.stack /\ told = o.calls
      BY <3>2
    <3>4. \A i \in DOMAIN stack : stack[i] \in Spans
      OBVIOUS
    <3>5. \A i \in DOMAIN told : told[i].span \in Spans
      <4>1. \A i \in DOMAIN told : told[i] \in CallRecords
        OBVIOUS
      <4> QED  BY <4>1 DEF CallRecords
    <3> QED  BY <3>2, <3>3, <3>4, <3>5
  <2>3. task.state \in {"idle", "running", "answered", "failed"}
    BY <2>1 DEF Loop
  <2> QED  BY <2>1, <2>2, <2>3 DEF TurnTypeOK, TurnTypes, Early, Looking, Busy
<1> QED  BY <1>1 DEF TurnInv, Gated, TurnSound, GateHolds

\* Along every path of a turn, whatever fails and however the task of the tool loop and the
\* turn that drains it interleave: no answer is shown, and no claim stored, past the switches
\* of research/agent.py, no draft past the cap and the no-evidence gate of chat.py, queries
\* overshoot their cap by the last one alone, and a finished turn has recorded what it showed.
THEOREM TurnSoundHolds == TurnSpec => []TurnSound
<1>1. TurnInit => TurnInv
  BY TurnBegins
<1>2. TurnInv /\ [TurnNext]_turnVars => TurnInv'
  BY TurnNextKeeps
<1>3. TurnInv => TurnSound
  BY TurnInvSound
<1> QED  BY <1>1, <1>2, <1>3, PTL DEF TurnSpec
=============================================================================
