--------------------------- MODULE CircuitBreaker ---------------------------
(***************************************************************************)
(* The CircuitBreaker hook of kaos_agents/action/circuit.py, for one tool: *)
(* its state is kept per tool name and tools do not touch each other's.    *)
(*                                                                         *)
(* The breaker belongs to a Runner, and the calls of a turn run in         *)
(* parallel, as do the turns of several sessions: a call admitted in one   *)
(* state may report in another.  A call reports through the COMPLETE phase *)
(* of its span only (hooks/dispatch.py): the ERROR span of a timeout and a *)
(* cancelled turn never reach it.                                          *)
(***************************************************************************)
EXTENDS Integers, FiniteSets

CONSTANTS
  Calls,      \* calls of the tool, each a slot that may be used again
  Threshold,  \* failure_threshold
  MaxCount,   \* bound of the model on consecutive_failures
  Enforced    \* TRUE: a refused call is not made (the Actor, which asks allow() itself);
              \* FALSE: it is made all the same and reports (the Runner, for which SKIP
              \* drops an event of a tool that was already dispatched)

ASSUME CircuitBreakerAssumption ==
  /\ Threshold \in Nat \ {0}
  /\ MaxCount \in Nat /\ Threshold <= MaxCount
  /\ Enforced \in BOOLEAN

VARIABLES
  state,     \* CircuitState
  failures,  \* consecutive_failures
  due,       \* reset_timeout_seconds have passed since opened_at
  probe,     \* probe_in_flight
  call,      \* call[c]: "idle", "running", "probing" (admitted as a probe), "refused"
  lost       \* whether a probe ever ended without a report

vars == <<state, failures, due, probe, call, lost>>

TypeOK ==
  /\ state \in {"closed", "open", "half_open"}
  /\ failures \in 0..MaxCount
  /\ due \in BOOLEAN /\ probe \in BOOLEAN
  /\ call \in [Calls -> {"idle", "running", "probing", "refused"}]
  /\ lost \in BOOLEAN

Init ==
  /\ state = "closed" /\ failures = 0
  /\ due = FALSE /\ probe = FALSE
  /\ call = [c \in Calls |-> "idle"]
  /\ lost = FALSE

\* Time passes.
TimeOut ==
  /\ state = "open" /\ ~due
  /\ due' = TRUE
  /\ UNCHANGED <<state, failures, probe, call, lost>>

\* state_for(): an OPEN circuit whose timeout has passed is HALF_OPEN, with no probe.
Probing == state = "half_open" \/ (state = "open" /\ due)
ProbeTaken == state = "half_open" /\ probe

\* allow(), on the START span of call c.
AllowClosed(c) ==
  /\ call[c] = "idle" /\ state = "closed"
  /\ call' = [call EXCEPT ![c] = "running"]
  /\ UNCHANGED <<state, failures, due, probe, lost>>

AllowProbe(c) ==
  /\ call[c] = "idle" /\ Probing /\ ~ProbeTaken
  /\ state' = "half_open" /\ probe' = TRUE
  /\ call' = [call EXCEPT ![c] = "probing"]
  /\ UNCHANGED <<failures, due, lost>>

Refuse(c) ==
  /\ call[c] = "idle"
  /\ (state = "open" /\ ~due) \/ ProbeTaken
  /\ call' = [call EXCEPT ![c] = IF Enforced THEN "idle" ELSE "refused"]
  /\ UNCHANGED <<state, failures, due, probe, lost>>

\* record_success(): whatever the state, and whichever call reports.
RecordSuccess == state' = "closed" /\ failures' = 0 /\ probe' = FALSE /\ UNCHANGED due

\* Mutant of RecordFailure: the flag of the probe is not cleared.
MutRecordFailure ==
  /\ failures' = failures + 1
  /\ IF state = "half_open" \/ failures' >= Threshold
     THEN state' = "open" /\ due' = FALSE /\ UNCHANGED probe
     ELSE UNCHANGED <<state, due, probe>>

\* Mutant of RecordFailure: the threshold must be exceeded.
MutTripsLate ==
  /\ failures' = failures + 1
  /\ IF state = "half_open" \/ failures' > Threshold
     THEN state' = "open" /\ due' = FALSE /\ probe' = FALSE
     ELSE UNCHANGED <<state, due, probe>>

\* record_failure(): a failure in HALF_OPEN re-opens at once; a failure that reports
\* while OPEN restarts the timeout.
RecordFailure ==
  /\ failures' = failures + 1
  /\ IF state = "half_open" \/ failures' >= Threshold
     THEN state' = "open" /\ due' = FALSE /\ probe' = FALSE
     ELSE UNCHANGED <<state, due, probe>>

\* on_tool_call_result: the COMPLETE span of c, an error or an uninformative result
\* being a failure.
Succeed(c) ==
  /\ call[c] # "idle"
  /\ RecordSuccess
  /\ call' = [call EXCEPT ![c] = "idle"]
  /\ UNCHANGED lost

Fail(c) ==
  /\ call[c] # "idle"
  /\ failures < MaxCount
  /\ RecordFailure
  /\ call' = [call EXCEPT ![c] = "idle"]
  /\ UNCHANGED lost

\* c times out, or the turn it belongs to is cancelled or paused: no COMPLETE span.
Lose(c) ==
  /\ call[c] # "idle"
  /\ call' = [call EXCEPT ![c] = "idle"]
  /\ lost' = (lost \/ call[c] = "probing")
  /\ UNCHANGED <<state, failures, due, probe>>

Report(c) == Succeed(c) \/ Fail(c) \/ Lose(c)

Next ==
  \/ TimeOut
  \/ \E c \in Calls : AllowClosed(c) \/ AllowProbe(c) \/ Refuse(c) \/ Report(c)

\* Calls end: tools run under a timeout.
Spec == Init /\ [][Next]_vars /\ \A c \in Calls : WF_vars(Report(c))

-----------------------------------------------------------------------------

\* The circuit admits calls freely exactly while fewer than Threshold failures have
\* come in a row, however the reports of parallel calls interleave.
TrippedIffFailures == state = "closed" <=> failures < Threshold

\* The one-probe flag is up only in HALF_OPEN: a circuit that re-opened or closed
\* under a running probe does not refuse the next probe because of it.
ProbeOnlyHalfOpen == probe => state = "half_open"

\* What circuit.py:94-95 says of the flag: while it is up a probe is in flight.
FlagMeansProbe == probe => \E c \in Calls : call[c] = "probing"

\* That is so as long as no probe got lost, also under reports of older calls, which
\* may clear the flag of a running probe and let a second one be admitted.
ProbeInFlight == ~lost => FlagMeansProbe


\* The flag that refuses calls is up in HALF_OPEN only, and only for a probe under way
\* unless one got lost (circuit.py, record_success, record_failure, allow).
ProbeSound == ProbeOnlyHalfOpen /\ ProbeInFlight

\* The circuit opens exactly for failures in a row, and what it then lets through one at a
\* time is a probe, under reports of parallel and older calls in any order.
BreakerSound == TrippedIffFailures /\ ProbeSound

\* As long as no probe gets lost the flag is taken back: the circuit does not refuse
\* for ever.
ProbeResolved == [](~lost) => (probe ~> ~probe)

\* What circuit.py:12-14 says of HALF_OPEN: one probe, and none until it completes.
OneProbe == state = "half_open" => Cardinality({c \in Calls : call[c] = "probing"}) <= 1

\* What circuit.py:9 and 105-107 say: it is a successful probe that closes the circuit.
ProbeCloses ==
  [][state # "closed" /\ state' = "closed" =>
       \E c \in Calls : call[c] = "probing" /\ call'[c] = "idle"]_vars

=============================================================================
