----------------------------- MODULE Governance -----------------------------
(***************************************************************************)
(* What is kept of a run (kaos_agents/governance): the JSONL audit log     *)
(* that a hook appends every event to by reading and writing the whole     *)
(* file, the overrides of admins, and snapshots of a TurnInvocation        *)
(* (kaos_agents/core/invocation.py) with its cost and working memory.      *)
(***************************************************************************)
EXTENDS Naturals, Sequences, FiniteSets, SequencesExt

CONSTANTS
  Runs,        \* runs whose hooks write one audit log
  Logged,      \* event kinds the logger includes, of "event" and "noise"
  Authorized,  \* authorized_admins
  Admins,      \* who asks for an override
  Caps,        \* cost caps of a turn
  StartSpends, \* what the budget a turn is constructed with has spent
  Amounts,     \* costs of a call or a child turn
  NoLine,      \* no line to append
  NoSnapshot,  \* nothing captured, or nothing saved
  MaxEvents,   \* bound: events of a run
  MaxOps       \* bound: other operations of a behaviour

ASSUME GovernanceAssumption == Amounts \subseteq Nat /\ NoLine \notin Runs \X Nat

VARIABLES
  log,        \* the file: lines <<run, sequence number>>
  turns,      \* run -> its TurnInvocation: [events, budget, cost, working, output, finished]
  sequence,   \* run -> the next sequence number of its emitter
  appends,    \* run -> the append its hook is doing: [line, read, existing]
  overrides,  \* records of the hook
  snapshot,   \* a StateSnapshot, captured of a run
  stored,     \* the file it was saved to
  expected,   \* history: run -> lines that were to be logged
  charged,    \* history: run -> what was charged to it since it began
  disturbed,  \* history: an append failed, or overlapped another
  ops         \* operations so far, up to MaxOps

govVars == <<log, turns, sequence, appends, overrides, snapshot, stored, expected, charged, disturbed, ops>>

NoAppend == [line |-> NoLine, read |-> FALSE, existing |-> <<>>]

\* TurnInvocation(cost_budget=...): the default of cost_usd, set last, is mirrored into the budget.
NewTurn(cap, spent) ==
  [events |-> <<>>, budget |-> [cap |-> cap, spent |-> 0], cost |-> 0, working |-> 0, output |-> "none",
   finished |-> FALSE]

GovInit ==
  /\ log = <<>> /\ sequence = [r \in Runs |-> 0] /\ appends = [r \in Runs |-> NoAppend]
  /\ \E cap \in Caps, spent \in StartSpends : turns = [r \in Runs |-> NewTurn(cap, spent)]
  /\ overrides = <<>> /\ snapshot = NoSnapshot /\ stored = NoSnapshot
  /\ expected = [r \in Runs |-> <<>>] /\ charged = [r \in Runs |-> 0] /\ disturbed = FALSE /\ ops = 0

-----------------------------------------------------------------------------
\* An event of the run reaches its hooks; the run waits for them.
Emit(r, kind) ==
  LET line == <<r, sequence[r]>> IN
    /\ appends[r] = NoAppend /\ Len(turns[r].events) < MaxEvents /\ ~turns[r].finished
    /\ turns' = [turns EXCEPT ![r].events = Append(@, line)]
    /\ sequence' = [sequence EXCEPT ![r] = @ + 1]
    /\ IF kind \in Logged
       THEN /\ appends' = [appends EXCEPT ![r].line = line]
            /\ expected' = [expected EXCEPT ![r] = Append(@, line)]
       ELSE UNCHANGED <<appends, expected>>
    /\ UNCHANGED <<log, overrides, snapshot, stored, charged, disturbed, ops>>

\* _append_line: whatever fails, the file is taken to be missing.
ReadLog(r) ==
  /\ appends[r].line # NoLine /\ ~appends[r].read
  /\ \E failed \in BOOLEAN :
       /\ appends' = [appends EXCEPT ![r].read = TRUE, ![r].existing = IF failed THEN <<>> ELSE log]
       /\ disturbed' = (disturbed \/ failed \/ \E q \in Runs \ {r} : appends[q].read)
  /\ UNCHANGED <<log, turns, sequence, overrides, snapshot, stored, expected, charged, ops>>

\* Mutant of Appended: the new line is put before what was read.
MutAppended(existing, line) == <<line>> \o existing
Appended(existing, line) == Append(existing, line)

\* The write replaces the file; on_event swallows its failure.
WriteLog(r) ==
  /\ appends[r].read
  /\ \/ log' = Appended(appends[r].existing, appends[r].line) /\ UNCHANGED disturbed
     \/ disturbed' = TRUE /\ UNCHANGED log
  /\ appends' = [appends EXCEPT ![r] = NoAppend]
  /\ UNCHANGED <<turns, sequence, overrides, snapshot, stored, expected, charged, ops>>

-----------------------------------------------------------------------------
Operation == ops < MaxOps /\ ops' = ops + 1

\* OverrideHook.record with the run's emitter: an event nobody is given.
Override(r, admin) ==
  /\ Operation /\ admin \in Authorized
  /\ overrides' = Append(overrides, [by |-> admin, run |-> r, event |-> <<r, sequence[r]>>])
  /\ sequence' = [sequence EXCEPT ![r] = @ + 1]
  /\ UNCHANGED <<log, turns, appends, snapshot, stored, expected, charged, disturbed>>

Rejected(admin) ==
  /\ Operation /\ admin \notin Authorized
  /\ UNCHANGED <<log, turns, sequence, appends, overrides, snapshot, stored, expected, charged, disturbed>>

\* spend and add_child, which replace the budget; the cost mirrors it.
Spend(r, amount) ==
  LET spent == turns[r].budget.spent + amount IN
    /\ Operation
    /\ turns' = [turns EXCEPT ![r].budget.spent = spent, ![r].cost = spent]
    /\ charged' = [charged EXCEPT ![r] = @ + amount]
    /\ UNCHANGED <<log, sequence, appends, overrides, snapshot, stored, expected, disturbed>>

\* A write of cost_usd, which the budget mirrors under the same cap.
WriteCost(r, amount) ==
  /\ Operation
  /\ turns' = [turns EXCEPT ![r].cost = amount, ![r].budget.spent = amount]
  /\ charged' = [charged EXCEPT ![r] = amount]
  /\ UNCHANGED <<log, sequence, appends, overrides, snapshot, stored, expected, disturbed>>

\* WorkingMemory.set, update, increment and clear, on a dict within extras.
Work(r) ==
  /\ Operation /\ turns' = [turns EXCEPT ![r].working = @ + 1]
  /\ UNCHANGED <<log, sequence, appends, overrides, snapshot, stored, expected, charged, disturbed>>

\* finalize, of a run whose events are dispatched; a second one does nothing.
Finalize(r, output) ==
  /\ Operation /\ appends[r] = NoAppend /\ ~turns[r].finished
  /\ turns' = [turns EXCEPT ![r].output = output, ![r].finished = TRUE]
  /\ UNCHANGED <<log, sequence, appends, overrides, snapshot, stored, expected, charged, disturbed>>

\* from_invocation: extras is copied one level deep, so working memory is shared.
Capture(r) ==
  /\ Operation /\ stored' = NoSnapshot
  /\ snapshot' = [run |-> r, events |-> turns[r].events, cost |-> turns[r].cost,
                  spent |-> turns[r].budget.spent, output |-> turns[r].output, working |-> turns[r].working]
  /\ UNCHANGED <<log, turns, sequence, appends, overrides, expected, charged, disturbed>>

\* to_json and save_snapshot: the working memory as it is by now.
Save ==
  /\ Operation /\ snapshot # NoSnapshot
  /\ stored' = [snapshot EXCEPT !.working = turns[snapshot.run].working]
  /\ UNCHANGED <<log, turns, sequence, appends, overrides, snapshot, expected, charged, disturbed>>

GovNext ==
  \/ \E r \in Runs, kind \in {"event", "noise"} : Emit(r, kind)
  \/ \E r \in Runs : ReadLog(r) \/ WriteLog(r) \/ Work(r) \/ Capture(r)
  \/ \E r \in Runs, admin \in Admins : Override(r, admin)
  \/ \E admin \in Admins : Rejected(admin)
  \/ \E r \in Runs, amount \in Amounts : Spend(r, amount) \/ WriteCost(r, amount)
  \/ \E r \in Runs, output \in {"answer", "error"} : Finalize(r, output)
  \/ Save

GovSpec == GovInit /\ [][GovNext]_govVars

-----------------------------------------------------------------------------
\* The log never has a line twice, one the logger was not to keep, or two of a run out of
\* order, however appends overlap and fail; while none does, it has every line that was to
\* be kept (JSONLAuditLogger._append_line).  The cost of a turn and the budget behind it
\* never drift apart and hold what was charged (TurnInvocation.__setattr__); and a saved
\* snapshot is of one moment: a prefix of the events, the output and the cost of then.
GovernanceSound ==
  /\ \A i, j \in DOMAIN log : i < j /\ log[i][1] = log[j][1] => log[i][2] < log[j][2]
  /\ \A i \in DOMAIN log : log[i] \in ToSet(expected[log[i][1]])
  /\ \A r \in Runs :
       /\ ~disturbed => ToSet(expected[r]) \subseteq ToSet(log) \cup {appends[r].line}
       /\ turns[r].cost = turns[r].budget.spent /\ turns[r].cost = charged[r]
  /\ stored # NoSnapshot =>
       LET turn == turns[stored.run] IN
         /\ IsPrefix(stored.events, turn.events) /\ stored.cost = stored.spent
         /\ stored.output # "none" => stored.output = turn.output /\ stored.events = turn.events

\* What JSONLAuditLogger says of its log: lines are only ever added to it.
AppendOnly == [][IsPrefix(log, log')]_govVars

\* What OverrideHook says of an override: it lands in the audit log like the run's events.
OverridesLogged ==
  ~disturbed => \A k \in DOMAIN overrides : overrides[k].event \in ToSet(log) \cup ToSet(expected[overrides[k].run])

\* What StateSnapshot says it is: a moment of the turn, read-only.
SnapshotIsPoint == stored # NoSnapshot => stored.working = snapshot.working

\* What TurnInvocation says of its budget: the source of truth, also of earlier spending.
SpendingCarried == \A r \in Runs : \E spent \in StartSpends \ {0} : turns[r].budget.spent >= spent
=============================================================================
