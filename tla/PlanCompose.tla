----------------------------- MODULE PlanCompose -----------------------------
(***************************************************************************)
(* compose() of kaos_agents/planning/compose.py: the walk over a PlanGraph *)
(* wave by wave, with evaluate, route and the PlanBudget it charges.       *)
(*                                                                         *)
(* A plan is what expand() returns: steps in order, each depending on      *)
(* earlier steps of the list, or on itself when the model numbers two      *)
(* steps alike.  Text is left out: of an output, whether it is an error    *)
(* and says so; of a judgment, what route() makes of it.                   *)
(***************************************************************************)
EXTENDS Integers, FiniteSets, FiniteSetsExt

CONSTANTS
  MaxPlan,      \* the most steps expand() returns (its max_steps)
  MaxSteps,     \* PlanBudget.max_steps
  MaxReplans,   \* PlanBudget.max_replans
  MaxCost,      \* PlanBudget.max_cost_usd; stands for max_tokens too
  StepCosts,    \* what one act may cost
  EmptySure     \* the confidence threshold is at most 0.9, what an empty result is
                \* rejected with

ASSUME PlanComposeAssumption ==
  /\ MaxPlan \in Nat \ {0}
  /\ MaxSteps \in Nat \ {0}
  /\ MaxReplans \in Nat
  /\ MaxCost \in Nat \ {0}
  /\ StepCosts \subseteq Nat /\ StepCosts # {}
  /\ EmptySure \in BOOLEAN

Steps == 1..MaxPlan

Statuses == {"pending", "running", "completed", "failed", "skipped"}

\* What act returns: "error" carries the ERROR: prefix; "mute" is an LLM call that
\* failed and left no text, an error too.
Outputs == {"ok", "error", "mute"}

BudgetReasons == {"max_cost", "max_steps", "max_replans", "max_wall_clock"}
StopReasons == BudgetReasons \cup {"success", "failure", "needs_replan", "pivoted"}

VARIABLES
  n,        \* the plan has steps 1..n
  deps,     \* deps[s]: the predecessors of s
  guarded,  \* the steps that carry abort_if
  pivots,   \* those of them that carry pivot_to
  status,   \* status[s] in the PlanGraph
  output,   \* output[s]: what act returned for s, "none" yet
  fee,      \* fee[s]: what that act cost
  wave,     \* the steps launched together whose results are not processed yet
  phase,    \* where compose is: "idle" (not called), "walk", "act", "process", "done"
  stop,     \* final_stop
  count,    \* replan_count of this compose
  cost,     \* PlanBudget.cost_usd
  steps,    \* PlanBudget.steps_executed
  replans,  \* PlanBudget.replans
  late,     \* max_wall_clock_seconds have passed
  aborted   \* the steps whose abort_if was found to hold

plan == <<n, deps, guarded, pivots>>
budget == <<cost, steps, replans>>
vars == <<plan, status, output, fee, wave, phase, stop, count, budget, late, aborted>>

Plan == 1..n

TypeOK ==
  /\ n \in 0..MaxPlan
  /\ deps \in [Steps -> SUBSET Steps]
  /\ \A s \in Plan : deps[s] \subseteq 1..s
  /\ guarded \subseteq Steps /\ pivots \subseteq guarded
  /\ status \in [Steps -> Statuses]
  /\ output \in [Steps -> {"none"} \cup Outputs]
  /\ fee \in [Steps -> Nat]
  /\ wave \subseteq Plan
  /\ phase \in {"idle", "walk", "act", "process", "done"}
  /\ stop \in StopReasons
  /\ count \in Nat /\ cost \in Nat /\ steps \in Nat /\ replans \in Nat
  /\ late \in BOOLEAN
  /\ aborted \subseteq Plan

\* A graph just built from the steps expand() returned: add_step leaves every step
\* pending.
NewPlan ==
  /\ n' \in 1..MaxPlan
  /\ deps' \in {d \in [Steps -> SUBSET Steps] :
                  \A s \in Steps : d[s] \subseteq IF s <= n' THEN 1..s ELSE {}}
  /\ guarded' \in SUBSET (1..n')
  /\ pivots' \in SUBSET guarded'
  /\ status' = [s \in Steps |-> "pending"]
  /\ output' = [s \in Steps |-> "none"]
  /\ fee' = [s \in Steps |-> 0]
  /\ wave' = {}
  /\ phase' = "walk"
  /\ stop' = "success"
  /\ count' = 0
  /\ aborted' = {}

-----------------------------------------------------------------------------
(* PlanGraph queries.                                                        *)

InStatus(st) == {s \in Plan : status[s] = st}

Results == InStatus("completed")                        \* get_results

IsComplete == \A s \in Plan : status[s] \in {"completed", "skipped"}

\* Mutant of ReadySteps: a step is ready unless a predecessor failed.
MutReadySteps ==
  {s \in Plan : status[s] = "pending" /\ \A d \in deps[s] : status[d] # "failed"}

\* get_ready_steps: pending, and every predecessor is completed.
ReadySteps ==
  {s \in Plan : status[s] = "pending" /\ \A d \in deps[s] : status[d] = "completed"}

Successors(s) == {t \in Plan : s \in deps[t]}

\* descendants(): what the successor edges reach from a set of steps.
Descendants(S) ==
  {t \in Plan : \A C \in SUBSET Plan :
     (\A s \in S \cup C : Successors(s) \subseteq C) => t \in C}

\* _skip_dependents and _skip_remaining: those of S still pending become skipped.
SkipPending(st, S) ==
  [s \in Steps |-> IF s \in S /\ st[s] = "pending" THEN "skipped" ELSE st[s]]

Marked(st, S, new) == [s \in Steps |-> IF s \in S THEN new ELSE st[s]]

-----------------------------------------------------------------------------
(* PlanBudget and route().                                                   *)

\* should_stop(), in the order of its checks.
ShouldStop(c, k, r) ==
  IF c >= MaxCost THEN "max_cost"
  ELSE IF k >= MaxSteps THEN "max_steps"
  ELSE IF r >= MaxReplans THEN "max_replans"
  ELSE IF late THEN "max_wall_clock" ELSE "none"

\* What route makes of evaluate's judgment.  An error is rejected with confidence
\* 1.0, no text with 0.9; the judge accepts or rejects, at or below the threshold.
Verdicts(s) ==
  CASE output[s] = "error" -> {"rejected"}
    [] output[s] = "mute" -> {IF EmptySure THEN "rejected" ELSE "doubted"}
    [] OTHER -> {"accepted", "unsure", "rejected", "doubted"}

\* Mutant of Route: a rejected step ends the walk in FAILURE.
MutRoute(v, limit) ==
  IF limit # "none" THEN "stop_budget"
  ELSE IF v \in {"accepted", "doubted"} THEN "continue" ELSE "stop_failure"

\* route(): the budget first, then the circuit breaker, then the judgment; a
\* rejection below the threshold continues with the partial result.
Route(v, limit) ==
  IF limit # "none" THEN "stop_budget"
  ELSE IF count >= MaxReplans THEN "stop_failure"
  ELSE IF v \in {"accepted", "doubted"} THEN "continue" ELSE "replan"

-----------------------------------------------------------------------------
(* The walk.                                                                 *)

Done(reason) == phase' = "done" /\ stop' = reason

\* is_complete(): the loop ends, and final_stop keeps its SUCCESS.
Complete ==
  /\ phase = "walk"
  /\ IsComplete
  /\ Done("success")
  /\ UNCHANGED <<plan, status, output, fee, wave, count, budget, late, aborted>>

\* Mutant of Stuck: the loop is not left.
MutStuck == phase = "walk" /\ ~IsComplete /\ ReadySteps = {} /\ UNCHANGED vars

\* Nothing is ready and the plan is not complete.
Stuck ==
  /\ phase = "walk"
  /\ ~IsComplete
  /\ ReadySteps = {}
  /\ Done("failure")
  /\ UNCHANGED <<plan, status, output, fee, wave, count, budget, late, aborted>>

\* The sets of ready steps evaluate_condition may find aborted: it is asked only
\* once there are results.
Abortable == IF Results = {} THEN {{}} ELSE SUBSET (ReadySteps \cap guarded)

AfterAborts(F) == SkipPending(Marked(status, F, "skipped"), Descendants(F))

\* One of the aborted steps has a pivot_to: what is pending is skipped, and compose
\* returns PIVOTED.
Pivot(F) ==
  /\ phase = "walk"
  /\ ReadySteps # {}
  /\ F \cap pivots # {}
  /\ status' = SkipPending(AfterAborts(F), Plan)
  /\ aborted' = aborted \cup F
  /\ Done("pivoted")
  /\ UNCHANGED <<plan, output, fee, wave, count, budget, late>>

\* The ready steps that survive their abort_if are started together; with none
\* left the walk goes on.
Launch(F) ==
  /\ phase = "walk"
  /\ ReadySteps # {}
  /\ F \cap pivots = {}
  /\ status' = Marked(AfterAborts(F), ReadySteps \ F, "running")
  /\ aborted' = aborted \cup F
  /\ wave' = ReadySteps \ F
  /\ phase' = IF wave' = {} THEN "walk" ELSE "act"
  /\ UNCHANGED <<plan, output, fee, stop, count, budget, late>>

\* One act of the wave returns, in any order (gather); the sequential executor's
\* order is one of them.  When the last is in, the results are processed.
Act(s) ==
  /\ phase = "act"
  /\ s \in wave
  /\ output[s] = "none"
  /\ \E o \in Outputs : output' = [output EXCEPT ![s] = o]
  /\ \E c \in StepCosts : fee' = [fee EXCEPT ![s] = c]
  /\ phase' = IF \A t \in wave : output'[t] # "none" THEN "process" ELSE "act"
  /\ UNCHANGED <<plan, status, wave, stop, count, budget, late, aborted>>

\* The results of the wave are processed in plan order: judge, mark, charge the
\* budget, route.  A decision other than CONTINUE leaves the loop, and the rest of
\* the wave as it is.  (stop_failure is never decided: the budget's replans are at
\* least count, so the budget stops first.)
Process(s, v) ==
  /\ phase = "process"
  /\ s \in wave /\ \A t \in wave : s <= t
  /\ v \in Verdicts(s)
  /\ LET marked == [status EXCEPT ![s] = IF output[s] = "ok" THEN "completed" ELSE "failed"]
         limit == ShouldStop(cost + fee[s], steps + 1, replans)
         decision == Route(v, limit)
     IN /\ cost' = cost + fee[s]
        /\ steps' = steps + 1
        /\ wave' = wave \ {s}
        /\ \/ /\ decision = "continue"
              /\ status' = marked
              /\ phase' = IF wave' = {} THEN "walk" ELSE "process"
              /\ UNCHANGED <<stop, count, replans>>
           \/ /\ decision \in {"stop_budget", "stop_failure"}
              /\ status' = SkipPending(marked, Plan)
              /\ Done(IF limit # "none" THEN limit ELSE "failure")
              /\ UNCHANGED <<count, replans>>
           \/ /\ decision = "replan"
              /\ status' = SkipPending([marked EXCEPT ![s] = "failed"], Plan)
              /\ count' = count + 1
              /\ replans' = replans + 1
              /\ Done("needs_replan")
  /\ UNCHANGED <<plan, output, fee, late, aborted>>

-----------------------------------------------------------------------------

\* No plan yet, and a PlanBudget nothing has been charged to.
ComposeInit ==
  /\ n = 0
  /\ deps = [s \in Steps |-> {}]
  /\ guarded = {} /\ pivots = {}
  /\ status = [s \in Steps |-> "pending"]
  /\ output = [s \in Steps |-> "none"]
  /\ fee = [s \in Steps |-> 0]
  /\ wave = {}
  /\ phase = "idle"
  /\ stop = "success"
  /\ count = 0 /\ cost = 0 /\ steps = 0 /\ replans = 0
  /\ late = FALSE
  /\ aborted = {}

\* compose() is called with a new graph.
Call == phase = "idle" /\ NewPlan /\ UNCHANGED <<budget, late>>

\* Time passes.
Clock ==
  /\ ~late
  /\ late' = TRUE
  /\ UNCHANGED <<plan, status, output, fee, wave, phase, stop, count, budget, aborted>>

Walk ==
  \/ Complete
  \/ Stuck
  \/ \E F \in Abortable : Pivot(F) \/ Launch(F)
  \/ \E s \in Steps : Act(s)
  \/ \E s \in Steps, v \in {"accepted", "unsure", "rejected", "doubted"} : Process(s, v)

Next == Call \/ Walk \/ Clock

\* Acts return: a tool call is under asyncio.wait_for, an exception is a result.
Spec == ComposeInit /\ [][Next]_vars /\ WF_vars(Walk)

-----------------------------------------------------------------------------

\* compose.py walks the graph in dependency order: a step has run only if every
\* step it depends on is completed, and stays so whatever the rest of its wave does.
DepsRespected ==
  \A s \in Plan : output[s] # "none" => \A d \in deps[s] : status[d] = "completed"

\* A SUCCESS hides nothing: the only steps that did not run are those whose abort_if
\* held and what depends on them.
SuccessMeansAllRan ==
  phase = "done" /\ stop = "success" =>
    \A s \in Plan : status[s] = "completed" \/ s \in aborted \cup Descendants(aborted)

\* PlanBudget.max_steps is never exceeded, however wide the waves are.
StepsWithinLimit == steps <= MaxSteps

\* After a step that failed nothing more is started: the walk is over, as long as
\* the threshold lets an empty result be rejected for certain.
StopsOnError == EmptySure /\ (\E s \in Plan : status[s] = "failed") => phase = "done"


\* The order of a walk: nothing runs before what it depends on is completed, nor is
\* anything started after a failure (compose.py, the loop over the ready steps).
WalkInOrder == DepsRespected /\ StopsOnError

\* The promise of the walk to the code that reads its result: its steps ran in order, and
\* SUCCESS means that they all ran (ComposeResult.success).
WalkSound == WalkInOrder /\ SuccessMeansAllRan

Executed == {s \in Plan : output[s] # "none"}

\* The steps of a wave not processed yet are all a walk may leave out of its budget,
\* and only a decision other than CONTINUE leaves any: a walk that ends in SUCCESS,
\* FAILURE or PIVOTED has charged every step it ran.
ChargedUnlessCut ==
  phase = "done" /\ stop \in {"success", "failure", "pivoted"} =>
    /\ steps = Cardinality(Executed)
    /\ cost = MapThenSumSet(LAMBDA s : fee[s], Executed)
    /\ InStatus("running") = {}

\* What README.md:341 and settings.py say of the per-step budget: all that was run
\* has been charged when the walk ends.  The code leaves the loop over the wave at
\* the first decision other than CONTINUE.
Accounted == phase = "done" => steps = Cardinality(Executed)

\* What compose.py:226-232 says of a tool that succeeded: it "stays COMPLETED" and
\* its result is preserved in step_results, whatever the judge makes of it.  REPLAN
\* marks the rejected step failed, and get_results drops it.
FussyJudgeKept ==
  phase = "done" => \A s \in Plan \ wave : output[s] = "ok" => status[s] = "completed"

=============================================================================
