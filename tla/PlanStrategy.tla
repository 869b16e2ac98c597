---------------------------- MODULE PlanStrategy ----------------------------
(***************************************************************************)
(* The strategies over compose(): execute_adaptive, which tries one direct *)
(* act on a goal it takes for simple, and execute_decompose, which expands *)
(* the goal, composes the plan and, when nothing of it succeeded, expands  *)
(* again.  The walks of all attempts charge one PlanBudget.                *)
(***************************************************************************)
EXTENDS PlanCompose

VARIABLES
  at,        \* where the strategy is: "start", "direct", "expand", "compose", "ended"
  attempt,   \* the plans composed so far
  outcome    \* stop_reason of what is returned, "none" before

strategy == <<at, attempt, outcome>>
svars == <<vars, strategy>>

StrategyTypeOK ==
  /\ at \in {"start", "direct", "expand", "compose", "ended"}
  /\ attempt \in 0..MaxReplans + 1
  /\ outcome \in {"none"} \cup StopReasons
  /\ (outcome = "none") <=> (at # "ended")

StrategyInit == ComposeInit /\ at = "start" /\ attempt = 0 /\ outcome = "none"

Ended(reason) == at' = "ended" /\ outcome' = reason

\* _assess_complexity scores the goal's text: direct, or decompose at once.
Assess ==
  /\ at = "start"
  /\ at' \in {"direct", "expand"}
  /\ UNCHANGED <<vars, attempt, outcome>>

\* execute_adaptive falls back to decompose while the budget allows.
FallBack(c, k) ==
  IF ShouldStop(c, k, replans) = "none"
  THEN at' = "expand" /\ UNCHANGED outcome
  ELSE Ended("failure")

\* execute_direct: one expansion of one step, one act, charged, judged by its
\* structure only.
DirectAct ==
  /\ at = "direct"
  /\ \E c \in StepCosts :
       /\ cost' = cost + c
       /\ steps' = steps + 1
       /\ \/ Ended("success")
          \/ FallBack(cost + c, steps + 1)
  /\ UNCHANGED <<plan, status, output, fee, wave, phase, stop, count, replans, late, aborted, attempt>>

\* execute_direct's expansion gave no step.
DirectNoStep ==
  /\ at = "direct"
  /\ FallBack(cost, steps)
  /\ UNCHANGED <<vars, attempt>>

\* One attempt: expand, build the graph, call compose with the shared budget.
Expand ==
  /\ at = "expand"
  /\ NewPlan
  /\ at' = "compose"
  /\ attempt' = attempt + 1
  /\ UNCHANGED <<budget, late, outcome>>

\* The expansion gave no step.
ExpandNoStep ==
  /\ at = "expand"
  /\ Ended("failure")
  /\ UNCHANGED <<vars, attempt>>

ComposeStep == at = "compose" /\ Walk /\ UNCHANGED strategy

\* Mutant of MayRetry: the loop is not taken again.
MutNeverRetry == FALSE

\* Nothing of this attempt has succeeded and replans are left.
MayRetry == Results = {} /\ replans < MaxReplans

\* The loop of execute_decompose is left.
Return ==
  /\ at = "compose" /\ phase = "done"
  /\ stop # "needs_replan" \/ ~MayRetry
  /\ Ended(IF stop = "needs_replan" /\ replans >= MaxReplans THEN "max_replans" ELSE stop)
  /\ UNCHANGED <<vars, attempt>>

\* The next iteration of its range(max_replans + 1), with the failures of this one.
Retry ==
  /\ at = "compose" /\ phase = "done"
  /\ stop = "needs_replan" /\ MayRetry
  /\ at' = "expand"
  /\ UNCHANGED <<vars, attempt, outcome>>

StrategyStep ==
  \/ Assess \/ DirectAct \/ DirectNoStep
  \/ Expand \/ ExpandNoStep \/ ComposeStep \/ Return \/ Retry

StrategyNext == StrategyStep \/ (Clock /\ UNCHANGED strategy)

\* Every call returns: the expansions and acts are awaited, tools under a timeout.
StrategySpec == StrategyInit /\ [][StrategyNext]_svars /\ WF_svars(StrategyStep)

-----------------------------------------------------------------------------

\* NEEDS_REPLAN reaches the caller only with partial results for it to synthesise
\* (decompose.py:101-106): a plan of which nothing succeeded is tried again or ends
\* as MAX_REPLANS.
NeedsReplanHasResults == outcome = "needs_replan" => Results # {}

\* The walks of all the attempts and the direct act together stay within max_steps.
AttemptsShareBudget == steps <= MaxSteps /\ replans <= MaxReplans

\* Re-expansion costs replans: an attempt after the first follows a recorded replan,
\* and there are never more attempts than replans were recorded, plus the one under way.
AttemptsBounded == attempt <= replans + 1 /\ (at = "expand" => attempt = replans)


\* The direct attempt, its fall-back and all re-expansions draw on one budget, of steps
\* and of replans, and there are no more of them than it allows (decompose.py, adaptive.py).
AttemptsWithinBudget == AttemptsShareBudget /\ AttemptsBounded

\* However the attempts go, they share one budget, and the reason the caller gets for the
\* last of them is a true one.
StrategySound == NeedsReplanHasResults /\ AttemptsWithinBudget

\* The strategy returns, whatever is expanded, however the acts and judgments go.
EndsEventually == at # "start" ~> at = "ended"

\* What decompose.py:119-124 promises the caller of MAX_REPLANS: that replanning was
\* tried.
MaxReplansTried == outcome = "max_replans" => attempt > 1

\* What compose.py:159-160 says of PIVOTED: the strategy re-expands on the pivot goal.
\* execute_decompose returns instead.
PivotReexpands == outcome # "pivoted"

\* What decompose.py:101-106 says of a round with a successful tool result: it is
\* terminal.  A success that was not processed, its wave having been cut, is thrown
\* away with the plan, and its step expanded and run again.
KeepsPartialWork ==
  [][at = "compose" /\ at' = "expand" => \A s \in wave : output[s] # "ok"]_svars

=============================================================================
