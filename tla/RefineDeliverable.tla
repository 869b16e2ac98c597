------------------------- MODULE RefineDeliverable -------------------------
(***************************************************************************)
(* The refinement of a deliverable, of output/refine.py with the rubric    *)
(* critic of output/critic.py, the judge of benchmarks/rubric_judge.py and *)
(* the feedback of output/feedback.py: produce, score every criterion,     *)
(* leave feedback in the REFLECTION section, produce again.  A producer is *)
(* a plan turn of the session (PlanTurn), as the module's docstring has    *)
(* it, or any function that reads the memory the refinement itself holds.  *)
(* Rates are passed weights: all the rates of one rubric have one divisor. *)
(***************************************************************************)
EXTENDS PlanTurn

CONSTANTS
  Rubrics,        \* the rubrics: sequences of [id, weight]
  JudgeCosts,     \* what one verdict of the judge may cost
  MaxIterations,  \* hard cap of the loop
  Patience,       \* how many iterations may gain nothing
  MinGain,        \* the gain over the best rate that counts
  NoRubric        \* no refinement has begun

ASSUME RefineAssumption ==
  /\ \A rubric \in Rubrics :
       rubric \in Seq([id : {rubric[i].id : i \in DOMAIN rubric}, weight : Nat])
  /\ JudgeCosts \subseteq Nat
  /\ MaxIterations \in Nat \ {0} /\ Patience \in Nat /\ MinGain \in Nat

VARIABLES
  refine,    \* the refinement: its loop state
  history,   \* what each iteration saw, and how it scored
  section,   \* the REFLECTION section of the memory object the refinement holds
  verdicts   \* the verdicts on the deliverable being scored

refineVars == <<refine, history, section, verdicts>>

IdleRefine ==
  [phase |-> "idle", rubric |-> NoRubric, own |-> TRUE, best |-> 0, rate |-> 0,
   patience |-> 0, cost |-> 0, stop |-> "none", seen |-> <<>>]

RefineInit ==
  refine = IdleRefine /\ history = <<>> /\ section = <<>> /\ verdicts = <<>>

\* The weights by id: of two criteria with one id the later weight stands.
WeightOf(rubric, id) ==
  rubric[Max({i \in DOMAIN rubric : rubric[i].id = id})].weight

IdsOf(rubric) == {rubric[i].id : i \in DOMAIN rubric}

\* The divisor of the rates of a rubric, and 1 where nothing weighs anything.
TotalWeight(rubric) ==
  LET total == MapThenSumSet(LAMBDA id : WeightOf(rubric, id), IdsOf(rubric)) IN
    IF total = 0 THEN 1 ELSE total

Outcome(i) == verdicts[i].outcome

Judged == {i \in DOMAIN verdicts : Outcome(i) # "waiting"}

\* weighted_pass_rate, times the divisor.
Rate(rubric) ==
  MapThenSumSet(LAMBDA i : WeightOf(rubric, rubric[i].id),
                {i \in DOMAIN verdicts : Outcome(i) = "pass"})

\* n_failed: neither passed nor unavailable.
Failures == {i \in DOMAIN verdicts : Outcome(i) = "fail"}

\* Every criterion passed at the least rate that ends the loop, 1.0.
Perfect(rubric, rate) == rate >= TotalWeight(rubric)

-----------------------------------------------------------------------------
BeginRefine ==
  /\ refine.phase = "idle" /\ pturn.phase = "idle"
  /\ \E rubric \in Rubrics, own \in BOOLEAN :
       refine' = [IdleRefine EXCEPT !.phase = "produce", !.rubric = rubric, !.own = own,
                                    !.rate = -TotalWeight(rubric), !.patience = Patience]
  /\ UNCHANGED <<history, section, verdicts, planTurnVars>>

\* Scoring begins: each criterion waits for its verdict.
Scoring(seen) ==
  /\ refine' = [refine EXCEPT !.phase = "score", !.seen = seen]
  /\ verdicts' = [i \in DOMAIN refine.rubric |-> [outcome |-> "waiting", cost |-> 0]]

\* A producer that reads the memory object of the refinement.
ProducesOwn ==
  /\ refine.phase = "produce" /\ refine.own
  /\ Scoring(LastN(section, PriorCount))
  /\ UNCHANGED <<history, section, planTurnVars>>

\* A producer that runs a turn of the session: its plan is given what the session's
\* file holds, and the deliverable is composed once the turn is over.
ProducesTurn ==
  /\ refine.phase = "produce" /\ ~refine.own
  /\ pturn.phase = "answered" /\ SaveTurn
  /\ Scoring(pturn.prior)
  /\ UNCHANGED <<history, section>>

\* A verdict of the judge. One that cannot be had is a verdict too, and is free.
JudgeCriterion ==
  /\ refine.phase = "score"
  /\ \E i \in DOMAIN verdicts \ Judged :
       \/ \E outcome \in {"pass", "fail"}, cost \in JudgeCosts :
            verdicts' = [verdicts EXCEPT ![i] = [outcome |-> outcome, cost |-> cost]]
       \/ verdicts' = [verdicts EXCEPT ![i] = [outcome |-> "unavailable", cost |-> 0]]
  /\ UNCHANGED <<refine, history, section, planTurnVars>>

\* What the step adds to the best: a better rate is the new best, however little better.
\* Mutant: the best is replaced only by a gain that counts.
MutBetter(rate) == rate > refine.rate + MinGain

Better(rate) == rate > refine.rate

Improved(rate) == rate > refine.rate + MinGain

\* Why the step stops the loop, if it does.
StopOf(rate) ==
  CASE Perfect(refine.rubric, rate) -> "perfect"
    [] ~Perfect(refine.rubric, rate) /\ ~Improved(rate) /\ refine.patience = 0 -> "early_stop"
    [] OTHER -> "none"

\* The same, and the cap of the runner.
EndOf(rate) ==
  CASE StopOf(rate) # "none" -> StopOf(rate)
    [] StopOf(rate) = "none" /\ Len(history) + 1 = MaxIterations -> "completed"
    [] OTHER -> "none"

PatienceAfter(rate) ==
  IF Perfect(refine.rubric, rate) THEN refine.patience
  ELSE IF Improved(rate) THEN Patience
  ELSE IF refine.patience > 0 THEN refine.patience - 1 ELSE 0

\* What the loop knows once the verdicts are in, before the feedback is written.
Scored(rate, stop) ==
  [refine EXCEPT
    !.phase = IF stop = "none" THEN "produce" ELSE "done",
    !.stop = stop,
    !.best = IF Better(rate) THEN Len(history) + 1 ELSE @,
    !.rate = IF Better(rate) THEN rate ELSE @,
    !.patience = PatienceAfter(rate),
    !.cost = @ + MapThenSumSet(LAMBDA i : verdicts[i].cost, DOMAIN verdicts)]

\* The step is over when every criterion has its verdict: the best is kept, patience
\* counted, and feedback left for the next iteration if there is one.  A section that is
\* full forgets its oldest notes for it.
ScoreStep ==
  /\ refine.phase = "score" /\ Judged = DOMAIN verdicts
  /\ LET rate == Rate(refine.rubric)
         stop == EndOf(rate)
         feedback == IF stop = "none" THEN <<"gaps", Len(history) + 1>> ELSE <<>>
     IN
     /\ history' = Append(history, [seen |-> refine.seen, rate |-> rate,
                                    failed |-> Cardinality(Failures), feedback |-> feedback])
     /\ IF stop = "none"
        THEN \E kept \in 0..Len(section) : section' = Append(LastN(section, kept), feedback)
        ELSE UNCHANGED section
     /\ refine' = Scored(rate, stop)
  /\ UNCHANGED <<verdicts, planTurnVars>>

\* The feedback is larger than the whole section: everything in it is forgotten and the
\* write raises.  The best is kept by then, the iteration is not recorded, and the runner
\* ends the loop.
FeedbackRaises ==
  /\ refine.phase = "score" /\ Judged = DOMAIN verdicts
  /\ EndOf(Rate(refine.rubric)) = "none"
  /\ refine' = Scored(Rate(refine.rubric), "error")
  /\ section' = <<>>
  /\ UNCHANGED <<history, verdicts, planTurnVars>>

\* The producer raises, or its turn is abandoned: the loop ends with what it has, or
\* raises when it has nothing.
StepRaises ==
  /\ refine.phase = "produce" /\ pturn.phase = "idle"
  /\ refine' = [refine EXCEPT !.phase = IF refine.best = 0 THEN "raised" ELSE "done",
                              !.stop = "error"]
  /\ UNCHANGED <<history, section, verdicts, planTurnVars>>

\* A plan turn of the session: on its own, or the one the producer runs.
SessionTurn ==
  /\ refine.phase = "idle" \/ (refine.phase = "produce" /\ ~refine.own)
  /\ PlanTurnNext
  /\ UNCHANGED refineVars

RefineNext ==
  \/ BeginRefine \/ ProducesOwn \/ ProducesTurn \/ JudgeCriterion \/ ScoreStep
  \/ FeedbackRaises \/ StepRaises \/ SessionTurn

RefineSpec ==
  RefineInit /\ PlanTurnInit /\ [][RefineNext]_<<refineVars, planTurnVars>>

-----------------------------------------------------------------------------
Rates == [i \in DOMAIN history |-> history[i].rate]

\* The iterations that gained enough over everything before them, and over the rate the
\* loop begins with.
Gains(i) ==
  /\ Rates[i] > MinGain - TotalWeight(refine.rubric)
  /\ \A j \in 1..(i - 1) : Rates[i] > Rates[j] + MinGain

\* Once something was scored the loop keeps the first of the best iterations, whatever
\* later ones score; the best has its record unless writing its feedback ended the loop.
\* It stops early only after more idle iterations in a row than its patience, and it never
\* goes on after a perfect one; and a producer that reads the refinement's memory sees the
\* feedback on the iteration before it, and none for an iteration that ended the loop
\* (refine.py:7-20, 93-116, 208-264).
AttemptsSound ==
  history # <<>> \/ refine.best # 0 =>
    LET n == Len(history) IN
    /\ \/ refine.best \in 1..n /\ refine.rate = Rates[refine.best]
       \/ refine.best = n + 1 /\ refine.stop = "error"
    /\ \A i \in 1..n : Rates[i] <= refine.rate /\ (i < refine.best => Rates[i] < refine.rate)
    /\ \A i \in 1..(n - 1) : ~Perfect(refine.rubric, Rates[i])
    /\ refine.stop = "perfect" => Perfect(refine.rubric, Rates[n])
    /\ refine.stop = "early_stop" => n > Patience /\ \A i \in (n - Patience)..n : ~Gains(i)
    /\ \A i \in 1..n : (history[i].feedback = <<>>) = (i = n /\ refine.stop \notin {"none", "error"})
    /\ refine.own =>
         \A i \in 2..n : history[i].seen # <<>> /\ Last(history[i].seen) = history[i - 1].feedback

\* The refinement keeps its promises around plan turns that keep theirs.
RefineSound == PlanTurnSound /\ AttemptsSound

\* refine.py:18-22, with the producer its docstring shows at 31-38: feedback reaches the
\* producer's next iteration through the REFLECTION section.
FeedbackReaches ==
  \A i \in 2..Len(history) : history[i - 1].feedback \in Range(history[i].seen)

\* refine.py:99-102: the history holds a record of every iteration, the best one's too.
BestHasRecord == refine.best \in 0..Len(history)

\* refine.py:107-110 and 172: "perfect" means that every criterion passed.
PerfectPassedAll == refine.stop = "perfect" => history[Len(history)].failed = 0
=============================================================================
