------------------------------ MODULE Findings ------------------------------
(***************************************************************************)
(* FindingsAgent.run (patterns/findings.py): enumerate the sentences of a  *)
(* view, filter them by chunks in concurrent waves, once or several times,  *)
(* under a spending cap, and synthesise an answer from the best of what     *)
(* survives, or refuse and say why.  Its two callers: the MCP tool          *)
(* (tools/findings.py), which may expand the question first and deducts     *)
(* that from the cap; and BaseAgent._run_findings_dispatch, which may       *)
(* narrow a large corpus and widens it again when nothing is found.         *)
(*                                                                         *)
(* A sentence is its finding_id.  A call answers, or raises, in any order;  *)
(* what it costs is known when it answers.  Token counts go the way of the  *)
(* costs; warnings, the injection flags and the texts are left out.         *)
(***************************************************************************)
EXTENDS Integers, Sequences, FiniteSets, FiniteSetsExt

CONSTANTS
  Corpora,        \* what the selector may enumerate: sequences of finding_ids
  Ids,            \* every finding_id, one no document has among them
  Caps,           \* max_cost_usd of a call of the tool; 0 is None
  ChunkSize, NumParallel, Runs, Threshold, Estimate, MaxCandidates, MaxChunks,
  ScanBudget, UnitCost,  \* what the dispatch compares to decide on a full scan
  Scores,         \* relevances, 0 is below all
  Keeps,          \* sets of the ids a narrowing may keep
  Answers,        \* what a filter call may say: sets of pairs of an id and a score
  FilterCosts, SynthesisCosts, PlanningCosts  \* what a call may cost

ASSUME NumbersAssumption ==
  /\ {ChunkSize, NumParallel, Runs, Threshold, MaxCandidates, MaxChunks} \subseteq Nat \ {0}
  /\ {Estimate, ScanBudget, UnitCost} \subseteq Nat
  /\ FilterCosts # {} /\ SynthesisCosts # {} /\ IsFiniteSet(FilterCosts \cup SynthesisCosts \cup Scores)
  /\ FilterCosts \cup SynthesisCosts \cup PlanningCosts \cup Scores \cup Caps \subseteq Nat
ASSUME DataAssumption ==
  /\ \A c \in Corpora : c \in Seq(Ids)
  /\ \A a \in Answers : a \subseteq Ids \X Scores
  /\ Keeps \subseteq SUBSET Ids

Reasons == {"none", "no_candidates_enumerated", "no_relevant_candidates", "budget_exceeded",
            "too_many_candidates", "too_many_chunks"}

VARIABLES
  stage,       \* plan, enumerate, wave, gather, synthesize, done
  caller,      \* tool or dispatch
  cap,         \* what the tool's caller set, 0 for None
  corpus,      \* the sentences of the whole view
  view,        \* those of the view this run is given
  before,      \* cost of the calls before this run: the expansion or the planner
  scope,       \* narrowed, wider for the run after it, or whole
  first,       \* result of the run on the narrowed view: reason, cost and calls
  next,        \* idx: the work units of this run dispatched so far
  flight,      \* units whose call has not answered
  answers,     \* what the calls of the wave under way answered
  best,        \* survivors_by_id
  filterCost, calls, synthesisCost,
  exceeded,    \* budget_exceeded
  refusal,     \* reason of the FindingsRefusal
  answered,    \* did the synthesis answer
  failed,      \* did the caller see an exception: none, lost, kept
  paid,        \* history: cost of all calls that answered
  heard        \* history: what the calls counted in this run said, by work unit

results == <<filterCost, calls, synthesisCost, exceeded, refusal, answered>>
input == <<caller, cap, corpus>>
findingsVars == <<stage, input, view, before, scope, first, next, flight, answers, best, results, failed, paid, heard>>

NoRun == [refusal |-> "none", cost |-> 0, calls |-> 0]
NoScore == -1
Unheard == [id \in Ids |-> NoScore]

-----------------------------------------------------------------------------
(* Work units *)

ChunksOf(n) == (n + ChunkSize - 1) \div ChunkSize
\* Run by run, and in each run chunk by chunk.
Units(v) == Runs * ChunksOf(Len(v))
Chunk(u) ==
  LET c == u % ChunksOf(Len(view))
  IN {view[i] : i \in (c * ChunkSize + 1)..Min({(c + 1) * ChunkSize, Len(view)})}

\* _filter_chunk keeps what an answer says of the chunk's own sentences, at or above the threshold.
Survivors(u, answer) == {p \in answer : p[1] \in Chunk(u) /\ p[2] >= Threshold}

\* The higher relevance of an id stays.
MutUnion(old, pairs) == [id \in Ids |-> Max({old[id]} \cup {p[2] : p \in {q \in pairs : q[1] = id /\ old[id] = NoScore}})]
Union(old, pairs) == [id \in Ids |-> Max({old[id]} \cup {p[2] : p \in {q \in pairs : q[1] = id}})]
Found(b) == {id \in Ids : b[id] # NoScore}

\* The cap the agent is given; 0 is None.
AgentCap == IF cap = 0 THEN 0 ELSE cap - before
Capped == cap # 0

-----------------------------------------------------------------------------
(* Callers *)

\* The agent starts on a view.
Begin(v) ==
  /\ view' = v /\ stage' = "enumerate"
  /\ next' = 0 /\ flight' = {} /\ answers' = {} /\ best' = Unheard /\ heard' = {}
  /\ filterCost' = 0 /\ calls' = 0 /\ synthesisCost' = 0
  /\ exceeded' = FALSE /\ refusal' = "none" /\ answered' = FALSE

\* AgentFindingsTool.execute, up to the agent: a semantic selector costs a call first, which
\* may raise or leave nothing of the cap; the document may not load.
Tool ==
  /\ caller = "tool" /\ stage = "plan"
  /\ \/ \E c \in PlanningCosts \cup {0} :
          /\ before' = c /\ paid' = paid + c
          /\ \/ /\ Capped /\ c >= cap
                /\ stage' = "done" /\ exceeded' = TRUE /\ refusal' = "budget_exceeded"
                /\ UNCHANGED <<view, next, flight, answers, best, heard, filterCost, calls,
                               synthesisCost, answered, failed>>
             \/ ~(Capped /\ c >= cap) /\ Begin(corpus) /\ UNCHANGED failed
             \/ /\ stage' = "done" /\ failed' = "lost"
                /\ UNCHANGED <<view, next, flight, answers, best, heard, results>>
     \/ /\ stage' = "done" /\ failed' = "lost"
        /\ UNCHANGED <<view, next, flight, answers, best, heard, results, before, paid>>
  /\ UNCHANGED <<input, scope, first>>

\* _decide_full_scan: a full scan that fits its budget.
FitsScan == corpus # <<>> /\ ChunksOf(Len(corpus)) * UnitCost <= ScanBudget
\* The sentences of S, in the order of the corpus.
Narrowed(S) ==
  LET places == {i \in DOMAIN corpus : corpus[i] \in S}
      place(i) == 1 + Cardinality({j \in places : j < i})
  IN [k \in 1..Cardinality(places) |-> corpus[CHOOSE i \in places : place(i) = k]]
Narrowings == {Narrowed(S) : S \in Keeps} \ {<<>>}

\* _run_findings_dispatch, up to the agent: the planner is asked for a narrowing unless the
\* corpus is scanned in full (it fits, or is of few documents).  A planner that raises, and a
\* plan that selects nothing, scan it too.
Dispatch ==
  /\ caller = "dispatch" /\ stage = "plan"
  /\ \/ Begin(corpus) /\ UNCHANGED <<before, paid, scope>>
     \/ /\ ~FitsScan
        /\ \E c \in PlanningCosts :
             /\ before' = c /\ paid' = paid + c
             /\ \/ Begin(corpus) /\ UNCHANGED scope
                \/ \E v \in Narrowings : Begin(v) /\ scope' = "narrowed"
  /\ UNCHANGED <<input, first, failed>>

\* A run returned.  The dispatch runs again on the whole corpus when the run on a narrowed
\* view refused for another reason than the budget (_findings_recall_miss).
RecallMiss(reason, cut) == reason # "none" /\ ~cut
MutWidens(reason, cut) == scope # "whole" /\ RecallMiss(reason, cut)
Widens(reason, cut) == scope = "narrowed" /\ RecallMiss(reason, cut)
EndRun(reason, cut) ==
  IF Widens(reason, cut)
  THEN /\ Begin(corpus) /\ scope' = "wider"
       /\ first' = [refusal |-> reason, cost |-> filterCost, calls |-> calls]
  ELSE /\ stage' = "done" /\ refusal' = reason /\ exceeded' = cut
       /\ UNCHANGED <<view, scope, first, next, flight, answers, best, heard, filterCost, calls,
                      synthesisCost, answered>>

\* A call raised out of the run: the tool reports an error, the dispatch answers without the
\* findings; when it was the wider run, it keeps the result of the narrowed one.
Fail ==
  /\ stage' = "done"
  /\ IF scope = "wider"
     THEN /\ failed' = "kept" /\ refusal' = first.refusal /\ exceeded' = FALSE
          /\ filterCost' = first.cost /\ calls' = first.calls
          /\ best' = Unheard /\ heard' = {}
     ELSE failed' = "lost" /\ UNCHANGED <<refusal, exceeded, filterCost, calls, best, heard>>
  /\ answers' = {}
  /\ UNCHANGED <<input, view, before, scope, first, next, synthesisCost, answered>>

-----------------------------------------------------------------------------
(* FindingsAgent.run *)

\* Phase 1 and the ceilings before any call.
Enumerate ==
  /\ stage = "enumerate"
  /\ LET n == Len(view)
         why == IF n > MaxCandidates THEN "too_many_candidates"
                ELSE IF n = 0 THEN "no_candidates_enumerated"
                ELSE IF Units(view) > MaxChunks THEN "too_many_chunks" ELSE "none"
     IN IF why = "none"
        THEN /\ stage' = "wave"
             /\ UNCHANGED <<view, scope, first, next, flight, answers, best, heard, results>>
        ELSE EndRun(why, FALSE)
  /\ UNCHANGED <<input, before, failed, paid>>

\* The next wave, unless the cap has been reached.
OverCap == Capped /\ filterCost >= AgentCap
WaveEnd == Min({next + NumParallel, Units(view)})
Wave ==
  /\ stage = "wave" /\ next < Units(view) /\ ~OverCap
  /\ flight' = next..(WaveEnd - 1) /\ next' = WaveEnd
  /\ stage' = "gather"
  /\ UNCHANGED <<input, view, before, scope, first, answers, best, results, failed, paid, heard>>

\* A call answers, in any order; also, to nobody, when the run has raised: gather cancels nothing.
Answer(u) ==
  /\ u \in flight
  /\ flight' = flight \ {u}
  /\ \E said \in Answers, c \in FilterCosts :
       /\ answers' = IF stage = "gather" THEN answers \cup {<<u, said, c>>} ELSE {}
       /\ paid' = paid + c
  /\ UNCHANGED <<stage, input, view, before, scope, first, next, best, results, failed, heard>>

\* A call raises: gather raises, and the run with it.
Raise(u) ==
  /\ stage = "gather" /\ u \in flight
  /\ flight' = flight \ {u}
  /\ Fail
  /\ UNCHANGED paid

\* Every call of the wave has answered.
Collect ==
  /\ stage = "gather" /\ flight = {}
  /\ LET kept == UNION {Survivors(a[1], a[2]) : a \in answers}
     IN best' = Union(best, kept)
  /\ heard' = heard \cup {<<a[1], a[2]>> : a \in answers}
  /\ filterCost' = filterCost + MapThenSumSet(LAMBDA a : a[3], answers)
  /\ calls' = calls + Cardinality(answers)
  /\ answers' = {}
  /\ stage' = "wave"
  /\ UNCHANGED <<input, view, before, scope, first, next, flight, synthesisCost, exceeded, refusal,
                 answered, failed, paid>>

\* The filter is over: refuse, skip the synthesis for want of budget, or synthesise.
NoHeadroom == Capped /\ filterCost + Estimate > AgentCap
Filtered ==
  /\ stage = "wave" /\ (next = Units(view) \/ OverCap)
  /\ LET cut == next < Units(view)
     IN IF Found(best) = {}
        THEN EndRun(IF cut THEN "budget_exceeded" ELSE "no_relevant_candidates", cut)
        ELSE IF NoHeadroom
        THEN EndRun("budget_exceeded", TRUE)
        ELSE /\ stage' = "synthesize" /\ exceeded' = cut
             /\ UNCHANGED <<view, scope, first, next, flight, answers, best, heard, filterCost,
                            calls, synthesisCost, refusal, answered>>
  /\ UNCHANGED <<input, before, failed, paid>>

SynthesizeAnswer ==
  /\ stage = "synthesize"
  /\ \/ /\ \E c \in SynthesisCosts : synthesisCost' = c /\ paid' = paid + c
        /\ answered' = TRUE /\ stage' = "done"
        /\ UNCHANGED <<input, view, before, scope, first, next, answers, best, filterCost, calls, exceeded,
                       refusal, failed, heard>>
     \/ Fail /\ UNCHANGED paid
  /\ UNCHANGED flight

-----------------------------------------------------------------------------
FindingsInit ==
  /\ stage = "plan" /\ corpus \in Corpora /\ view = corpus
  /\ \/ caller = "tool" /\ cap \in Caps
     \/ caller = "dispatch" /\ cap = 0
  /\ before = 0 /\ scope = "whole" /\ first = NoRun /\ next = 0 /\ flight = {} /\ answers = {}
  /\ best = Unheard /\ filterCost = 0 /\ calls = 0 /\ synthesisCost = 0
  /\ exceeded = FALSE /\ refusal = "none" /\ answered = FALSE
  /\ failed = "none" /\ paid = 0 /\ heard = {}

Calls == \E u \in flight : Answer(u) \/ Raise(u)
Step == Tool \/ Dispatch \/ Enumerate \/ Wave \/ Collect \/ Filtered \/ SynthesizeAnswer
Finished == stage = "done" /\ flight = {} /\ UNCHANGED findingsVars
FindingsNext == Step \/ (\E u \in flight : Answer(u)) \/ (\E u \in flight : Raise(u)) \/ Finished

\* A call of a provider ends, with an answer or an exception; the code runs on.
FindingsSpec == FindingsInit /\ [][FindingsNext]_findingsVars /\ WF_findingsVars(Step) /\ WF_findingsVars(Calls)

-----------------------------------------------------------------------------
FindingsTypeOK ==
  /\ stage \in {"plan", "enumerate", "wave", "gather", "synthesize", "done"}
  /\ caller \in {"tool", "dispatch"} /\ cap \in Caps \cup {0} /\ corpus \in Corpora
  /\ scope \in {"whole", "narrowed", "wider"} /\ first.refusal \in Reasons
  /\ next \in 0..Units(view) /\ flight \subseteq 0..(next - 1)
  /\ best \in [Ids -> Scores \cup {NoScore}]
  /\ {before, paid, filterCost, synthesisCost} \subseteq Nat /\ calls \in 0..Max({next, first.calls})
  /\ {exceeded, answered} \subseteq BOOLEAN
  /\ refusal \in Reasons /\ failed \in {"none", "lost", "kept"}

\* Between waves, whatever the order of the answers and whichever run they are of, a sentence is a finding with
\* the best relevance any call gave it, and only if a call that was shown the sentence gave it one
\* that reaches the threshold (the union of run, and the id check of _filter_chunk).
BestOfRuns ==
  LET Given(id) == {h \in heard : id \in Chunk(h[1])}
      Marks(id) == {p[2] : p \in {q \in UNION {h[2] : h \in Given(id)} : q[1] = id}}
  IN stage # "gather" => \A id \in Ids : best[id] = Max({NoScore} \cup {s \in Marks(id) : s >= Threshold})

\* A run that returns a result reports all that its caller spent, and has no call left under way.
\* With a cap, all spending together, the expansion of the question included, passes it by less
\* than a wave of filter calls, or by what the synthesis costs above its estimate (the cap checks
\* of run and the deduction of the tool).
Reported == before + first.cost + filterCost + synthesisCost
SpendKept ==
  /\ stage = "done" /\ failed = "none" => paid = Reported /\ flight = {}
  /\ Capped => paid <= Max({before, cap - 1 + NumParallel * Max(FilterCosts),
                            cap - Estimate + Max(SynthesisCosts)})

\* The reason of a refusal is true: "no_relevant_candidates" means every sentence of the view was
\* shown to a call in each run and none reached the threshold, a ceiling means no filter call was
\* made, "budget_exceeded" that work was left undone for the cap; there is an answer exactly when
\* there is no refusal; and a dispatch refuses for want of recall only over the whole corpus.
RefusalHonest ==
  stage = "done" /\ failed = "none" =>
    /\ refusal = "no_relevant_candidates" =>
         /\ {h[1] : h \in heard} = 0..(Units(view) - 1) /\ view # <<>>
         /\ \A h \in heard : \A p \in h[2] : p[1] \in Chunk(h[1]) => p[2] < Threshold
    /\ refusal = "no_candidates_enumerated" => view = <<>>
    /\ refusal \in {"too_many_candidates", "too_many_chunks"} => paid = before + first.cost
    /\ refusal = "budget_exceeded" => exceeded /\ Capped /\ paid + Estimate >= cap
    /\ answered <=> refusal = "none"
    /\ caller = "dispatch" /\ refusal # "none" => view = corpus

\* The findings are the union of the runs, and a refusal says why there are none.
UnionSound == FindingsTypeOK /\ BestOfRuns /\ RefusalHonest

\* A run keeps every score its calls gave, every cost they had and the true reason it ended
\* for, in whatever order they return, raise, or hit the cap (patterns/findings.py, run).
FindingsSound == UnionSound /\ SpendKept

\* Once asked, it returns, and no call outlives it for ever.
Returns == <>(stage = "done" /\ flight = {})

-----------------------------------------------------------------------------
(* What the code says of itself and does not hold; README, "Further disagreements". *)

\* "Worst-case overshoot is one filter wave" (tools/findings.py, max_cost_usd): the synthesis may
\* cost more than its estimate.
OvershootIsOneWave == Capped => paid <= Max({before, cap - 1 + NumParallel * Max(FilterCosts)})

\* The usage of a dispatch is what it spent: when the wider run raises, the cost of the narrowed
\* one is counted twice and that of the wider one not at all (runtime/agent.py, total_cost).
UsageIsSpending == stage = "done" /\ flight = {} /\ failed = "kept" => Reported = paid
=============================================================================
