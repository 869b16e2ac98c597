---------------------------- MODULE MCDelegation ----------------------------
(* A coordinator with a sub-agent it can also hand off to, which can call    *)
(* itself; apart from it, the loops that go around a turn (RefineDeliverable *)
(* over plan turns, Reflexion over routed ones) and what outlives turns      *)
(* (Knowledge).  One part moves, the others stay as they began.              *)
EXTENDS Delegation, RefineDeliverable, Reflexion, Knowledge, TLC

Symmetry == Permutations(Runs)
SubAgents == ("lead" :> {"aide"}) @@ ("aide" :> {"aide"})
Targets == ("lead" :> {"aide"}) @@ ("aide" :> {"lead"})
Caps == ("lead" :> 1) @@ ("aide" :> 3)
OwnLimits == ("lead" :> 3) @@ ("aide" :> 2)
RootPolicy == "write" :> "ask"
DefaultSafe == "write" :> "allow"
HookAnswers == ("breaker" :> ("write" :> "approval")) @@ ("isolation" :> ("write" :> "raise"))

\* Plans that succeed, need another plan or run out of money, with no step, one of each
\* kind, or a step that fails after one that works; the plan may be unreadable.
Step(kind, tool) == [kind |-> kind, tool |-> tool]
MCResults ==
  [stop : {"success", "max_cost", "needs_replan"}, known : BOOLEAN, cost : {1},
   steps : {<<>>, <<Step("ok", TRUE), Step("error", FALSE)>>} \cup
           {<<Step(kind, tool)>> : kind \in {"ok", "error", "empty"}, tool \in BOOLEAN}]

\* Rubrics of two criteria: both weigh, one weighs nothing, both have one id.
Criterion(id, weight) == [id |-> id, weight |-> weight]
MCRubrics ==
  {<<Criterion("a", 2), Criterion("b", 1)>>, <<Criterion("a", 2), Criterion("b", 0)>>,
   <<Criterion("a", 2), Criterion("a", 2)>>}

\* Scores on both sides of their range.
MCRawScores == {-1, 1, 3}

MCCandidates ==
  {[confidence |-> 3, verified |-> FALSE, spans |-> TRUE, score |-> 1],
   [confidence |-> 2, verified |-> TRUE, spans |-> TRUE, score |-> 2],
   [confidence |-> 3, verified |-> FALSE, spans |-> FALSE, score |-> 2],
   [confidence |-> 1, verified |-> TRUE, spans |-> TRUE, score |-> 3]}

VARIABLE part

loopVars == <<planTurnVars, refineVars, reflexionVars>>

MCInit ==
  /\ Init /\ PlanTurnInit /\ RefineInit /\ ReflexionInit /\ KnowledgeInit
  /\ part \in {"delegation", "refine", "reflexion", "base", "lessons"}
  /\ part # "reflexion" => loop.max = 1 /\ loop.default = NoDefault
  /\ part # "base" => bound = NoMatter

MCNext ==
  /\ UNCHANGED part
  /\ \/ part = "delegation" /\ Next /\ UNCHANGED <<loopVars, knowledgeVars>>
     \/ part = "refine" /\ RefineNext /\ UNCHANGED <<vars, reflexionVars, knowledgeVars>>
     \/ part = "reflexion" /\ ReflexionNext
          /\ UNCHANGED <<vars, planTurnVars, refineVars, knowledgeVars>>
     \/ part = "base" /\ BaseNext /\ UNCHANGED <<vars, loopVars>>
     \/ part = "lessons" /\ LessonsNext /\ UNCHANGED <<vars, loopVars>>

MCSpec == MCInit /\ [][MCNext]_<<vars, loopVars, knowledgeVars, part>>
=============================================================================
