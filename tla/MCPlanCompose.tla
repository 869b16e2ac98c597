--------------------------- MODULE MCPlanCompose ---------------------------
(* PlanCompose on every plan of up to MaxPlan steps; apart from it, two      *)
(* calls of the MCP tools that run agents and work on memories; and          *)
(* retrievals in rounds.  One part moves, the others stay as they began.     *)
EXTENDS PlanCompose, AgentTools, AdaptiveRetrieve

\* Acts that cost nothing (a local tool) and acts that cost a third of the budget.
FewCosts == {0, 1}

CONSTANTS t1, t2

\* Two calls that differ only in what they turn out to ask for.
MCToolCalls == {t1, t2}
Symmetry == Permutations(MCToolCalls)

\* Artifacts of two sessions: one to inline, one to cut, one too big.
Makers == ("a" :> "s") @@ ("m" :> "s") @@ ("h" :> "t")
Sizes == ("a" :> 2) @@ ("m" :> 4) @@ ("h" :> 5)

Req(tool, asked, ctx, refs, cap) == [tool |-> tool, asked |-> asked, ctx |-> ctx, refs |-> refs, cap |-> cap]

MCRequests ==
  {Req("chat", "s", "s", <<"m", "a">>, NoCap), Req("chat", "s", "t", <<"a", "h">>, 1),
   Req("chat", Nobody, "t", <<"h">>, 1), Req("chat", "s", Nobody, <<"a">>, NoCap),
   Req("plan", "s", "t", <<>>, 1), Req("query", "s", "t", <<>>, NoCap),
   Req("query", Nobody, "s", <<>>, NoCap), Req("search", "s", Nobody, <<>>, NoCap),
   Req("clear", "s", "s", <<>>, NoCap), Req("clear", Nobody, Nobody, <<>>, NoCap)}

\* Two texts that begin alike.
Heads == ("t1" :> "h") @@ ("t2" :> "h")

VARIABLE part

MCInit == ComposeInit /\ ToolsInit /\ AdaptiveInit /\ part \in {"compose", "tools", "rounds"}

MCNext ==
  \/ part = "compose" /\ Next /\ UNCHANGED <<toolVars, adaptiveVars, part>>
  \/ part = "tools" /\ ToolsNext /\ UNCHANGED <<vars, adaptiveVars, part>>
  \/ part = "rounds" /\ AdaptiveNext /\ UNCHANGED <<vars, toolVars, part>>

MCSpec == MCInit /\ [][MCNext]_<<vars, toolVars, adaptiveVars, part>>
=============================================================================
