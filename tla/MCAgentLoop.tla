----------------------------- MODULE MCAgentLoop -----------------------------
(***************************************************************************)
(* Two turns of one AgentLoop: one streamed that may delegate and one that *)
(* only reacts, after none or two others.  Two sub-agents are enough for   *)
(* one plan with two of them and for one inside another.  Apart from them, *)
(* PlanStrategy on every plan of up to MaxPlan steps at each attempt: one  *)
(* of the two moves, the other one stays as it began.                      *)
(***************************************************************************)
EXTENDS AgentLoop, PlanStrategy

CONSTANTS r1, r2, s1, s2, none, short, long, shown

Result(text, use, tools, during) ==
  [text |-> text, use |-> use, tools |-> tools, during |-> during]
MCResults ==
  {Result(none, 0, 0, "none"), Result(short, 0, 0, "none"), Result(long, 1, 0, "none"),
   Result(short, 2, 0, "none"), Result(long, 2, 0, "none"), Result(short, 0, 0, "RunError"),
   Result(short, 0, 1, "RunError"),
   Result(long, 1, 0, "EvidenceInsufficient")}
MCEarlier == {<<>>, <<short, short>>}
MCSubResults == {Result(short, 1, 0, "none"), Result(none, 0, 1, "RunError")}
\* What a step of a strategy costs.
FewCosts == {0, 1}

VARIABLE part

MCInit ==
  /\ LoopInit /\ StrategyInit /\ part \in {"loop", "strategy"}
  /\ part = "strategy" => window = <<>>

MCNext ==
  \/ part = "loop" /\ LoopNext /\ UNCHANGED <<svars, part>>
  \/ part = "strategy" /\ StrategyNext /\ UNCHANGED <<agentVars, part>>

MCSpec ==
  /\ MCInit /\ [][MCNext]_<<agentVars, svars, part>>
  /\ WF_agentVars(part = "loop" /\ LoopRuns /\ UNCHANGED <<svars, part>>)
  /\ WF_svars(part = "strategy" /\ StrategyStep /\ UNCHANGED <<agentVars, part>>)
=============================================================================
