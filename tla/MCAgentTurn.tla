---------------------------- MODULE MCAgentTurn ----------------------------
(* Turns of a chat agent and of a research agent, and, apart from them, two *)
(* hooks that follow many turns, the circuit breaker and the OTel hook: one *)
(* of the three moves, the others stay as they began.                       *)
EXTENDS AgentTurn, CircuitBreaker, Tracing

CONSTANTS c1, c2, c3, t1, t2, p1, p2

ThreeCalls == {c1, c2, c3}

Plain(agent, tools, corpus) ==
  [agent |-> agent, tools |-> tools, corpus |-> corpus, cap |-> NoCap, chatCap |-> NoCap,
   floor |-> FALSE, strict |-> FALSE, replay |-> FALSE, files |-> FALSE, room |-> 2]

ChatSetups ==
  {Plain("chat", 0, "none"),
   [Plain("chat", 3, "none") EXCEPT !.files = TRUE],
   [Plain("chat", 2, "none") EXCEPT !.chatCap = 2, !.replay = TRUE]}

ResearchSetups ==
  {[Plain("research", n, c) EXCEPT !.cap = cap, !.floor = floor, !.strict = strict, !.room = room] :
     n \in {0, 1}, c \in Corpora, cap \in {NoCap, 0, 3}, floor \in BOOLEAN,
     strict \in BOOLEAN, room \in {1, 2}}

MCSetups == ChatSetups \cup ResearchSetups

VARIABLE part

MCInit ==
  /\ TurnInit /\ Init /\ TraceInit /\ part \in {"turn", "circuit", "trace"}
  /\ part # "turn" => setup = Plain("chat", 0, "none")
  /\ part # "trace" => version = "v1"

MCNext ==
  \/ part = "turn" /\ TurnNext /\ UNCHANGED <<vars, traceVars, part>>
  \/ part = "circuit" /\ Next /\ UNCHANGED <<turnVars, traceVars, part>>
  \/ part = "trace" /\ TraceNext /\ UNCHANGED <<turnVars, vars, part>>
  \/ part = "trace" /\ UNCHANGED <<turnVars, vars, traceVars, part>>  \* a trace ends at its bounds

MCSpec ==
  /\ MCInit /\ [][MCNext]_<<turnVars, vars, traceVars, part>>
  /\ WF_turnVars(part = "turn" /\ TaskStep /\ UNCHANGED <<vars, traceVars, part>>)
  /\ WF_turnVars(part = "turn" /\ TurnStep /\ UNCHANGED <<vars, traceVars, part>>)
  /\ \A c \in Calls :
       WF_vars(part = "circuit" /\ Report(c) /\ UNCHANGED <<turnVars, traceVars, part>>)
=============================================================================
