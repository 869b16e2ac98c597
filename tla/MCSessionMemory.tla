--------------------------- MODULE MCSessionMemory ---------------------------
(* A learned section under every policy beside the documents of the session;  *)
(* apart from it, calls of the retrieval tools, what governance keeps of two   *)
(* runs, and the gate before actions with the planner that acts through it.    *)
(* One part moves, the others stay as they began.                              *)
EXTENDS SessionMemory, RetrievalTools, Governance, ActionGate, TLC

Section(b, p, s, m, x, e) ==
  [budget |-> b, policy |-> p, summary |-> s, max |-> m, explicit |-> x, ephemeral |-> e]

DocumentsSection == Section(0, "none", "never", Unlimited, FALSE, FALSE)

\* One learned section for each policy, and those of DEFAULT_SECTIONS in small:
\* MESSAGES, ACTIONS, REFLECTION, LAST_INTENT, WORKING, ROLE.
Learned ==
  {Section(3, p, "never", Unlimited, FALSE, FALSE) : p \in Policies \ {"none"}} \cup
  {Section(2, "lru", "never", 2, FALSE, FALSE), Section(2, "none", "never", 1, FALSE, FALSE),
   Section(2, "fifo", "on_overflow", Unlimited, FALSE, FALSE),
   Section(2, "lru", "on_overflow", Unlimited, FALSE, FALSE),
   Section(2, "fifo", "on_turn", Unlimited, FALSE, FALSE),
   Section(2, "lifo", "never", 1, FALSE, FALSE),
   Section(2, "fifo", "never", Unlimited, FALSE, TRUE),
   Section(2, "none", "never", Unlimited, TRUE, FALSE)}

Profiles == {("messages" :> c) @@ ("documents" :> DocumentsSection) : c \in Learned}
SizesOf == ("messages" :> {1, 3}) @@ ("documents" :> {1})
TypeOrder == <<"messages", "documents">>

\* Two corpora of two documents each, and two documents of a memory.
Passage(text, uri) == [text |-> text, uri |-> uri]
CorporaHeld ==
  ("m" :> <<Passage("m1", "u"), Passage("m2", "u"), Passage("m3", "v")>>) @@
  ("n" :> <<Passage("n1", "u"), Passage("n2", "w"), Passage("n3", "w")>>)
DocsHeld == <<Passage("d1", "e"), Passage("d2", "f")>>

\* A tool without a rule, one allowed, one asked about and one denied, which match no
\* pattern; they share buckets of one and two tokens.
MCDecision == ("read" :> "none") @@ ("send" :> "allow") @@ ("post" :> "ask") @@ ("file" :> "deny")
MCMatches == ("read" :> {"*d"}) @@ ("send" :> {"s*", "*d"}) @@ ("post" :> {}) @@ ("file" :> {})
MCGlobs == <<"s*", "*d">>
Refill(capacity, refill) == [capacity |-> capacity, refill |-> refill]
MCRate == ("s*" :> Refill(2, 1)) @@ ("*d" :> Refill(1, 2)) @@ ("d" :> Refill(1, 0))

VARIABLE part

others == <<retrievalVars, govVars, gateVars, planVars>>

MCInit ==
  /\ Init /\ RetrievalInit /\ GovInit /\ GateInit /\ PlanInit
  /\ part \in {"memory", "tools", "governance", "gate", "planner"}
  /\ part = "memory" \/ config = CHOOSE c \in Profiles : TRUE

MCNext ==
  /\ UNCHANGED part
  /\ \/ part = "memory" /\ Next /\ UNCHANGED others
     \/ part = "tools" /\ RetrievalNext /\ UNCHANGED <<vars, govVars, gateVars, planVars>>
     \/ part = "governance" /\ GovNext /\ UNCHANGED <<vars, retrievalVars, gateVars, planVars>>
     \/ part = "gate" /\ GateNext /\ UNCHANGED <<vars, retrievalVars, govVars, planVars>>
     \/ part = "planner" /\ PlanNext /\ UNCHANGED <<vars, retrievalVars, govVars, gateVars>>

MCSpec == MCInit /\ [][MCNext]_<<vars, others, part>>
=============================================================================
