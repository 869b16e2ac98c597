--------------------------- MODULE MCAtomicWrite ---------------------------
(* Small instances for TLC of three parts that write files: three threads  *)
(* that save one path, loads of three files over one cache, and sessions   *)
(* of the chat command.  One of them moves, the others stay as they began. *)
EXTENDS AtomicWrite, CorpusLoad, ChatRepl

CONSTANTS w1, w2, w3

MCWriters == {w1, w2, w3}

\* The threads run the same code.
Symmetry == Permutations(MCWriters)

MCPassages == [t \in Texts |-> CASE t = "two" -> 2 [] t = "one" -> 1 [] OTHER -> 0]

MCLoads ==
  {[paths |-> <<"f", "g", "h">>, size |-> 8, cached |-> TRUE, sink |-> "corpus"],
   [paths |-> <<"g", "f">>, size |-> 8, cached |-> TRUE, sink |-> "memory"],
   [paths |-> <<"f">>, size |-> 0, cached |-> FALSE, sink |-> "corpus"]}

\* Copies, different files, and files that are missing, blank or unreadable.
Beginnings ==
  {[f \in Files |-> "one"]}
    \cup {[f \in Files |-> IF f = "f" THEN a ELSE IF f = "g" THEN "two" ELSE b] :
            a \in {"one", "missing"}, b \in {"bad", "blank"}}

Line(oneShot, agent, cap, alert, files, log) ==
  [oneShot |-> oneShot, pattern |-> agent, cap |-> cap, alert |-> alert, files |-> files, log |-> log, explain |-> log]

MCOptions ==
  {Line(FALSE, "chat", 3, 2, FALSE, TRUE), Line(FALSE, "plan", 0, 3, TRUE, FALSE),
   Line(TRUE, "research", 2, 0, TRUE, TRUE), Line(TRUE, "chat", 0, 1, FALSE, FALSE)}

VARIABLE part

MCInit ==
  /\ Init /\ LoadInit /\ ReplInit /\ holds \in Beginnings /\ part \in {"write", "load", "repl"}
  /\ part # "load" => holds = [f \in Files |-> "one"] /\ load.size = 0
  /\ part # "repl" => args = Line(TRUE, "chat", 0, 1, FALSE, FALSE)

MCNext ==
  \/ part = "write" /\ Next /\ UNCHANGED <<loadVars, replVars, part>>
  \/ part = "load" /\ LoadNext /\ UNCHANGED <<vars, replVars, part>>
  \/ part = "repl" /\ ReplNext /\ UNCHANGED <<vars, loadVars, part>>

MCSpec == MCInit /\ [][MCNext]_<<vars, loadVars, replVars, part>>
=============================================================================
