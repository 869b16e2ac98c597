---------------------------- MODULE MCAgenticLoop ----------------------------
(***************************************************************************)
(* One turn of at most three iterations over four tool groups, one of each *)
(* tier, with a grounding critic of each kind and two tools.  Apart from   *)
(* it, what a turn asks on the way: the check of a draft's citations, and  *)
(* a query of the Perceiver.  One of the three moves, the others stay as   *)
(* they began.                                                             *)
(***************************************************************************)
EXTENDS AgenticLoop, Citations, Perception

CONSTANTS none, short, long, longer, heading, t1, t2

\* long and longer are one within the other; heading has too little under it
Alike == {long, longer}
MCSame(a, b) == a = b \/ {a, b} = Alike
MCRuns == {<<>>, <<<<t1, TRUE>>>>, <<<<t2, FALSE>>>>,
           <<<<t1, TRUE>>, <<t2, FALSE>>>>, <<<<t1, FALSE>>, <<t1, TRUE>>, <<t2, TRUE>>>>}

Cite(named, year, complete) == [named |-> named, year |-> year, complete |-> complete]
FullCite == Cite(TRUE, 4, TRUE)
\* Three citations over a semaphore of two; two of them are one of each other kind.
MCDrafts ==
  {<<>>, <<FullCite, Cite(FALSE, NoYear, TRUE), Cite(TRUE, 4, FALSE)>>,
   <<FullCite, FullCite, FullCite>>}
MCCases == {[name |-> n, year |-> y] : n \in {"same", "other"}, y \in {2, 3, 5, 6, NoYear}}

MCPerceivers ==
  [kb : {"none", "answers", "institutional"}, memory : BOOLEAN, rag : BOOLEAN,
   hints : {<<"true", "true">>, <<"text", "true">>, <<"false", "missing">>}, first : BOOLEAN]
\* A mean of 2 is enough; two items where one is not, and three where the last pulls it down.
MCYields == {<<>>, <<NoScore>>, <<1>>, <<1, 2>>, <<3, 1, 1>>}

VARIABLE part

SomePerceiver == CHOOSE p \in MCPerceivers : TRUE

MCInit ==
  /\ Init /\ CiteInit /\ PerceiveInit /\ part \in {"loop", "cite", "perceive"}
  /\ part # "cite" => citations = <<>> /\ ~setting.enabled /\ ~setting.browser
  /\ part # "perceive" => perceiver = SomePerceiver /\ query.kind = "document_qa" /\ query.tools = {}

MCNext ==
  \/ part = "loop" /\ Next /\ UNCHANGED <<citeVars, perceiveVars, part>>
  \/ part = "cite" /\ CiteNext /\ UNCHANGED <<vars, perceiveVars, part>>
  \/ part = "perceive" /\ PerceiveNext /\ UNCHANGED <<vars, citeVars, part>>

MCSpec ==
  /\ MCInit /\ [][MCNext]_<<vars, citeVars, perceiveVars, part>>
  /\ WF_vars(part = "loop" /\ Step /\ UNCHANGED <<citeVars, perceiveVars, part>>)
=============================================================================
