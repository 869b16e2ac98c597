----------------------------- MODULE Perception -----------------------------
(***************************************************************************)
(* The Perceiver of perception/perceiver.py: one query put to the          *)
(* knowledge base, to the session's memory, to the read-only tools whose   *)
(* names it asks for and, for a question about documents, to the RAG, in   *)
(* this order, until what came back is good enough on average.  A tool is  *)
(* known by its place; an item by the source it came from and its score, a *)
(* number of which Full stands for 1.0.  A BM25 score may be above Full.   *)
(***************************************************************************)
EXTENDS Integers, Sequences, SequencesExt

CONSTANTS
  Perceivers,    \* what a Perceiver may be built with, see PerceiverType
  ToolCount,     \* how many tools it is built with
  Kinds,         \* kinds of queries, "document_qa" one of them
  Yields,        \* what a source may answer: sequences of scores
  NoScore,       \* the score of an item that has none
  Full,          \* the score that stands for 1.0
  MinConfidence, \* min_confidence, in the same units
  MaxResults     \* max_results of a query

Hints == {"true", "false", "text", "missing"}
\* What is there: no knowledge base, one that answers what a Perceiver asks, or KnowledgeBase
\* of memory/institutional.py.  A tool has a hint; a query asks for some of the tools.
PerceiverType ==
  [kb : {"none", "answers", "institutional"}, memory : BOOLEAN, rag : BOOLEAN,
   hints : [1..ToolCount -> Hints], first : BOOLEAN]

ASSUME PerceptionAssumption ==
  /\ Perceivers \subseteq PerceiverType /\ ToolCount \in Nat /\ MaxResults \in Nat
  /\ Yields \subseteq Seq(Int \cup {NoScore})

VARIABLES
  perceiver, \* what the Perceiver was built with
  query,     \* what it was asked: the kind, and the tools its patterns match
  next,      \* the place, among the sources, of the one it turns to next
  consulted, \* sources_consulted
  found,     \* the items so far
  answer     \* what the caller gets

perceiveVars == <<perceiver, query, next, consulted, found, answer>>

Asked == [state |-> "asked", items |-> <<>>, confident |-> FALSE, refused |-> FALSE]

\* read_only_tools: the hint must be True itself, not just true.
ReadOnly == {t \in 1..ToolCount : perceiver.hints[t] = "true"}

\* The places of the sources: the knowledge base, the memory, the tools, the RAG.
KB == 0
Memory == ToolCount + 1
RAG == ToolCount + 2
Order == <<KB, Memory>> \o [t \in 1..ToolCount |-> t] \o <<RAG>>

\* Whether forward turns to a source at all.
Consults(source) ==
  \/ source = KB /\ perceiver.kb # "none"
  \/ source = Memory /\ perceiver.memory
  \/ source \in ReadOnly \cap query.tools
  \/ source = RAG /\ perceiver.rag /\ query.kind = "document_qa"

PerceiveInit ==
  /\ perceiver \in Perceivers
  /\ \E kind \in Kinds, tools \in SUBSET (1..ToolCount) : query = [kind |-> kind, tools |-> tools]
  /\ next = 1 /\ consulted = <<>> /\ found = <<>> /\ answer = Asked

Weight(item) == IF item.score = NoScore THEN Full ELSE item.score
Total(items) == FoldSeq(LAMBDA item, sum : sum + Weight(item), 0, items)

\* _enough: there are items, and their mean reaches the threshold.
Enough(items) == items # <<>> /\ Total(items) >= MinConfidence * Len(items)

\* The items of one source; the memory gives no more than it was asked for.
Items(source, scores) ==
  [i \in {i \in DOMAIN scores : source = Memory => i <= MaxResults} |->
     [source |-> source, score |-> scores[i]]]

MutStops(source, new) == perceiver.first /\ source # RAG /\ Enough(new)

\* Whether forward returns once a source has given new items: the RAG is the last, and is not
\* followed by a look at what there is.
Stops(source, new) == perceiver.first /\ source # RAG /\ Enough(found \o new)

-----------------------------------------------------------------------------
\* A source that is not there, not asked for or not read-only.
Pass ==
  /\ answer.state = "asked" /\ next <= Len(Order) /\ ~Consults(Order[next])
  /\ next' = next + 1
  /\ UNCHANGED <<perceiver, query, consulted, found, answer>>

\* What a source may answer: a search of the memory always has scores, a tool or the RAG that
\* raises has no items.
Answers(source) ==
  IF source = Memory THEN {y \in Yields : \A i \in DOMAIN y : y[i] # NoScore} ELSE Yields

\* One source is asked.
Consult ==
  /\ answer.state = "asked" /\ next <= Len(Order) /\ Consults(Order[next])
  /\ LET source == Order[next] IN
       \E scores \in Answers(source) :
         /\ ~(source = KB /\ perceiver.kb = "institutional")
         /\ consulted' = Append(consulted, source)
         /\ found' = found \o Items(source, scores)
         /\ IF Stops(source, Items(source, scores))
            THEN /\ answer' = [state |-> "returned", items |-> found', confident |-> TRUE,
                               refused |-> FALSE]
                 /\ UNCHANGED next
            ELSE next' = next + 1 /\ UNCHANGED answer
  /\ UNCHANGED <<perceiver, query>>

\* The query of a knowledge base is not guarded, and the institutional one wants a KBQuery: it
\* asks what it gets for top_k.  Nor is the reading of what a source answered guarded.
ConsultRaises ==
  /\ answer.state = "asked" /\ next <= Len(Order) /\ Consults(Order[next])
  /\ Order[next] # Memory
  /\ consulted' = Append(consulted, Order[next])
  /\ answer' = [Asked EXCEPT !.state = "raised"]
  /\ UNCHANGED <<perceiver, query, next, found>>

\* All sources were asked: what they gave together, whatever it is worth, or a refusal.
Settle ==
  /\ answer.state = "asked" /\ next > Len(Order)
  /\ answer' = [state |-> "returned", items |-> found, confident |-> found # <<>>,
                refused |-> found = <<>>]
  /\ UNCHANGED <<perceiver, query, next, consulted, found>>

PerceiveNext == Pass \/ Consult \/ ConsultRaises \/ Settle

PerceiveSpec == PerceiveInit /\ [][PerceiveNext]_perceiveVars

-----------------------------------------------------------------------------
PerceiveTypeOK ==
  /\ perceiver \in PerceiverType
  /\ query.kind \in Kinds /\ query.tools \subseteq 1..ToolCount
  /\ next \in 1..Len(Order) + 1
  /\ answer.state \in {"asked", "returned", "raised"}

\* The sources that can be asked, and the order between two of them.
Eligible == {source \in ToSet(Order) : Consults(source)}
Earlier(s, t) == \E p, q \in DOMAIN Order : p < q /\ Order[p] = s /\ Order[q] = t

\* The first k items are those of the first n sources that were consulted.
GivenBy(n, k) == \A i \in DOMAIN found : i <= k <=> found[i].source \in {consulted[j] : j \in 1..n}

\* Sources are asked in the one order, none left out on the way, and no further than the
\* first point at which what there is reaches the threshold; without first_sufficient all are
\* asked; and no tool without the hint, or of another name than was asked for, ever is.
StopsWhenEnough ==
  /\ ToSet(consulted) \subseteq Eligible
  /\ \A j \in DOMAIN consulted, source \in Eligible :
       Earlier(source, consulted[j]) <=> \E i \in 1..(j - 1) : consulted[i] = source
  /\ perceiver.first =>
       \A n \in 1..(Len(consulted) - 1) :
         \E k \in 0..Len(found) : GivenBy(n, k) /\ ~Enough(SubSeq(found, 1, k))
  /\ answer.state = "returned" /\ ~(perceiver.first /\ Enough(answer.items)) =>
       Eligible \subseteq ToSet(consulted)

\* The answer is all that was found, in the order of the sources; it is a refusal exactly when
\* that is nothing, and then it is of no confidence.
NothingLost ==
  answer.state = "returned" =>
    /\ answer.items = found
    /\ answer.refused = (found = <<>>)
    /\ answer.refused => ~answer.confident
    /\ \A i, j \in DOMAIN found :
         i < j => \E a, b \in DOMAIN consulted :
                    a <= b /\ consulted[a] = found[i].source /\ consulted[b] = found[j].source

PerceptionSound == PerceiveTypeOK /\ StopsWhenEnough /\ NothingLost

-----------------------------------------------------------------------------
(* What the sources of this component say, and this code does not do. *)

\* perception/types.py: "The result is always a single value (never an exception)."
NeverRaises == answer.state # "raised"

\* perception/perceiver.py: min_confidence is "for the short-circuit decision and for issuing a
\* refusal"; a refusal is for nothing found only.
WeakIsRefused ==
  answer.state = "returned" /\ perceiver.first /\ ~answer.refused => Enough(answer.items)

\* perception/types.py: max_results is a "Per-source cap on returned items"; the memory keeps it.
CappedPerSource ==
  \A source \in {KB, Memory, RAG} \cup 1..ToolCount :
    Len(SelectSeq(found, LAMBDA item : item.source = source)) <= MaxResults
=============================================================================
