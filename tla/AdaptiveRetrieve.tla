-------------------------- MODULE AdaptiveRetrieve --------------------------
(***************************************************************************)
(* adaptive_retrieve (kaos_agents/context/retrieval.py): rounds of         *)
(* searches over the documents of a session, raw, hybrid, HyDE, lexicon,   *)
(* feedback, model-suggested and reflective, merged by item; and the       *)
(* process-wide cache of embeddings under a key sampled from the           *)
(* documents, which change between two retrievals.                         *)
(***************************************************************************)
EXTENDS Naturals, FiniteSets, FiniteSetsExt, SequencesExt

CONSTANTS
  TextVersions,   \* what a document may say
  HeadOf,         \* HeadOf[t]: the first characters of text t
  ItemIds,        \* ids of documents
  Scores,         \* BM25 scores, above 0, the score of reciprocal ranks
  SampleSize,     \* documents sampled for the key
  MinHybrid, MaxHybrid,  \* _MIN_ITEMS_FOR_HYBRID, _MAX_ITEMS_FOR_HYBRID
  MinReflect,     \* results without which coverage is not reflected upon
  MinRerank,      \* _RERANK_MIN_CANDIDATES
  MaxQueries,     \* _DEFAULT_MAX_SYNONYM_QUERIES
  RoundLimits,    \* max_rounds of a caller
  MaxDocuments, MaxChanges  \* bounds: documents at a time, changes of them in a behaviour

\* Scores and the rounds of a caller are numbers.
ASSUME AdaptiveAssumption == Scores \subseteq Nat /\ RoundLimits \subseteq Nat

VARIABLES
  documents,   \* the section: a sequence of [id, text]
  embeddings,  \* key -> the texts it was computed from
  retrieve,    \* the retrieval under way
  reported,    \* history: <<id, score>> that some search of it reported
  changes      \* changes so far, up to MaxChanges

adaptiveVars == <<documents, embeddings, retrieve, reported, changes>>

NoRetrieval ==
  [at |-> "idle", limit |-> 0, model |-> FALSE, round |-> 0, queries |-> 0, seen |-> <<>>, new |-> 0,
   calls |-> 0, used |-> <<>>, result |-> <<>>, reranked |-> FALSE, reason |-> "none"]

AdaptiveInit ==
  /\ documents = <<>> /\ embeddings = <<>> /\ retrieve = NoRetrieval /\ reported = {} /\ changes = 0

TextOf(docs) == [i \in DOMAIN docs |-> docs[i].text]
IdsOf(docs) == {docs[i].id : i \in DOMAIN docs}

\* The caller adds a document or replaces one; nothing runs meanwhile.
ChangeDocuments ==
  /\ retrieve.at \in {"idle", "done", "raised"} /\ changes < MaxChanges
  /\ \/ \E id \in ItemIds \ IdsOf(documents), t \in TextVersions :
          /\ Len(documents) < MaxDocuments
          /\ documents' = Append(documents, [id |-> id, text |-> t])
     \/ \E i \in DOMAIN documents, t \in TextVersions, id \in ItemIds :
          /\ id \notin IdsOf(documents) /\ documents' = [documents EXCEPT ![i] = [id |-> id, text |-> t]]
  /\ changes' = changes + 1 /\ retrieve' = NoRetrieval /\ reported' = {}
  /\ UNCHANGED embeddings

-----------------------------------------------------------------------------
\* The key: how many documents there are and the heads of every stride-th of them.
Stride(n) == Max({1, n \div SampleSize})
KeyOf(docs) ==
  [n |-> Len(docs),
   sample |-> {<<i, HeadOf[docs[i].text]>> : i \in {j \in DOMAIN docs : (j - 1) % Stride(Len(docs)) = 0}}]

Cached(docs) == KeyOf(docs) \in DOMAIN embeddings
Embed(docs) == embeddings' = [k \in DOMAIN embeddings \cup {KeyOf(docs)} |->
                                IF k = KeyOf(docs) THEN TextOf(docs) ELSE embeddings[k]]

\* precompute_embeddings.
Precompute ==
  /\ retrieve.at \in {"idle", "done", "raised"}
  /\ Len(documents) >= MinHybrid /\ ~Cached(documents)
  /\ Embed(documents) /\ UNCHANGED <<documents, retrieve, reported, changes>>

-----------------------------------------------------------------------------
\* What a search may report: documents with a score, each once.
SearchHits(scores) == UNION {[ids -> scores] : ids \in SUBSET IdsOf(documents)}

\* Mutant of Merged: the score of the last search wins.
MutMerged(seen, hits) == [id \in DOMAIN seen \cup DOMAIN hits |-> IF id \in DOMAIN hits THEN hits[id] ELSE seen[id]]

\* _merge_results: the highest score of an item.
Merged(seen, hits) ==
  [id \in DOMAIN seen \cup DOMAIN hits |->
     Max((IF id \in DOMAIN seen THEN {seen[id]} ELSE {}) \cup (IF id \in DOMAIN hits THEN {hits[id]} ELSE {}))]

With(changed, record) == [f \in DOMAIN record |-> IF f \in DOMAIN changed THEN changed[f] ELSE record[f]]
Proceed(changed) == retrieve' = With(changed, retrieve)

\* A search, its merge and its line in rounds; the retrieval goes on as next says.
Round(hits, next) ==
  /\ retrieve' = With(next, [retrieve EXCEPT !.seen = Merged(@, hits),
                                            !.new = @ + Cardinality(DOMAIN hits \ DOMAIN retrieve.seen)])
  /\ reported' = reported \cup {<<id, hits[id]>> : id \in DOMAIN hits}
  /\ UNCHANGED <<documents, changes>>

GoesTo(next) == Proceed(next) /\ UNCHANGED <<documents, reported, changes>>
To(step) == [at |-> step]

Begin ==
  /\ retrieve.at \in {"idle", "done", "raised"}
  /\ \E limit \in RoundLimits, model \in BOOLEAN :
       retrieve' = [NoRetrieval EXCEPT !.at = "raw", !.limit = limit, !.model = model]
  /\ reported' = {} /\ UNCHANGED <<documents, embeddings, changes>>

Raw ==
  /\ retrieve.at = "raw"
  /\ \E hits \in SearchHits(Scores) : Round(hits, To("hybrid"))
  /\ UNCHANGED embeddings

AfterHybrid == IF retrieve.limit < 2 THEN "build" ELSE "hyde"

\* _try_hybrid_retrieve: the cached embeddings, or new ones unless there are too many
\* documents; what fails, or is not installed, gives nothing.
Hybrid ==
  /\ retrieve.at = "hybrid"
  /\ \/ GoesTo(To(AfterHybrid)) /\ UNCHANGED embeddings
     \/ /\ Len(documents) >= MinHybrid
        /\ Cached(documents) \/ Len(documents) <= MaxHybrid
        /\ \E hits \in SearchHits({0}) :
             Round(hits, [at |-> AfterHybrid,
                          used |-> IF Cached(documents) THEN embeddings[KeyOf(documents)] ELSE TextOf(documents)])
        /\ IF Cached(documents) THEN UNCHANGED embeddings ELSE Embed(documents)

\* The model writes a passage to search for, or nothing.
Hyde ==
  /\ retrieve.at = "hyde"
  /\ \/ \E hits \in SearchHits(Scores) : Round(hits, [at |-> "lexicon", calls |-> retrieve.calls + 1])
     \/ GoesTo([at |-> "lexicon", calls |-> retrieve.calls + 1])
  /\ UNCHANGED embeddings

\* A model call in its own thread takes too long: the exception ends the retrieval.
ModelTimesOut ==
  /\ retrieve.at \in {"hyde", "suggest", "reflect"} /\ GoesTo(To("raised")) /\ UNCHANGED embeddings

\* _expand_with_lexicon: up to MaxQueries queries, none without a lexicon.
Lexicon ==
  /\ retrieve.at = "lexicon"
  /\ \/ retrieve.queries < MaxQueries
        /\ \E hits \in SearchHits(Scores) : Round(hits, [queries |-> retrieve.queries + 1])
     \/ GoesTo([at |-> "feedback", queries |-> 0])
  /\ UNCHANGED embeddings

AfterFeedback == IF retrieve.limit < 3 THEN "build" ELSE "suggest"

\* _expand_with_prf: terms of the results found so far, if there are any.
Feedback ==
  /\ retrieve.at = "feedback"
  /\ \/ DOMAIN retrieve.seen # {} /\ \E hits \in SearchHits(Scores) : Round(hits, [at |-> AfterFeedback, round |-> 3])
     \/ GoesTo([at |-> AfterFeedback, round |-> 3])
  /\ UNCHANGED embeddings

\* _generate_llm_queries, once a round from the third on; without queries it is over.
Suggest ==
  /\ retrieve.at = "suggest"
  /\ IF retrieve.round > retrieve.limit
     THEN GoesTo([at |-> IF retrieve.model THEN "reflect" ELSE "build", round |-> 0])
     ELSE \/ GoesTo([at |-> "searching", queries |-> 1, calls |-> retrieve.calls + 1])
          \/ GoesTo([at |-> IF retrieve.model THEN "reflect" ELSE "build", round |-> 0, calls |-> retrieve.calls + 1])
  /\ UNCHANGED embeddings

\* The searches of one round of suggestions.
SearchSuggested ==
  /\ retrieve.at = "searching"
  /\ \E hits \in SearchHits(Scores) :
       \/ retrieve.queries < MaxQueries /\ Round(hits, [queries |-> retrieve.queries + 1])
       \/ Round(hits, [at |-> "suggest", queries |-> 0, round |-> retrieve.round + 1])
  /\ UNCHANGED embeddings

\* _reflect_on_coverage, twice at most; with few results the model is not even asked.
Reflect ==
  /\ retrieve.at = "reflect"
  /\ IF retrieve.round = 2 \/ Cardinality(DOMAIN retrieve.seen) < MinReflect THEN GoesTo(To("build"))
     ELSE \/ GoesTo([at |-> "build", calls |-> retrieve.calls + 1])
          \/ \E hits \in SearchHits(Scores) :
               Round(hits, [calls |-> retrieve.calls + 1, round |-> retrieve.round + 1])
  /\ UNCHANGED embeddings

\* _build_result: the items by score, in the order they were first seen among equals.
Sorted(seen) == {r \in SetToSeqs(DOMAIN seen) : \A i, j \in DOMAIN r : i < j => seen[r[i]] >= seen[r[j]]}

\* The end of a retrieval; reranking, where it is tried, may put any order.
Build ==
  /\ retrieve.at = "build"
  /\ \/ \E r \in Sorted(retrieve.seen) : GoesTo([at |-> "done", result |-> r, reason |-> "max_rounds"])
     \/ /\ retrieve.limit >= 3 /\ Cardinality(DOMAIN retrieve.seen) >= MinRerank
        /\ \E r \in SetToSeqs(DOMAIN retrieve.seen) :
             GoesTo([at |-> "done", result |-> r, reranked |-> TRUE, reason |-> "max_rounds"])
  /\ UNCHANGED embeddings

AdaptiveNext ==
  \/ ChangeDocuments \/ Precompute \/ Begin \/ Raw \/ Hybrid \/ Hyde \/ ModelTimesOut \/ Lexicon \/ Feedback
  \/ Suggest \/ SearchSuggested \/ Reflect \/ Build

AdaptiveSpec == AdaptiveInit /\ [][AdaptiveNext]_adaptiveVars

-----------------------------------------------------------------------------
\* Whatever round found an item first, it has the best score any round reported of it and
\* is a document of the session, once; the counts of the rounds add up to the result; the
\* result is in order unless it was reranked; and the model is asked a bounded number of
\* times, never for a single round (adaptive_retrieve, _merge_results, _build_result).
RetrieveSound ==
  LET r == retrieve  found == {p[1] : p \in reported} IN
    /\ DOMAIN r.seen = found /\ found \subseteq IdsOf(documents)
    /\ \A id \in found : r.seen[id] = Max({p[2] : p \in {q \in reported : q[1] = id}})
    /\ r.new = Cardinality(found)
    /\ r.calls <= (IF r.limit < 2 THEN 0 ELSE IF r.limit < 3 THEN 1 ELSE (r.limit - 1) + (IF r.model THEN 2 ELSE 0))
    /\ r.at = "done" =>
         /\ Range(r.result) = found /\ IsInjective(r.result)
         /\ r.reranked \/ \A i \in 1..(Len(r.result) - 1) : r.seen[r.result[i]] >= r.seen[r.result[i + 1]]

\* What the comment on the cache says: embeddings are those of the documents searched.
EmbeddingsCurrent == retrieve.used # <<>> => retrieve.used = TextOf(documents)

\* What the docstring says a retrieval returns: results, whatever a model call does.
AlwaysReturns == retrieve.at # "raised"
=============================================================================
