--------------------------- MODULE RetrievalTools ---------------------------
(***************************************************************************)
(* The eight kaos-retrieval-* tools (kaos_agents/tools/retrieval.py) over  *)
(* the corpus of a context or the documents of a session's memory.  The    *)
(* BM25 index of a corpus is cached for the whole process under the        *)
(* address of the corpus object, which a later corpus may be given again.  *)
(***************************************************************************)
EXTENDS Naturals, FiniteSets, FiniteSetsExt, SequencesExt

CONSTANTS
  RetrievalCalls,  \* the tool calls under way
  Contexts,        \* execution contexts
  Addresses,       \* where corpus objects may live
  Corpora,         \* Corpora[n]: the passages of corpus n, each [uri, text]
  MemoryDocs,      \* the documents of the session, passages of one each
  NoCorpus,        \* no corpus in a context, no index at an address
  FormatMax,       \* rows _format_results shows
  SearchMax,       \* top_k of a search
  RerankMin,       \* _RERANK_MIN_CANDIDATES
  SparseMax,       \* _SPARSE_RESULT_THRESHOLD
  ReflectMin,      \* results without which coverage is not reflected upon
  Limits           \* limits a caller gives the manifest

\* A passage is told by its text, apart from the others of its corpus.
ASSUME RetrievalAssumption ==
  /\ \A n \in DOMAIN Corpora :
       /\ Len(Corpora[n]) \in Nat /\ DOMAIN Corpora[n] = 1..Len(Corpora[n])
       /\ \A i \in DOMAIN Corpora[n] : LET p == Corpora[n][i] IN p = [text |-> p.text, uri |-> p.uri]
       /\ \A i, j \in DOMAIN Corpora[n] : Corpora[n][i].text = Corpora[n][j].text => i = j
  /\ Len(MemoryDocs) \in Nat /\ DOMAIN MemoryDocs = 1..Len(MemoryDocs) /\ IsInjective(MemoryDocs)
  /\ {FormatMax, SearchMax, RerankMin} \subseteq Nat
  /\ NoCorpus \notin [at : Addresses, of : DOMAIN Corpora]
  /\ NoCorpus \notin [searcher : DOMAIN Corpora, meta : DOMAIN Corpora]

Smaller(m, n) == Min({m, n})

VARIABLES
  slot,      \* slot[x]: address and passages of the corpus of context x
  index,     \* index[a]: what is cached for address a
  retrieval, \* retrieval[c]: the state of a call
  reused     \* history: addresses given to another corpus once an index was cached

retrievalVars == <<slot, index, retrieval, reused>>

NoAnswer == [kind |-> "none", from |-> NoCorpus, rows |-> <<>>, count |-> 0, cut |-> FALSE,
             flag |-> FALSE, asked |-> NoCorpus, at |-> NoCorpus]
NoCall == [step |-> "idle", tool |-> "none", ctx |-> NoCorpus, hits |-> <<>>, answer |-> NoAnswer]

RetrievalInit ==
  /\ slot = [x \in Contexts |-> NoCorpus] /\ index = [a \in Addresses |-> NoCorpus]
  /\ retrieval = [c \in RetrievalCalls |-> NoCall] /\ reused = {}

\* A new corpus is made and put in a context (Runner, ResearchAgent); the one before is
\* dropped, and its address is free for the next.
Bind(x) ==
  \E a \in Addresses, n \in DOMAIN Corpora :
    /\ \A y \in Contexts : slot[y] # NoCorpus => slot[y].at # a
    /\ slot' = [slot EXCEPT ![x] = [at |-> a, of |-> n]]
    /\ reused' = IF index[a] = NoCorpus THEN reused ELSE reused \cup {a}
    /\ UNCHANGED <<index, retrieval>>

-----------------------------------------------------------------------------
\* Mutant of SearcherOf: only the searcher is cached, the passages are listed anew.
MutSearcherOf(s) ==
  IF index[s.at] # NoCorpus THEN [index[s.at] EXCEPT !.meta = s.of] ELSE [searcher |-> s.of, meta |-> s.of]

\* _get_corpus_searcher: searcher and passage list of the address, built when missing.
SearcherOf(s) == IF index[s.at] # NoCorpus THEN index[s.at] ELSE [searcher |-> s.of, meta |-> s.of]

Remember(s) == index' = [index EXCEPT ![s.at] = SearcherOf(s)]

\* The ranks a search may give rows 1 to n: at most k of them, in any order.
Rankings(n, k) == {r \in SeqOf(1..n, Smaller(n, k)) : IsInjective(r)}
Row(entry, i) == [text |-> Corpora[entry.searcher][i].text, uri |-> Corpora[entry.meta][i].uri]
MemoryRow(i) == MemoryDocs[i]

\* _assess_expansion_need: no, few or weak matches suggest another strategy.
SuggestsExpansion(n, weak) == n < SparseMax \/ weak

Over(changes, record) == [f \in DOMAIN record |-> IF f \in DOMAIN changes THEN changes[f] ELSE record[f]]
Given(c, changes) == retrieval' = [retrieval EXCEPT ![c] = Over(changes, @)]
Answered(c, changes) == Given(c, [step |-> "done", hits |-> <<>>, answer |-> Over(changes, NoAnswer)])
Fails(c) == Answered(c, [kind |-> "error"])

\* Search the corpus of the call's context, or else the memory of its session, which may
\* be unnamed or not loadable; Then(rows, from) gives what the call does with them.
FromCorpus(c, k) ==
  LET s == slot[retrieval[c].ctx]  entry == SearcherOf(s) IN
    {[rows |-> [j \in DOMAIN r |-> Row(entry, r[j])], from |-> entry.searcher, asked |-> s.of, at |-> s.at] :
       r \in Rankings(Len(Corpora[entry.searcher]), k)}
FromMemory(k) ==
  {[rows |-> [j \in DOMAIN r |-> MemoryRow(r[j])], from |-> "memory", asked |-> "memory", at |-> NoCorpus] :
     r \in Rankings(Len(MemoryDocs), k)}

HasCorpus(c) == slot[retrieval[c].ctx] # NoCorpus
Found(c, k) == IF HasCorpus(c) THEN FromCorpus(c, k) ELSE FromMemory(k)

\* A search leaves the index behind.
Searched(c) == IF HasCorpus(c) THEN Remember(slot[retrieval[c].ctx]) ELSE UNCHANGED index

\* The session is missing or cannot be loaded.
NoMemoryOf(c) == ~HasCorpus(c)

Result(found, rows, flag) ==
  [kind |-> "result", from |-> found.from, asked |-> found.asked, at |-> found.at,
   rows |-> rows, count |-> Len(found.rows), flag |-> flag]

\* _format_results: the first FormatMax rows of a memory search; corpus rows are all shown.
Formatted(rows) == SubSeq(rows, 1, Smaller(Len(rows), FormatMax))
Shown(found) == IF found.from = "memory" THEN Formatted(found.rows) ELSE found.rows

-----------------------------------------------------------------------------
\* A call arrives; without its query, question or text it is an error at once.
Ask(c) ==
  /\ retrieval[c].step \in {"idle", "done"}
  /\ \E t \in {"bm25", "synonyms", "hyde", "evaluate", "rerank", "info", "manifest", "answer"}, x \in Contexts :
       \/ retrieval' = [retrieval EXCEPT ![c] = [NoCall EXCEPT !.step = "asked", !.tool = t, !.ctx = x]]
       \/ t \notin {"info", "manifest"} /\ retrieval' = [retrieval EXCEPT ![c] =
            [NoCall EXCEPT !.step = "done", !.tool = t, !.ctx = x, !.answer = [NoAnswer EXCEPT !.kind = "error"]]]
  /\ UNCHANGED <<slot, index, reused>>

At(c, tool, step) == retrieval[c].tool = tool /\ retrieval[c].step = step

\* BM25SearchTool.
BM25(c) ==
  /\ At(c, "bm25", "asked")
  /\ \/ \E found \in Found(c, SearchMax), weak \in BOOLEAN :
          Answered(c, Result(found, Shown(found), SuggestsExpansion(Len(found.rows), weak))) /\ Searched(c)
     \/ NoMemoryOf(c) /\ Fails(c) /\ UNCHANGED index
  /\ UNCHANGED <<slot, reused>>

\* SynonymSearchTool: the word has synonyms to search for, or not; without a lexicon it
\* is an error, without a memory there are just no results.
Synonyms(c) ==
  /\ At(c, "synonyms", "asked")
  /\ \/ \E found \in Found(c, SearchMax) : Answered(c, Result(found, Shown(found), TRUE)) /\ Searched(c)
     \/ Answered(c, [kind |-> "result"]) /\ UNCHANGED index
     \/ Fails(c) /\ UNCHANGED index
  /\ UNCHANGED <<slot, reused>>

\* HyDE, coverage and the answer wait for a model.
CallModel(c) ==
  /\ retrieval[c].step = "asked" /\ retrieval[c].tool \in {"hyde", "evaluate", "answer"}
  /\ Given(c, [step |-> "model"]) /\ UNCHANGED <<slot, index, reused>>

\* HyDESearchTool: the search for the pseudo-document, in what the context holds by then.
HyDE(c) ==
  /\ At(c, "hyde", "model")
  /\ \/ \E found \in Found(c, SearchMax) : Answered(c, Result(found, Shown(found), TRUE)) /\ Searched(c)
     \/ Fails(c) /\ UNCHANGED index
  /\ UNCHANGED <<slot, reused>>

\* _reflect_on_coverage_async: how many gaps, of n results.
Gaps(n) == IF n < ReflectMin THEN {0} ELSE {0, 1}

\* EvaluateCoverageTool: all summaries are one result; flag says sufficient.
Evaluate(c) ==
  /\ At(c, "evaluate", "model")
  /\ \E gaps \in Gaps(1) : Answered(c, [kind |-> "result", flag |-> gaps = 0, count |-> gaps])
  /\ UNCHANGED <<slot, index, reused>>

\* GroundedAnswerTool: an answer, too little evidence or something else; or an error.
GroundedAnswer(c) ==
  /\ At(c, "answer", "model")
  /\ (\E answered \in BOOLEAN : Answered(c, [kind |-> "result", flag |-> answered])) \/ Fails(c)
  /\ UNCHANGED <<slot, index, reused>>

\* RerankTool: too few candidates keep the BM25 order.
Candidates(c) ==
  /\ At(c, "rerank", "asked")
  /\ \/ \E found \in Found(c, SearchMax) :
          /\ IF Len(found.rows) < RerankMin
             THEN Answered(c, Result(found, Formatted(found.rows), FALSE))
             ELSE Given(c, [step |-> "reranking", hits |-> found.rows,
                            answer |-> Result(found, found.rows, FALSE)])
          /\ Searched(c)
     \/ NoMemoryOf(c) /\ Fails(c) /\ UNCHANGED index
  /\ UNCHANGED <<slot, reused>>

\* The cross-encoder's order, or the BM25 order when there is none or it fails.
Rerank(c) ==
  /\ At(c, "rerank", "reranking")
  /\ LET k == retrieval[c] IN
       \/ \E r \in Rankings(Len(k.hits), SearchMax) :
            /\ Len(r) = Smaller(Len(k.hits), SearchMax)
            /\ Answered(c, [k.answer EXCEPT !.rows = [j \in DOMAIN r |-> k.hits[r[j]]], !.count = Len(r), !.flag = TRUE])
       \/ Answered(c, [k.answer EXCEPT !.rows = Formatted(k.hits), !.count = Smaller(Len(k.hits), FormatMax)])
  /\ UNCHANGED <<slot, index, reused>>

\* The documents of passages.
Uris(passages) == {p.uri : p \in Range(passages)}
Passages(c) == IF HasCorpus(c) THEN Corpora[slot[retrieval[c].ctx].of] ELSE MemoryDocs

\* CorpusInfoTool and CorpusManifestTool read the corpus itself, not its index.
Describe(c) ==
  /\ retrieval[c].step = "asked" /\ retrieval[c].tool \in {"info", "manifest"}
  /\ LET n == Cardinality(Uris(Passages(c)))
         about == IF HasCorpus(c) THEN slot[retrieval[c].ctx].of ELSE "memory"
         told(count) == Answered(c, [kind |-> "result", from |-> about, asked |-> about, count |-> count, cut |-> count < n])
     IN \/ retrieval[c].tool = "info" /\ told(n)
        \/ retrieval[c].tool = "manifest" /\ \E limit \in Limits : told(Smaller(n, limit))
        \/ NoMemoryOf(c) /\ Fails(c)
  /\ UNCHANGED <<slot, index, reused>>

RetrievalStep(c) ==
  \/ Ask(c) \/ BM25(c) \/ Synonyms(c) \/ CallModel(c) \/ HyDE(c) \/ Evaluate(c) \/ GroundedAnswer(c)
  \/ Candidates(c) \/ Rerank(c) \/ Describe(c)

RetrievalNext == (\E x \in Contexts : Bind(x)) \/ \E c \in RetrievalCalls : RetrievalStep(c)

RetrievalSpec == RetrievalInit /\ [][RetrievalNext]_retrievalVars

-----------------------------------------------------------------------------
\* A row as the tools cite it: text and address of one passage.
Whole(row) == \E n \in DOMAIN Corpora : row \in Range(Corpora[n])

\* Whatever corpora came and went while a call waited, the text and the address of a row
\* are of one passage; rows are distinct and at most what was asked for; an answer comes
\* from the corpus of its context, unless an index was cached for an earlier object at
\* its address; only enough candidates are reranked; an error shows nothing
\* (_get_corpus_searcher, RerankTool, the tools' replies).
RetrievalSound ==
  \A c \in RetrievalCalls : LET k == retrieval[c]  a == k.answer IN
    k.step = "done" =>
      /\ a.from # "memory" => \A row \in Range(a.rows) : Whole(row)
      /\ IsInjective(a.rows) /\ Len(a.rows) <= SearchMax
      /\ a.at = NoCorpus \/ a.at \in reused \/ a.from = a.asked
      /\ k.tool = "rerank" /\ a.flag => a.count >= RerankMin
      /\ k.tool = "info" => ~a.cut
      /\ a.kind = "error" => a.rows = <<>> /\ a.from = NoCorpus

\* What the comment on the cache says: the index is the corpus's own.
IndexOfCorpus == \A c \in RetrievalCalls : LET a == retrieval[c].answer IN
  retrieval[c].step = "done" /\ a.at # NoCorpus => a.from = a.asked

\* What result_count says: how many results there are.
CountIsRows == \A c \in RetrievalCalls : LET k == retrieval[c] IN
  k.step = "done" /\ k.tool = "bm25" => k.answer.count = Len(k.answer.rows)

\* What EvaluateCoverageTool is not for: no coverage is ever found insufficient.
AlwaysSufficient == \A c \in RetrievalCalls : LET k == retrieval[c] IN
  k.step = "done" /\ k.tool = "evaluate" /\ k.answer.kind = "result" => k.answer.flag
=============================================================================
