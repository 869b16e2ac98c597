--------------------------- MODULE CitationsProofs ---------------------------
(* What is proved of Citations, for drafts of any length, any limit on concurrent *)
(* lookups and any cases CourtListener may know; of AdaptiveRetrieve, for any     *)
(* documents, scores and rounds; of AgenticLoop, for any groups, answers,         *)
(* critics, caps and costs; and of Perception, for any tools, scores and limits.  *)
EXTENDS Citations, AdaptiveRetrieve, AgenticLoop, Perception, FiniteSetTheorems, SequenceTheorems,
  WellFoundedInduction, TLAPS

Stages == {"queued", "browser", "http", "over"}
Verdicts == Statuses \cup {"pending", "raised", "cancelled"}
Lookups == [at : Stages, sent : 0..2, case : Cases \cup {NoCase, NoAnswer}]

\* The types of what the lookups and their caller keep.
Typed ==
  /\ citations \in Seq(Cites)
  /\ setting \in [enabled : BOOLEAN, browser : BOOLEAN]
  /\ lookup \in [Places -> Lookups]
  /\ status \in [Places -> Verdicts]
  /\ gathered.state \in {"waiting", "returned", "raised", "cancelled"}

\* Where a lookup is says what it has done: nothing while it is queued, one request in the
\* browser, and a second one only behind that.
StagesSound ==
  \A c \in Places :
    /\ lookup[c].at = "queued" => lookup[c].sent = 0 /\ status[c] = "pending"
    /\ lookup[c].at \in InFlight =>
         /\ status[c] = "pending" /\ lookup[c].sent > 0
         /\ setting.enabled /\ citations[c].complete
    /\ lookup[c].at = "browser" => lookup[c].sent = 1 /\ setting.browser
    /\ lookup[c].at = "over" => status[c] # "pending"

Limited == Cardinality(Holding) <= MaxConcurrent

\* As long as the caller waits no lookup has raised; what it was given is what there is.
GatherSound ==
  /\ gathered.state = "waiting" => \A c \in Places : status[c] \in Statuses \cup {"pending"}
  /\ gathered.state = "returned" =>
       gathered.results = status /\ \A c \in Places : status[c] \in Statuses

IInv == Typed /\ StagesSound /\ JudgedOnAnswers /\ Limited /\ GatherSound

-----------------------------------------------------------------------------
\* Two years match when they are at most one apart, or one of them is not known.
LEMMA NearLemma ==
  ASSUME NEW a \in Int \cup {NoYear}, NEW b \in Int \cup {NoYear}
  PROVE  Near(a, b) <=> ({a, b} \subseteq Int => a - b <= 1 /\ b - a <= 1)
<1>1. NoYear \notin Int
  BY CitationsAssumption
<1>2. CASE a = NoYear \/ b = NoYear
  BY <1>1, <1>2 DEF Near
<1>3. CASE a # NoYear /\ b # NoYear
  <2>1. a \in Int /\ b \in Int
    BY <1>3
  <2> QED BY <1>3, <2>1 DEF Near
<1> QED BY <1>2, <1>3

\* What Judge says is backed by the answer it judges.
LEMMA JudgeLemma ==
  ASSUME NEW cite \in Cites, NEW case \in Cases \cup {NoCase}
  PROVE  /\ Judge(cite, case) \in Judgments
         /\ Backed(cite, case, Judge(cite, case))
<1>1. CASE case = NoCase
  BY <1>1 DEF Judge, Judgments, Backed
<1>2. CASE case # NoCase
  <2>1. case \in Cases /\ case.year \in Int \cup {NoYear} /\ cite.year \in Int \cup {NoYear}
    BY <1>2, CitationsAssumption DEF Found, Cites
  <2>2. PICK a \in Int \cup {NoYear}, b \in Int \cup {NoYear} : a = cite.year /\ b = case.year
    BY <2>1
  <2>3. Near(a, b) <=> ({a, b} \subseteq Int => a - b <= 1 /\ b - a <= 1)
    BY NearLemma
  <2>4. Agrees(cite, case) <=> ((cite.named => case.name = "same") /\ Near(cite.year, case.year))
    BY <2>2, <2>3, Zenon DEF Agrees
  <2>5. Judge(cite, case) = IF Agrees(cite, case) THEN "verified" ELSE "mismatch"
    BY <1>2, <2>4 DEF Judge
  <2> QED BY <2>1, <2>5 DEF Judgments, Backed
<1> QED BY <1>1, <1>2

\* The lookups in flight are finitely many.
LEMMA HoldingFinite ==
  ASSUME citations \in Seq(Cites)
  PROVE  IsFiniteSet(Holding) /\ Cardinality(Holding) \in Nat
<1>1. Len(citations) \in Nat
  BY LenProperties
<1>2. IsFiniteSet(Places)
  BY <1>1, FS_Interval DEF Places
<1>3. Holding \in SUBSET Places
  BY DEF Holding
<1>4. IsFiniteSet(Holding)
  BY <1>2, <1>3, FS_Subset
<1> QED BY <1>4, FS_CardinalityType

\* Fewer lookups in flight are still within the limit.
LEMMA FewerLemma ==
  ASSUME citations \in Seq(Cites), Limited, NEW T \in SUBSET Holding
  PROVE  Cardinality(T) <= MaxConcurrent
<1>1. IsFiniteSet(Holding) /\ Cardinality(Holding) \in Nat
  BY HoldingFinite
<1>2. IsFiniteSet(T) /\ Cardinality(T) <= Cardinality(Holding)
  BY <1>1, FS_Subset
<1>3. Cardinality(T) \in Nat
  BY <1>2, FS_CardinalityType
<1> QED BY <1>1, <1>2, <1>3, CitationsAssumption DEF Limited

\* A lookup that is concluded leaves the others as they were, and its place to the next.
LEMMA ConcludeLemma ==
  ASSUME IInv, NEW c \in Places, NEW s \in Statuses \cup {"raised"},
         NEW case \in Cases \cup {NoCase, NoAnswer}, Conclude(c, s, case),
         UNCHANGED <<citations, setting>>, lookup[c].at # "over",
         Backed(citations[c], case, s), case # NoAnswer => lookup[c].sent > 0
  PROVE  /\ lookup' \in [Places -> Lookups]' /\ status' \in [Places -> Verdicts]'
         /\ StagesSound' /\ JudgedOnAnswers' /\ Limited'
<1> USE DEF IInv, Typed
<1>1. Places' = Places
  BY DEF Places
<1>2. /\ lookup' = [lookup EXCEPT ![c].at = "over", ![c].case = case]
      /\ status' = [status EXCEPT ![c] = s]
  BY DEF Conclude
<1>3. lookup' \in [Places -> Lookups]' /\ status' \in [Places -> Verdicts]'
  <2>1. "over" \in Stages /\ s \in Verdicts
    BY DEF Stages, Verdicts
  <2>2. [lookup[c] EXCEPT !.at = "over", !.case = case] \in Lookups
    BY <2>1 DEF Lookups
  <2>3. lookup' = [lookup EXCEPT ![c] = [lookup[c] EXCEPT !.at = "over", !.case = case]]
    BY <1>2, Zenon
  <2>4. lookup' \in [Places -> Lookups]
    BY <2>2, <2>3
  <2>5. status' \in [Places -> Verdicts]
    BY <1>2, <2>1
  <2> QED BY <1>1, <2>4, <2>5 DEF Lookups, Stages, Verdicts
<1>4. /\ lookup'[c].at = "over" /\ lookup'[c].case = case /\ lookup'[c].sent = lookup[c].sent
      /\ status'[c] = s
      /\ \A d \in Places \ {c} : lookup'[d] = lookup[d] /\ status'[d] = status[d]
  BY <1>2 DEF Lookups
<1>5. StagesSound'
  <2>1. s # "pending"
    BY DEF Statuses
  <2> QED BY <1>1, <1>4, <2>1 DEF StagesSound, InFlight
<1>6. JudgedOnAnswers'
  <2> SUFFICES ASSUME NEW d \in Places
               PROVE  /\ Backed(citations[d], lookup'[d].case, status'[d])
                      /\ lookup'[d].case # NoAnswer => lookup'[d].sent > 0
                      /\ ~setting.enabled \/ ~citations[d].complete => lookup'[d].sent = 0
                      /\ lookup'[d].sent = 2 => setting.browser
    BY <1>1 DEF JudgedOnAnswers, Backed, Agrees
  <2>1. CASE d = c
    BY <1>4, <2>1 DEF JudgedOnAnswers
  <2>2. CASE d # c
    BY <1>4, <2>2 DEF JudgedOnAnswers
  <2> QED BY <2>1, <2>2
<1>7. Limited'
  <2>1. Holding' = Holding \ {c}
    BY <1>1, <1>4 DEF Holding, InFlight
  <2>2. Holding' \in SUBSET Holding
    BY <2>1
  <2>3. Cardinality(Holding') <= MaxConcurrent
    BY <2>2, FewerLemma
  <2> QED BY <2>3 DEF Limited
<1> QED BY <1>3, <1>5, <1>6, <1>7

\* A draft begins with nothing looked up.
LEMMA InvInit == CiteInit => IInv
<1> SUFFICES ASSUME CiteInit PROVE IInv
  OBVIOUS
<1> USE DEF CiteInit
<1>1. Typed
  BY CitationsAssumption DEF Typed, Lookups, Stages, Verdicts
<1>2. StagesSound /\ JudgedOnAnswers /\ GatherSound
  BY DEF StagesSound, JudgedOnAnswers, Backed, GatherSound, InFlight
<1>3. Holding = {}
  BY DEF Holding, InFlight
<1>4. Limited
  BY <1>3, FS_EmptySet, CitationsAssumption DEF Limited
<1> QED BY <1>1, <1>2, <1>4 DEF IInv

\* Sending a request keeps the types of the lookups.
LEMMA SendLemma ==
  ASSUME NEW looked \in [Places -> Lookups], NEW c \in Places, NEW way \in Stages, NEW n \in 0..2
  PROVE  [looked EXCEPT ![c].at = way, ![c].sent = n] \in [Places -> Lookups]
BY DEF Lookups

\* A queued lookup that takes the semaphore either sends its first request or is over at once.
LEMMA AcquireStep ==
  ASSUME IInv, NEW c \in Places, Acquire(c)
  PROVE  IInv'
<1> USE DEF IInv, Typed
<1>1. Places' = Places /\ UNCHANGED <<citations, setting, gathered>>
  BY DEF Places, Acquire
<1>2. lookup[c].at = "queued" /\ lookup[c].sent = 0 /\ status[c] = "pending"
      /\ gathered.state # "returned"
  <2>1. lookup[c].at = "queued" /\ lookup[c].sent = 0 /\ status[c] = "pending"
    BY DEF Acquire, StagesSound
  <2> QED BY <2>1 DEF GatherSound, Statuses
<1>3. ASSUME NEW s \in {"unreachable", "skipped"}, Conclude(c, s, NoAnswer)
      PROVE  IInv'
  <2>1. s \in Statuses \cup {"raised"} /\ Backed(citations[c], NoAnswer, s)
    BY DEF Statuses, Backed
  <2>2. /\ lookup' \in [Places -> Lookups]' /\ status' \in [Places -> Verdicts]'
        /\ StagesSound' /\ JudgedOnAnswers' /\ Limited'
    BY <1>1, <1>2, <1>3, <2>1, ConcludeLemma
  <2>3. GatherSound'
    BY <1>1, <1>2, <1>3 DEF GatherSound, Conclude, Statuses
  <2> QED BY <1>1, <2>2, <2>3
<1>4. ASSUME setting.enabled, citations[c].complete,
             lookup' = [lookup EXCEPT ![c].at = IF setting.browser THEN "browser" ELSE "http",
                                      ![c].sent = 1],
             UNCHANGED status
      PROVE  IInv'
  <2>1. lookup' \in [Places -> Lookups]
    <3> DEFINE way == IF setting.browser THEN "browser" ELSE "http"
    <3>1. way \in Stages /\ 1 \in 0..2
      BY DEF Stages
    <3>2. lookup' = [lookup EXCEPT ![c].at = way, ![c].sent = 1]
      BY <1>4
    <3> HIDE DEF way
    <3> QED BY <3>1, <3>2, SendLemma
  <2>2. /\ lookup'[c].at = (IF setting.browser THEN "browser" ELSE "http")
        /\ lookup'[c].sent = 1 /\ lookup'[c].case = lookup[c].case
        /\ \A d \in Places \ {c} : lookup'[d] = lookup[d]
    BY <1>4 DEF Lookups
  <2>3. StagesSound'
    BY <1>1, <1>2, <1>4, <2>2 DEF StagesSound, InFlight
  <2>4. JudgedOnAnswers'
    <3> SUFFICES ASSUME NEW d \in Places
                 PROVE  /\ Backed(citations[d], lookup'[d].case, status[d])
                        /\ lookup'[d].case # NoAnswer => lookup'[d].sent > 0
                        /\ ~setting.enabled \/ ~citations[d].complete => lookup'[d].sent = 0
                        /\ lookup'[d].sent = 2 => setting.browser
      BY <1>1, <1>4 DEF JudgedOnAnswers, Backed, Agrees
    <3>1. CASE d = c
      BY <1>2, <1>4, <2>2, <3>1 DEF JudgedOnAnswers
    <3>2. CASE d # c
      BY <2>2, <3>2 DEF JudgedOnAnswers
    <3> QED BY <3>1, <3>2
  <2>5. Limited'
    <3>1. Holding' = Holding \cup {c} /\ c \notin Holding
      BY <1>1, <1>2, <2>2 DEF Holding, InFlight
    <3>2. IsFiniteSet(Holding) /\ Cardinality(Holding) \in Nat
      BY HoldingFinite
    <3>3. Cardinality(Holding \cup {c}) = Cardinality(Holding) + 1
      BY <3>1, <3>2, FS_AddElement
    <3>4. Cardinality(Holding) < MaxConcurrent
      BY DEF Acquire
    <3> QED BY <3>1, <3>2, <3>3, <3>4, CitationsAssumption DEF Limited
  <2>6. GatherSound'
    BY <1>1, <1>4 DEF GatherSound
  <2> QED BY <1>1, <1>4, <2>1, <2>3, <2>4, <2>5, <2>6
<1> QED BY <1>3, <1>4 DEF Acquire

\* A lookup that fails in the browser keeps its place and sends its second request.
LEMMA FallBackStep ==
  ASSUME IInv, NEW c \in Places, FallBack(c)
  PROVE  IInv'
<1> USE DEF IInv, Typed
<1>1. Places' = Places /\ UNCHANGED <<citations, setting, status, gathered>>
  BY DEF Places, FallBack
<1>2. /\ lookup[c].at = "browser" /\ lookup[c].sent = 1 /\ status[c] = "pending"
      /\ setting.browser /\ setting.enabled /\ citations[c].complete
  BY DEF FallBack, StagesSound, InFlight
<1>3. lookup' = [lookup EXCEPT ![c].at = "http", ![c].sent = 2]
  BY <1>2 DEF FallBack, Lookups
<1>4. lookup' \in [Places -> Lookups]
  <2>1. "http" \in Stages /\ 2 \in 0..2
    BY DEF Stages
  <2> QED BY <1>3, <2>1, SendLemma
<1>5. /\ lookup'[c].at = "http" /\ lookup'[c].sent = 2 /\ lookup'[c].case = lookup[c].case
      /\ \A d \in Places \ {c} : lookup'[d] = lookup[d]
  BY <1>3 DEF Lookups
<1>6. StagesSound'
  BY <1>1, <1>2, <1>5 DEF StagesSound, InFlight
<1>7. JudgedOnAnswers'
  <2> SUFFICES ASSUME NEW d \in Places
               PROVE  /\ Backed(citations[d], lookup'[d].case, status[d])
                      /\ lookup'[d].case # NoAnswer => lookup'[d].sent > 0
                      /\ ~setting.enabled \/ ~citations[d].complete => lookup'[d].sent = 0
                      /\ lookup'[d].sent = 2 => setting.browser
    BY <1>1 DEF JudgedOnAnswers, Backed, Agrees
  <2>1. CASE d = c
    BY <1>2, <1>5, <2>1 DEF JudgedOnAnswers
  <2>2. CASE d # c
    BY <1>5, <2>2 DEF JudgedOnAnswers
  <2> QED BY <2>1, <2>2
<1>8. Holding' = Holding
  BY <1>1, <1>2, <1>5 DEF Holding, InFlight
<1> QED BY <1>1, <1>4, <1>6, <1>7, <1>8 DEF Limited, GatherSound

\* What a lookup concludes does not change what its caller has, unless it raises.
LEMMA ConcludeStep ==
  ASSUME IInv, NEW c \in Places, Answered(c) \/ Unreachable(c) \/ LookupRaises(c)
  PROVE  IInv'
<1> USE DEF IInv, Typed
<1>1. Places' = Places /\ UNCHANGED <<citations, setting>>
  BY DEF Places, Answered, Unreachable, LookupRaises
<1>2. /\ lookup[c].at \in InFlight /\ lookup[c].at # "over"
      /\ lookup[c].sent > 0 /\ status[c] = "pending"
  BY DEF Answered, Unreachable, LookupRaises, StagesSound, InFlight
<1>3. gathered.state # "returned"
  BY <1>2 DEF GatherSound, Statuses
<1>4. citations[c] \in Cites
  BY ElementOfSeq DEF Places
<1>5. ASSUME Answered(c) PROVE IInv'
  <2>1. PICK case \in Cases \cup {NoCase} : Conclude(c, Judge(citations[c], case), case)
    BY <1>5 DEF Answered
  <2>2. Judge(citations[c], case) \in Judgments /\ Backed(citations[c], case, Judge(citations[c], case))
    BY <1>4, JudgeLemma
  <2>3. Judge(citations[c], case) \in Statuses \cup {"raised"}
    BY <2>2 DEF Statuses, Judgments
  <2>4. /\ lookup' \in [Places -> Lookups]' /\ status' \in [Places -> Verdicts]'
        /\ StagesSound' /\ JudgedOnAnswers' /\ Limited'
    BY <1>1, <1>2, <2>1, <2>2, <2>3, ConcludeLemma
  <2>5. GatherSound'
    BY <1>1, <1>3, <1>5, <2>1, <2>2 DEF GatherSound, Conclude, Statuses, Judgments, Answered
  <2> QED BY <1>1, <1>5, <2>4, <2>5 DEF Answered
<1>6. ASSUME Unreachable(c) PROVE IInv'
  <2>1. "unreachable" \in Statuses \cup {"raised"} /\ Backed(citations[c], NoAnswer, "unreachable")
    BY DEF Statuses, Backed
  <2>2. /\ lookup' \in [Places -> Lookups]' /\ status' \in [Places -> Verdicts]'
        /\ StagesSound' /\ JudgedOnAnswers' /\ Limited'
    BY <1>1, <1>2, <1>6, <2>1, ConcludeLemma DEF Unreachable
  <2>3. GatherSound'
    BY <1>1, <1>3, <1>6 DEF GatherSound, Conclude, Statuses, Unreachable
  <2> QED BY <1>1, <1>6, <2>2, <2>3 DEF Unreachable
<1>7. ASSUME LookupRaises(c) PROVE IInv'
  <2>1. "raised" \in Statuses \cup {"raised"} /\ Backed(citations[c], NoAnswer, "raised")
    BY DEF Backed
  <2>2. /\ lookup' \in [Places -> Lookups]' /\ status' \in [Places -> Verdicts]'
        /\ StagesSound' /\ JudgedOnAnswers' /\ Limited'
    BY <1>1, <1>2, <1>7, <2>1, ConcludeLemma DEF LookupRaises
  <2>3. gathered'.state \in {"raised", "cancelled"}
    <3>1. CASE gathered.state = "waiting"
      BY <1>7, <3>1 DEF LookupRaises
    <3>2. CASE gathered.state # "waiting"
      BY <1>3, <1>7, <3>2 DEF LookupRaises
    <3> QED BY <3>1, <3>2
  <2>4. GatherSound'
    BY <2>3 DEF GatherSound
  <2> QED BY <1>1, <2>2, <2>3, <2>4
<1> QED BY <1>5, <1>6, <1>7

\* A cancelled turn leaves no lookup in flight, and no judgment it did not have.
LEMMA CancelStep ==
  ASSUME IInv, CancelLookups
  PROVE  IInv'
<1> USE DEF IInv, Typed
<1>1. Places' = Places /\ UNCHANGED <<citations, setting>>
  BY DEF Places, CancelLookups
<1>2. /\ lookup' = [c \in Places |-> [lookup[c] EXCEPT !.at = "over"]]
      /\ status' = [c \in Places |-> IF status[c] = "pending" THEN "cancelled" ELSE status[c]]
      /\ gathered'.state = "cancelled"
  BY DEF CancelLookups
<1>3. \A c \in Places : /\ lookup'[c].at = "over" /\ lookup'[c].sent = lookup[c].sent
                        /\ lookup'[c].case = lookup[c].case
                        /\ status'[c] = status[c] \/ status'[c] = "cancelled"
                        /\ status'[c] # "pending"
  BY <1>2 DEF Lookups
<1>4. lookup' \in [Places -> Lookups] /\ status' \in [Places -> Verdicts]
  BY <1>2 DEF Lookups, Stages, Verdicts
<1>5. StagesSound' /\ GatherSound'
  BY <1>1, <1>2, <1>3 DEF StagesSound, GatherSound, InFlight
<1>6. JudgedOnAnswers'
  <2>1. ASSUME NEW c \in Places PROVE Backed(citations[c], lookup'[c].case, status'[c])
    <3>1. Backed(citations[c], lookup[c].case, status[c])
      BY DEF JudgedOnAnswers
    <3>2. CASE status'[c] = status[c]
      BY <1>3, <3>1, <3>2
    <3>3. CASE status[c] = "pending" /\ status'[c] = "cancelled"
      BY <1>3, <3>1, <3>3 DEF Backed, Judgments
    <3> QED BY <1>2, <3>2, <3>3
  <2> QED BY <1>1, <1>3, <2>1 DEF JudgedOnAnswers, Backed, Agrees
<1>7. Holding' = {}
  BY <1>1, <1>3 DEF Holding, InFlight
<1>8. Limited'
  BY <1>7, FS_EmptySet, CitationsAssumption DEF Limited
<1> QED BY <1>1, <1>2, <1>4, <1>5, <1>6, <1>8

\* What gather returns is what the lookups found, none of them missing.
LEMMA GatherStep ==
  ASSUME IInv, Gather
  PROVE  IInv'
<1> USE DEF IInv, Typed
<1>1. /\ Places' = Places /\ UNCHANGED <<citations, setting, lookup, status>>
      /\ gathered' = [state |-> "returned", results |-> status]
  BY DEF Places, Gather
<1>2. \A c \in Places : status[c] \in Statuses
  BY DEF GatherSound, Gather, Finished
<1> QED BY <1>1, <1>2 DEF StagesSound, JudgedOnAnswers, Backed, Agrees, Limited, Holding, GatherSound

\* Every step of the lookups and of their caller keeps the invariant.
LEMMA InvStep == IInv /\ [CiteNext]_citeVars => IInv'
<1> SUFFICES ASSUME IInv, [CiteNext]_citeVars PROVE IInv'
  OBVIOUS
<1>1. ASSUME UNCHANGED citeVars PROVE IInv'
  BY <1>1 DEF citeVars, IInv, Typed, StagesSound, JudgedOnAnswers, Backed, Agrees, Limited, Holding,
              Places, GatherSound
<1> QED BY <1>1, AcquireStep, FallBackStep, ConcludeStep, CancelStep, GatherStep DEF CiteNext

\* The invariant says what the runs check; a result for every place is a sequence as long as
\* the citations.
LEMMA InvImplies == IInv => CitationsSound
<1> SUFFICES ASSUME IInv PROVE CitationsSound
  OBVIOUS
<1> USE DEF IInv, Typed
<1>1. CiteTypeOK
  BY DEF CiteTypeOK, Lookups, Stages, Verdicts
<1>2. Len(citations) \in Nat
  BY LenProperties
<1>3. status \in [1..Len(citations) -> Verdicts]
  BY DEF Places
<1>4. Len(status) = Len(citations)
  <2>1. status \in Seq(Verdicts)
    BY <1>2, <1>3, SeqDef
  <2>2. Len(status) \in Nat /\ 1..Len(status) = 1..Len(citations)
    BY <1>3, <2>1, LenProperties
  <2> QED BY <1>2, <2>2
<1>5. BoundedInOrder
  BY <1>4 DEF BoundedInOrder, Limited, GatherSound
<1> QED BY <1>1, <1>5 DEF CitationsSound

\* A citation is verified, a mismatch or not found only on an answer that says so, and every
\* answer is judged; there are never more lookups at a time than the limit, and a result for
\* each citation in their order (verify_case_citation, verify_citations_in_text).
THEOREM CitationsSoundHolds == CiteSpec => []CitationsSound
BY InvInit, InvStep, InvImplies, PTL DEF CiteSpec
-----------------------------------------------------------------------------
(* What is proved of AdaptiveRetrieve, for any documents, any scores and any rounds. *)

\* What a retrieval keeps, and where it may be.
RetrievalFields ==
  {"at", "limit", "model", "round", "queries", "seen", "new", "calls", "used", "result",
   "reranked", "reason"}
RetrievalStages ==
  {"idle", "raw", "hybrid", "build", "hyde", "lexicon", "feedback", "suggest", "searching",
   "reflect", "done", "raised"}

\* The types of a retrieval and of what it is put together from.
RetrievalTyped ==
  /\ documents \in Seq([id : ItemIds, text : TextVersions])
  /\ DOMAIN retrieve = RetrievalFields
  /\ retrieve.at \in RetrievalStages
  /\ retrieve.limit \in Nat /\ retrieve.round \in Nat
  /\ retrieve.new \in Nat /\ retrieve.calls \in Nat
  /\ retrieve.model \in BOOLEAN
  /\ reported \subseteq ItemIds \X Nat

\* An item has the best score that was reported of it, and only reported items are seen.
BestScores ==
  /\ \A p \in reported :
       /\ p[1] \in IdsOf(documents) /\ p[1] \in DOMAIN retrieve.seen
       /\ p[2] <= retrieve.seen[p[1]]
  /\ \A id \in DOMAIN retrieve.seen : <<id, retrieve.seen[id]>> \in reported
  /\ retrieve.new = Cardinality(DOMAIN retrieve.seen)

\* The most the model may be asked in a retrieval.
CallLimit(limit, model) ==
  IF limit < 2 THEN 0 ELSE IF limit < 3 THEN 1 ELSE (limit - 1) + (IF model THEN 2 ELSE 0)

\* What the model was asked so far, by where the retrieval is: not before the HyDE passage,
\* once for that, once for each round of suggestions from the third on, twice to reflect.
CallsSoFar ==
  /\ retrieve.at \in {"idle", "raw", "hybrid"} => retrieve.calls = 0
  /\ retrieve.at = "hyde" => retrieve.calls = 0 /\ retrieve.limit >= 2
  /\ retrieve.at \in {"lexicon", "feedback"} => retrieve.calls <= 1 /\ retrieve.limit >= 2
  /\ retrieve.at = "suggest" =>
       retrieve.limit >= 3 /\ 3 <= retrieve.round /\ retrieve.round <= retrieve.limit + 1
         /\ retrieve.calls <= retrieve.round - 2
  /\ retrieve.at = "searching" =>
       retrieve.limit >= 3 /\ 3 <= retrieve.round /\ retrieve.round <= retrieve.limit
         /\ retrieve.calls <= retrieve.round - 1
  /\ retrieve.at = "reflect" =>
       retrieve.limit >= 3 /\ retrieve.model /\ retrieve.round <= 2
         /\ retrieve.calls <= retrieve.limit - 1 + retrieve.round
  /\ retrieve.at \in {"build", "done", "raised"} =>
       retrieve.calls <= CallLimit(retrieve.limit, retrieve.model)

\* What is returned: every item seen, once, and the better first.
ResultSound ==
  retrieve.at = "done" =>
    /\ Range(retrieve.result) = DOMAIN retrieve.seen /\ IsInjective(retrieve.result)
    /\ retrieve.reranked \/
         \A i \in 1..(Len(retrieve.result) - 1) :
           retrieve.seen[retrieve.result[i]] >= retrieve.seen[retrieve.result[i + 1]]

RetrieveInv == RetrievalTyped /\ BestScores /\ CallsSoFar /\ ResultSound

-----------------------------------------------------------------------------
\* The greatest number of a set that has one.
LEMMA MaxIs ==
  ASSUME NEW T, T \subseteq Nat, NEW m \in T, \A n \in T : n <= m
  PROVE  Max(T) = m
<1>1. \A y \in T : m >= y
  OBVIOUS
<1>2. Max(T) \in T /\ \A y \in T : Max(T) >= y
  BY <1>1 DEF Max
<1>3. Max(T) \in Nat /\ m \in Nat /\ Max(T) >= m /\ Max(T) <= m
  BY <1>2
<1> QED BY <1>3

\* A merge keeps the better of two scores of an item, and has no other score.
MergeSound(seen, hits) ==
  /\ DOMAIN Merged(seen, hits) = DOMAIN seen \cup DOMAIN hits
  /\ \A id \in DOMAIN seen \cup DOMAIN hits :
       /\ Merged(seen, hits)[id] \in Nat
       /\ id \in DOMAIN seen => seen[id] <= Merged(seen, hits)[id]
       /\ id \in DOMAIN hits => hits[id] <= Merged(seen, hits)[id]
       /\ \/ id \in DOMAIN seen /\ Merged(seen, hits)[id] = seen[id]
          \/ id \in DOMAIN hits /\ Merged(seen, hits)[id] = hits[id]

LEMMA MergedLemma ==
  ASSUME NEW seen, NEW hits, \A id \in DOMAIN seen : seen[id] \in Nat,
         \A id \in DOMAIN hits : hits[id] \in Nat
  PROVE  MergeSound(seen, hits)
<1>1. DOMAIN Merged(seen, hits) = DOMAIN seen \cup DOMAIN hits
  BY DEF Merged
<1>2. ASSUME NEW id \in DOMAIN seen \cup DOMAIN hits
      PROVE  /\ Merged(seen, hits)[id] \in Nat
             /\ id \in DOMAIN seen => seen[id] <= Merged(seen, hits)[id]
             /\ id \in DOMAIN hits => hits[id] <= Merged(seen, hits)[id]
             /\ \/ id \in DOMAIN seen /\ Merged(seen, hits)[id] = seen[id]
                \/ id \in DOMAIN hits /\ Merged(seen, hits)[id] = hits[id]
  <2> DEFINE T == (IF id \in DOMAIN seen THEN {seen[id]} ELSE {})
                    \cup (IF id \in DOMAIN hits THEN {hits[id]} ELSE {})
  <2>1. Merged(seen, hits)[id] = Max(T)
    BY DEF Merged
  <2>2. T \subseteq Nat
    OBVIOUS
  <2>3. CASE id \in DOMAIN seen /\ (id \in DOMAIN hits => hits[id] <= seen[id])
    <3>1. seen[id] \in T /\ \A n \in T : n <= seen[id]
      BY <2>3
    <3>2. Max(T) = seen[id]
      BY <2>2, <3>1, MaxIs
    <3> QED BY <2>1, <2>3, <3>2
  <2>4. CASE id \in DOMAIN hits /\ (id \in DOMAIN seen => seen[id] <= hits[id])
    <3>1. hits[id] \in T /\ \A n \in T : n <= hits[id]
      BY <2>4
    <3>2. Max(T) = hits[id]
      BY <2>2, <3>1, MaxIs
    <3> QED BY <2>1, <2>4, <3>2
  <2> QED BY <2>3, <2>4
<1> QED BY <1>1, <1>2 DEF MergeSound

\* There are finitely many documents.
LEMMA FiniteIds ==
  ASSUME documents \in Seq([id : ItemIds, text : TextVersions])
  PROVE  IsFiniteSet(IdsOf(documents)) /\ IdsOf(documents) \subseteq ItemIds
<1> DEFINE n == Len(documents)
           f == [i \in 1..n |-> documents[i].id]
<1>1. n \in Nat /\ DOMAIN documents = 1..n
      /\ \A i \in 1..n : documents[i] \in [id : ItemIds, text : TextVersions]
  BY LenProperties
<1>2. f \in Surjection(1..n, IdsOf(documents))
  BY <1>1 DEF IdsOf, Surjection
<1>3. IsFiniteSet(1..n)
  <2>1. 1 \in Int /\ n \in Int
    BY <1>1
  <2> HIDE DEF n
  <2> QED BY <2>1, FS_Interval
<1>4. IsFiniteSet(IdsOf(documents))
  BY <1>2, <1>3, FS_Surjection
<1>5. IdsOf(documents) \subseteq ItemIds
  BY <1>1 DEF IdsOf
<1> QED BY <1>4, <1>5

\* What a step of a retrieval may set of it directly.
Steered == RetrievalFields \ {"seen", "new", "limit", "model"}

\* What a step has set of a retrieval, and what is seen is as sound as it was.
Advanced(gives) ==
  /\ DOMAIN retrieve' = RetrievalFields
  /\ \A f \in RetrievalFields \ {"seen", "new"} :
       retrieve'[f] = IF f \in DOMAIN gives THEN gives[f] ELSE retrieve[f]
  /\ retrieve'.new \in Nat /\ reported' \subseteq ItemIds \X Nat
  /\ documents' = documents
  /\ BestScores'

LEMMA GoesToAdvances ==
  ASSUME RetrievalTyped, BestScores, NEW gives, DOMAIN gives \subseteq Steered, GoesTo(gives)
  PROVE  Advanced(gives) /\ retrieve'.seen = retrieve.seen
<1>1. /\ DOMAIN retrieve' = RetrievalFields
      /\ \A f \in RetrievalFields :
           retrieve'[f] = IF f \in DOMAIN gives THEN gives[f] ELSE retrieve[f]
  BY DEF GoesTo, Proceed, With, RetrievalTyped
<1>2. /\ "seen" \in RetrievalFields /\ "seen" \notin DOMAIN gives
      /\ "new" \in RetrievalFields /\ "new" \notin DOMAIN gives
  BY DEF Steered, RetrievalFields
<1>3. retrieve'.seen = retrieve.seen /\ retrieve'.new = retrieve.new
  BY <1>1, <1>2
<1>4. UNCHANGED <<documents, reported>>
  BY DEF GoesTo
<1>5. BestScores'
  BY <1>3, <1>4 DEF BestScores, IdsOf
<1> QED BY <1>1, <1>3, <1>4, <1>5 DEF Advanced, RetrievalTyped

LEMMA RoundAdvances ==
  ASSUME RetrievalTyped, BestScores, NEW S, S \subseteq Nat, NEW hits \in SearchHits(S),
         NEW gives, DOMAIN gives \subseteq Steered, Round(hits, gives)
  PROVE  Advanced(gives)
<1> DEFINE seen == retrieve.seen
           D == DOMAIN hits
           joint == Merged(seen, hits)
<1>1. D \subseteq IdsOf(documents) /\ \A id \in D : hits[id] \in Nat
  <2>1. PICK ids \in SUBSET IdsOf(documents) : hits \in [ids -> S]
    BY DEF SearchHits
  <2> QED BY <2>1
<1>2. \A id \in DOMAIN seen : <<id, seen[id]>> \in reported /\ seen[id] \in Nat
                                /\ id \in ItemIds /\ id \in IdsOf(documents)
  <2>1. TAKE id \in DOMAIN seen
  <2>2. <<id, seen[id]>> \in reported /\ <<id, seen[id]>> \in ItemIds \X Nat
    BY DEF BestScores, RetrievalTyped
  <2>3. <<id, seen[id]>>[1] \in IdsOf(documents)
    BY <2>2 DEF BestScores
  <2> QED BY <2>2, <2>3
<1>3. IsFiniteSet(IdsOf(documents)) /\ IdsOf(documents) \subseteq ItemIds
  BY FiniteIds DEF RetrievalTyped
<1>4. /\ DOMAIN joint = DOMAIN seen \cup D
      /\ \A id \in DOMAIN seen \cup D :
           /\ joint[id] \in Nat
           /\ id \in DOMAIN seen => seen[id] <= joint[id]
           /\ id \in D => hits[id] <= joint[id]
           /\ \/ id \in DOMAIN seen /\ joint[id] = seen[id]
              \/ id \in D /\ joint[id] = hits[id]
  <2>1. /\ \A id \in DOMAIN retrieve.seen : retrieve.seen[id] \in Nat
        /\ \A id \in DOMAIN hits : hits[id] \in Nat
    BY <1>1, <1>2
  <2>2. MergeSound(retrieve.seen, hits)
    BY <2>1, MergedLemma, Zenon
  <2> QED BY <2>2, Zenon DEF MergeSound
<1>5. /\ DOMAIN retrieve' = RetrievalFields
      /\ \A f \in RetrievalFields \ {"seen", "new"} :
           retrieve'[f] = IF f \in DOMAIN gives THEN gives[f] ELSE retrieve[f]
  BY DEF Round, With, RetrievalTyped
<1>6. retrieve'.seen = joint /\ retrieve'.new = retrieve.new + Cardinality(D \ DOMAIN seen)
  <2>1. /\ "seen" \in RetrievalFields /\ "seen" \notin DOMAIN gives
        /\ "new" \in RetrievalFields /\ "new" \notin DOMAIN gives
    BY DEF Steered, RetrievalFields
  <2> QED BY <2>1 DEF Round, With, RetrievalTyped
<1>7. documents' = documents /\ reported' = reported \cup {<<id, hits[id]>> : id \in D}
  BY DEF Round
<1>8. /\ IsFiniteSet(DOMAIN seen) /\ IsFiniteSet(D \ DOMAIN seen)
      /\ Cardinality(DOMAIN seen) \in Nat /\ Cardinality(D \ DOMAIN seen) \in Nat
  <2>1. DOMAIN seen \in SUBSET IdsOf(documents) /\ (D \ DOMAIN seen) \in SUBSET IdsOf(documents)
    BY <1>1, <1>2
  <2>2. IsFiniteSet(DOMAIN seen) /\ IsFiniteSet(D \ DOMAIN seen)
    BY <2>1, <1>3, FS_Subset
  <2> QED BY <2>2, FS_CardinalityType
<1>9. retrieve'.new \in Nat /\ retrieve'.new = Cardinality(DOMAIN joint)
  <2>1. /\ Cardinality(DOMAIN seen \cup (D \ DOMAIN seen)) =
             Cardinality(DOMAIN seen) + Cardinality(D \ DOMAIN seen)
               - Cardinality(DOMAIN seen \cap (D \ DOMAIN seen))
    BY <1>8, FS_Union
  <2>2. DOMAIN seen \cap (D \ DOMAIN seen) = {} /\ Cardinality({}) = 0
    BY FS_EmptySet
  <2>3. DOMAIN joint = DOMAIN seen \cup (D \ DOMAIN seen)
    BY <1>4
  <2>4. retrieve.new = Cardinality(DOMAIN seen)
    BY DEF BestScores
  <2>5. PICK a \in Nat, b \in Nat :
          a = Cardinality(DOMAIN seen) /\ b = Cardinality(D \ DOMAIN seen)
    BY <1>8
  <2>6. Cardinality(DOMAIN joint) = a + b
    <3> HIDE DEF joint, seen, D
    <3>1. Cardinality(DOMAIN joint) = a + b - 0
      BY <2>1, <2>2, <2>3, <2>5
    <3> QED BY <3>1
  <2>7. retrieve'.new = a + b
    BY <1>6, <2>4, <2>5
  <2> QED BY <2>6, <2>7
<1>10. reported' \subseteq ItemIds \X Nat
  BY <1>1, <1>3, <1>7 DEF RetrievalTyped
<1>11. ASSUME NEW p \in reported'
       PROVE  p[1] \in IdsOf(documents) /\ p[1] \in DOMAIN joint /\ p[2] <= joint[p[1]]
  <2>1. CASE p \in reported
    <3>1. p[1] \in IdsOf(documents) /\ p[1] \in DOMAIN seen /\ p[2] <= seen[p[1]] /\ p[2] \in Nat
      BY <2>1 DEF BestScores, RetrievalTyped
    <3>2. /\ p[1] \in DOMAIN joint /\ joint[p[1]] \in Nat /\ seen[p[1]] \in Nat
          /\ seen[p[1]] <= joint[p[1]]
      BY <3>1, <1>2, <1>4
    <3>3. PICK a \in Nat, b \in Nat, c \in Nat : a = p[2] /\ b = seen[p[1]] /\ c = joint[p[1]]
      BY <3>1, <3>2
    <3>4. a <= c
      BY <3>1, <3>2, <3>3
    <3> QED BY <3>1, <3>2, <3>3, <3>4
  <2>2. CASE p \in {<<id, hits[id]>> : id \in D}
    <3>1. PICK id \in D : p = <<id, hits[id]>>
      BY <2>2
    <3>2. p[1] = id /\ p[2] = hits[id]
      BY <3>1
    <3> QED BY <3>2, <1>1, <1>4
  <2> QED BY <2>1, <2>2, <1>7
<1>12. ASSUME NEW id \in DOMAIN joint PROVE <<id, joint[id]>> \in reported'
  <2>1. CASE id \in DOMAIN seen /\ joint[id] = seen[id]
    BY <2>1, <1>2, <1>7
  <2>2. CASE id \in D /\ joint[id] = hits[id]
    BY <2>2, <1>7
  <2> QED BY <2>1, <2>2, <1>4
<1>13. BestScores'
  <2> HIDE DEF joint
  <2> QED BY <1>6, <1>7, <1>9, <1>11, <1>12 DEF BestScores, IdsOf
<1> QED BY <1>5, <1>7, <1>9, <1>10, <1>13 DEF Advanced

\* A permutation of a finite set has each member once.
LEMMA PermutationLemma ==
  ASSUME NEW T, IsFiniteSet(T), NEW r \in SetToSeqs(T)
  PROVE  /\ Range(r) = T /\ IsInjective(r)
         /\ Len(r) \in Nat /\ DOMAIN r = 1..Len(r) /\ \A i \in DOMAIN r : r[i] \in T
<1> DEFINE n == Cardinality(T)
<1>1. n \in Nat
  BY FS_CardinalityType
<1>2. r \in [1..n -> T] /\ \A i, j \in 1..n : i # j => r[i] # r[j]
  BY DEF SetToSeqs
<1>3. r \in Injection(1..n, T)
  BY <1>2 DEF Injection, IsInjective
<1>4. Cardinality(1..n) = Cardinality(T)
  <2>1. 1 \in Int /\ n \in Int /\ (1 > n => n = 0)
    BY <1>1
  <2>2. Cardinality(1..n) = IF 1 > n THEN 0 ELSE n - 1 + 1
    <3> HIDE DEF n
    <3> QED BY <2>1, FS_Interval
  <2> QED BY <1>1, <2>1, <2>2
<1>5. r \in Surjection(1..n, T)
  BY <1>3, <1>4, FS_Injection
<1>6. Range(r) = T /\ IsInjective(r)
  BY <1>2, <1>5 DEF Range, IsInjective, Surjection
<1>7. r \in Seq(T)
  <2> HIDE DEF n
  <2> QED BY <1>1, <1>2, SeqDef
<1>8. Len(r) \in Nat /\ DOMAIN r = 1..Len(r)
  BY <1>7, LenProperties
<1> QED BY <1>2, <1>6, <1>8

\* The items by score, or in any order when they were reranked.
LEMMA BuildSound ==
  ASSUME RetrieveInv, Build
  PROVE  RetrieveInv'
<1> USE DEF RetrieveInv
<1>1. IsFiniteSet(DOMAIN retrieve.seen)
  <2>1. DOMAIN retrieve.seen \in SUBSET IdsOf(documents)
    <3>1. ASSUME NEW id \in DOMAIN retrieve.seen PROVE id \in IdsOf(documents)
      <4>1. <<id, retrieve.seen[id]>>[1] \in IdsOf(documents)
        BY DEF BestScores
      <4> QED BY <4>1
    <3> QED BY <3>1
  <2> QED BY <2>1, FiniteIds, FS_Subset DEF RetrievalTyped
<1>2. retrieve.at = "build"
  BY DEF Build
<1>3. PICK r, gives :
        /\ r \in SetToSeqs(DOMAIN retrieve.seen)
        /\ DOMAIN gives \subseteq Steered /\ GoesTo(gives)
        /\ "at" \in DOMAIN gives /\ gives.at = "done"
        /\ "result" \in DOMAIN gives /\ gives.result = r
        /\ {"limit", "model", "round", "calls"} \cap DOMAIN gives = {}
        /\ \/ \A i, j \in DOMAIN r : i < j => retrieve.seen[r[i]] >= retrieve.seen[r[j]]
           \/ "reranked" \in DOMAIN gives /\ gives.reranked = TRUE
  <2>1. CASE \E r \in Sorted(retrieve.seen) :
               GoesTo([at |-> "done", result |-> r, reason |-> "max_rounds"])
    <3>1. PICK r \in Sorted(retrieve.seen) :
            GoesTo([at |-> "done", result |-> r, reason |-> "max_rounds"])
      BY <2>1
    <3>2. /\ r \in SetToSeqs(DOMAIN retrieve.seen)
          /\ \A i, j \in DOMAIN r : i < j => retrieve.seen[r[i]] >= retrieve.seen[r[j]]
      BY DEF Sorted
    <3> DEFINE gives == [at |-> "done", result |-> r, reason |-> "max_rounds"]
    <3>3. /\ DOMAIN gives = {"at", "result", "reason"} /\ DOMAIN gives \subseteq Steered
          /\ gives.at = "done" /\ gives.result = r
          /\ {"limit", "model", "round", "calls"} \cap DOMAIN gives = {}
      BY DEF Steered, RetrievalFields
    <3> QED BY <3>1, <3>2, <3>3
  <2>2. CASE \E r \in SetToSeqs(DOMAIN retrieve.seen) :
               GoesTo([at |-> "done", result |-> r, reranked |-> TRUE, reason |-> "max_rounds"])
    <3>1. PICK r \in SetToSeqs(DOMAIN retrieve.seen) :
            GoesTo([at |-> "done", result |-> r, reranked |-> TRUE, reason |-> "max_rounds"])
      BY <2>2
    <3> DEFINE gives == [at |-> "done", result |-> r, reranked |-> TRUE, reason |-> "max_rounds"]
    <3>3. /\ DOMAIN gives = {"at", "result", "reason", "reranked"} /\ DOMAIN gives \subseteq Steered
          /\ gives.at = "done" /\ gives.result = r /\ gives.reranked = TRUE
          /\ {"limit", "model", "round", "calls"} \cap DOMAIN gives = {}
      BY DEF Steered, RetrievalFields
    <3> QED BY <3>1, <3>3
  <2> QED BY <2>1, <2>2 DEF Build
<1>4. Advanced(gives) /\ retrieve'.seen = retrieve.seen
  BY <1>3, GoesToAdvances
<1>5. /\ retrieve'.at = "done" /\ retrieve'.result = r
      /\ retrieve'.limit = retrieve.limit /\ retrieve'.model = retrieve.model
      /\ retrieve'.round = retrieve.round /\ retrieve'.calls = retrieve.calls
      /\ "reranked" \in DOMAIN gives => retrieve'.reranked = gives.reranked
  BY <1>3, <1>4 DEF Advanced, RetrievalFields
<1>6. /\ Range(r) = DOMAIN retrieve.seen /\ IsInjective(r)
      /\ Len(r) \in Nat /\ DOMAIN r = 1..Len(r)
  BY <1>1, <1>3, PermutationLemma
<1>7. ResultSound'
  <2>1. CASE \A i, j \in DOMAIN r : i < j => retrieve.seen[r[i]] >= retrieve.seen[r[j]]
    <3>1. \A i \in 1..(Len(r) - 1) : i \in DOMAIN r /\ i + 1 \in DOMAIN r /\ i < i + 1
      BY <1>6
    <3> QED BY <2>1, <3>1, <1>4, <1>5, <1>6 DEF ResultSound
  <2>2. CASE "reranked" \in DOMAIN gives /\ gives.reranked = TRUE
    BY <2>2, <1>4, <1>5, <1>6 DEF ResultSound
  <2> QED BY <1>3, <2>1, <2>2
<1>8. CallsSoFar'
  BY <1>2, <1>5 DEF CallsSoFar
<1>9. RetrievalTyped'
  BY <1>4, <1>5 DEF RetrievalTyped, Advanced, RetrievalStages
<1> QED BY <1>4, <1>7, <1>8, <1>9 DEF Advanced

\* A step that does not end the retrieval, where the model was not asked too often.
LEMMA StepSound ==
  ASSUME RetrieveInv, NEW gives, DOMAIN gives \subseteq Steered,
         Advanced(gives),
         retrieve'.at \in RetrievalStages \ {"done"},
         retrieve'.round \in Nat, retrieve'.calls \in Nat, CallsSoFar'
  PROVE  RetrieveInv'
<1>1. retrieve'.limit = retrieve.limit /\ retrieve'.model = retrieve.model
  BY DEF Advanced, Steered, RetrievalFields
<1>2. ResultSound'
  BY DEF ResultSound
<1>3. RetrievalTyped'
  BY <1>1 DEF RetrieveInv, RetrievalTyped, Advanced
<1> QED BY <1>2, <1>3 DEF RetrieveInv, Advanced

\* A step of a retrieval: a search and its merge, or none.
Steps(gives) ==
  GoesTo(gives) \/ \E hits \in SearchHits(Scores) \cup SearchHits({0}) : Round(hits, gives)

LEMMA StepsAdvance ==
  ASSUME RetrieveInv, NEW gives, DOMAIN gives \subseteq Steered, Steps(gives)
  PROVE  Advanced(gives)
<1>1. CASE GoesTo(gives)
  BY <1>1, GoesToAdvances DEF RetrieveInv
<1>2. ASSUME NEW hits \in SearchHits(Scores), Round(hits, gives) PROVE Advanced(gives)
  <2>1. Scores \subseteq Nat
    BY AdaptiveAssumption
  <2> QED BY <1>2, <2>1, RoundAdvances DEF RetrieveInv
<1>3. ASSUME NEW hits \in SearchHits({0}), Round(hits, gives) PROVE Advanced(gives)
  <2>1. {0} \subseteq Nat
    OBVIOUS
  <2> QED BY <1>3, <2>1, RoundAdvances DEF RetrieveInv
<1> QED BY <1>1, <1>2, <1>3 DEF Steps

LEMMA RawSound ==
  ASSUME RetrieveInv, Raw PROVE RetrieveInv'
<1> DEFINE gives == [at |-> "hybrid"]
<1>1. DOMAIN gives = {"at"} /\ DOMAIN gives \subseteq Steered /\ gives.at = "hybrid"
  BY DEF Steered, RetrievalFields
<1>2. Steps(gives)
  BY DEF Raw, To, Steps
<1>3. Advanced(gives)
  BY <1>1, <1>2, StepsAdvance
<1>4. retrieve'.at = "hybrid" /\ retrieve'.round = retrieve.round /\ retrieve'.calls = retrieve.calls
  BY <1>1, <1>3 DEF Advanced, RetrievalFields
<1>5. CallsSoFar'
  BY <1>4 DEF Raw, RetrieveInv, CallsSoFar
<1> QED BY <1>1, <1>3, <1>4, <1>5, StepSound DEF RetrieveInv, RetrievalTyped, RetrievalStages

LEMMA HybridSound ==
  ASSUME RetrieveInv, Hybrid PROVE RetrieveInv'
<1>1. retrieve.at = "hybrid"
  BY DEF Hybrid
<1>2. PICK gives : /\ DOMAIN gives \subseteq Steered /\ Steps(gives)
                   /\ "at" \in DOMAIN gives /\ gives.at = AfterHybrid
                   /\ {"round", "calls"} \cap DOMAIN gives = {}
  <2>1. CASE GoesTo(To(AfterHybrid))
    <3>1. DOMAIN To(AfterHybrid) = {"at"} /\ To(AfterHybrid).at = AfterHybrid
      BY DEF To
    <3> QED BY <2>1, <3>1 DEF Steps, Steered, RetrievalFields
  <2>2. CASE \E hits \in SearchHits({0}) :
               Round(hits, [at |-> AfterHybrid,
                            used |-> IF Cached(documents) THEN embeddings[KeyOf(documents)]
                                     ELSE TextOf(documents)])
    <3> DEFINE n == [at |-> AfterHybrid,
                     used |-> IF Cached(documents) THEN embeddings[KeyOf(documents)]
                              ELSE TextOf(documents)]
    <3>1. DOMAIN n = {"at", "used"} /\ n.at = AfterHybrid
      OBVIOUS
    <3>2. Steps(n)
      BY <2>2 DEF Steps
    <3> HIDE DEF n
    <3> QED BY <3>1, <3>2 DEF Steered, RetrievalFields
  <2> QED BY <2>1, <2>2 DEF Hybrid
<1>3. Advanced(gives)
  BY <1>2, StepsAdvance
<1>4. /\ retrieve'.at = AfterHybrid /\ retrieve'.round = retrieve.round
      /\ retrieve'.calls = retrieve.calls
      /\ retrieve'.limit = retrieve.limit /\ retrieve'.model = retrieve.model
  BY <1>2, <1>3 DEF Advanced, RetrievalFields, Steered
<1>5. CallsSoFar' /\ retrieve'.at \in RetrievalStages \ {"done"}
  BY <1>1, <1>4 DEF RetrieveInv, RetrievalTyped, CallsSoFar, AfterHybrid, CallLimit, RetrievalStages
<1>6. retrieve'.round \in Nat /\ retrieve'.calls \in Nat
  BY <1>4 DEF RetrieveInv, RetrievalTyped
<1> QED BY <1>2, <1>3, <1>5, <1>6, StepSound

LEMMA HydeSound ==
  ASSUME RetrieveInv, Hyde PROVE RetrieveInv'
<1> DEFINE gives == [at |-> "lexicon", calls |-> retrieve.calls + 1]
<1>1. /\ DOMAIN gives = {"at", "calls"} /\ DOMAIN gives \subseteq Steered
      /\ gives.at = "lexicon" /\ gives.calls = retrieve.calls + 1
  BY DEF Steered, RetrievalFields
<1>2. Steps(gives)
  BY DEF Hyde, Steps
<1>3. Advanced(gives)
  BY <1>1, <1>2, StepsAdvance
<1>4. /\ retrieve'.at = "lexicon" /\ retrieve'.round = retrieve.round
      /\ retrieve'.calls = retrieve.calls + 1 /\ retrieve'.limit = retrieve.limit
  BY <1>1, <1>3 DEF Advanced, RetrievalFields
<1>5. CallsSoFar'
  BY <1>4 DEF Hyde, RetrieveInv, CallsSoFar
<1>6. /\ retrieve'.at \in RetrievalStages \ {"done"}
      /\ retrieve'.round \in Nat /\ retrieve'.calls \in Nat
  BY <1>4, <1>5 DEF RetrieveInv, RetrievalTyped, RetrievalStages
<1> QED BY <1>1, <1>3, <1>5, <1>6, StepSound

LEMMA TimesOutSound ==
  ASSUME RetrieveInv, ModelTimesOut PROVE RetrieveInv'
<1> DEFINE gives == To("raised")
<1>1. DOMAIN gives = {"at"} /\ DOMAIN gives \subseteq Steered /\ gives.at = "raised"
  BY DEF Steered, RetrievalFields, To
<1>2. Steps(gives)
  BY DEF ModelTimesOut, Steps
<1>3. Advanced(gives)
  BY <1>1, <1>2, StepsAdvance
<1>4. /\ retrieve'.at = "raised" /\ retrieve'.round = retrieve.round
      /\ retrieve'.calls = retrieve.calls /\ retrieve'.limit = retrieve.limit
      /\ retrieve'.model = retrieve.model
  BY <1>1, <1>3 DEF Advanced, RetrievalFields
<1>5. CallsSoFar'
  BY <1>4 DEF ModelTimesOut, RetrieveInv, RetrievalTyped, CallsSoFar, CallLimit
<1> QED BY <1>1, <1>3, <1>4, <1>5, StepSound DEF RetrieveInv, RetrievalTyped, RetrievalStages

LEMMA LexiconSound ==
  ASSUME RetrieveInv, Lexicon PROVE RetrieveInv'
<1>1. retrieve.at = "lexicon"
  BY DEF Lexicon
<1>2. PICK gives : /\ DOMAIN gives \subseteq Steered /\ Steps(gives)
                   /\ "at" \in DOMAIN gives => gives.at = "feedback"
                   /\ {"round", "calls"} \cap DOMAIN gives = {}
  <2>1. CASE \E hits \in SearchHits(Scores) : Round(hits, [queries |-> retrieve.queries + 1])
    <3> DEFINE n == [queries |-> retrieve.queries + 1]
    <3>1. DOMAIN n = {"queries"} /\ Steps(n)
      BY <2>1 DEF Steps
    <3> HIDE DEF n
    <3> QED BY <3>1 DEF Steered, RetrievalFields
  <2>2. CASE GoesTo([at |-> "feedback", queries |-> 0])
    <3> DEFINE n == [at |-> "feedback", queries |-> 0]
    <3>1. DOMAIN n = {"at", "queries"} /\ n.at = "feedback" /\ Steps(n)
      BY <2>2 DEF Steps
    <3> HIDE DEF n
    <3> QED BY <3>1 DEF Steered, RetrievalFields
  <2> QED BY <2>1, <2>2 DEF Lexicon
<1>3. Advanced(gives)
  BY <1>2, StepsAdvance
<1>4. /\ retrieve'.at \in {"lexicon", "feedback"} /\ retrieve'.round = retrieve.round
      /\ retrieve'.calls = retrieve.calls /\ retrieve'.limit = retrieve.limit
  <2>1. /\ retrieve'.at = (IF "at" \in DOMAIN gives THEN gives.at ELSE retrieve.at)
        /\ retrieve'.round = retrieve.round
        /\ retrieve'.calls = retrieve.calls /\ retrieve'.limit = retrieve.limit
    BY <1>2, <1>3 DEF Advanced, RetrievalFields, Steered
  <2> QED BY <1>1, <1>2, <2>1
<1>5. CallsSoFar'
  BY <1>1, <1>4 DEF RetrieveInv, CallsSoFar
<1> QED BY <1>2, <1>3, <1>4, <1>5, StepSound DEF RetrieveInv, RetrievalTyped, RetrievalStages

LEMMA FeedbackSound ==
  ASSUME RetrieveInv, Feedback PROVE RetrieveInv'
<1> DEFINE gives == [at |-> AfterFeedback, round |-> 3]
<1>1. /\ DOMAIN gives = {"at", "round"} /\ DOMAIN gives \subseteq Steered
      /\ gives.at = AfterFeedback /\ gives.round = 3
  BY DEF Steered, RetrievalFields
<1>2. Steps(gives)
  BY DEF Feedback, Steps
<1>3. Advanced(gives)
  BY <1>1, <1>2, StepsAdvance
<1>4. /\ retrieve'.at = AfterFeedback /\ retrieve'.round = 3
      /\ retrieve'.calls = retrieve.calls /\ retrieve'.limit = retrieve.limit
      /\ retrieve'.model = retrieve.model
  BY <1>1, <1>3 DEF Advanced, RetrievalFields
<1>5. CallsSoFar' /\ retrieve'.at \in {"build", "suggest"}
  BY <1>4 DEF Feedback, RetrieveInv, RetrievalTyped, CallsSoFar, CallLimit, AfterFeedback
<1>6. /\ retrieve'.at \in RetrievalStages \ {"done"}
      /\ retrieve'.round \in Nat /\ retrieve'.calls \in Nat
  BY <1>4, <1>5 DEF RetrieveInv, RetrievalTyped, RetrievalStages
<1> QED BY <1>1, <1>3, <1>5, <1>6, StepSound

LEMMA SuggestSound ==
  ASSUME RetrieveInv, Suggest PROVE RetrieveInv'
<1> DEFINE after == IF retrieve.model THEN "reflect" ELSE "build"
<1>1. retrieve.at = "suggest"
  BY DEF Suggest
<1>2. PICK gives :
        /\ DOMAIN gives \subseteq Steered /\ Steps(gives) /\ "at" \in DOMAIN gives
        /\ \/ /\ retrieve.round <= retrieve.limit /\ gives.at = "searching"
              /\ "calls" \in DOMAIN gives /\ gives.calls = retrieve.calls + 1
              /\ "round" \notin DOMAIN gives
           \/ /\ gives.at = after /\ "round" \in DOMAIN gives /\ gives.round = 0
              /\ \/ "calls" \notin DOMAIN gives
                 \/ /\ retrieve.round <= retrieve.limit
                    /\ "calls" \in DOMAIN gives /\ gives.calls = retrieve.calls + 1
  <2>1. retrieve.round \in Nat /\ retrieve.limit \in Nat
    BY DEF RetrieveInv, RetrievalTyped
  <2>2. CASE retrieve.round > retrieve.limit
    <3> DEFINE n == [at |-> after, round |-> 0]
    <3>1. DOMAIN n = {"at", "round"} /\ n.at = after /\ n.round = 0 /\ Steps(n)
      BY <2>2 DEF Steps, Suggest
    <3> HIDE DEF n
    <3> QED BY <3>1 DEF Steered, RetrievalFields
  <2>3. CASE ~(retrieve.round > retrieve.limit)
    <3>1. retrieve.round <= retrieve.limit
      BY <2>1, <2>3
    <3>2. CASE GoesTo([at |-> "searching", queries |-> 1, calls |-> retrieve.calls + 1])
      <4> DEFINE n == [at |-> "searching", queries |-> 1, calls |-> retrieve.calls + 1]
      <4>1. /\ DOMAIN n = {"at", "queries", "calls"} /\ n.at = "searching"
            /\ n.calls = retrieve.calls + 1 /\ Steps(n)
        BY <3>2 DEF Steps
      <4> HIDE DEF n
      <4> QED BY <3>1, <4>1 DEF Steered, RetrievalFields
    <3>3. CASE GoesTo([at |-> after, round |-> 0, calls |-> retrieve.calls + 1])
      <4> DEFINE n == [at |-> after, round |-> 0, calls |-> retrieve.calls + 1]
      <4>1. /\ DOMAIN n = {"at", "round", "calls"} /\ n.at = after /\ n.round = 0
            /\ n.calls = retrieve.calls + 1 /\ Steps(n)
        BY <3>3 DEF Steps
      <4> HIDE DEF n
      <4> QED BY <3>1, <4>1 DEF Steered, RetrievalFields
    <3> QED BY <2>3, <3>2, <3>3 DEF Suggest
  <2> QED BY <2>2, <2>3
<1>3. Advanced(gives)
  BY <1>2, StepsAdvance
<1>4. /\ retrieve'.at = gives.at
      /\ retrieve'.round = (IF "round" \in DOMAIN gives THEN gives.round ELSE retrieve.round)
      /\ retrieve'.calls = (IF "calls" \in DOMAIN gives THEN gives.calls ELSE retrieve.calls)
      /\ retrieve'.limit = retrieve.limit /\ retrieve'.model = retrieve.model
  BY <1>2, <1>3 DEF Advanced, RetrievalFields, Steered
<1>5. /\ retrieve.limit \in Nat /\ retrieve.round \in Nat /\ retrieve.calls \in Nat
      /\ retrieve.model \in BOOLEAN
      /\ retrieve.limit >= 3 /\ 3 <= retrieve.round /\ retrieve.round <= retrieve.limit + 1
      /\ retrieve.calls <= retrieve.round - 2
  BY <1>1 DEF RetrieveInv, RetrievalTyped, CallsSoFar
<1>6. /\ CallsSoFar' /\ retrieve'.at \in {"searching", "reflect", "build"}
      /\ retrieve'.round \in Nat /\ retrieve'.calls \in Nat
  <2>1. CASE /\ retrieve.round <= retrieve.limit /\ gives.at = "searching"
             /\ "calls" \in DOMAIN gives /\ gives.calls = retrieve.calls + 1
             /\ "round" \notin DOMAIN gives
    BY <2>1, <1>4, <1>5 DEF CallsSoFar
  <2>2. CASE /\ gives.at = after /\ "round" \in DOMAIN gives /\ gives.round = 0
             /\ \/ "calls" \notin DOMAIN gives
                \/ /\ retrieve.round <= retrieve.limit
                   /\ "calls" \in DOMAIN gives /\ gives.calls = retrieve.calls + 1
    <3>1. retrieve'.round = 0 /\ retrieve'.calls \in Nat /\ retrieve'.calls <= retrieve.limit - 1
      BY <2>2, <1>4, <1>5
    <3>2. CASE retrieve.model
      BY <2>2, <3>1, <3>2, <1>4, <1>5 DEF CallsSoFar
    <3>3. CASE ~retrieve.model
      BY <2>2, <3>1, <3>3, <1>4, <1>5 DEF CallsSoFar, CallLimit
    <3> QED BY <3>2, <3>3
  <2> QED BY <1>2, <2>1, <2>2
<1> QED BY <1>2, <1>3, <1>6, StepSound DEF RetrievalStages

LEMMA SearchSuggestedSound ==
  ASSUME RetrieveInv, SearchSuggested PROVE RetrieveInv'
<1>1. retrieve.at = "searching"
  BY DEF SearchSuggested
<1>2. PICK gives :
        /\ DOMAIN gives \subseteq Steered /\ Steps(gives) /\ "calls" \notin DOMAIN gives
        /\ \/ {"at", "round"} \cap DOMAIN gives = {}
           \/ /\ "at" \in DOMAIN gives /\ gives.at = "suggest"
              /\ "round" \in DOMAIN gives /\ gives.round = retrieve.round + 1
  <2>1. CASE \E hits \in SearchHits(Scores) : Round(hits, [queries |-> retrieve.queries + 1])
    <3> DEFINE n == [queries |-> retrieve.queries + 1]
    <3>1. DOMAIN n = {"queries"} /\ Steps(n)
      BY <2>1 DEF Steps
    <3> HIDE DEF n
    <3> QED BY <3>1 DEF Steered, RetrievalFields
  <2>2. CASE \E hits \in SearchHits(Scores) :
               Round(hits, [at |-> "suggest", queries |-> 0, round |-> retrieve.round + 1])
    <3> DEFINE n == [at |-> "suggest", queries |-> 0, round |-> retrieve.round + 1]
    <3>1. /\ DOMAIN n = {"at", "queries", "round"} /\ n.at = "suggest"
          /\ n.round = retrieve.round + 1 /\ Steps(n)
      BY <2>2 DEF Steps
    <3> HIDE DEF n
    <3> QED BY <3>1 DEF Steered, RetrievalFields
  <2> QED BY <2>1, <2>2 DEF SearchSuggested
<1>3. Advanced(gives)
  BY <1>2, StepsAdvance
<1>4. /\ \/ retrieve'.at = "searching" /\ retrieve'.round = retrieve.round
         \/ retrieve'.at = "suggest" /\ retrieve'.round = retrieve.round + 1
      /\ retrieve'.calls = retrieve.calls /\ retrieve'.limit = retrieve.limit
  <2>1. /\ retrieve'.at = (IF "at" \in DOMAIN gives THEN gives.at ELSE retrieve.at)
        /\ retrieve'.round = (IF "round" \in DOMAIN gives THEN gives.round ELSE retrieve.round)
        /\ retrieve'.calls = retrieve.calls /\ retrieve'.limit = retrieve.limit
    BY <1>2, <1>3 DEF Advanced, RetrievalFields, Steered
  <2> QED BY <1>1, <1>2, <2>1
<1>5. /\ CallsSoFar' /\ retrieve'.at \in {"searching", "suggest"}
      /\ retrieve'.round \in Nat /\ retrieve'.calls \in Nat
  BY <1>1, <1>4 DEF RetrieveInv, RetrievalTyped, CallsSoFar
<1> QED BY <1>2, <1>3, <1>5, StepSound DEF RetrievalStages

LEMMA ReflectSound ==
  ASSUME RetrieveInv, Reflect PROVE RetrieveInv'
<1>1. retrieve.at = "reflect"
  BY DEF Reflect
<1>2. PICK gives :
        /\ DOMAIN gives \subseteq Steered /\ Steps(gives)
        /\ \/ /\ "at" \in DOMAIN gives /\ gives.at = "build" /\ "round" \notin DOMAIN gives
              /\ \/ "calls" \notin DOMAIN gives
                 \/ /\ retrieve.round # 2
                    /\ "calls" \in DOMAIN gives /\ gives.calls = retrieve.calls + 1
           \/ /\ retrieve.round # 2 /\ "at" \notin DOMAIN gives
              /\ "calls" \in DOMAIN gives /\ gives.calls = retrieve.calls + 1
              /\ "round" \in DOMAIN gives /\ gives.round = retrieve.round + 1
  <2>1. CASE GoesTo(To("build"))
    <3> DEFINE n == To("build")
    <3>1. DOMAIN n = {"at"} /\ n.at = "build" /\ Steps(n)
      BY <2>1 DEF Steps, To
    <3> HIDE DEF n
    <3> QED BY <3>1 DEF Steered, RetrievalFields
  <2>2. CASE /\ retrieve.round # 2
             /\ GoesTo([at |-> "build", calls |-> retrieve.calls + 1])
    <3> DEFINE n == [at |-> "build", calls |-> retrieve.calls + 1]
    <3>1. /\ DOMAIN n = {"at", "calls"} /\ n.at = "build" /\ n.calls = retrieve.calls + 1
          /\ Steps(n)
      BY <2>2 DEF Steps
    <3> HIDE DEF n
    <3> QED BY <2>2, <3>1 DEF Steered, RetrievalFields
  <2>3. CASE /\ retrieve.round # 2
             /\ \E hits \in SearchHits(Scores) :
                  Round(hits, [calls |-> retrieve.calls + 1, round |-> retrieve.round + 1])
    <3> DEFINE n == [calls |-> retrieve.calls + 1, round |-> retrieve.round + 1]
    <3>1. /\ DOMAIN n = {"calls", "round"} /\ n.round = retrieve.round + 1
          /\ n.calls = retrieve.calls + 1 /\ Steps(n)
      BY <2>3 DEF Steps
    <3> HIDE DEF n
    <3> QED BY <2>3, <3>1 DEF Steered, RetrievalFields
  <2> QED BY <2>1, <2>2, <2>3 DEF Reflect
<1>3. Advanced(gives)
  BY <1>2, StepsAdvance
<1>4. /\ retrieve'.at = (IF "at" \in DOMAIN gives THEN gives.at ELSE retrieve.at)
      /\ retrieve'.round = (IF "round" \in DOMAIN gives THEN gives.round ELSE retrieve.round)
      /\ retrieve'.calls = (IF "calls" \in DOMAIN gives THEN gives.calls ELSE retrieve.calls)
      /\ retrieve'.limit = retrieve.limit /\ retrieve'.model = retrieve.model
  BY <1>2, <1>3 DEF Advanced, RetrievalFields, Steered
<1>5. /\ retrieve.limit \in Nat /\ retrieve.round \in Nat /\ retrieve.calls \in Nat
      /\ retrieve.limit >= 3 /\ retrieve.model /\ retrieve.round <= 2
      /\ retrieve.calls <= retrieve.limit - 1 + retrieve.round
  BY <1>1 DEF RetrieveInv, RetrievalTyped, CallsSoFar
<1>6. /\ CallsSoFar' /\ retrieve'.at \in {"build", "reflect"}
      /\ retrieve'.round \in Nat /\ retrieve'.calls \in Nat
  <2>1. CASE "at" \in DOMAIN gives /\ gives.at = "build" /\ "round" \notin DOMAIN gives
             /\ ("calls" \notin DOMAIN gives
                  \/ (retrieve.round # 2 /\ "calls" \in DOMAIN gives
                        /\ gives.calls = retrieve.calls + 1))
    <3>1. retrieve'.calls \in Nat /\ retrieve'.calls <= retrieve.limit + 1
      BY <2>1, <1>4, <1>5
    <3> QED BY <2>1, <3>1, <1>4, <1>5 DEF CallsSoFar, CallLimit
  <2>2. CASE /\ retrieve.round # 2 /\ "at" \notin DOMAIN gives
             /\ "calls" \in DOMAIN gives /\ gives.calls = retrieve.calls + 1
             /\ "round" \in DOMAIN gives /\ gives.round = retrieve.round + 1
    BY <2>2, <1>1, <1>4, <1>5 DEF CallsSoFar
  <2> QED BY <1>2, <2>1, <2>2
<1> QED BY <1>2, <1>3, <1>6, StepSound DEF RetrievalStages

\* Nothing was retrieved yet.
LEMMA FreshSound ==
  ASSUME documents' \in Seq([id : ItemIds, text : TextVersions]), reported' = {},
         retrieve'.seen = <<>>, retrieve'.new = 0, retrieve'.calls = 0, retrieve'.round = 0,
         retrieve'.limit \in Nat, retrieve'.model \in BOOLEAN,
         retrieve'.at \in {"idle", "raw"}, DOMAIN retrieve' = RetrievalFields
  PROVE  RetrieveInv'
<1>1. RetrievalTyped'
  BY DEF RetrievalTyped, RetrievalStages
<1>2. DOMAIN <<>> = {} /\ Cardinality({}) = 0
  BY FS_EmptySet
<1>3. BestScores'
  BY <1>2 DEF BestScores
<1>4. CallsSoFar' /\ ResultSound'
  BY DEF CallsSoFar, ResultSound
<1> QED BY <1>1, <1>3, <1>4 DEF RetrieveInv

LEMMA ChangeSound ==
  ASSUME RetrieveInv, ChangeDocuments PROVE RetrieveInv'
<1> DEFINE Docs == [id : ItemIds, text : TextVersions]
<1>1. documents \in Seq(Docs)
  BY DEF RetrieveInv, RetrievalTyped
<1>2. documents' \in Seq(Docs)
  <2>1. ASSUME NEW id \in ItemIds, NEW t \in TextVersions,
               documents' = Append(documents, [id |-> id, text |-> t])
        PROVE  documents' \in Seq(Docs)
    BY <1>1, <2>1
  <2>2. ASSUME NEW i \in DOMAIN documents, NEW t \in TextVersions, NEW id \in ItemIds,
               documents' = [documents EXCEPT ![i] = [id |-> id, text |-> t]]
        PROVE  documents' \in Seq(Docs)
    <3>1. [id |-> id, text |-> t] \in Docs
      OBVIOUS
    <3> HIDE DEF Docs
    <3> QED BY <1>1, <2>2, <3>1, ExceptSeq
  <2> QED BY <2>1, <2>2 DEF ChangeDocuments
<1>3. retrieve' = NoRetrieval /\ reported' = {}
  BY DEF ChangeDocuments
<1> QED BY <1>2, <1>3, FreshSound DEF NoRetrieval, RetrievalFields

LEMMA BeginSound ==
  ASSUME RetrieveInv, Begin PROVE RetrieveInv'
<1>1. PICK limit \in RoundLimits, model \in BOOLEAN :
        retrieve' = [NoRetrieval EXCEPT !.at = "raw", !.limit = limit, !.model = model]
  BY DEF Begin
<1>2. documents' \in Seq([id : ItemIds, text : TextVersions]) /\ reported' = {}
  BY DEF Begin, RetrieveInv, RetrievalTyped
<1>3. limit \in Nat
  BY AdaptiveAssumption
<1> QED BY <1>1, <1>2, <1>3, FreshSound DEF NoRetrieval, RetrievalFields

LEMMA RetrieveStands ==
  ASSUME RetrieveInv, UNCHANGED <<documents, retrieve, reported>> PROVE RetrieveInv'
BY DEF RetrieveInv, RetrievalTyped, BestScores, IdsOf, CallsSoFar, ResultSound

LEMMA RetrieveInvSound ==
  ASSUME RetrieveInv PROVE RetrieveSound
<1> DEFINE ids == {p[1] : p \in reported}
<1>1. DOMAIN retrieve.seen = ids /\ ids \subseteq IdsOf(documents)
  <2>1. ASSUME NEW id \in DOMAIN retrieve.seen PROVE id \in ids
    <3>1. <<id, retrieve.seen[id]>> \in reported /\ <<id, retrieve.seen[id]>>[1] = id
      BY DEF RetrieveInv, BestScores
    <3> QED BY <3>1
  <2> QED BY <2>1 DEF RetrieveInv, BestScores
<1>2. ASSUME NEW id \in ids
      PROVE  retrieve.seen[id] = Max({p[2] : p \in {q \in reported : q[1] = id}})
  <2> DEFINE T == {p[2] : p \in {q \in reported : q[1] = id}}
  <2>1. T \subseteq Nat
    BY DEF RetrieveInv, RetrievalTyped
  <2>2. retrieve.seen[id] \in T
    <3>1. <<id, retrieve.seen[id]>> \in reported /\ <<id, retrieve.seen[id]>>[1] = id
          /\ <<id, retrieve.seen[id]>>[2] = retrieve.seen[id]
      BY <1>1 DEF RetrieveInv, BestScores
    <3> QED BY <3>1
  <2>3. \A n \in T : n <= retrieve.seen[id]
    BY DEF RetrieveInv, BestScores
  <2> HIDE DEF T
  <2> QED BY <2>1, <2>2, <2>3, MaxIs DEF T
<1>3. retrieve.new = Cardinality(ids)
  BY <1>1 DEF RetrieveInv, BestScores
<1>4. retrieve.calls <= CallLimit(retrieve.limit, retrieve.model)
  BY DEF RetrieveInv, RetrievalTyped, CallsSoFar, CallLimit, RetrievalStages
<1>5. ResultSound
  BY DEF RetrieveInv
<1> HIDE DEF ids
<1> QED BY <1>1, <1>2, <1>3, <1>4, <1>5 DEF RetrieveSound, ResultSound, CallLimit, ids

\* Whatever rounds a retrieval has, what it returns is every document a search reported, once
\* and with its best score, in order unless it was reranked, and the model was asked no more
\* often than the rounds allow (adaptive_retrieve, _merge_results and _build_result).
THEOREM RetrieveSoundHolds == AdaptiveSpec => []RetrieveSound
<1>1. AdaptiveInit => RetrieveInv
  <2>1. SUFFICES ASSUME AdaptiveInit PROVE RetrieveInv
    OBVIOUS
  <2>2. DOMAIN <<>> = {} /\ Cardinality({}) = 0 /\ <<>> \in Seq([id : ItemIds, text : TextVersions])
    BY FS_EmptySet
  <2> QED BY <2>1, <2>2 DEF AdaptiveInit, NoRetrieval, RetrieveInv, RetrievalTyped, RetrievalFields,
                   RetrievalStages, BestScores, CallsSoFar, ResultSound
<1>2. RetrieveInv /\ [AdaptiveNext]_adaptiveVars => RetrieveInv'
  <2>1. ASSUME RetrieveInv, AdaptiveNext PROVE RetrieveInv'
    BY <2>1, ChangeSound, BeginSound, RawSound, HybridSound, HydeSound, TimesOutSound,
       LexiconSound, FeedbackSound, SuggestSound, SearchSuggestedSound, ReflectSound, BuildSound,
       RetrieveStands DEF AdaptiveNext, Precompute
  <2>2. ASSUME RetrieveInv, UNCHANGED adaptiveVars PROVE RetrieveInv'
    BY <2>2, RetrieveStands DEF adaptiveVars
  <2> QED BY <2>1, <2>2
<1>3. RetrieveInv => RetrieveSound
  BY RetrieveInvSound
<1> QED BY <1>1, <1>2, <1>3, PTL DEF AdaptiveSpec

-----------------------------------------------------------------------------
(***************************************************************************)
(* The outer critic loop.                                                  *)
(***************************************************************************)

\* A set of numbers that is not empty has a least one.
LEMMA LeastNatural ==
  ASSUME NEW T, T \subseteq Nat, T # {}
  PROVE  \E m \in T : \A n \in T : m <= n
<1> DEFINE Smaller == OpToRel(<, Nat)
<1>1. IsWellFoundedOn(Smaller, Nat) BY NatLessThanWellFounded
<1>2. PICK m \in T : \A n \in T : ~ (<<n, m>> \in Smaller) BY <1>1, WFMin
<1>3. ASSUME NEW n \in T PROVE m <= n
  <2>1. <<n, m>> \in Nat \X Nat /\ <<n, m>>[1] = n /\ <<n, m>>[2] = m OBVIOUS
  <2>2. ~ (n < m) BY <1>2, <2>1 DEF OpToRel
  <2>3. QED BY <2>2
<1>4. QED BY <1>3

\* A function that follows a step from a base, along 1..n.
Recurs(S, base, n, step) ==
  \E f \in [0..n -> S] : f[0] = base /\ \A k \in 1..n : f[k] = step[<<f[k - 1], k>>]

\* A recursion along 0..n over the values of a set has a solution.
LEMMA RecursionExists ==
  ASSUME NEW S, NEW base \in S, NEW n \in Nat, NEW step \in [S \X (1..n) -> S]
  PROVE  Recurs(S, base, n, step)
<1> DEFINE Solves(f, m) == f \in [0..m -> S] /\ f[0] = base /\ \A k \in 1..m : f[k] = step[<<f[k - 1], k>>]
           T == {m \in 0..n : ~ \E f : Solves(f, m)}
<1>1. SUFFICES T = {}
  <2> USE DEF Recurs
  <2>1. n \in 0..n /\ n \notin T
    <3> HIDE DEF T
    <3> QED BY <1>1
  <2> QED BY <2>1
<1>2. SUFFICES ASSUME T # {} PROVE FALSE
  OBVIOUS
<1>3. T \subseteq Nat
  OBVIOUS
<1>4. PICK m \in T : \A k \in T : m <= k
  BY <1>2, <1>3, LeastNatural
<1>5. m \in 0..n /\ ~ \E f : Solves(f, m)
  OBVIOUS
<1>6. m # 0
  <2>1. Solves([k \in 0..0 |-> base], 0)
    OBVIOUS
  <2> QED BY <1>5, <2>1
<1>7. m - 1 \in 0..n /\ m - 1 \notin T
  BY <1>4, <1>5, <1>6
<1>8. PICK f : Solves(f, m - 1)
  BY <1>7
<1> DEFINE g == [k \in 0..m |-> IF k = m THEN step[<<f[m - 1], m>>] ELSE f[k]]
<1>9. step[<<f[m - 1], m>>] \in S
  <2>1. f[m - 1] \in S /\ m \in 1..n
    BY <1>5, <1>6, <1>8
  <2> QED BY <2>1
<1>10. g \in [0..m -> S]
  BY <1>5, <1>6, <1>8, <1>9
<1>11. g[0] = base
  BY <1>5, <1>6, <1>8
<1>12. ASSUME NEW k \in 1..m PROVE g[k] = step[<<g[k - 1], k>>]
  <2>1. CASE k = m
    BY <1>5, <1>6, <2>1
  <2>2. CASE k # m
    <3>1. k \in 1..(m - 1) /\ k - 1 # m /\ k - 1 \in 0..m /\ k \in 0..m
      BY <1>5, <2>2
    <3>2. f[k] = step[<<f[k - 1], k>>]
      BY <1>8, <3>1
    <3> QED BY <2>2, <3>1, <3>2
  <2> QED BY <2>1, <2>2
<1>13. Solves(g, m)
  <2> HIDE DEF g
  <2> QED BY <1>10, <1>11, <1>12
<1> HIDE DEF g, Solves
<1> QED BY <1>5, <1>13

\* What the circuit breaker keeps: while it has not tripped, every count is below the threshold.
SeenTypes ==
  {w \in [failures : [Tools -> 0..Threshold], tripped : BOOLEAN] :
     ~w.tripped => \A t \in Tools : w.failures[t] < Threshold}

\* One tool span more, and a run of them.
LEMMA ObservedSound ==
  ASSUME NEW was \in SeenTypes, NEW call \in Tools \X BOOLEAN
  PROVE  Observed(was, call) \in SeenTypes
<1> USE BoundsAssumption
<1>1. call[1] \in Tools /\ call[2] \in BOOLEAN
  OBVIOUS
<1>2. was.failures \in [Tools -> 0..Threshold] /\ was.tripped \in BOOLEAN
  BY DEF SeenTypes
<1>3. CASE was.tripped
  BY <1>3 DEF Observed
<1>4. CASE ~was.tripped
  <2> DEFINE n == IF call[2] THEN was.failures[call[1]] + 1 ELSE 0
             f == [was.failures EXCEPT ![call[1]] = n]
  <2>1. was.failures[call[1]] < Threshold /\ was.failures[call[1]] \in Nat
    BY <1>1, <1>2, <1>4 DEF SeenTypes
  <2>2. n \in 0..Threshold
    BY <2>1
  <2>3. f \in [Tools -> 0..Threshold]
    <3> HIDE DEF n
    <3> QED BY <1>1, <1>2, <2>2
  <2>4. ~(n >= Threshold) => \A t \in Tools : f[t] < Threshold
    <3> HIDE DEF n
    <3>1. \A t \in Tools : was.failures[t] < Threshold
      BY <1>4 DEF SeenTypes
    <3> QED BY <1>1, <1>2, <2>2, <3>1
  <2>5. Observed(was, call) = [failures |-> f, tripped |-> n >= Threshold]
    BY <1>4 DEF Observed
  <2> DEFINE now == n >= Threshold
             w == [failures |-> f, tripped |-> now]
  <2>6. now \in BOOLEAN /\ Observed(was, call) = w
    BY <2>5
  <2>7. w.failures = f /\ w.tripped = now
    OBVIOUS
  <2>8. ~now => \A t \in Tools : f[t] < Threshold
    BY <2>4
  <2> HIDE DEF n, f, now
  <2>9. w \in [failures : [Tools -> 0..Threshold], tripped : BOOLEAN]
    BY <2>3, <2>6
  <2> HIDE DEF w
  <2> QED BY <2>6, <2>7, <2>8, <2>9 DEF SeenTypes
<1> QED BY <1>2, <1>3, <1>4

LEMMA WatchedSound ==
  ASSUME NEW run \in Seq(Tools \X BOOLEAN), [failures |-> failures, tripped |-> tripped] \in SeenTypes
  PROVE  Watched(run) \in SeenTypes
<1> DEFINE start == [failures |-> failures, tripped |-> tripped]
           Solves(f) == f = [k \in 0..Len(run) |-> IF k = 0 THEN start ELSE Observed(f[k - 1], run[k])]
           step == [p \in SeenTypes \X (1..Len(run)) |-> Observed(p[1], run[p[2]])]
           n == Len(run)
<1>1. n \in Nat /\ \A k \in 1..n : run[k] \in Tools \X BOOLEAN
  OBVIOUS
<1>2. step \in [SeenTypes \X (1..n) -> SeenTypes]
  BY <1>1, ObservedSound
<1>3. start \in SeenTypes
  OBVIOUS
<1>4. PICK f \in [0..n -> SeenTypes] :
        f[0] = start /\ \A k \in 1..n : f[k] = step[<<f[k - 1], k>>]
  <2> HIDE DEF start, step, n
  <2>1. Recurs(SeenTypes, start, n, step)
    BY <1>1, <1>2, <1>3, RecursionExists
  <2> QED BY <2>1 DEF Recurs
<1>5. Solves(f)
  <2>1. ASSUME NEW k \in 0..n PROVE f[k] = IF k = 0 THEN start ELSE Observed(f[k - 1], run[k])
    <3>1. CASE k = 0
      BY <1>4, <3>1
    <3>2. CASE k # 0
      <4>1. k \in 1..n /\ f[k - 1] \in SeenTypes
        BY <1>1, <1>4, <3>2
      <4>2. f[k] = step[<<f[k - 1], k>>]
        BY <1>4, <4>1
      <4>3. <<f[k - 1], k>> \in SeenTypes \X (1..n)
        BY <4>1
      <4> HIDE DEF start
      <4> QED BY <3>2, <4>2, <4>3
    <3> QED BY <3>1, <3>2
  <2> HIDE DEF start
  <2> QED BY <1>4, <2>1
<1> DEFINE after == CHOOSE g : Solves(g)
<1>6. Solves(after)
  <2> HIDE DEF Solves
  <2> QED BY <1>5
<1>7. Watched(run) = after[n]
  BY DEF Watched
<1> DEFINE T == {k \in 0..n : after[k] \notin SeenTypes}
<1>8. ASSUME T # {} PROVE FALSE
  <2>1. T \subseteq Nat
    BY <1>1
  <2>2. PICK m \in T : \A k \in T : m <= k
    BY <1>8, <2>1, LeastNatural
  <2> HIDE DEF after, start
  <2>3. m # 0
    BY <1>1, <1>3, <1>6, <2>2
  <2>4. m \in 1..n /\ m - 1 \in 0..n /\ m - 1 \notin T
    BY <1>1, <2>2, <2>3
  <2>5. after[m - 1] \in SeenTypes
    BY <2>4
  <2>6. after[m] = Observed(after[m - 1], run[m])
    BY <1>1, <1>6, <2>4
  <2> QED BY <1>1, <2>2, <2>4, <2>5, <2>6, ObservedSound
<1> HIDE DEF after
<1> QED BY <1>1, <1>7, <1>8
\* How far a turn is: what holds before and behind each await.
IterationTyped ==
  /\ pc \in {"plan", "work", "check", "criticise", "refuse", "ended", "raised"}
  /\ iteration \in 0..MaxIterations /\ late \in BOOLEAN
  /\ allowed \subseteq Groups /\ effective \subseteq Groups
  /\ draft \in Texts /\ calls \in ToolRuns \cup {<<>>} /\ lastText \in Texts /\ lastCalls \in Nat
  /\ verdict \in {"none", "needs_more_work", "override"}
  /\ [failures |-> failures, tripped |-> tripped] \in SeenTypes
  /\ reason \in Reasons \cup {"none"} /\ intent \in Intents /\ terminated \in 0..1
  /\ note \subseteq {"citations", "critic"} /\ cited \in BOOLEAN
  /\ judged \in {"none", "accepted", "rejected"} /\ checked \in BOOLEAN

\* What was spent, by how many calls ago the cap was last consulted.
SpentSoFar ==
  /\ cost \in Nat /\ cost < CostCap + 4 * MaxCost
  /\ pc \in {"work", "check"} => cost < CostCap
  /\ pc = "criticise" => cost < CostCap + MaxCost
  /\ pc = "plan" => cost < CostCap + 2 * MaxCost
  /\ pc = "refuse" => cost < CostCap + 3 * MaxCost

\* What the loop knows of the text it keeps, by where it is: it is not yet judged behind a
\* worker that drafted something, rejected when a second iteration is planned, and rejected
\* in a refusal only when the loop is stuck, out of iterations, passed a cap before the next
\* draft, or passed one with an empty draft.
JudgedSoFar ==
  /\ pc \in {"plan", "work", "check", "criticise"} =>
       ~tripped /\ reason = "none" /\ intent = "none" /\ terminated = 0
  /\ pc = "plan" => draft = lastText
  /\ pc = "plan" => (iteration = 0 /\ judged = "none") \/ (iteration > 0 /\ judged = "rejected" /\ verdict # "none")
  /\ pc \in {"work", "check", "criticise"} => verdict = "none" /\ iteration > 0
  /\ pc = "work" => judged = "none" \/ (judged = "rejected" /\ iteration > 1)
  /\ pc \in {"check", "criticise"} => judged = "none" \/ (judged = "rejected" /\ iteration > 1 /\ draft = None)
  /\ pc = "criticise" => Acceptable(draft)
  /\ pc = "refuse" =>
       /\ intent = "none" /\ terminated = 0 /\ reason # "satisfied" /\ judged # "accepted"
       /\ reason = "max_iterations" => verdict # "none"
       /\ judged = "rejected" => reason = "max_iterations" \/ ShipsRejected

IterationsInv == IterationTyped /\ SpentSoFar /\ JudgedSoFar /\ ShipsJudged /\ ElevatesOnlyGreen

\* The bounds, one by one, and the greatest cost of a call.
LEMMA BoundsAre ==
  /\ MaxIterations \in Nat /\ MaxIterations > 0 /\ CostCap \in Nat /\ CostCap > 0
  /\ Threshold \in Nat /\ Threshold > 0 /\ ToolCap \in Nat /\ CallCap \in Nat
BY BoundsAssumption

LEMMA MaxCostIs == MaxCost \in Costs /\ MaxCost \in Nat /\ \A c \in Costs : c \in Nat /\ c <= MaxCost
BY BoundsAssumption DEF MaxCost

\* A planner keeps of what is allowed, and drops what is not.
LEMMA PlannerKeeps ==
  ASSUME NEW says \in PlannerSays, allowed \subseteq Groups
  PROVE  /\ says[1] \subseteq allowed /\ says[2] \subseteq Groups
         /\ says[3] \in Nat /\ says[3] <= MaxCost
<1>1. CASE says = <<allowed, {}, 0>>
  BY <1>1, MaxCostIs
<1>2. CASE says # <<allowed, {}, 0>>
  <2>1. PICK wanted \in SUBSET Groups, confident \in BOOLEAN, c \in Costs :
          says = <<Kept(wanted, confident), wanted \ allowed, c>>
    BY <1>2 DEF PlannerSays
  <2>2. Kept(wanted, confident) \subseteq allowed
    BY DEF Kept
  <2> QED BY <2>1, <2>2, MaxCostIs
<1> QED BY <1>1, <1>2

\* Each action, as it is taken.
LEMMA PlanSteps ==
  ASSUME IterationsInv, Plan
  PROVE  IterationsInv' /\ (pc' = "work" => cost' < CostCap /\ ~late' /\ judged # "accepted" /\ ~tripped')
<1> USE BoundsAre, GroupsAssumption
<1>1. pc = "plan" /\ iteration < MaxIterations /\ iteration' = iteration + 1 /\ verdict' = "none"
  BY DEF Plan
<1>2. /\ draft' = draft /\ calls' = calls /\ lastText' = lastText /\ lastCalls' = lastCalls
      /\ failures' = failures /\ tripped' = tripped /\ intent' = intent /\ terminated' = terminated
      /\ checked' = checked /\ note' = note /\ cited' = cited /\ judged' = judged
  BY DEF Plan, toolVars, endVars
<1>3. PICK says \in PlannerSays :
        /\ cost' = cost + says[3]
        /\ \/ /\ Over(cost + says[3]) /\ Refuse("cost_exceeded")
              /\ UNCHANGED <<allowed, effective>>
           \/ /\ ~Over(cost + says[3]) /\ late' /\ Refuse("wall_clock_exceeded")
              /\ UNCHANGED <<allowed, effective>>
           \/ /\ ~Over(cost + says[3]) /\ ~late'
              /\ pc' = "work" /\ UNCHANGED reason
              /\ allowed' = allowed \cup Elevated(says[2])
              /\ effective' = says[1] \cup (allowed' \cap says[2])
  BY DEF Plan
<1>4. IterationTyped /\ SpentSoFar /\ JudgedSoFar /\ ShipsJudged /\ ElevatesOnlyGreen
  BY DEF IterationsInv
<1>5. /\ says[1] \subseteq allowed /\ says[2] \subseteq Groups
      /\ says[3] \in Nat /\ says[3] <= MaxCost
  BY <1>4, PlannerKeeps DEF IterationTyped
<1>6. late' \in BOOLEAN
  BY <1>4 DEF Plan, Clock, IterationTyped
<1>7. Elevated(says[2]) \subseteq Groups /\ Elevated(says[2]) \subseteq says[2]
      /\ Elevated(says[2]) \subseteq (IF AutoElevate THEN SoftCeiling \cap Green ELSE {})
  BY <1>5 DEF Elevated
<1>8. allowed' \subseteq Groups /\ effective' \subseteq Groups
  BY <1>3, <1>4, <1>5, <1>7 DEF IterationTyped
<1>9. ElevatesOnlyGreen'
  BY <1>3, <1>4, <1>5, <1>7 DEF ElevatesOnlyGreen
<1>10. SpentSoFar'
  <2> DEFINE c == says[3]
  <2>1. cost' = cost + c /\ c \in Nat /\ c <= MaxCost /\ MaxCost \in Nat /\ cost \in Nat
    BY <1>3, <1>4, <1>5, MaxCostIs DEF SpentSoFar
  <2>2. cost < CostCap + 2 * MaxCost /\ (pc' = "work" => cost + c < CostCap) /\ pc' \in {"work", "refuse"}
    BY <1>1, <1>3, <1>4, <2>1 DEF SpentSoFar, Over, Refuse
  <2> HIDE DEF c
  <2>3. MaxCost' = MaxCost
    BY DEF MaxCost
  <2> QED BY <2>1, <2>2, <2>3 DEF SpentSoFar
<1>11. IterationTyped'
  <2>1. [failures |-> failures, tripped |-> tripped]' \in SeenTypes
    BY <1>2, <1>4 DEF IterationTyped
  <2> QED BY <1>1, <1>2, <1>3, <1>4, <1>6, <1>8, <2>1 DEF IterationTyped, Refuse, Reasons, Caps
<1>12. JudgedSoFar'
  BY <1>1, <1>2, <1>3, <1>4 DEF JudgedSoFar, ShipsRejected, IterationTyped, Refuse
<1>13. ShipsJudged'
  BY <1>1, <1>2, <1>3, <1>4 DEF JudgedSoFar, ShipsJudged, Shipped, Refuse
<1>14. pc' = "work" => cost' < CostCap /\ ~late' /\ judged # "accepted" /\ ~tripped'
  BY <1>1, <1>2, <1>3, <1>4, <1>10 DEF JudgedSoFar, SpentSoFar, Refuse
<1> QED BY <1>9, <1>10, <1>11, <1>12, <1>13, <1>14 DEF IterationsInv

LEMMA OutOfIterationsSteps ==
  ASSUME IterationsInv, OutOfIterations
  PROVE  IterationsInv'
<1> USE BoundsAre
<1>1. IterationTyped'
  <2>1. [failures |-> failures, tripped |-> tripped]' \in SeenTypes
    BY DEF IterationsInv, IterationTyped, OutOfIterations, toolVars
  <2> QED BY <2>1 DEF IterationsInv, IterationTyped, OutOfIterations, loopVars, toolVars, endVars, Refuse,
                      Reasons, Caps
<1>2. SpentSoFar'
  <2>1. MaxCost' = MaxCost /\ cost' = cost /\ pc' = "refuse" /\ pc = "plan"
    BY DEF MaxCost, OutOfIterations, Refuse
  <2>2. cost \in Nat /\ cost < CostCap + 2 * MaxCost
    BY <2>1 DEF IterationsInv, SpentSoFar
  <2> QED BY <2>1, <2>2, MaxCostIs DEF SpentSoFar
<1>3. JudgedSoFar' /\ ShipsJudged'
  BY DEF IterationsInv, IterationTyped, JudgedSoFar, ShipsJudged, Shipped, OutOfIterations, loopVars,
         toolVars, endVars, Refuse
<1>4. ElevatesOnlyGreen'
  BY DEF IterationsInv, ElevatesOnlyGreen, OutOfIterations
<1> QED BY <1>1, <1>2, <1>3, <1>4 DEF IterationsInv

LEMMA WorkSteps ==
  ASSUME IterationsInv, Work
  PROVE  IterationsInv' /\ pc' # "work"
<1> USE BoundsAre
<1>1. pc = "work"
      /\ iteration' = iteration /\ allowed' = allowed /\ effective' = effective
      /\ lastText' = lastText /\ lastCalls' = lastCalls /\ verdict' = verdict
      /\ intent' = intent /\ terminated' = terminated /\ checked' = checked
  BY DEF Work, endVars
<1>2. IterationTyped /\ SpentSoFar /\ JudgedSoFar /\ ShipsJudged /\ ElevatesOnlyGreen
  BY DEF IterationsInv
<1>3. PICK text \in Texts, run \in ToolRuns, c \in Costs :
       LET total == cost + c
           costly == CallCap > 0 /\ c > CallCap
           unseen == [failures |-> failures, tripped |-> tripped]
       IN \E seen \in IF costly THEN {unseen, Watched(run)} ELSE {Watched(run)} :
          /\ draft' = text /\ calls' = run /\ cost' = total
          /\ cited' \in (IF CitationGate /\ text # None /\ ~costly THEN BOOLEAN ELSE {FALSE})
          /\ note' = IF cited' THEN {"citations"} ELSE note
          /\ failures' = seen.failures /\ tripped' = seen.tripped
          /\ IF costly THEN Refuse("cost_exceeded")
             ELSE IF seen.tripped THEN Refuse("circuit_breaker_tripped")
             ELSE IF Len(run) >= ToolCap THEN Refuse("tool_call_cap_exceeded")
             ELSE IF Over(total) THEN Refuse("cost_exceeded")
             ELSE IF late' THEN Refuse("wall_clock_exceeded")
             ELSE pc' = "check" /\ UNCHANGED reason
          /\ judged' = IF text = None THEN judged ELSE "none"
  BY DEF Work
<1>4. late' \in BOOLEAN
  BY <1>2 DEF Work, Clock, IterationTyped
<1>5. /\ draft' = text /\ calls' = run /\ cost' = cost + c /\ cited' \in BOOLEAN
      /\ judged' = IF text = None THEN judged ELSE "none"
      /\ note' = IF cited' THEN {"citations"} ELSE note
      /\ \/ Refuse("cost_exceeded") \/ Refuse("circuit_breaker_tripped")
         \/ Refuse("tool_call_cap_exceeded") \/ Refuse("wall_clock_exceeded")
         \/ /\ pc' = "check" /\ UNCHANGED reason /\ ~tripped' /\ cost + c < CostCap
  <2>1. cost \in Nat /\ c \in Nat
    BY <1>2, MaxCostIs DEF SpentSoFar
  <2> DEFINE costly == CallCap > 0 /\ c > CallCap
  <2>2. PICK seen \in {[failures |-> failures, tripped |-> tripped], Watched(run)} :
          /\ draft' = text /\ calls' = run /\ cost' = cost + c
          /\ cited' \in (IF CitationGate /\ text # None /\ ~costly THEN BOOLEAN ELSE {FALSE})
          /\ note' = IF cited' THEN {"citations"} ELSE note
          /\ tripped' = seen.tripped /\ judged' = IF text = None THEN judged ELSE "none"
          /\ IF costly THEN Refuse("cost_exceeded")
             ELSE IF seen.tripped THEN Refuse("circuit_breaker_tripped")
             ELSE IF Len(run) >= ToolCap THEN Refuse("tool_call_cap_exceeded")
             ELSE IF Over(cost + c) THEN Refuse("cost_exceeded")
             ELSE IF late' THEN Refuse("wall_clock_exceeded")
             ELSE pc' = "check" /\ UNCHANGED reason
    BY <1>3
  <2>3. cited' \in BOOLEAN
    BY <2>2
  <2>4. ~Over(cost + c) => cost + c < CostCap
    BY <2>1 DEF Over
  <2>5. \/ Refuse("cost_exceeded") \/ Refuse("circuit_breaker_tripped")
        \/ Refuse("tool_call_cap_exceeded") \/ Refuse("wall_clock_exceeded")
        \/ /\ pc' = "check" /\ UNCHANGED reason /\ ~tripped' /\ ~Over(cost + c)
    <3> HIDE DEF costly
    <3> QED BY <2>2, Zenon
  <2> QED BY <2>2, <2>3, <2>4, <2>5
<1>6. [failures |-> failures', tripped |-> tripped'] \in SeenTypes
  <2>1. run \in Seq(Tools \X BOOLEAN)
    BY BoundsAssumption
  <2>2. Watched(run) \in SeenTypes
    BY <1>2, <2>1, WatchedSound DEF IterationTyped
  <2>3. PICK seen \in {[failures |-> failures, tripped |-> tripped], Watched(run)} :
          failures' = seen.failures /\ tripped' = seen.tripped
    BY <1>3
  <2>4. seen \in SeenTypes
    BY <1>2, <2>2, <2>3 DEF IterationTyped
  <2>5. seen = [failures |-> seen.failures, tripped |-> seen.tripped]
    BY <2>4 DEF SeenTypes
  <2> QED BY <2>3, <2>4, <2>5
<1>7. SpentSoFar'
  <2>1. MaxCost' = MaxCost /\ MaxCost \in Nat /\ c \in Nat /\ c <= MaxCost
    BY MaxCostIs DEF MaxCost
  <2>2. cost \in Nat /\ cost < CostCap
    BY <1>1, <1>2 DEF SpentSoFar
  <2>3. pc' \in {"refuse", "check"} /\ (pc' = "check" => cost' < CostCap) /\ cost' = cost + c
    BY <1>5 DEF Refuse
  <2> QED BY <2>1, <2>2, <2>3 DEF SpentSoFar
<1>8. IterationTyped'
  <2>1. [failures |-> failures, tripped |-> tripped]' \in SeenTypes
    BY <1>6
  <2>2. pc' \in {"refuse", "check"} /\ reason' \in Reasons \cup {"none"}
    BY <1>2, <1>5 DEF Refuse, Reasons, Caps, IterationTyped
  <2>3. note' \subseteq {"citations", "critic"}
    BY <1>2, <1>5 DEF IterationTyped
  <2> QED BY <1>1, <1>2, <1>4, <1>5, <2>1, <2>2, <2>3 DEF IterationTyped
<1>13. judged' = "none" \/ (judged' = "rejected" /\ iteration' > 1 /\ draft' = None)
  BY <1>1, <1>2, <1>5 DEF JudgedSoFar
<1>9. JudgedSoFar'
  <2>1. \/ pc' = "check" /\ reason' = reason /\ ~tripped'
        \/ pc' = "refuse" /\ reason' \in Caps
    BY <1>5 DEF Refuse, Caps
  <2>2. pc' = "refuse" => /\ judged' # "accepted" /\ reason' \notin {"satisfied", "max_iterations"}
                          /\ judged' = "rejected" => ShipsRejected'
    BY <1>13, <2>1 DEF ShipsRejected, Caps
  <2> QED BY <1>1, <1>2, <1>13, <2>1, <2>2 DEF JudgedSoFar
<1>10. ShipsJudged'
  BY <1>1, <1>2, <1>5 DEF JudgedSoFar, ShipsJudged, Shipped, Refuse
<1>11. ElevatesOnlyGreen'
  BY <1>1, <1>2 DEF ElevatesOnlyGreen
<1>12. pc' # "work"
  BY <1>5 DEF Refuse
<1> QED BY <1>7, <1>8, <1>9, <1>10, <1>11, <1>12 DEF IterationsInv

\* The goal check and the critics: a draft not yet judged is, and at most one round is paid.
LEMMA VerdictSteps ==
  ASSUME IterationsInv, Check \/ Criticise
  PROVE  IterationsInv' /\ pc' # "work"
<1> USE BoundsAre
<1>1. /\ iteration' = iteration /\ allowed' = allowed /\ effective' = effective /\ draft' = draft
      /\ calls' = calls /\ failures' = failures /\ tripped' = tripped /\ cited' = cited
      /\ pc \in {"check", "criticise"} /\ late' \in {late, TRUE}
  BY DEF Check, Criticise, toolVars, Clock
<1>2. IterationTyped /\ SpentSoFar /\ JudgedSoFar /\ ShipsJudged /\ ElevatesOnlyGreen
  BY DEF IterationsInv
<1>3. PICK c \in Costs : cost' = cost + c
  BY DEF Check, Criticise
<1>4. \/ \E why \in {"needs_more_work", "override"} : Reject(why)
      \/ Acceptable(draft) /\ \E why \in {"insufficient_evidence", "satisfied"} : Accept(why)
      \/ /\ pc = "check" /\ Acceptable(draft) /\ pc' = "criticise"
         /\ UNCHANGED <<reason, judged, loopVars, endVars>>
  <2>1. pc = "criticise" => Acceptable(draft)
    BY <1>2 DEF JudgedSoFar
  <2> QED BY <2>1 DEF Check, Criticise
<1>5. Len(calls) \in Nat
  <2>1. calls \in Seq(Tools \X BOOLEAN) \/ calls = <<>>
    BY <1>2, BoundsAssumption DEF IterationTyped
  <2> QED BY <2>1
<1>6. /\ reason' \in Reasons \cup {"none"}
      /\ lastText' \in Texts /\ lastCalls' \in Nat
      /\ verdict' \in {"none", "needs_more_work", "override"} /\ note' \subseteq {"citations", "critic"}
      /\ pc' \in {"plan", "criticise", "refuse", "ended"}
      /\ judged' \in {"none", "accepted", "rejected"}
      /\ intent' = intent /\ checked' = checked /\ terminated' \in 0..1
  <2>1. reason = "none" /\ terminated = 0
    BY <1>1, <1>2 DEF JudgedSoFar
  <2>2. CASE \E why \in {"needs_more_work", "override"} : Reject(why)
    BY <1>2, <1>5, <2>1, <2>2 DEF Reject, Refuse, loopVars, endVars, IterationTyped, Reasons
  <2>3. CASE Acceptable(draft) /\ \E why \in {"insufficient_evidence", "satisfied"} : Accept(why)
    BY <1>2, <2>1, <2>3 DEF Accept, Terminate, loopVars, IterationTyped, Reasons
  <2>4. CASE /\ pc = "check" /\ Acceptable(draft) /\ pc' = "criticise"
             /\ UNCHANGED <<reason, judged, loopVars, endVars>>
    BY <1>2, <2>1, <2>4 DEF loopVars, endVars, IterationTyped
  <2> QED BY <1>4, <2>2, <2>3, <2>4
<1>7. SpentSoFar'
  <2>1. MaxCost' = MaxCost /\ MaxCost \in Nat /\ c \in Nat /\ c <= MaxCost
    BY MaxCostIs DEF MaxCost
  <2>2. cost \in Nat /\ cost < CostCap + MaxCost /\ (pc = "check" => cost < CostCap)
    BY <1>1, <1>2, <2>1 DEF SpentSoFar
  <2>3. pc' = "criticise" => pc = "check"
    BY <1>4 DEF Reject, Accept, Refuse, Terminate
  <2> QED BY <1>3, <1>6, <2>1, <2>2, <2>3 DEF SpentSoFar
<1>8. IterationTyped'
  <2>1. [failures |-> failures, tripped |-> tripped]' \in SeenTypes
    BY <1>1, <1>2 DEF IterationTyped
  <2> QED BY <1>1, <1>2, <1>6, <2>1 DEF IterationTyped
<1>9. JudgedSoFar' /\ ShipsJudged'
  <2>1. /\ ~tripped /\ reason = "none" /\ intent = "none" /\ terminated = 0
        /\ judged = "none" \/ (judged = "rejected" /\ iteration > 1 /\ draft = None)
        /\ verdict = "none" /\ iteration > 0 /\ iteration \in Nat
    BY <1>1, <1>2 DEF JudgedSoFar, IterationTyped
  <2>2. CASE \E why \in {"needs_more_work", "override"} : Reject(why)
    BY <1>1, <2>1, <2>2 DEF JudgedSoFar, ShipsJudged, Shipped, ShipsRejected, Reject, Refuse, Stuck, loopVars, endVars
  <2>3. CASE Acceptable(draft) /\ \E why \in {"insufficient_evidence", "satisfied"} : Accept(why)
    BY <1>1, <2>1, <2>3 DEF JudgedSoFar, ShipsJudged, Shipped, Accept, Terminate, Acceptable
  <2>4. CASE /\ pc = "check" /\ Acceptable(draft) /\ pc' = "criticise"
             /\ UNCHANGED <<reason, judged, loopVars, endVars>>
    BY <1>1, <2>1, <2>4 DEF JudgedSoFar, ShipsJudged, Shipped, loopVars, endVars, Acceptable
  <2> QED BY <1>4, <2>2, <2>3, <2>4
<1>10. ElevatesOnlyGreen'
  BY <1>1, <1>2 DEF ElevatesOnlyGreen
<1> QED BY <1>6, <1>7, <1>8, <1>9, <1>10 DEF IterationsInv

LEMMA EmitSteps ==
  ASSUME IterationsInv, EmitRefusal
  PROVE  IterationsInv' /\ pc' # "work"
<1> USE BoundsAre
<1>1. /\ iteration' = iteration /\ late' = late /\ allowed' = allowed /\ effective' = effective
      /\ draft' = draft /\ calls' = calls /\ failures' = failures /\ tripped' = tripped
      /\ lastText' = lastText /\ lastCalls' = lastCalls /\ verdict' = verdict /\ note' = note
      /\ cited' = cited /\ judged' = judged
      /\ pc = "refuse" /\ pc' = "ended" /\ reason' = reason /\ terminated' = terminated + 1
  BY DEF EmitRefusal, toolVars, loopVars, Terminate
<1>2. IterationTyped /\ SpentSoFar /\ JudgedSoFar /\ ShipsJudged /\ ElevatesOnlyGreen
  BY DEF IterationsInv
<1>3. \E c \in Costs \cup {0} : cost' = cost + c
  <2>1. cost + 0 = cost
    BY <1>2 DEF SpentSoFar
  <2> QED BY <2>1 DEF EmitRefusal
<1>4. \/ intent' = "refuse" /\ checked' = checked
      \/ Preserves /\ intent' = "respond_with_caveat" /\ checked' = checked
      \/ Preserves /\ Acceptable(Preserved) /\ intent' = "respond" /\ checked' = TRUE
  BY DEF EmitRefusal
<1>5. SpentSoFar'
  <2>1. PICK c \in Costs \cup {0} : cost' = cost + c
    BY <1>3
  <2>2. MaxCost' = MaxCost /\ MaxCost \in Nat /\ c \in Nat /\ c <= MaxCost
    BY MaxCostIs DEF MaxCost
  <2>3. cost \in Nat /\ cost < CostCap + 3 * MaxCost
    BY <1>1, <1>2 DEF SpentSoFar
  <2> QED BY <1>1, <2>1, <2>2, <2>3 DEF SpentSoFar
<1>6. IterationTyped'
  <2>1. [failures |-> failures, tripped |-> tripped]' \in SeenTypes
    BY <1>1, <1>2 DEF IterationTyped
  <2>2. checked' \in BOOLEAN /\ intent' \in Intents
    BY <1>2, <1>4 DEF IterationTyped, Intents
  <2>3. terminated' \in 0..1
    BY <1>1, <1>2 DEF JudgedSoFar
  <2> QED BY <1>1, <1>2, <2>1, <2>2, <2>3 DEF IterationTyped
<1>7. JudgedSoFar' /\ ShipsJudged'
  <2>1. Preserved' = Preserved /\ (Preserves => verdict \in {"none", "satisfied"})
    BY <1>1 DEF Preserved, Preserves
  <2>2. Acceptable(Preserved)' = Acceptable(Preserved)
    BY <2>1 DEF Acceptable
  <2>3. ShipsRejected' = ShipsRejected
    BY <1>1 DEF ShipsRejected
  <2> QED BY <1>1, <1>2, <1>4, <2>1, <2>2, <2>3 DEF JudgedSoFar, ShipsJudged, Shipped, IterationTyped
<1>8. ElevatesOnlyGreen'
  BY <1>1, <1>2 DEF ElevatesOnlyGreen
<1> QED BY <1>1, <1>5, <1>6, <1>7, <1>8 DEF IterationsInv

LEMMA LeavingSteps ==
  ASSUME IterationsInv, Cancel \/ WorkerRaises
  PROVE  IterationsInv' /\ pc' # "work"
<1> USE BoundsAre
<1>1. /\ iteration' = iteration /\ cost' = cost /\ late' = late /\ allowed' = allowed /\ effective' = effective
      /\ draft' = draft /\ calls' = calls /\ failures' = failures /\ tripped' = tripped
      /\ lastText' = lastText /\ lastCalls' = lastCalls /\ verdict' = verdict /\ note' = note
      /\ cited' = cited /\ judged' = judged /\ intent' = intent /\ checked' = checked
      /\ pc \in {"plan", "work", "check", "criticise", "refuse"}
      /\ \/ pc' = "ended" /\ reason' = "user_interrupt" /\ terminated' = terminated + 1
         \/ pc' = "raised" /\ reason' = reason /\ terminated' = terminated /\ pc = "work"
  BY DEF Cancel, WorkerRaises, toolVars, loopVars, endVars, Terminate
<1>2. IterationTyped /\ SpentSoFar /\ JudgedSoFar /\ ShipsJudged /\ ElevatesOnlyGreen
  BY DEF IterationsInv
<1>3. SpentSoFar'
  <2>1. MaxCost' = MaxCost
    BY DEF MaxCost
  <2> QED BY <1>1, <1>2, <2>1 DEF SpentSoFar
<1>4. IterationTyped'
  <2>1. [failures |-> failures, tripped |-> tripped]' \in SeenTypes
    BY <1>1, <1>2 DEF IterationTyped
  <2>2. terminated = 0
    BY <1>1, <1>2 DEF JudgedSoFar
  <2> QED BY <1>1, <1>2, <2>1, <2>2 DEF IterationTyped, Reasons
<1>5. JudgedSoFar' /\ ShipsJudged'
  BY <1>1, <1>2 DEF JudgedSoFar, ShipsJudged, Shipped
<1>6. ElevatesOnlyGreen'
  BY <1>1, <1>2 DEF ElevatesOnlyGreen
<1> QED BY <1>1, <1>3, <1>4, <1>5, <1>6 DEF IterationsInv

\* Along every path of a turn: the worker is started within the caps and on what is granted,
\* and a draft is shipped only as it was judged (run_agentic_turn and what it calls).
THEOREM IterationsSoundHolds == Spec => IterationsSound
<1> DEFINE Started == pc # "work" /\ pc' = "work" =>
      cost' < CostCap /\ ~late' /\ ~tripped' /\ judged # "accepted" /\ iteration' <= MaxIterations
<1>1. Init => IterationsInv
  <2>1. SUFFICES ASSUME Init PROVE IterationsInv
    OBVIOUS
  <2>2. [failures |-> failures, tripped |-> tripped] \in SeenTypes
    <3> DEFINE w == [failures |-> failures, tripped |-> tripped]
    <3>1. failures = [t \in Tools |-> 0] /\ tripped = FALSE
      BY <2>1 DEF Init
    <3>2. w.failures = failures /\ w.tripped = tripped /\ \A t \in Tools : failures[t] = 0
      BY <3>1
    <3> DEFINE Counts == 0..Threshold
    <3>3. 0 \in Counts
      BY BoundsAre
    <3> HIDE DEF Counts
    <3>4. failures \in [Tools -> Counts]
      BY <3>1, <3>3
    <3>5. failures \in [Tools -> 0..Threshold] /\ tripped \in BOOLEAN
      BY <3>1, <3>4 DEF Counts
    <3>6. w \in [failures : [Tools -> 0..Threshold], tripped : BOOLEAN]
      BY <3>5
    <3>7. \A t \in Tools : w.failures[t] < Threshold
      BY <3>2, BoundsAre
    <3> HIDE DEF w
    <3>8. w \in SeenTypes
      BY <3>6, <3>7 DEF SeenTypes
    <3> QED BY <3>8 DEF w
  <2>3. SpentSoFar
    BY <2>1, BoundsAre, MaxCostIs DEF Init, SpentSoFar
  <2>4. IterationTyped
    <3>1. iteration \in 0..MaxIterations
      BY <2>1, BoundsAre DEF Init
    <3>2. allowed \subseteq Groups /\ effective \subseteq Groups /\ draft \in Texts /\ lastText \in Texts
      BY <2>1, GroupsAssumption, TextsAssumption DEF Init
    <3>3. /\ pc = "plan" /\ late = FALSE /\ calls = <<>> /\ lastCalls = 0 /\ verdict = "none"
          /\ reason = "none" /\ intent = "none" /\ terminated = 0 /\ note = {} /\ cited = FALSE
          /\ judged = "none" /\ checked = FALSE
      BY <2>1 DEF Init
    <3>4. late \in BOOLEAN /\ cited \in BOOLEAN /\ checked \in BOOLEAN
      BY <3>3, Zenon
    <3>7. lastCalls \in Nat /\ terminated \in 0..1
      BY <3>3
    <3>6. calls \in ToolRuns \cup {<<>>}
      BY <3>3, Zenon
    <3>5. /\ reason \in Reasons \cup {"none"} /\ intent \in Intents /\ note \subseteq {"citations", "critic"}
          /\ judged \in {"none", "accepted", "rejected"}
      BY <3>3 DEF Intents
    <3> QED BY <2>2, <3>1, <3>2, <3>3, <3>4, <3>5, <3>6, <3>7 DEF IterationTyped
  <2> QED BY <2>1, <2>3, <2>4 DEF Init, IterationsInv, JudgedSoFar, ShipsJudged, Shipped, ElevatesOnlyGreen
<1>2. IterationsInv /\ [Next]_vars => IterationsInv' /\ [Started]_vars
  <2>1. ASSUME IterationsInv, Next PROVE IterationsInv' /\ Started
    <3>1. IterationsInv' /\ (pc' = "work" => cost' < CostCap /\ ~late' /\ judged # "accepted" /\ ~tripped')
      <4>1. OutOfIterations => pc' # "work"
        BY DEF OutOfIterations, Refuse
      <4> QED BY <2>1, <4>1, PlanSteps, OutOfIterationsSteps, WorkSteps, VerdictSteps, EmitSteps, LeavingSteps
              DEF Next, Step
    <3>2. iteration' <= MaxIterations
      BY <3>1, BoundsAre DEF IterationsInv, IterationTyped
    <3> QED BY <3>1, <3>2
  <2>2. ASSUME IterationsInv, UNCHANGED vars PROVE IterationsInv'
    <3>1. MaxCost' = MaxCost
      BY DEF MaxCost
    <3>2. SpentSoFar'
      BY <2>2, <3>1 DEF vars, IterationsInv, SpentSoFar
    <3>3. Preserved' = Preserved
      BY <2>2 DEF vars, Preserved
    <3>4. [failures |-> failures, tripped |-> tripped]' \in SeenTypes
      BY <2>2 DEF vars, IterationsInv, IterationTyped
    <3>5. IterationTyped'
      BY <2>2, <3>4 DEF vars, IterationsInv, IterationTyped
    <3>6. ShipsRejected' = ShipsRejected
      BY <2>2 DEF vars, ShipsRejected
    <3> QED BY <2>2, <3>2, <3>3, <3>5, <3>6
        DEF vars, IterationsInv, JudgedSoFar, ShipsJudged, Shipped, ElevatesOnlyGreen, Acceptable
  <2> QED BY <2>1, <2>2
<1>3. IterationsInv => ShipsJudged /\ ElevatesOnlyGreen
  BY DEF IterationsInv
<1>4. IterationsInv => TypeOK
  <2>1. SUFFICES ASSUME IterationsInv PROVE TypeOK
    OBVIOUS
  <2>2. cost \in 0..(CostCap + 4 * MaxCost - 1)
    BY <2>1, MaxCostIs, BoundsAre DEF IterationsInv, SpentSoFar
  <2>3. failures \in [Tools -> 0..Threshold] /\ tripped \in BOOLEAN
    BY <2>1 DEF IterationsInv, IterationTyped, SeenTypes
  <2> QED BY <2>1, <2>2, <2>3 DEF IterationsInv, IterationTyped, TypeOK
<1> QED BY <1>1, <1>2, <1>3, <1>4, PTL DEF Spec, IterationsSound, CapsHold, StartsWithinCaps

-----------------------------------------------------------------------------
(* Perception: the sources of a query, and where to stop.                    *)

Sources == 0..(ToolCount + 2)

\* The place at which a source is turned to.
PlaceAt(source) ==
  IF source = KB THEN 1 ELSE IF source = Memory THEN 2
  ELSE IF source = RAG THEN ToolCount + 3 ELSE source + 2

\* Every source has one place, the RAG the last.
LEMMA SourcesPlaced ==
  /\ Order \in Seq(Sources) /\ Len(Order) = ToolCount + 3 /\ ToolCount \in Nat
  /\ \A s \in Sources : PlaceAt(s) \in 1..Len(Order) /\ Order[PlaceAt(s)] = s
  /\ \A p \in 1..Len(Order) : Order[p] \in Sources /\ PlaceAt(Order[p]) = p
  /\ \A s \in Sources : PlaceAt(s) = Len(Order) <=> s = RAG
<1>1. ToolCount \in Nat
  BY PerceptionAssumption
<1> DEFINE tools == [t \in 1..ToolCount |-> t]
<1>2. tools \in Seq(Sources) /\ Len(tools) = ToolCount /\ \A t \in 1..ToolCount : tools[t] = t
  BY <1>1 DEF Sources
<1> HIDE DEF tools
<1>3. <<KB, Memory>> \in Seq(Sources) /\ <<RAG>> \in Seq(Sources)
  BY <1>1 DEF KB, Memory, RAG, Sources
<1> DEFINE front == <<KB, Memory>> \o tools
<1>4. /\ front \in Seq(Sources) /\ Len(front) = ToolCount + 2
      /\ front[1] = KB /\ front[2] = Memory
      /\ \A p \in 3..(ToolCount + 2) : front[p] = p - 2
  BY <1>1, <1>2, <1>3
<1> HIDE DEF front
<1>5. Order = front \o <<RAG>>
  BY DEF Order, front, tools
<1>6. /\ Order \in Seq(Sources) /\ Len(Order) = ToolCount + 3
      /\ \A p \in 1..(ToolCount + 2) : Order[p] = front[p]
      /\ Order[ToolCount + 3] = RAG
  BY <1>1, <1>3, <1>4, <1>5
<1>7. \A p \in 1..(ToolCount + 3) :
        Order[p] = IF p = 1 THEN 0 ELSE IF p = 2 THEN ToolCount + 1
                   ELSE IF p = ToolCount + 3 THEN ToolCount + 2 ELSE p - 2
  <2>1. /\ front[1] = 0 /\ front[2] = ToolCount + 1 /\ Order[ToolCount + 3] = ToolCount + 2
        /\ 1 \in 1..(ToolCount + 2) /\ 2 \in 1..(ToolCount + 2)
    BY <1>1, <1>4, <1>6 DEF KB, Memory, RAG
  <2> QED  BY <1>1, <1>4, <1>6, <2>1
<1>8. \A s \in Sources :
        PlaceAt(s) = IF s = 0 THEN 1 ELSE IF s = ToolCount + 1 THEN 2
                     ELSE IF s = ToolCount + 2 THEN ToolCount + 3 ELSE s + 2
  BY DEF PlaceAt, KB, Memory, RAG
<1>9. \A s \in Sources : PlaceAt(s) \in 1..(ToolCount + 3) /\ Order[PlaceAt(s)] = s
  <2> SUFFICES ASSUME NEW s \in Sources PROVE PlaceAt(s) \in 1..(ToolCount + 3) /\ Order[PlaceAt(s)] = s
    OBVIOUS
  <2> DEFINE at == PlaceAt(s)
  <2>1. s \in Int /\ 0 <= s /\ s <= ToolCount + 2
    BY <1>1 DEF Sources
  <2>2. at = IF s = 0 THEN 1 ELSE IF s = ToolCount + 1 THEN 2
             ELSE IF s = ToolCount + 2 THEN ToolCount + 3 ELSE s + 2
    BY <1>8
  <2> HIDE DEF at
  <2>3. at \in 1..(ToolCount + 3)
    BY <1>1, <2>1, <2>2
  <2>4. Order[at] = s
    BY <1>1, <1>7, <2>1, <2>2, <2>3
  <2> QED  BY <2>3, <2>4 DEF at
<1>10. \A p \in 1..(ToolCount + 3) : Order[p] \in Sources /\ PlaceAt(Order[p]) = p
  <2> SUFFICES ASSUME NEW p \in 1..(ToolCount + 3)
               PROVE  Order[p] \in Sources /\ PlaceAt(Order[p]) = p
    OBVIOUS
  <2> DEFINE s == Order[p]
  <2>1. s = IF p = 1 THEN 0 ELSE IF p = 2 THEN ToolCount + 1
            ELSE IF p = ToolCount + 3 THEN ToolCount + 2 ELSE p - 2
    BY <1>7
  <2> HIDE DEF s
  <2>2. s \in Sources
    BY <1>1, <2>1 DEF Sources
  <2>3. PlaceAt(s) = p
    BY <1>1, <1>8, <2>1, <2>2
  <2> QED  BY <2>2, <2>3 DEF s
<1>11. \A s \in Sources : PlaceAt(s) = ToolCount + 3 <=> s = RAG
  BY <1>1, <1>8 DEF Sources, RAG
<1> QED  BY <1>1, <1>6, <1>9, <1>10, <1>11

\* Which of two sources is earlier is told by their places.
LEMMA EarlierByPlace ==
  \A s, t \in Sources : Earlier(s, t) <=> PlaceAt(s) < PlaceAt(t)
<1> SUFFICES ASSUME NEW s \in Sources, NEW t \in Sources
             PROVE  Earlier(s, t) <=> PlaceAt(s) < PlaceAt(t)
  OBVIOUS
<1>1. DOMAIN Order = 1..Len(Order)
  BY SourcesPlaced
<1>2. ASSUME NEW p \in DOMAIN Order, NEW q \in DOMAIN Order, p < q, Order[p] = s, Order[q] = t
      PROVE  PlaceAt(s) < PlaceAt(t)
  BY <1>1, <1>2, SourcesPlaced
<1>3. ASSUME PlaceAt(s) < PlaceAt(t) PROVE Earlier(s, t)
  BY <1>1, <1>3, SourcesPlaced DEF Earlier
<1> QED  BY <1>2, <1>3 DEF Earlier

FoundItems == [source : Sources, score : Int \cup {NoScore}]

PerceiveTyped ==
  /\ perceiver \in PerceiverType
  /\ query.kind \in Kinds /\ query.tools \subseteq 1..ToolCount
  /\ next \in 1..(Len(Order) + 1)
  /\ consulted \in Seq(Sources) /\ found \in Seq(FoundItems)
  /\ answer.state \in {"asked", "returned", "raised"}

\* The sources up to a place have been turned to, each one that can be asked in its order.
AskedTo(m) ==
  /\ \A j \in DOMAIN consulted : Consults(consulted[j]) /\ PlaceAt(consulted[j]) <= m
  /\ \A i, j \in DOMAIN consulted : i < j => PlaceAt(consulted[i]) < PlaceAt(consulted[j])
  /\ \A s \in Sources :
       Consults(s) /\ PlaceAt(s) <= m => \E j \in DOMAIN consulted : consulted[j] = s

\* How far the turn has come: behind the answer, up to the source it is from.
TurnedTo(m) ==
  /\ AskedTo(m) /\ m \in 0..Len(Order)
  /\ answer.state = "asked" => m = next - 1
  /\ answer.state = "returned" /\ ~(perceiver.first /\ Enough(answer.items)) => m = Len(Order)

FoundInOrder ==
  \A i, j \in DOMAIN found :
    i <= j => \E a, b \in DOMAIN consulted :
                a <= b /\ consulted[a] = found[i].source /\ consulted[b] = found[j].source

\* Behind which of the sources there was not enough.
NotEnough(n) == \E k \in 0..Len(found) : GivenBy(n, k) /\ ~Enough(SubSeq(found, 1, k))
WentOn ==
  \A n \in DOMAIN consulted :
    n < Len(consulted) \/ (answer.state = "asked" /\ PlaceAt(consulted[n]) # Len(Order)) => NotEnough(n)

AllFound ==
  answer.state = "returned" =>
    /\ answer.items = found /\ answer.refused = (found = <<>>)
    /\ answer.refused => ~answer.confident

PerceiveInv ==
  /\ PerceiveTyped /\ FoundInOrder /\ AllFound
  /\ perceiver.first => WentOn
  /\ \E m \in 0..Len(Order) : TurnedTo(m)

LEMMA PerceiveBegins == PerceiveInit => PerceiveInv
<1> SUFFICES ASSUME PerceiveInit PROVE PerceiveInv
  OBVIOUS
<1>1. /\ consulted = <<>> /\ found = <<>> /\ next = 1 /\ answer.state = "asked"
      /\ perceiver \in PerceiverType /\ query.kind \in Kinds /\ query.tools \subseteq 1..ToolCount
  BY PerceptionAssumption DEF PerceiveInit, Asked
<1>2. Len(Order) \in Nat
  BY SourcesPlaced
<1>3. PerceiveTyped
  BY <1>1, <1>2 DEF PerceiveTyped
<1>4. AskedTo(0)
  <2>1. \A s \in Sources : ~(PlaceAt(s) <= 0)
    BY SourcesPlaced
  <2> QED  BY <1>1, <2>1 DEF AskedTo
<1>5. TurnedTo(0)
  BY <1>1, <1>2, <1>4 DEF TurnedTo
<1>6. FoundInOrder /\ AllFound /\ WentOn
  BY <1>1 DEF FoundInOrder, AllFound, WentOn
<1> QED  BY <1>2, <1>3, <1>5, <1>6 DEF PerceiveInv

\* A source that cannot be asked is passed.
LEMMA PerceivePasses == ASSUME PerceiveInv, Pass PROVE PerceiveInv'
<1>1. /\ answer.state = "asked" /\ next <= Len(Order) /\ ~Consults(Order[next]) /\ next' = next + 1
      /\ UNCHANGED <<perceiver, query, consulted, found, answer>>
  BY DEF Pass
<1>2. next \in 1..Len(Order) /\ Len(Order) \in Nat
  BY <1>1, SourcesPlaced DEF PerceiveInv, PerceiveTyped
<1>3. AskedTo(next - 1)
  BY <1>1 DEF PerceiveInv, TurnedTo
<1>4. ASSUME NEW m \in 0..Len(Order), m = next PROVE TurnedTo(m)'
  <2>1. \A s \in Sources : Consults(s) /\ PlaceAt(s) <= m => PlaceAt(s) <= next - 1
    <3> SUFFICES ASSUME NEW s \in Sources, Consults(s), PlaceAt(s) <= m PROVE PlaceAt(s) <= next - 1
      OBVIOUS
    <3>1. PlaceAt(s) # next
      BY <1>1, SourcesPlaced
    <3> QED  BY <1>2, <1>4, <3>1, SourcesPlaced
  <2>2. \A j \in DOMAIN consulted : consulted[j] \in Sources
    BY DEF PerceiveInv, PerceiveTyped
  <2>3. AskedTo(m)
    BY <1>2, <1>3, <1>4, <2>1, <2>2, SourcesPlaced DEF AskedTo
  <2>4. AskedTo(m)'
    BY <1>1, <2>3 DEF AskedTo, Consults, ReadOnly
  <2> QED  BY <1>1, <1>2, <1>4, <2>4 DEF TurnedTo
<1>5. PerceiveTyped'
  BY <1>1, <1>2 DEF PerceiveInv, PerceiveTyped
<1>6. FoundInOrder' /\ AllFound' /\ (perceiver.first => WentOn)'
  BY <1>1 DEF PerceiveInv, FoundInOrder, AllFound, WentOn, NotEnough, GivenBy
<1>7. \E m \in 0..Len(Order) : TurnedTo(m)'
  BY <1>2, <1>4
<1> QED  BY <1>5, <1>6, <1>7 DEF PerceiveInv

\* A source that is asked is the next of those that can be.
LEMMA TurnsToNext ==
  ASSUME PerceiveInv, answer.state = "asked", next <= Len(Order), Consults(Order[next]),
         consulted' = Append(consulted, Order[next]), UNCHANGED <<perceiver, query>>
  PROVE  /\ next \in 1..Len(Order) /\ Order[next] \in Sources /\ PlaceAt(Order[next]) = next
         /\ \A j \in DOMAIN consulted : PlaceAt(consulted[j]) < next /\ consulted[j] # Order[next]
         /\ consulted' \in Seq(Sources) /\ Len(consulted') = Len(consulted) + 1
         /\ \A j \in 1..Len(consulted) : consulted'[j] = consulted[j]
         /\ consulted'[Len(consulted) + 1] = Order[next]
         /\ \A m \in 0..Len(Order) : m = next => AskedTo(m)'
<1> DEFINE source == Order[next]
           last == Len(consulted) + 1
<1>1. /\ next \in 1..Len(Order) /\ Len(Order) \in Nat
      /\ source \in Sources /\ PlaceAt(source) = next
  BY SourcesPlaced DEF PerceiveInv, PerceiveTyped
<1>2. AskedTo(next - 1)
  BY DEF PerceiveInv, TurnedTo
<1>3. consulted \in Seq(Sources) /\ Consults(source)
  BY DEF PerceiveInv, PerceiveTyped
<1>4. consulted' = Append(consulted, source)
  OBVIOUS
<1> HIDE DEF source
<1>5. \A j \in DOMAIN consulted : PlaceAt(consulted[j]) < next /\ consulted[j] # source
  <2> SUFFICES ASSUME NEW j \in DOMAIN consulted
               PROVE  PlaceAt(consulted[j]) < next /\ consulted[j] # source
    OBVIOUS
  <2>1. PlaceAt(consulted[j]) <= next - 1 /\ consulted[j] \in Sources
    BY <1>2, <1>3 DEF AskedTo
  <2>2. PlaceAt(consulted[j]) \in Int
    BY <2>1, SourcesPlaced
  <2> QED  BY <1>1, <2>1, <2>2
<1>6. /\ consulted' \in Seq(Sources) /\ Len(consulted') = last /\ consulted'[last] = source
      /\ \A j \in 1..Len(consulted) : consulted'[j] = consulted[j]
      /\ DOMAIN consulted' = 1..last /\ DOMAIN consulted = 1..Len(consulted) /\ Len(consulted) \in Nat
  BY <1>1, <1>3, <1>4
<1>7. ASSUME NEW m \in 0..Len(Order), m = next PROVE AskedTo(m)'
  <2>1. \A j \in 1..last : Consults(consulted'[j]) /\ PlaceAt(consulted'[j]) <= m /\ consulted'[j] \in Sources
    <3> SUFFICES ASSUME NEW j \in 1..last
                 PROVE  Consults(consulted'[j]) /\ PlaceAt(consulted'[j]) <= m /\ consulted'[j] \in Sources
      OBVIOUS
    <3>1. CASE j = last
      BY <1>1, <1>3, <1>6, <1>7, <3>1
    <3>2. CASE j # last
      <4>1. j \in 1..Len(consulted)
        BY <1>6, <3>2
      <4>2. Consults(consulted[j]) /\ PlaceAt(consulted[j]) < next /\ consulted[j] \in Sources
        BY <1>2, <1>3, <1>5, <1>6, <4>1 DEF AskedTo
      <4>3. PlaceAt(consulted[j]) \in Int
        BY <4>2, SourcesPlaced
      <4> QED  BY <1>1, <1>6, <1>7, <4>1, <4>2, <4>3
    <3> QED  BY <3>1, <3>2
  <2>2. \A i, j \in 1..last : i < j => PlaceAt(consulted'[i]) < PlaceAt(consulted'[j])
    <3> SUFFICES ASSUME NEW i \in 1..last, NEW j \in 1..last, i < j
                 PROVE  PlaceAt(consulted'[i]) < PlaceAt(consulted'[j])
      OBVIOUS
    <3>1. i \in 1..Len(consulted) /\ consulted'[i] = consulted[i]
      BY <1>6
    <3>2. CASE j = last
      BY <1>1, <1>5, <1>6, <3>1, <3>2
    <3>3. CASE j # last
      <4>1. j \in 1..Len(consulted) /\ consulted'[j] = consulted[j]
        BY <1>6, <3>3
      <4> QED  BY <1>2, <1>6, <3>1, <4>1 DEF AskedTo
    <3> QED  BY <3>2, <3>3
  <2>3. \A s \in Sources :
          Consults(s) /\ PlaceAt(s) <= m => \E j \in 1..last : consulted'[j] = s
    <3> SUFFICES ASSUME NEW s \in Sources, Consults(s), PlaceAt(s) <= m
                 PROVE  \E j \in 1..last : consulted'[j] = s
      OBVIOUS
    <3>1. CASE s = source
      BY <1>6, <3>1
    <3>2. CASE s # source
      <4>1. PlaceAt(s) # next
        BY <1>1, <3>2, SourcesPlaced DEF source
      <4>2. PlaceAt(s) <= next - 1
        BY <1>1, <1>7, <4>1, SourcesPlaced
      <4>3. PICK j \in 1..Len(consulted) : consulted[j] = s
        BY <1>2, <1>6, <4>2 DEF AskedTo
      <4> QED  BY <1>6, <4>3
    <3> QED  BY <3>1, <3>2
  <2>4. DOMAIN consulted' = 1..last
    BY <1>6
  <2> QED  BY <2>1, <2>2, <2>3, <2>4 DEF AskedTo, Consults, ReadOnly
<1>8. DOMAIN consulted = 1..Len(consulted)
  BY <1>3
<1> QED  BY <1>1, <1>5, <1>6, <1>7 DEF source

\* What a source answers is of that source.
LEMMA ItemsGiven ==
  ASSUME NEW source \in Sources, NEW scores \in Seq(Int \cup {NoScore})
  PROVE  /\ Items(source, scores) \in Seq(FoundItems)
         /\ \A i \in DOMAIN Items(source, scores) : Items(source, scores)[i].source = source
<1> DEFINE D == {i \in DOMAIN scores : source = Memory => i <= MaxResults}
           m == IF source = Memory /\ MaxResults < Len(scores) THEN MaxResults ELSE Len(scores)
<1>1. MaxResults \in Nat /\ Len(scores) \in Nat /\ DOMAIN scores = 1..Len(scores)
  BY PerceptionAssumption
<1>2. m \in Nat /\ D = 1..m
  <2>1. CASE source = Memory
    BY <1>1, <2>1
  <2>2. CASE source # Memory
    BY <1>1, <2>2
  <2> QED  BY <2>1, <2>2
<1>3. \A i \in D : scores[i] \in Int \cup {NoScore}
  OBVIOUS
<1>4. Items(source, scores) = [i \in D |-> [source |-> source, score |-> scores[i]]]
  BY DEF Items
<1> HIDE DEF m, D
<1>5. \A i \in D : [source |-> source, score |-> scores[i]] \in FoundItems
  BY <1>3 DEF FoundItems
<1> QED  BY <1>2, <1>4, <1>5

\* A source is asked.
LEMMA PerceiveConsults == ASSUME PerceiveInv, Consult PROVE PerceiveInv'
<1> DEFINE source == Order[next]
           n0 == Len(found)
           c0 == Len(consulted)
<1>1. /\ answer.state = "asked" /\ next <= Len(Order) /\ Consults(source)
      /\ consulted' = Append(consulted, source) /\ UNCHANGED <<perceiver, query>>
  BY DEF Consult
<1>2. /\ next \in 1..Len(Order) /\ source \in Sources /\ PlaceAt(source) = next
      /\ \A j \in DOMAIN consulted : PlaceAt(consulted[j]) < next /\ consulted[j] # source
      /\ consulted' \in Seq(Sources) /\ Len(consulted') = c0 + 1
      /\ \A j \in 1..c0 : consulted'[j] = consulted[j]
      /\ consulted'[c0 + 1] = source
      /\ \A m \in 0..Len(Order) : m = next => AskedTo(m)'
  BY <1>1, TurnsToNext
<1>3. PICK scores \in Answers(source) :
        /\ found' = found \o Items(source, scores)
        /\ IF Stops(source, Items(source, scores))
           THEN /\ answer' = [state |-> "returned", items |-> found', confident |-> TRUE,
                              refused |-> FALSE]
                /\ next' = next
           ELSE next' = next + 1 /\ answer' = answer
  BY DEF Consult
<1>4. scores \in Seq(Int \cup {NoScore})
  BY PerceptionAssumption DEF Answers
<1> DEFINE new == Items(source, scores)
<1>5. new \in Seq(FoundItems) /\ \A i \in DOMAIN new : new[i].source = source
  BY <1>2, <1>4, ItemsGiven
<1>6. Stops(source, new) <=> perceiver.first /\ source # RAG /\ Enough(found \o new)
  BY DEF Stops
<1>7. /\ found' = found \o new
      /\ \/ /\ Stops(source, new) /\ next' = next
            /\ answer' = [state |-> "returned", items |-> found', confident |-> TRUE, refused |-> FALSE]
         \/ ~Stops(source, new) /\ next' = next + 1 /\ answer' = answer
  BY <1>3
<1>8. found \in Seq(FoundItems) /\ consulted \in Seq(Sources) /\ Len(Order) \in Nat
  BY SourcesPlaced DEF PerceiveInv, PerceiveTyped
<1>9. source = RAG <=> next = Len(Order)
  BY <1>2, SourcesPlaced
<1> HIDE DEF source, new
<1>10. /\ found' \in Seq(FoundItems) /\ Len(found') = n0 + Len(new) /\ n0 \in Nat /\ Len(new) \in Nat
       /\ \A i \in 1..n0 : found'[i] = found[i]
       /\ \A i \in 1..Len(found') : i > n0 => found'[i].source = source
  <2>1. found' \in Seq(FoundItems) /\ Len(found') = n0 + Len(new) /\ n0 \in Nat /\ Len(new) \in Nat
        /\ \A i \in 1..n0 : found'[i] = found[i]
    BY <1>5, <1>7, <1>8
  <2>2. ASSUME NEW i \in 1..Len(found'), i > n0 PROVE found'[i].source = source
    <3>1. i - n0 \in DOMAIN new /\ found'[i] = new[i - n0]
      BY <1>5, <1>7, <1>8, <2>1, <2>2
    <3> QED  BY <1>5, <3>1
  <2> QED  BY <2>1, <2>2
<1>11. c0 \in Nat /\ DOMAIN consulted = 1..c0 /\ DOMAIN consulted' = 1..(c0 + 1)
       /\ DOMAIN found = 1..n0 /\ DOMAIN found' = 1..Len(found')
  BY <1>2, <1>8, <1>10
<1> HIDE DEF n0, c0
<1>12. \A i \in 1..n0 : \E a \in 1..c0 : consulted[a] = found[i].source
  BY <1>10, <1>11 DEF PerceiveInv, FoundInOrder
<1>13. FoundInOrder'
  <2>1. ASSUME NEW i \in 1..Len(found'), NEW j \in 1..Len(found'), i <= j
        PROVE  \E a, b \in 1..(c0 + 1) :
                 a <= b /\ consulted'[a] = found'[i].source /\ consulted'[b] = found'[j].source
    <3>1. CASE j <= n0
      <4>1. i \in 1..n0 /\ j \in 1..n0
        BY <1>10, <2>1, <3>1
      <4>2. PICK a \in 1..c0, b \in 1..c0 :
              a <= b /\ consulted[a] = found[i].source /\ consulted[b] = found[j].source
        BY <1>11, <2>1, <4>1 DEF PerceiveInv, FoundInOrder
      <4>3. a \in 1..(c0 + 1) /\ b \in 1..(c0 + 1)
        BY <1>11
      <4> QED  BY <1>2, <1>10, <4>1, <4>2, <4>3
    <3>2. CASE i <= n0 /\ ~(j <= n0)
      <4>1. i \in 1..n0 /\ found'[j].source = source
        BY <1>10, <2>1, <3>2
      <4>2. PICK a \in 1..c0 : consulted[a] = found[i].source
        BY <1>12, <4>1
      <4>3. a \in 1..(c0 + 1) /\ c0 + 1 \in 1..(c0 + 1) /\ a <= c0 + 1
        BY <1>11
      <4> QED  BY <1>2, <1>10, <4>1, <4>2, <4>3
    <3>3. CASE ~(i <= n0)
      <4>1. found'[i].source = source /\ found'[j].source = source
        BY <1>10, <2>1, <3>3
      <4>2. c0 + 1 \in 1..(c0 + 1) /\ c0 + 1 <= c0 + 1
        BY <1>11
      <4> QED  BY <1>2, <4>1, <4>2
    <3> QED  BY <3>1, <3>2, <3>3
  <2>2. \A i, j \in DOMAIN found' :
          i <= j => \E a, b \in DOMAIN consulted' :
                      a <= b /\ consulted'[a] = found'[i].source /\ consulted'[b] = found'[j].source
    <3> DEFINE F == DOMAIN found'
               C == DOMAIN consulted'
    <3>1. F = 1..Len(found') /\ C = 1..(c0 + 1)
      BY <1>11
    <3> HIDE DEF F, C
    <3>2. \A i, j \in F :
            i <= j => \E a, b \in C :
                        a <= b /\ consulted'[a] = found'[i].source /\ consulted'[b] = found'[j].source
      BY <2>1, <3>1
    <3> QED  BY <3>2 DEF F, C
  <2> QED  BY <2>2 DEF FoundInOrder
<1>14. (perceiver.first => WentOn)'
  <2> SUFFICES ASSUME perceiver'.first, NEW n \in 1..(c0 + 1),
                      n < c0 + 1 \/ (answer'.state = "asked" /\ PlaceAt(consulted'[n]) # Len(Order))
               PROVE  NotEnough(n)'
    BY <1>2, <1>11 DEF WentOn
  <2>1. CASE n # c0 + 1
    <3>1. n \in 1..c0 /\ n \in DOMAIN consulted
      BY <1>11, <2>1
    <3>2. PlaceAt(consulted[n]) < next /\ consulted[n] \in Sources
      BY <1>2, <1>8, <3>1
    <3>3. PlaceAt(consulted[n]) # Len(Order)
      BY <1>2, <1>8, <3>2, SourcesPlaced
    <3>4. PICK k \in 0..n0 : GivenBy(n, k) /\ ~Enough(SubSeq(found, 1, k))
      BY <1>1, <3>1, <3>3 DEF PerceiveInv, WentOn, NotEnough, n0
    <3>5. SubSeq(found', 1, k) = SubSeq(found, 1, k)
      BY <1>8, <1>10, <1>11, <3>4
    <3>6. GivenBy(n, k)'
      <4>1. ASSUME NEW i \in 1..Len(found')
            PROVE  i <= k <=> found'[i].source \in {consulted'[j] : j \in 1..n}
        <5>1. \A j \in 1..n : consulted'[j] = consulted[j] /\ consulted[j] # source
          BY <1>2, <1>11, <3>1
        <5>2. CASE i <= n0
          <6>1. i \in 1..n0 /\ found'[i] = found[i]
            BY <1>10, <5>2
          <6>2. i <= k <=> found[i].source \in {consulted[j] : j \in 1..n}
            BY <1>11, <3>4, <6>1 DEF GivenBy
          <6> QED  BY <5>1, <6>1, <6>2
        <5>3. CASE ~(i <= n0)
          <6>1. ~(i <= k) /\ found'[i].source = source
            BY <1>10, <3>4, <5>3
          <6> QED  BY <5>1, <6>1
        <5> QED  BY <5>2, <5>3
      <4> QED  BY <1>11, <4>1 DEF GivenBy
    <3>7. k \in 0..Len(found')
      BY <1>10
    <3> QED  BY <3>4, <3>5, <3>6, <3>7 DEF NotEnough
  <2>2. CASE n = c0 + 1
    <3>1. answer'.state = "asked" /\ next # Len(Order)
      BY <1>2, <1>11, <2>2
    <3>2. ~Enough(found')
      BY <1>1, <1>6, <1>7, <1>9, <3>1
    <3>3. SubSeq(found', 1, Len(found')) = found'
      BY <1>10
    <3>4. PICK k \in 0..Len(found') : k = Len(found')
      BY <1>10
    <3>5. GivenBy(n, k)'
      <4>1. ASSUME NEW i \in 1..Len(found')
            PROVE  i <= k /\ found'[i].source \in {consulted'[j] : j \in 1..n}
        <5>1. CASE i <= n0
          <6>1. i \in 1..n0 /\ found'[i] = found[i]
            BY <1>10, <5>1
          <6>2. PICK a \in 1..c0 : consulted[a] = found[i].source
            BY <1>12, <6>1
          <6>3. a \in 1..n /\ consulted'[a] = consulted[a]
            BY <1>2, <1>11, <2>2
          <6> QED  BY <3>4, <6>1, <6>2, <6>3
        <5>2. CASE ~(i <= n0)
          <6>1. found'[i].source = source /\ c0 + 1 \in 1..n
            BY <1>10, <1>11, <2>2, <5>2
          <6> QED  BY <1>2, <3>4, <6>1
        <5> QED  BY <5>1, <5>2
      <4> QED  BY <1>11, <4>1 DEF GivenBy
    <3>6. ~Enough(SubSeq(found', 1, k))
      BY <3>2, <3>3, <3>4
    <3> QED  BY <3>5, <3>6 DEF NotEnough
  <2> QED  BY <2>1, <2>2
<1>15. \E m \in 0..Len(Order) : TurnedTo(m)'
  <2>1. ASSUME NEW m \in 0..Len(Order), m = next PROVE TurnedTo(m)'
    <3>1. AskedTo(m)'
      BY <1>2, <2>1
    <3>2. answer'.state = "asked" => m = next' - 1
      BY <1>2, <1>7, <2>1
    <3>3. answer'.state = "returned" => perceiver'.first /\ Enough(answer'.items)
      <4>1. CASE Stops(source, new)
        <5>1. perceiver'.first /\ Enough(found')
          BY <1>1, <1>6, <1>7, <4>1
        <5>2. answer'.items = found'
          BY <1>7, <4>1
        <5> QED  BY <5>1, <5>2
      <4>2. CASE ~Stops(source, new)
        BY <1>1, <1>7, <4>2
      <4> QED  BY <4>1, <4>2
    <3> QED  BY <3>1, <3>2, <3>3 DEF TurnedTo
  <2>2. next \in 0..Len(Order)
    BY <1>2, <1>8
  <2> QED  BY <2>1, <2>2
<1>16. AllFound'
  <2>1. CASE Stops(source, new)
    <3>1. found' # <<>>
      BY <1>6, <1>7, <2>1 DEF Enough
    <3>2. answer'.items = found' /\ answer'.refused = FALSE
      BY <1>7, <2>1
    <3> QED  BY <3>1, <3>2, Zenon DEF AllFound
  <2>2. CASE ~Stops(source, new)
    BY <1>1, <1>7, <2>2 DEF AllFound
  <2> QED  BY <2>1, <2>2
<1>17. PerceiveTyped'
  BY <1>1, <1>2, <1>7, <1>8, <1>10 DEF PerceiveInv, PerceiveTyped
<1> QED  BY <1>13, <1>14, <1>15, <1>16, <1>17 DEF PerceiveInv

\* A source that raises ends the query where it stands.
LEMMA PerceiveRaises == ASSUME PerceiveInv, ConsultRaises PROVE PerceiveInv'
<1> DEFINE c0 == Len(consulted)
<1>1. /\ answer.state = "asked" /\ next <= Len(Order) /\ Consults(Order[next])
      /\ consulted' = Append(consulted, Order[next]) /\ answer'.state = "raised"
      /\ UNCHANGED <<perceiver, query, next, found>>
  BY DEF ConsultRaises, Asked
<1>2. /\ next \in 1..Len(Order)
      /\ \A j \in DOMAIN consulted : PlaceAt(consulted[j]) < next
      /\ consulted' \in Seq(Sources) /\ Len(consulted') = c0 + 1
      /\ \A j \in 1..c0 : consulted'[j] = consulted[j]
      /\ \A m \in 0..Len(Order) : m = next => AskedTo(m)'
  BY <1>1, TurnsToNext
<1>3. /\ consulted \in Seq(Sources) /\ Len(Order) \in Nat /\ c0 \in Nat /\ DOMAIN consulted = 1..c0
      /\ DOMAIN consulted' = 1..(c0 + 1)
  BY <1>2, SourcesPlaced DEF PerceiveInv, PerceiveTyped
<1>4. \E m \in 0..Len(Order) : TurnedTo(m)'
  <2>1. ASSUME NEW m \in 0..Len(Order), m = next PROVE TurnedTo(m)'
    BY <1>1, <1>2, <2>1 DEF TurnedTo
  <2>2. next \in 0..Len(Order)
    BY <1>2, <1>3
  <2> QED  BY <2>1, <2>2
<1> HIDE DEF c0
<1>5. (perceiver.first => WentOn)'
  <2> SUFFICES ASSUME perceiver'.first, NEW n \in 1..(c0 + 1), n < c0 + 1
               PROVE  NotEnough(n)'
    BY <1>1, <1>2, <1>3 DEF WentOn
  <2>1. n \in 1..c0
    BY <1>3
  <2>2. PlaceAt(consulted[n]) # Len(Order)
    <3>1. PlaceAt(consulted[n]) < next /\ consulted[n] \in Sources
      BY <1>2, <1>3, <2>1
    <3> QED  BY <1>2, <1>3, <3>1, SourcesPlaced
  <2>3. PICK k \in 0..Len(found) : GivenBy(n, k) /\ ~Enough(SubSeq(found, 1, k))
    BY <1>1, <1>3, <2>1, <2>2 DEF PerceiveInv, WentOn, NotEnough
  <2>4. {consulted'[j] : j \in 1..n} = {consulted[j] : j \in 1..n}
    <3>1. \A j \in 1..n : consulted'[j] = consulted[j]
      BY <1>2, <1>3, <2>1
    <3> QED  BY <3>1
  <2>5. GivenBy(n, k)'
    BY <1>1, <2>3, <2>4 DEF GivenBy
  <2> QED  BY <1>1, <2>3, <2>5 DEF NotEnough
<1>6. FoundInOrder'
  <2> DEFINE C == DOMAIN consulted
             D == DOMAIN consulted'
  <2>1. C \subseteq D /\ \A j \in C : consulted'[j] = consulted[j]
    BY <1>2, <1>3
  <2>2. \A i, j \in DOMAIN found :
          i <= j => \E a, b \in C :
                      a <= b /\ consulted[a] = found[i].source /\ consulted[b] = found[j].source
    BY DEF PerceiveInv, FoundInOrder
  <2> HIDE DEF C, D
  <2>3. \A i, j \in DOMAIN found :
          i <= j => \E a, b \in D :
                      a <= b /\ consulted'[a] = found[i].source /\ consulted'[b] = found[j].source
    BY <2>1, <2>2
  <2> QED  BY <1>1, <2>3 DEF FoundInOrder, D
<1>7. AllFound' /\ PerceiveTyped'
  BY <1>1, <1>2 DEF PerceiveInv, AllFound, PerceiveTyped
<1> QED  BY <1>4, <1>5, <1>6, <1>7 DEF PerceiveInv

\* When all sources were turned to, what they gave is the answer.
LEMMA PerceiveSettles == ASSUME PerceiveInv, Settle PROVE PerceiveInv'
<1>1. /\ answer.state = "asked" /\ next > Len(Order)
      /\ answer' = [state |-> "returned", items |-> found, confident |-> found # <<>>,
                    refused |-> found = <<>>]
      /\ UNCHANGED <<perceiver, query, next, consulted, found>>
  BY DEF Settle
<1>2. Len(Order) \in Nat /\ next \in 1..(Len(Order) + 1)
  BY SourcesPlaced DEF PerceiveInv, PerceiveTyped
<1>3. PICK m \in 0..Len(Order) : TurnedTo(m)
  BY DEF PerceiveInv
<1>4. m = Len(Order)
  BY <1>1, <1>2, <1>3 DEF TurnedTo
<1>5. TurnedTo(m)'
  <2>1. AskedTo(m)'
    BY <1>1, <1>3 DEF TurnedTo, AskedTo, Consults, ReadOnly
  <2> QED  BY <1>1, <1>4, <2>1 DEF TurnedTo
<1>6. AllFound'
  <2>1. answer'.items = found /\ answer'.refused = (found = <<>>) /\ answer'.confident = (found # <<>>)
    BY <1>1
  <2> QED  BY <1>1, <2>1 DEF AllFound
<1>7. FoundInOrder' /\ (perceiver.first => WentOn)' /\ PerceiveTyped'
  BY <1>1 DEF PerceiveInv, FoundInOrder, WentOn, NotEnough, GivenBy, PerceiveTyped
<1> QED  BY <1>5, <1>6, <1>7 DEF PerceiveInv

\* The property from the invariant.
LEMMA PerceiveTold == PerceiveInv => PerceptionSound
<1> SUFFICES ASSUME PerceiveInv PROVE PerceptionSound
  OBVIOUS
<1>1. PICK m \in 0..Len(Order) : TurnedTo(m)
  BY DEF PerceiveInv
<1>2. AskedTo(m) /\ consulted \in Seq(Sources)
  BY <1>1 DEF TurnedTo, PerceiveInv, PerceiveTyped
<1>3. \A s : s \in Eligible <=> s \in Sources /\ Consults(s)
  <2>1. ToSet(Order) = Sources
    BY SourcesPlaced DEF ToSet
  <2> QED  BY <2>1 DEF Eligible
<1>4. ToSet(consulted) = {consulted[j] : j \in DOMAIN consulted}
  BY DEF ToSet
<1>5. ToSet(consulted) \subseteq Eligible
  BY <1>2, <1>3, <1>4 DEF AskedTo
<1>6. ASSUME NEW j \in DOMAIN consulted, NEW source \in Eligible
      PROVE  Earlier(source, consulted[j]) <=> \E i \in 1..(j - 1) : consulted[i] = source
  <2>1. /\ source \in Sources /\ Consults(source) /\ consulted[j] \in Sources
        /\ j \in 1..Len(consulted) /\ DOMAIN consulted = 1..Len(consulted) /\ Len(consulted) \in Nat
    BY <1>2, <1>3
  <2>2. PlaceAt(source) \in Int /\ PlaceAt(consulted[j]) \in Int
        /\ PlaceAt(consulted[j]) <= m
    BY <1>2, <2>1, SourcesPlaced DEF AskedTo
  <2>3. ASSUME PlaceAt(source) < PlaceAt(consulted[j])
        PROVE  \E i \in 1..(j - 1) : consulted[i] = source
    <3>1. PlaceAt(source) <= m
      BY <2>2, <2>3
    <3>2. PICK i \in DOMAIN consulted : consulted[i] = source
      BY <1>2, <2>1, <3>1 DEF AskedTo
    <3>3. i < j
      <4>1. CASE i = j
        BY <2>2, <2>3, <3>2, <4>1
      <4>2. CASE j < i
        <5>1. PlaceAt(consulted[j]) < PlaceAt(consulted[i])
          BY <1>2, <4>2 DEF AskedTo
        <5> QED  BY <2>2, <2>3, <3>2, <5>1
      <4> QED  BY <2>1, <4>1, <4>2
    <3> QED  BY <2>1, <3>2, <3>3
  <2>4. ASSUME NEW i \in 1..(j - 1), consulted[i] = source
        PROVE  PlaceAt(source) < PlaceAt(consulted[j])
    <3>1. i \in DOMAIN consulted /\ i < j
      BY <2>1
    <3> QED  BY <1>2, <2>4, <3>1 DEF AskedTo
  <2> QED  BY <2>1, <2>3, <2>4, EarlierByPlace
<1>7. perceiver.first =>
        \A n \in 1..(Len(consulted) - 1) :
          \E k \in 0..Len(found) : GivenBy(n, k) /\ ~Enough(SubSeq(found, 1, k))
  BY <1>2 DEF PerceiveInv, WentOn, NotEnough
<1>8. answer.state = "returned" /\ ~(perceiver.first /\ Enough(answer.items)) =>
        Eligible \subseteq ToSet(consulted)
  <2> SUFFICES ASSUME answer.state = "returned", ~(perceiver.first /\ Enough(answer.items)),
                      NEW s \in Eligible
               PROVE  s \in ToSet(consulted)
    OBVIOUS
  <2>1. m = Len(Order)
    BY <1>1 DEF TurnedTo
  <2>2. s \in Sources /\ Consults(s) /\ PlaceAt(s) <= m
    BY <1>3, <2>1, SourcesPlaced
  <2> QED  BY <1>2, <1>4, <2>2 DEF AskedTo
<1>9. StopsWhenEnough
  BY <1>5, <1>6, <1>7, <1>8 DEF StopsWhenEnough
<1>10. NothingLost
  <2>1. DOMAIN found = 1..Len(found)
    BY DEF PerceiveInv, PerceiveTyped
  <2> QED  BY <2>1 DEF PerceiveInv, FoundInOrder, AllFound, NothingLost
<1>11. PerceiveTypeOK
  BY DEF PerceiveInv, PerceiveTyped, PerceiveTypeOK
<1> QED  BY <1>9, <1>10, <1>11 DEF PerceptionSound

\* A query is put to the sources in their one order and to none that is not there, not asked
\* for or not read-only; it ends at the first point where what there is is good enough, and
\* the answer is all that was found; for any tools, kinds, scores and limits.
THEOREM PerceptionSoundHolds == PerceiveSpec => []PerceptionSound
<1>1. PerceiveInit => PerceiveInv
  BY PerceiveBegins
<1>2. PerceiveInv /\ [PerceiveNext]_perceiveVars => PerceiveInv'
  <2> SUFFICES ASSUME PerceiveInv, [PerceiveNext]_perceiveVars PROVE PerceiveInv'
    OBVIOUS
  <2>1. CASE Pass
    BY <2>1, PerceivePasses
  <2>2. CASE Consult
    BY <2>2, PerceiveConsults
  <2>3. CASE ConsultRaises
    BY <2>3, PerceiveRaises
  <2>4. CASE Settle
    BY <2>4, PerceiveSettles
  <2>5. CASE UNCHANGED perceiveVars
    BY <2>5 DEF perceiveVars, PerceiveInv, PerceiveTyped, FoundInOrder, AllFound, WentOn, NotEnough,
      GivenBy, TurnedTo, AskedTo, Consults, ReadOnly
  <2> QED  BY <2>1, <2>2, <2>3, <2>4, <2>5 DEF PerceiveNext
<1>3. PerceiveInv => PerceptionSound
  BY PerceiveTold
<1> QED  BY <1>1, <1>2, <1>3, PTL DEF PerceiveSpec
=============================================================================
