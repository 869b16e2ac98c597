------------------------------ MODULE Citations ------------------------------
(***************************************************************************)
(* The check of the case citations of a draft of citations/verifier.py: all *)
(* of them, a few at a time behind a semaphore, each looked up at          *)
(* CourtListener, through a browser first and without it when that fails,  *)
(* and judged by the name and the year of the first case that comes back.  *)
(* A citation is known by its place in the draft.                          *)
(***************************************************************************)
EXTENDS Integers, Sequences, FiniteSets, SequencesExt, FiniteSetsExt

CONSTANTS
  Drafts,        \* the citations a draft may have, sequences of Cites
  MaxConcurrent, \* max_concurrent
  Cases,         \* the cases CourtListener may find for a citation, see Found
  NoCase,        \* its answer has none in it, or is no list at all
  NoAnswer,      \* it gave none that could be read
  NoYear         \* a year the citation or the case does not have

\* A citation, with the year it gives; the name is one of its own or none at all; a citation
\* that is not complete lacks volume, reporter or page.
Cites == [named : BOOLEAN, year : Int \cup {NoYear}, complete : BOOLEAN]
\* A case, with its name as it compares to that of the citation.
Found == [name : {"same", "other"}, year : Int \cup {NoYear}]

ASSUME CitationsAssumption ==
  /\ Drafts \subseteq Seq(Cites)
  /\ MaxConcurrent \in Nat
  /\ Cases \subseteq Found /\ Found \cap {NoCase, NoAnswer} = {} /\ NoCase # NoAnswer
  /\ NoYear \notin Int

VARIABLES
  citations, \* the citations of the draft
  setting,   \* the switches: verification enabled, a browser to use
  lookup,    \* for each citation: where its lookup is, the requests it sent, and what was answered
  status,    \* for each citation: its status, or pending
  gathered   \* what the caller has: waiting, the results in order, or an exception

citeVars == <<citations, setting, lookup, status, gathered>>

Places == 1..Len(citations)
InFlight == {"browser", "http"}
Statuses == {"verified", "mismatch", "not_found", "unreachable", "skipped"}
Judgments == {"verified", "mismatch", "not_found"}

CiteInit ==
  /\ citations \in Drafts
  /\ setting \in [enabled : BOOLEAN, browser : BOOLEAN]
  /\ lookup = [c \in Places |-> [at |-> "queued", sent |-> 0, case |-> NoAnswer]]
  /\ status = [c \in Places |-> "pending"]
  /\ gathered = [state |-> "waiting", results |-> <<>>]

MutNear(a, b) == a = NoYear \/ b = NoYear \/ a - b <= 1

\* Years match when one of them is not known, or they are at most one apart.
Near(a, b) == a = NoYear \/ b = NoYear \/ (a - b \in -1..1)

Judge(cite, case) ==
  IF case = NoCase THEN "not_found"
  ELSE IF (cite.named => case.name = "same") /\ Near(cite.year, case.year) THEN "verified"
  ELSE "mismatch"

Holding == {c \in Places : lookup[c].at \in InFlight}

\* The lookup of c ends, with the status it has; its place is free for the next one.
Conclude(c, s, case) ==
  /\ lookup' = [lookup EXCEPT ![c].at = "over", ![c].case = case]
  /\ status' = [status EXCEPT ![c] = s]

-----------------------------------------------------------------------------
\* verify_case_citation with the semaphore taken: no request is sent when verification is off,
\* nor for a citation that is not complete.
Acquire(c) ==
  /\ lookup[c].at = "queued" /\ Cardinality(Holding) < MaxConcurrent
  /\ IF ~setting.enabled THEN Conclude(c, "unreachable", NoAnswer)
     ELSE IF ~citations[c].complete THEN Conclude(c, "skipped", NoAnswer)
     ELSE /\ lookup' = [lookup EXCEPT ![c].at = IF setting.browser THEN "browser" ELSE "http",
                                      ![c].sent = 1]
          /\ UNCHANGED status
  /\ UNCHANGED <<citations, setting, gathered>>

\* CourtListener answers, with a case or with none.
Answered(c) ==
  /\ lookup[c].at \in InFlight
  /\ \E case \in Cases \cup {NoCase} : Conclude(c, Judge(citations[c], case), case)
  /\ UNCHANGED <<citations, setting, gathered>>

\* An HTTP error or, without the browser, an answer that is no JSON: no more requests, and no
\* judgment.
Unreachable(c) ==
  /\ lookup[c].at \in InFlight
  /\ Conclude(c, "unreachable", NoAnswer)
  /\ UNCHANGED <<citations, setting, gathered>>

\* Whatever else fails in the browser is tried again without it.
FallBack(c) ==
  /\ lookup[c].at = "browser"
  /\ lookup' = [lookup EXCEPT ![c].at = "http", ![c].sent = @ + 1]
  /\ UNCHANGED <<citations, setting, status, gathered>>

\* Without the browser an answer of another shape raises, and on both ways a case or a date of
\* one.  gather hands the first exception to its caller at once and leaves the others running.
LookupRaises(c) ==
  /\ lookup[c].at \in InFlight
  /\ Conclude(c, "raised", NoAnswer)
  /\ gathered' = IF gathered.state = "waiting" THEN [gathered EXCEPT !.state = "raised"]
                 ELSE gathered
  /\ UNCHANGED <<citations, setting>>

\* The turn is cancelled while it waits: gather cancels every lookup that is not over.
CancelLookups ==
  /\ gathered.state = "waiting"
  /\ gathered' = [gathered EXCEPT !.state = "cancelled"]
  /\ lookup' = [c \in Places |-> [lookup[c] EXCEPT !.at = "over"]]
  /\ status' = [c \in Places |-> IF status[c] = "pending" THEN "cancelled" ELSE status[c]]
  /\ UNCHANGED <<citations, setting>>

Finished == \A c \in Places : status[c] # "pending"

\* gather: the results in the order of the citations, however they came in.
Gather ==
  /\ gathered.state = "waiting" /\ Finished
  /\ gathered' = [state |-> "returned", results |-> status]
  /\ UNCHANGED <<citations, setting, lookup, status>>

CiteNext ==
  \/ \E c \in Places :
       Acquire(c) \/ Answered(c) \/ Unreachable(c) \/ FallBack(c) \/ LookupRaises(c)
  \/ Gather \/ CancelLookups

CiteSpec == CiteInit /\ [][CiteNext]_citeVars

-----------------------------------------------------------------------------
CiteTypeOK ==
  /\ citations \in Seq(Cites)
  /\ \A c \in Places :
       /\ lookup[c].at \in {"queued", "browser", "http", "over"} /\ lookup[c].sent \in 0..2
       /\ lookup[c].case \in Cases \cup {NoCase, NoAnswer}
       /\ status[c] \in Statuses \cup {"pending", "raised", "cancelled"}
  /\ gathered.state \in {"waiting", "returned", "raised", "cancelled"}

\* The case is the one cited, as far as both say: its name, and its year give or take one.
Agrees(cite, case) ==
  /\ cite.named => case.name = "same"
  /\ {cite.year, case.year} \subseteq Int =>
       cite.year - case.year <= 1 /\ case.year - cite.year <= 1

\* What a status says of the answer there was.
Backed(cite, case, s) ==
  /\ s = "verified" => case \in Cases /\ Agrees(cite, case)
  /\ s = "mismatch" => case \in Cases /\ ~Agrees(cite, case)
  /\ s = "not_found" => case = NoCase
  /\ case # NoAnswer => s \in Judgments

\* A citation passes or is a mismatch only on a case that was answered and that agrees with it
\* or does not, and is not found only on an answer without a case: an outage, a failure,
\* a cancellation, a switch that is off or a citation that is not complete is none of these,
\* and every answer that can be read is judged.  Nothing is sent when verification is off or the
\* citation is not complete, and twice only behind a browser (verify_case_citation,
\* _query_courtlistener).
JudgedOnAnswers ==
  \A c \in Places :
    /\ Backed(citations[c], lookup[c].case, status[c])
    /\ lookup[c].case # NoAnswer => lookup[c].sent > 0
    /\ ~setting.enabled \/ ~citations[c].complete => lookup[c].sent = 0
    /\ lookup[c].sent = 2 => setting.browser

\* No more lookups at a time than the limit, also after one of them raised; and what is returned
\* has a status for each citation, in their order.
BoundedInOrder ==
  /\ Cardinality(Holding) <= MaxConcurrent
  /\ gathered.state = "returned" =>
       /\ Len(gathered.results) = Len(citations)
       /\ \A c \in Places : gathered.results[c] = status[c] /\ status[c] \in Statuses

CitationsSound == CiteTypeOK /\ JudgedOnAnswers /\ BoundedInOrder

-----------------------------------------------------------------------------
(* What the sources of this component say, and this code does not do. *)

\* citations/verifier.py: "The function never raises".
LookupNeverRaises == \A c \in Places : status[c] # "raised"

\* citations/verifier.py: "verified" requires a case that matches all of name, volume, reporter,
\* page and year; a name or a year that is not known matches anything.
VerifiedMatchesAll ==
  \A c \in Places :
    status[c] = "verified" =>
      /\ citations[c].named /\ lookup[c].case.name = "same"
      /\ citations[c].year # NoYear /\ lookup[c].case.year # NoYear
=============================================================================
