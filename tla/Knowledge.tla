----------------------------- MODULE Knowledge ------------------------------
(***************************************************************************)
(* What outlives a turn (kaos_agents/memory): the KnowledgeBase, into      *)
(* which PromotionPolicy puts findings under the namespace of a matter,    *)
(* which a MatterClientGuard may bind; and the lessons that are written    *)
(* into a section of a session, evict one another, and are recalled.       *)
(***************************************************************************)
EXTENDS Integers, FiniteSets, FiniteSetsExt, SequencesExt

CONSTANTS
  Matters,       \* namespaces
  NoMatter,      \* a guard that is not bound
  Candidates,    \* findings: [confidence, verified, spans, score]; score against the query
  Confident,     \* min_confidence of the policy
  Grounding,     \* require_grounding, of the policies that are used
  TopKs,         \* top_k of a query
  MinConfidences,  \* min_confidence of a query
  Sessions,      \* sessions that learn
  LessonSizes,   \* tokens of a lesson
  Budget,        \* budget_tokens of LESSONS
  MaxEntries, MaxWrites  \* bounds: findings considered, items written

ASSUME KnowledgeAssumption ==
  /\ Sessions # {} /\ NoMatter \notin Matters
  /\ \A f \in Candidates : f.confidence \in Int /\ f.score \in Int
  /\ Grounding \subseteq BOOLEAN /\ Confident \in Int /\ TopKs \subseteq Nat /\ LessonSizes \subseteq Nat /\ Budget \in Nat

VARIABLES
  bound,      \* the namespace of the guard
  entries,    \* the KnowledgeBase: [finding, matter, grounded], in order
  refused,    \* the last operation raised MatterIsolationError
  answer,     \* the last query and its result
  lessons,    \* session -> items of LESSONS: [n, size, typed]
  written,    \* history: session -> items that were added, in order
  recalled,   \* the last recall: [session, items]
  considered  \* findings considered so far, up to MaxEntries

knowledgeVars == <<bound, entries, refused, answer, lessons, written, recalled, considered>>
kbVars == <<bound, entries, refused, answer, considered>>
lessonVars == <<lessons, written, recalled>>

NoQuery == [matter |-> NoMatter, topK |-> 0, least |-> 0, result |-> <<>>]
NoRecall == [session |-> CHOOSE s \in Sessions : TRUE, items |-> <<>>]

KnowledgeInit ==
  /\ bound \in Matters \cup {NoMatter} /\ entries = <<>> /\ refused = FALSE /\ answer = NoQuery /\ considered = 0
  /\ lessons = [s \in Sessions |-> <<>>] /\ written = lessons /\ recalled = NoRecall

-----------------------------------------------------------------------------
\* MatterClientGuard._assert.
Crosses(matter) == bound # NoMatter /\ matter # bound

\* The check of consider: any spans do for a finding that was not verified.
Qualifies(f, grounding) == f.confidence >= Confident /\ (grounding => f.verified \/ f.spans)

\* PromotionPolicy.consider; what it records as verified is that it was required to be.
Consider(f, matter, grounding) ==
  LET promoted == Qualifies(f, grounding)
      entry == [finding |-> f, matter |-> matter, grounded |-> grounding]
  IN /\ considered < MaxEntries /\ considered' = considered + 1
     /\ refused' = (promoted /\ Crosses(matter))
     /\ entries' = IF promoted /\ ~Crosses(matter) THEN Append(entries, entry) ELSE entries
     /\ answer' = NoQuery /\ UNCHANGED bound /\ UNCHANGED lessonVars

\* sorted(..., reverse=True): by score, the older first among equals.
Before(i, j) ==
  \/ entries[i].finding.score > entries[j].finding.score
  \/ entries[i].finding.score = entries[j].finding.score /\ i < j

\* Mutant of Ranked: the first entries, whatever their scores.
MutRanked(scoped, topK) ==
  LET place(i) == Cardinality({j \in scoped : j <= i})
  IN [k \in 1..Min({topK, Cardinality(scoped)}) |-> entries[CHOOSE i \in scoped : place(i) = k]]
Ranked(scoped, topK) ==
  LET place(i) == 1 + Cardinality({j \in scoped : Before(j, i)})
  IN [k \in 1..Min({topK, Cardinality(scoped)}) |-> entries[CHOOSE i \in scoped : place(i) = k]]

\* What a query is about: the entries of its matter that are confident enough.
Eligible(matter, least) ==
  {i \in DOMAIN entries : entries[i].matter = matter /\ entries[i].finding.confidence >= least}

\* KnowledgeBase.query.
Query(matter, topK, least) ==
  LET asked == [matter |-> matter, topK |-> topK, least |-> least,
                result |-> Ranked(Eligible(matter, least), topK)]
  IN /\ refused' = Crosses(matter)
     /\ answer' = IF Crosses(matter) THEN NoQuery ELSE asked
     /\ UNCHANGED <<bound, entries, considered>> /\ UNCHANGED lessonVars

-----------------------------------------------------------------------------
Tokens(items) == FoldSeq(LAMBDA item, sum : item.size + sum, 0, items)
Writes == UNION {{<<s, i>> : i \in DOMAIN written[s]} : s \in Sessions}

\* FIFO eviction: the fewest of the oldest items that leave room; all, for an item too large.
RoomFor(items, size) ==
  LET dropped == {k \in 0..Len(items) : Tokens(SubSeq(items, k + 1, Len(items))) + size <= Budget}
  IN IF dropped = {} THEN <<>> ELSE SubSeq(items, Min(dropped) + 1, Len(items))

\* write_lesson, or an item some other writer adds to the section.
Write(s, size, typed) ==
  LET item == [n |-> Len(written[s]) + 1, size |-> size, typed |-> typed]
      left == RoomFor(lessons[s], size)
  IN /\ Cardinality(Writes) < MaxWrites
     /\ IF size <= Budget
        THEN /\ lessons' = [lessons EXCEPT ![s] = Append(left, item)]
             /\ written' = [written EXCEPT ![s] = Append(@, item)]
        ELSE lessons' = [lessons EXCEPT ![s] = <<>>] /\ UNCHANGED written
     /\ recalled' = NoRecall /\ UNCHANGED kbVars

\* Of items of LESSONS, those that hold a lesson.
Typed(items) == {item \in items : item.typed}

\* recall_lessons: search_memory gives the best of the items that match, in the order of their
\* scores, and the items among them that hold a lesson are recalled.
Recall(s, topK) ==
  /\ \E hits \in SUBSET ToSet(lessons[s]) :
       /\ Cardinality(hits) <= topK
       /\ \E items \in SetToSeqs(Typed(hits)) : recalled' = [session |-> s, items |-> items]
  /\ UNCHANGED <<lessons, written>> /\ UNCHANGED kbVars

\* read_lessons: the items that hold a lesson, in order.
ReadLessons(s) ==
  /\ \E items \in SetToSeqs(Typed(ToSet(lessons[s]))) :
       /\ \A k \in 1..(Len(items) - 1) : items[k].n < items[k + 1].n
       /\ recalled' = [session |-> s, items |-> items]
  /\ UNCHANGED <<lessons, written>> /\ UNCHANGED kbVars

BaseNext ==
  \/ \E f \in Candidates, matter \in Matters, grounding \in Grounding : Consider(f, matter, grounding)
  \/ \E matter \in Matters, topK \in TopKs, least \in MinConfidences : Query(matter, topK, least)

LessonsNext ==
  \/ \E s \in Sessions, size \in LessonSizes, typed \in BOOLEAN : Write(s, size, typed)
  \/ \E s \in Sessions : ReadLessons(s) \/ \E topK \in TopKs : Recall(s, topK)

KnowledgeNext == BaseNext \/ LessonsNext
KnowledgeSpec == KnowledgeInit /\ [][KnowledgeNext]_knowledgeVars

-----------------------------------------------------------------------------
\* A query is answered from its own matter and nothing under its confidence, the better
\* first, and leaves out nothing better than what it shows (KnowledgeBase.query).
AnswerSound ==
  LET shown == answer.result
      eligible == Eligible(answer.matter, answer.least)
  IN /\ \A k \in DOMAIN shown : \E i \in eligible : entries[i] = shown[k]
     /\ \A k, l \in DOMAIN shown : k < l => shown[k].finding.score >= shown[l].finding.score
     /\ Len(shown) <= answer.topK
     /\ \A i \in eligible : \A k \in DOMAIN shown :
          entries[i].finding.score > shown[k].finding.score => entries[i] \in ToSet(shown)

\* A bound base holds one matter, and every entry was confident enough (MatterClientGuard).
EntriesSound ==
  \A i \in DOMAIN entries :
    ~Crosses(entries[i].matter) /\ entries[i].finding.confidence >= Confident

\* Whatever is evicted or refused, LESSONS holds the newest of its items without a gap, within
\* its budget; what is recalled is what it holds, each lesson once.
LessonsSound ==
  /\ \A s \in Sessions : IsSuffix(lessons[s], written[s]) /\ Tokens(lessons[s]) <= Budget
  /\ ToSet(recalled.items) \subseteq ToSet(lessons[recalled.session]) /\ IsInjective(recalled.items)

\* What outlives a turn is what was put there: the answers of the knowledge base, its entries
\* and the lessons of a session keep their promises together.
KnowledgeSound == AnswerSound /\ EntriesSound /\ LessonsSound

\* What PromotionPolicy says of the findings it promotes: their spans were verified.
PromotedIsVerified == \A i \in DOMAIN entries : entries[i].grounded => entries[i].finding.verified

\* What KBEntry.grounding_verified says: whether the finding was verified.
FlagIsHonest == \A i \in DOMAIN entries : entries[i].finding.verified => entries[i].grounded

\* What a reader of top_k entries expects: nothing twice among them.
AnsweredDistinct == \A k, l \in DOMAIN answer.result : k # l => answer.result[k].finding # answer.result[l].finding
=============================================================================
