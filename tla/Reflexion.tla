------------------------------ MODULE Reflexion ------------------------------
(***************************************************************************)
(* The reflexion loop of patterns/reflexion.py over the router of          *)
(* patterns/router.py: each attempt at a message is routed to a            *)
(* specialist, which answers in the one session all attempts share, and    *)
(* scored by a critic, whose feedback is put before the message of the     *)
(* next attempt.  Scores and confidences are small numbers; an answer is   *)
(* known by the attempt that made it.                                      *)
(***************************************************************************)
EXTENDS Integers, Sequences, FiniteSets, SequencesExt, FiniteSetsExt

CONSTANTS
  Specialists,    \* the names of the registered specialists
  Unregistered,   \* a name the classifier may give that nobody has registered
  NoDefault,      \* no specialist to fall back to
  MaxScore,       \* the score that stands for 1.0: scores are clamped to 0..MaxScore
  RawScores,      \* what critic and classifier may report
  Threshold,      \* the score from which an answer is approved
  MinConfidence,  \* the confidence below which the classifier has abstained
  Attempts,       \* max_iterations, one of these
  Costs           \* what one call of a model may cost

ASSUME ReflexionAssumption ==
  /\ MaxScore \in Nat /\ Threshold \in Int /\ RawScores \subseteq Int
  /\ Attempts \subseteq Nat \ {0}

VARIABLES
  loop,      \* the loop: what it still needs of its past
  critiques, \* the critiques so far, in order
  inners,    \* what each attempt was asked, by whom it was answered, and its cost
  heard,     \* the messages of the session, as the specialists see them
  outcome    \* what the caller gets

reflexionVars == <<loop, critiques, inners, heard, outcome>>

Pending == [state |-> "pending", answer |-> 0, trace |-> <<>>]

ReflexionInit ==
  /\ \E max \in Attempts, default \in Specialists \cup {NoDefault} :
       loop = [phase |-> "route", max |-> max, default |-> default, attempt |-> 1,
               best |-> 0, score |-> -1, feedback |-> <<>>, to |-> Unregistered,
               fallback |-> FALSE]
  /\ critiques = <<>> /\ inners = <<>> /\ heard = <<>> /\ outcome = Pending

Clamp(x) == IF x < 0 THEN 0 ELSE IF x > MaxScore THEN MaxScore ELSE x

\* The feedback after one more critique.  What the loop collects and _format_feedback
\* then drops, a critique without text, is not collected here.
WithFeedback(history, n, text) == IF text THEN Append(history, n) ELSE history

Fails == 
  /\ outcome' = [Pending EXCEPT !.state = "raised"]
  /\ loop' = [loop EXCEPT !.phase = "over"]

-----------------------------------------------------------------------------
\* The decision of the router: the classifier's own choice when it is registered and
\* confident, the default otherwise, an error without one.
Route ==
  /\ loop.phase = "route"
  /\ \E name \in Specialists \cup {Unregistered}, raw \in RawScores :
       LET trusted == name \in Specialists /\ Clamp(raw) >= MinConfidence
           to == IF trusted THEN name ELSE loop.default IN
         IF to = NoDefault THEN Fails
         ELSE /\ loop' = [loop EXCEPT !.phase = "answer", !.to = to, !.fallback = ~trusted]
              /\ UNCHANGED outcome
  /\ UNCHANGED <<critiques, inners, heard>>

\* The classifier itself fails: nothing is caught on the way to the caller.
RouteRaises ==
  /\ loop.phase = "route" /\ Fails
  /\ UNCHANGED <<critiques, inners, heard>>

\* The specialist answers: the message, behind the feedback, and the answer are turns
\* of the session.
SpecialistAnswers ==
  /\ loop.phase = "answer"
  /\ \E cost \in Costs :
       inners' = Append(inners, [by |-> loop.to, fallback |-> loop.fallback,
                                 asked |-> loop.feedback, cost |-> cost])
  /\ heard' = heard \o <<[said |-> "user", of |-> loop.feedback],
                         [said |-> "assistant", of |-> <<Len(inners) + 1>>]>>
  /\ loop' = [loop EXCEPT !.phase = "criticize"]
  /\ UNCHANGED <<critiques, outcome>>

SpecialistRaises ==
  /\ loop.phase = "answer" /\ Fails
  /\ UNCHANGED <<critiques, inners, heard>>

\* Mutant of Keeps: the best answer is the last of the best.
MutKeeps(score) == score >= loop.score

Keeps(score) == score > loop.score

\* The trace the answer carries: how it ended, and the scores.
TraceOf(final, accepted, all) ==
  [final |-> final, accepted |-> accepted, scores |-> [i \in DOMAIN all |-> all[i].score]]

\* The critic scores the answer. An approved answer is returned at once; after the last
\* attempt the best one is; otherwise the feedback joins what the next attempt is told.
Criticize ==
  /\ loop.phase = "criticize"
  /\ \E raw \in RawScores, text \in BOOLEAN, cost \in Costs :
       LET score == Clamp(raw)
           n == loop.attempt
           approved == score >= Threshold
           best == IF Keeps(score) THEN n ELSE loop.best
           all == Append(critiques, [score |-> score, text |-> text /\ ~approved, cost |-> cost])
           over == approved \/ n = loop.max
       IN
       /\ critiques' = all
       /\ loop' = [loop EXCEPT
            !.best = best, !.score = IF Keeps(score) THEN score ELSE @,
            !.attempt = IF over THEN @ ELSE @ + 1,
            !.phase = IF over THEN "over" ELSE "route",
            !.feedback = IF over THEN @ ELSE WithFeedback(@, n, text)]
       /\ outcome' = IF ~over THEN outcome
                     ELSE [state |-> "returned", answer |-> IF approved THEN n ELSE best,
                           trace |-> TraceOf(n, approved, all)]
  /\ UNCHANGED <<inners, heard>>

\* The critic's call fails: every answer so far is lost to the caller.
CriticRaises ==
  /\ loop.phase = "criticize" /\ Fails
  /\ UNCHANGED <<critiques, inners, heard>>

ReflexionNext ==
  \/ Route \/ RouteRaises \/ SpecialistAnswers \/ SpecialistRaises
  \/ Criticize \/ CriticRaises

ReflexionSpec == ReflexionInit /\ [][ReflexionNext]_reflexionVars

-----------------------------------------------------------------------------
Scores == [i \in DOMAIN critiques |-> critiques[i].score]

\* Every attempt but the first is told everything the critic said of all the attempts
\* before it, oldest first; a specialist is asked only when it is registered, and the default only in
\* place of a choice that was unknown or unsure; the loop stops at the first approved
\* answer, and without one returns the first of the best-scored, never an answer that
\* scored less than another (reflexion.py:251-270, 305-345; router.py:241-254).
ReflexionSound ==
  /\ \A i \in DOMAIN inners :
       /\ inners[i].by \in Specialists
       /\ inners[i].fallback => inners[i].by = loop.default
       /\ \A j, k \in DOMAIN inners[i].asked : j < k => inners[i].asked[j] < inners[i].asked[k]
       /\ Range(inners[i].asked) = {k \in 1..(i - 1) : critiques[k].text}
  /\ \A i \in 1..(Len(critiques) - 1) : Scores[i] < Threshold
  /\ outcome.state = "returned" =>
       LET n == Len(critiques) a == outcome.answer IN
       /\ Len(inners) = n
       /\ \A i \in 1..n : Scores[i] <= Scores[a] /\ (i < a => Scores[i] < Scores[a])
       /\ outcome.trace.accepted = (Scores[n] >= Threshold)
       /\ ~outcome.trace.accepted => n = loop.max

\* reflexion.py:160-162: final_iteration is 0 when no iteration was approved.
FinalIsZero ==
  outcome.state = "returned" => (outcome.trace.final = 0) = ~outcome.trace.accepted

\* reflexion.py:286-289: with one iteration there is no critique.
OneMeansNoCritique == loop.max = 1 => critiques = <<>>

\* reflexion.py:264-267, 385-391: the answer the caller gets is the one the session ends
\* with, for the next turn to build on.
SessionEndsWithAnswer ==
  outcome.state = "returned" => Last(heard).of = <<outcome.answer>>
=============================================================================
