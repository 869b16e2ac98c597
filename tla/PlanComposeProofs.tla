-------------------------- MODULE PlanComposeProofs --------------------------
(* What is proved of PlanCompose, for every MaxPlan, budget and set of costs:  *)
(* the order of its walk, what SUCCESS means and what the budget was charged;  *)
(* of PlanStrategy: that all the attempts of a strategy share one budget and   *)
(* that re-expansion is paid in replans; of PlanTurn: what the stream and the  *)
(* answer of a turn tell of its plan; of RefineDeliverable: which attempt a    *)
(* refinement keeps, when it stops and what its producer sees; of Knowledge:   *)
(* what a query is answered with and what lessons a session holds; of          *)
(* Findings: what its runs find, cost and refuse for; and of AgentTools: that  *)
(* calls and their artifacts stay in their sessions.                           *)
EXTENDS PlanStrategy, RefineDeliverable, Knowledge, Findings, AgentTools, FiniteSetTheorems,
  WellFoundedInduction, TLAPS

-----------------------------------------------------------------------------
(* Sums over finite sets: what MapThenSumSet of FiniteSetsExt adds up.       *)

\* A set of naturals has a least member.
LEMMA LeastNatural ==
  ASSUME NEW T, T \subseteq Nat, T # {}
  PROVE  \E m \in T : \A k \in T : m <= k
<1> DEFINE Order == OpToRel(<, Nat)
<1>1. IsWellFoundedOn(Order, Nat)
  BY NatLessThanWellFounded
<1>2. PICK m \in T : \A k \in T : ~ (<<k, m>> \in Order)
  BY <1>1, WFMin
<1>3. ASSUME NEW k \in T PROVE m <= k
  <2>1. <<k, m>> \in Nat \X Nat /\ <<k, m>>[1] = k /\ <<k, m>>[2] = m
    OBVIOUS
  <2>2. ~ (k < m)
    BY <1>2, <2>1 DEF OpToRel
  <2>3. k \in Nat /\ m \in Nat
    OBVIOUS
  <2>4. QED BY <2>2, <2>3
<1>4. QED BY <1>3

\* The sum of w over S, the partial sums that it is put together from, and which member is next.
SumOver(w, S) == MapThenSumSet(LAMBDA x : w[x], S)
NextOf(s) == CHOOSE x \in s : TRUE
Adds(w, S, h) == h = [s \in SUBSET S |-> IF s = {} THEN 0 ELSE w[NextOf(s)] + h[s \ {NextOf(s)}]]
SumsExist(w, S) == \E h : Adds(w, S, h) /\ h \in [SUBSET S -> Nat]

\* The next member is a member.
LEMMA NextIn == \A s : s # {} => NextOf(s) \in s
BY DEF NextOf

\* A set without one of its members.
LEMMA LessOne ==
  ASSUME NEW s, IsFiniteSet(s), NEW x \in s
  PROVE  IsFiniteSet(s \ {x}) /\ Cardinality(s) \in Nat /\ Cardinality(s) > 0
         /\ Cardinality(s \ {x}) = Cardinality(s) - 1
<1>1. IsFiniteSet(s \ {x}) /\ Cardinality(s \ {x}) = Cardinality(s) - 1
  BY FS_RemoveElement
<1>2. Cardinality(s) \in Nat /\ Cardinality(s \ {x}) \in Nat
  BY <1>1, FS_CardinalityType
<1> QED  BY <1>1, <1>2

\* The partial sums of a finite set exist: a table of them up to any size can be carried
\* one size further.
LEMMA PartialSums ==
  ASSUME NEW w, NEW S, IsFiniteSet(S), \A x \in S : w[x] \in Nat
  PROVE  SumsExist(w, S)
<1> DEFINE Small(m) == {s \in SUBSET S : Cardinality(s) <= m}
           Right(m, h) == /\ h \in [Small(m) -> Nat]
                          /\ \A s \in Small(m) :
                               h[s] = IF s = {} THEN 0 ELSE w[NextOf(s)] + h[s \ {NextOf(s)}]
           N == Cardinality(S)
           T == {m \in 0..N : ~ \E h : Right(m, h)}
<1>1. N \in Nat /\ \A s \in SUBSET S : IsFiniteSet(s) /\ Cardinality(s) \in 0..N
  BY FS_CardinalityType, FS_Subset
<1>2. ASSUME T # {} PROVE FALSE
  <2>1. T \subseteq Nat
    OBVIOUS
  <2> HIDE DEF Right
  <2>2. PICK m \in T : \A k \in T : m <= k
    BY <1>2, <2>1, LeastNatural
  <2>3. m \in 0..N /\ ~ \E h : Right(m, h)
    OBVIOUS
  <2>4. m # 0
    <3>1. ASSUME NEW s \in Small(0) PROVE s = {}
      BY <1>1, FS_EmptySet
    <3>2. {} \in Small(0)
      BY FS_EmptySet
    <3>3. Right(0, [s \in Small(0) |-> 0])
      BY <3>1, <3>2 DEF Right
    <3> QED BY <2>3, <3>3
  <2>5. m - 1 \in 0..N /\ m - 1 \notin T
    BY <1>1, <2>2, <2>3, <2>4
  <2>6. PICK h : Right(m - 1, h)
    BY <2>5
  <2>7. ASSUME NEW s \in Small(m), s # {}
        PROVE  s \ {NextOf(s)} \in Small(m - 1) /\ NextOf(s) \in S
    <3>1. NextOf(s) \in s /\ IsFiniteSet(s)
      BY <1>1, <2>7, NextIn
    <3>2. Cardinality(s \ {NextOf(s)}) = Cardinality(s) - 1 /\ Cardinality(s) \in Nat
      BY <3>1, LessOne
    <3> QED BY <2>3, <3>1, <3>2
  <2> DEFINE g == [s \in Small(m) |-> IF s = {} THEN 0 ELSE w[NextOf(s)] + h[s \ {NextOf(s)}]]
  <2>8. \A s \in Small(m - 1) : s \in Small(m)
    BY <1>1, <2>3
  <2>9. g \in [Small(m) -> Nat]
    <3>1. ASSUME NEW s \in Small(m), s # {} PROVE w[NextOf(s)] + h[s \ {NextOf(s)}] \in Nat
      BY <2>6, <2>7, <3>1 DEF Right
    <3> HIDE DEF Small
    <3> QED BY <3>1
  <2>10. \A s \in Small(m - 1) : g[s] = h[s]
    <3> HIDE DEF Small
    <3> QED BY <2>6, <2>8 DEF Right
  <2>11. \A s \in Small(m) : g[s] = IF s = {} THEN 0 ELSE w[NextOf(s)] + g[s \ {NextOf(s)}]
    <3> HIDE DEF Small
    <3> QED BY <2>7, <2>10
  <2>12. Right(m, g)
    <3> HIDE DEF Small, g
    <3> QED BY <2>9, <2>11 DEF Right
  <2> QED  BY <2>3, <2>12
<1>3. N \in 0..N /\ N \notin T
  <2> HIDE DEF T
  <2> QED  BY <1>1, <1>2
<1>4. PICK h : Right(N, h)
  BY <1>3
<1>5. Small(N) = SUBSET S
  BY <1>1
<1>6. Adds(w, S, h)
  <2> HIDE DEF Small
  <2>1. h = [s \in SUBSET S |-> h[s]]
    BY <1>4, <1>5
  <2> QED  BY <1>4, <1>5, <2>1 DEF Adds
<1> QED  BY <1>4, <1>5, <1>6 DEF SumsExist

\* The fold takes such a table, and the sum is its last entry.
LEMMA SumIs ==
  ASSUME NEW w, NEW S, IsFiniteSet(S), \A x \in S : w[x] \in Nat
  PROVE  \E h : Adds(w, S, h) /\ SumOver(w, S) = h[S]
<1>1. PICK g : Adds(w, S, g)
  BY PartialSums DEF SumsExist
<1> DEFINE h == CHOOSE f : Adds(w, S, f)
<1>2. Adds(w, S, h)
  BY <1>1
<1>3. SumOver(w, S) = h[S]
  BY DEF SumOver, MapThenSumSet, MapThenFoldSet, Adds, NextOf
<1> QED  BY <1>2, <1>3

\* Partial sums of two sums agree wherever both are defined.
LEMMA SumsAgree ==
  ASSUME NEW w, NEW S, NEW h, Adds(w, S, h), NEW v, NEW T, NEW g, Adds(v, T, g),
         NEW R, R \subseteq S, R \subseteq T, IsFiniteSet(R), \A x \in R : w[x] = v[x]
  PROVE  h[R] = g[R]
<1> DEFINE Bad == {k \in 0..Cardinality(R) : \E s \in SUBSET R : Cardinality(s) = k /\ h[s] # g[s]}
<1>1. ASSUME Bad # {} PROVE FALSE
  <2>1. Bad \subseteq Nat
    OBVIOUS
  <2>2. PICK m \in Bad : \A k \in Bad : m <= k
    BY <1>1, <2>1, LeastNatural
  <2>3. PICK s \in SUBSET R : Cardinality(s) = m /\ h[s] # g[s]
    BY <2>2
  <2>4. IsFiniteSet(s) /\ s \in SUBSET S /\ s \in SUBSET T
    BY FS_Subset
  <2>5. s # {}
    BY <2>3, <2>4 DEF Adds
  <2> DEFINE x == NextOf(s)
             r == s \ {x}
  <2>6. x \in s
    BY <2>5, NextIn
  <2>7. h[s] = w[x] + h[r] /\ g[s] = v[x] + g[r]
    BY <2>4, <2>5 DEF Adds
  <2>8. w[x] = v[x]
    BY <2>6
  <2>9. r \in SUBSET R /\ Cardinality(r) = m - 1 /\ m \in 0..Cardinality(R) /\ m > 0
    BY <2>3, <2>4, <2>6, LessOne
  <2>10. m - 1 \notin Bad /\ m - 1 \in 0..Cardinality(R)
    <3>1. Cardinality(R) \in Nat
      BY FS_CardinalityType
    <3>2. m - 1 \in 0..Cardinality(R) /\ ~ (m <= m - 1)
      BY <2>9, <3>1
    <3> HIDE DEF Bad
    <3> QED BY <2>2, <3>2
  <2>11. h[r] = g[r]
    BY <2>9, <2>10
  <2> QED  BY <2>3, <2>7, <2>8, <2>11
<1>2. Cardinality(R) \in Nat
  BY FS_CardinalityType
<1>3. Cardinality(R) \in 0..Cardinality(R) /\ Cardinality(R) \notin Bad
  <2> HIDE DEF Bad
  <2> QED  BY <1>1, <1>2
<1> QED  BY <1>3

\* A sum of naturals is a natural.
LEMMA SumNat ==
  ASSUME NEW w, NEW S, IsFiniteSet(S), \A x \in S : w[x] \in Nat
  PROVE  SumOver(w, S) \in Nat
<1>1. PICK h : Adds(w, S, h) /\ SumOver(w, S) = h[S]
  BY SumIs
<1>2. PICK g : Adds(w, S, g) /\ g \in [SUBSET S -> Nat]
  BY PartialSums DEF SumsExist
<1>3. h[S] = g[S]
  BY <1>1, <1>2, SumsAgree
<1> QED  BY <1>1, <1>2, <1>3

\* It depends on the summands only.
LEMMA SumEqual ==
  ASSUME NEW w, NEW v, NEW S, IsFiniteSet(S), \A x \in S : w[x] \in Nat /\ w[x] = v[x]
  PROVE  SumOver(w, S) = SumOver(v, S)
<1>1. PICK h : Adds(w, S, h) /\ SumOver(w, S) = h[S]
  BY SumIs
<1>2. PICK g : Adds(v, S, g) /\ SumOver(v, S) = g[S]
  BY SumIs
<1> QED  BY <1>1, <1>2, SumsAgree

\* Nothing sums to nothing.
LEMMA SumEmpty == \A w : SumOver(w, {}) = 0
<1>1. SUFFICES ASSUME NEW w PROVE SumOver(w, {}) = 0
  OBVIOUS
<1>2. PICK h : Adds(w, {}, h) /\ SumOver(w, {}) = h[{}]
  BY SumIs, FS_EmptySet
<1> QED  BY <1>2 DEF Adds

\* The sum, taken at the next member.
LEMMA SumNext ==
  ASSUME NEW w, NEW S, IsFiniteSet(S), \A x \in S : w[x] \in Nat, S # {}
  PROVE  SumOver(w, S) = w[NextOf(S)] + SumOver(w, S \ {NextOf(S)})
<1> DEFINE R == S \ {NextOf(S)}
<1>1. PICK h : Adds(w, S, h) /\ SumOver(w, S) = h[S]
  BY SumIs
<1>2. IsFiniteSet(R) /\ R \subseteq S
  BY FS_Subset
<1>3. PICK g : Adds(w, R, g) /\ SumOver(w, R) = g[R]
  BY <1>2, SumIs
<1>4. h[R] = g[R]
  BY <1>1, <1>2, <1>3, SumsAgree
<1>5. h[S] = w[NextOf(S)] + h[R]
  BY <1>1 DEF Adds
<1> QED  BY <1>1, <1>3, <1>4, <1>5

\* The sum, taken at any member: the order of the summands does not matter.
LEMMA SumPlus ==
  ASSUME NEW w, NEW S, IsFiniteSet(S), \A x \in S : w[x] \in Nat, NEW y \in S
  PROVE  SumOver(w, S) = w[y] + SumOver(w, S \ {y})
<1> DEFINE Holds(s, x) == SumOver(w, s) = w[x] + SumOver(w, s \ {x})
           Bad == {k \in 0..Cardinality(S) : \E s \in SUBSET S : Cardinality(s) = k /\ \E x \in s : ~Holds(s, x)}
<1>1. ASSUME Bad # {} PROVE FALSE
  <2>1. Bad \subseteq Nat
    OBVIOUS
  <2>2. PICK m \in Bad : \A k \in Bad : m <= k
    BY <1>1, <2>1, LeastNatural
  <2>3. PICK s \in SUBSET S : Cardinality(s) = m /\ \E x \in s : ~Holds(s, x)
    BY <2>2
  <2>4. PICK x \in s : ~Holds(s, x)
    BY <2>3
  <2> DEFINE c == NextOf(s)
  <2>5. IsFiniteSet(s) /\ s # {} /\ c \in s
    BY NextIn, FS_Subset
  <2>6. SumOver(w, s) = w[c] + SumOver(w, s \ {c})
    BY <2>5, SumNext
  <2>7. x # c
    BY <2>4, <2>6
  <2>8. ASSUME NEW y1 \in s, NEW z \in s, y1 # z
        PROVE  SumOver(w, s \ {y1}) = w[z] + SumOver(w, (s \ {y1}) \ {z})
    <3> DEFINE r == s \ {y1}
    <3>1. r \in SUBSET S /\ z \in r /\ Cardinality(r) = m - 1 /\ m \in 0..Cardinality(S) /\ m > 0
      BY <2>3, <2>5, <2>8, LessOne
    <3>2. m - 1 \in 0..Cardinality(S) /\ ~ (m <= m - 1)
      BY <3>1, FS_CardinalityType
    <3>3. m - 1 \notin Bad
      <4> HIDE DEF Bad
      <4> QED BY <2>2, <3>2
    <3>4. Holds(r, z)
      <4> HIDE DEF r, Holds
      <4> QED BY <3>1, <3>2, <3>3
    <3> QED BY <3>4
  <2>9. (s \ {c}) \ {x} = (s \ {x}) \ {c}
    OBVIOUS
  <2>10. IsFiniteSet((s \ {c}) \ {x}) /\ \A z \in (s \ {c}) \ {x} : w[z] \in Nat
    BY <2>5, FS_Subset
  <2> DEFINE rest == SumOver(w, (s \ {c}) \ {x})
  <2>11. rest \in Nat
    BY <2>10, SumNat
  <2>12. SumOver(w, s \ {c}) = w[x] + rest /\ SumOver(w, s \ {x}) = w[c] + rest
    <3> HIDE DEF c
    <3> QED BY <2>5, <2>7, <2>8, <2>9
  <2>13. w[x] \in Nat /\ w[c] \in Nat
    BY <2>5
  <2>14. SumOver(w, s) = w[x] + SumOver(w, s \ {x})
    <3> HIDE DEF c, rest
    <3> QED BY <2>6, <2>11, <2>12, <2>13
  <2> QED  BY <2>4, <2>14
<1>2. Cardinality(S) \in 0..Cardinality(S) /\ Cardinality(S) \notin Bad
  <2>1. Cardinality(S) \in Nat
    BY FS_CardinalityType
  <2> HIDE DEF Bad
  <2> QED  BY <1>1, <2>1
<1>3. Holds(S, y)
  <2> HIDE DEF Holds
  <2> QED  BY <1>2
<1> QED  BY <1>3

-----------------------------------------------------------------------------
(* A plan turn and its stream.                                               *)

EventKinds == {"usage", "run_error", "plan_proposed", "step_start", "tool_start", "tool_complete",
               "step_complete", "budget_exceeded", "text"}
Event == [seq : Nat, kind : EventKinds, of : Nat]
TurnPhases == {"idle", "running", "proposing", "steps", "tool", "tool_done", "closing",
               "answer", "deliver", "answered"}

\* The phases of a turn in which its plan is being told, its answer written and given.
Telling == {"steps", "tool", "tool_done", "closing"}
Answering == {"answer", "deliver"}

Notes == {"stopped", "failed", "summary"}

Turn ==
  [phase : TurnPhases, held : Seq(Notes), prior : Seq(Notes), result : PlanResults \cup {NoResult},
   seq : Nat, at : Nat \ {0}, judged : Nat, synthesis : Nat,
   text : {"none", "narrative", "findings", "status", "nothing_usable"}]

TurnTyped == stream \in Seq(Event) /\ stored \in Seq(Notes) /\ pturn \in Turn

\* The numbers of the events grow.
Numbered ==
  /\ \A i \in DOMAIN stream : stream[i].seq < pturn.seq
  /\ \A i \in 1..(Len(stream) - 1) : stream[i].seq < stream[i + 1].seq

\* What the events of the stream are about, by their places.
Amounts == [i \in DOMAIN stream |-> stream[i].of]

Paid == SumOver(Amounts, EventsOf("usage"))

\* Step k was opened at i and closed at j, around its tool call if it has one.
Block(k, i, j) ==
  /\ i \in DOMAIN stream /\ j \in DOMAIN stream
  /\ stream[i].kind = "step_start" /\ stream[i].of = k
  /\ stream[j].kind = "step_complete" /\ stream[j].of = k
  /\ j - i = IF ToolOf(pturn.result, k) THEN 3 ELSE 1

\* The step at hand was opened, `back` events before the last.
OpenStep(back) ==
  /\ pturn.at <= Len(pturn.result.steps)
  /\ Len(stream) > back
  /\ stream[Len(stream) - back].kind = "step_start"
  /\ stream[Len(stream) - back].of = pturn.at

\* What has been told of the plan adds up, at every point of the turn.
Books ==
  /\ Paid = pturn.result.cost + pturn.synthesis
  /\ Cardinality(EventsOf("step_complete")) = pturn.at - 1
  /\ pturn.at <= Len(pturn.result.steps) + 1
  /\ \A k \in 1..(pturn.at - 1) : \E i, j \in Nat : Block(k, i, j)

\* Where the turn is in the telling of its plan.
ToldSoFar ==
  /\ pturn.phase \in {"idle", "running"} => stream = <<>> /\ pturn.result = NoResult
  /\ pturn.phase \in {"idle", "running", "proposing"} => pturn.at = 1
  /\ pturn.phase \in {"idle", "running", "proposing", "answer"} \cup Telling => pturn.synthesis = 0
  /\ pturn.phase = "tool" => ToolOf(pturn.result, pturn.at) /\ OpenStep(0)
  /\ pturn.phase = "tool_done" => ToolOf(pturn.result, pturn.at) /\ OpenStep(1)
  /\ pturn.phase = "closing" => OpenStep(IF ToolOf(pturn.result, pturn.at) THEN 2 ELSE 0)

\* What a plan leaves in the memory of its turn.
HeldAfter(result, held) ==
  IF result.stop = "success" THEN held = stored
  ELSE held # <<>> /\ Last(held) = NoteOf(result)

\* What has been told of the answer, and what the memory holds.
AnsweredSoFar ==
  LET plans == pturn.result # NoResult
      done == pturn.phase \in Answering \/ (pturn.phase = "answered" /\ plans)
  IN
  /\ pturn.phase # "answered" => EventsOf("text") = {}
  /\ ~done /\ pturn.phase # "answered" => EventsOf("budget_exceeded") = {}
  /\ pturn.phase \notin {"idle", "answered"} => pturn.held = stored
  /\ done => /\ pturn.at = Len(pturn.result.steps) + 1
             /\ (pturn.result.stop \in BudgetStops) = (EventsOf("budget_exceeded") # {})
  /\ done /\ pturn.phase # "answer" =>
       WorthTelling(pturn.result) = (pturn.text \in {"narrative", "findings"})
  /\ pturn.phase = "answered" /\ plans =>
       /\ stream # <<>> /\ EventsOf("text") = {Len(stream)}
       /\ HeldAfter(pturn.result, pturn.held)

TurnInv == TurnTyped /\ Numbered /\ Books /\ ToldSoFar /\ AnsweredSoFar

-----------------------------------------------------------------------------
\* A stream with one more event: where the events of a kind are, and what they add up to.
LEMMA OneMoreEvent ==
  ASSUME stream \in Seq(Event), NEW e \in Event, stream' = Append(stream, e)
  PROVE  /\ stream' \in Seq(Event) /\ Len(stream') = Len(stream) + 1 /\ Len(stream) \in Nat
         /\ DOMAIN stream = 1..Len(stream) /\ DOMAIN stream' = 1..(Len(stream) + 1)
         /\ \A i \in 1..Len(stream) : stream'[i] = stream[i]
         /\ stream'[Len(stream) + 1] = e
         /\ \A kind : EventsOf(kind)' =
              EventsOf(kind) \cup (IF e.kind = kind THEN {Len(stream) + 1} ELSE {})
<1>1. /\ stream' \in Seq(Event) /\ Len(stream') = Len(stream) + 1 /\ Len(stream) \in Nat
      /\ DOMAIN stream = 1..Len(stream) /\ DOMAIN stream' = 1..(Len(stream) + 1)
      /\ \A i \in 1..Len(stream) : stream'[i] = stream[i]
      /\ stream'[Len(stream) + 1] = e
  OBVIOUS
<1>2. ASSUME NEW kind
      PROVE  EventsOf(kind)' = EventsOf(kind) \cup (IF e.kind = kind THEN {Len(stream) + 1} ELSE {})
  <2>1. EventsOf(kind)' = {i \in DOMAIN stream' : stream'[i].kind = kind}
    BY DEF EventsOf
  <2> QED  BY <1>1, <2>1 DEF EventsOf
<1> QED  BY <1>1, <1>2

\* The places of events are finite sets.
LEMMA PlacesFinite ==
  ASSUME stream \in Seq(Event), NEW kind
  PROVE  IsFiniteSet(EventsOf(kind)) /\ \A i \in EventsOf(kind) : i \in 1..Len(stream) /\ Amounts[i] \in Nat
<1>1. EventsOf(kind) \subseteq 1..Len(stream) /\ DOMAIN stream = 1..Len(stream) /\ Len(stream) \in Nat
  BY DEF EventsOf
<1>2. IsFiniteSet(1..Len(stream))
  BY <1>1, FS_Interval
<1>3. \A i \in DOMAIN stream : stream[i].of \in Nat
  <2>1. \A i \in DOMAIN stream : stream[i] \in Event
    OBVIOUS
  <2> QED  BY <2>1 DEF Event
<1> QED  BY <1>1, <1>2, <1>3, FS_Subset DEF Amounts

\* An event that is not of a kind changes neither how many there are nor what they add
\* up to; one that is adds itself.
LEMMA OneMoreCounted ==
  ASSUME stream \in Seq(Event), NEW e \in Event, stream' = Append(stream, e)
  PROVE  /\ Paid' = Paid + (IF e.kind = "usage" THEN e.of ELSE 0)
         /\ Cardinality(EventsOf("step_complete"))' =
              Cardinality(EventsOf("step_complete")) + (IF e.kind = "step_complete" THEN 1 ELSE 0)
         /\ Paid \in Nat /\ Cardinality(EventsOf("step_complete")) \in Nat
<1> DEFINE m == Len(stream) + 1
           U == EventsOf("usage")
           C == EventsOf("step_complete")
<1>1. /\ IsFiniteSet(U) /\ IsFiniteSet(C)
      /\ \A i \in U : i \in 1..Len(stream) /\ Amounts[i] \in Nat
      /\ \A i \in C : i \in 1..Len(stream)
  BY PlacesFinite
<1>2. Len(stream) \in Nat /\ stream' \in Seq(Event)
  BY OneMoreEvent
<1>3. m \notin U /\ m \notin C
  BY <1>1, <1>2
<1>4. /\ U' = U \cup (IF e.kind = "usage" THEN {m} ELSE {})
      /\ C' = C \cup (IF e.kind = "step_complete" THEN {m} ELSE {})
  BY OneMoreEvent
<1>5. Cardinality(C) \in Nat /\ Cardinality(C)' = Cardinality(C) + (IF e.kind = "step_complete" THEN 1 ELSE 0)
  <2>1. Cardinality(C)' = Cardinality(C')
    OBVIOUS
  <2>2. Cardinality(C \cup {m}) = Cardinality(C) + 1 /\ Cardinality(C) \in Nat
    BY <1>1, <1>3, FS_AddElement, FS_CardinalityType
  <2>3. CASE e.kind = "step_complete"
    <3>1. C' = C \cup {m}
      BY <1>4, <2>3
    <3> QED  BY <2>1, <2>2, <2>3, <3>1
  <2>4. CASE e.kind # "step_complete"
    <3>1. C' = C
      BY <1>4, <2>4
    <3>2. Cardinality(C') = Cardinality(C)
      BY <3>1
    <3> QED  BY <2>1, <2>2, <2>4, <3>2
  <2> QED  BY <2>3, <2>4
<1>6. Amounts' = [i \in DOMAIN stream' |-> stream'[i].of]
  BY DEF Amounts
<1>7. /\ \A i \in U : Amounts'[i] = Amounts[i]
      /\ Amounts'[m] = e.of /\ e.of \in Nat
  <2>1. \A i \in 1..Len(stream) : Amounts'[i] = stream[i].of /\ Amounts[i] = stream[i].of
    BY <1>6, OneMoreEvent DEF Amounts
  <2>2. Amounts'[m] = e.of
    BY <1>2, <1>6, OneMoreEvent
  <2> QED  BY <1>1, <2>1, <2>2 DEF Event
<1>8. SumOver(Amounts', U) = SumOver(Amounts, U)
  BY <1>1, <1>7, SumEqual
<1>9. Paid \in Nat
  BY <1>1, SumNat DEF Paid
<1>10. Paid' = SumOver(Amounts', U')
  BY DEF Paid
<1>11. CASE e.kind = "usage"
  <2>1. IsFiniteSet(U \cup {m}) /\ \A i \in U \cup {m} : Amounts'[i] \in Nat
    BY <1>1, <1>3, <1>7, FS_AddElement
  <2>2. SumOver(Amounts', U \cup {m}) = Amounts'[m] + SumOver(Amounts', (U \cup {m}) \ {m})
    BY <2>1, SumPlus
  <2>3. (U \cup {m}) \ {m} = U
    BY <1>3
  <2>4. SumOver(Amounts', U) = Paid
    BY <1>8 DEF Paid
  <2> HIDE DEF U, m
  <2>5. Paid' = e.of + Paid
    BY <1>4, <1>7, <1>10, <1>11, <2>2, <2>3, <2>4
  <2> QED  BY <1>5, <1>7, <1>9, <1>11, <2>5
<1>12. CASE e.kind # "usage"
  <2>1. U' = U
    BY <1>4, <1>12
  <2>2. Paid' = Paid
    BY <1>8, <1>10, <2>1 DEF Paid
  <2> QED  BY <1>5, <1>9, <1>12, <2>2
<1> QED  BY <1>11, <1>12

\* What yielding an event does to the stream, whatever becomes of the turn.
LEMMA Yielded ==
  ASSUME TurnInv, NEW kind \in EventKinds, NEW of \in Nat, NEW turn \in Turn, Yields(kind, of, turn)
  PROVE  /\ stored' = stored /\ stream' # <<>>
         /\ stream' = Append(stream, [seq |-> pturn.seq, kind |-> kind, of |-> of])
         /\ TurnTyped' /\ Numbered'
         /\ pturn' = [turn EXCEPT !.seq = pturn.seq + 1]
         /\ Paid' = Paid + (IF kind = "usage" THEN of ELSE 0)
         /\ Cardinality(EventsOf("step_complete"))' =
              Cardinality(EventsOf("step_complete")) + (IF kind = "step_complete" THEN 1 ELSE 0)
         /\ \A k : EventsOf(k)' = EventsOf(k) \cup (IF kind = k THEN {Len(stream) + 1} ELSE {})
         /\ Len(stream') = Len(stream) + 1 /\ Len(stream) \in Nat
         /\ DOMAIN stream = 1..Len(stream) /\ DOMAIN stream' = 1..(Len(stream) + 1)
         /\ \A i \in 1..Len(stream) : stream'[i] = stream[i]
         /\ stream'[Len(stream) + 1].kind = kind /\ stream'[Len(stream) + 1].of = of
         /\ Paid \in Nat /\ Cardinality(EventsOf("step_complete")) \in Nat
<1> DEFINE e == [seq |-> pturn.seq, kind |-> kind, of |-> of]
<1>1. /\ stream \in Seq(Event) /\ stored \in Seq(Notes) /\ pturn \in Turn /\ pturn.seq \in Nat
  BY DEF TurnInv, TurnTyped, Turn
<1>2. /\ stream' = Append(stream, e) /\ stored' = stored
      /\ pturn' = [turn EXCEPT !.seq = pturn.seq + 1]
  BY DEF Yields
<1>3. e \in Event /\ e.kind = kind /\ e.of = of /\ e.seq = pturn.seq
  BY <1>1 DEF Event
<1> HIDE DEF e
<1>4. pturn' \in Turn /\ pturn'.seq = pturn.seq + 1
  <2>1. pturn.seq + 1 \in Nat
    BY <1>1
  <2> DEFINE following == pturn.seq + 1
  <2> HIDE DEF following
  <2>2. [turn EXCEPT !.seq = following] \in Turn /\ [turn EXCEPT !.seq = following].seq = following
    BY <2>1 DEF Turn, following
  <2> QED  BY <1>2, <2>2 DEF following
<1>5. /\ stream' \in Seq(Event) /\ Len(stream') = Len(stream) + 1 /\ Len(stream) \in Nat
      /\ DOMAIN stream = 1..Len(stream) /\ DOMAIN stream' = 1..(Len(stream) + 1)
      /\ \A i \in 1..Len(stream) : stream'[i] = stream[i]
      /\ stream'[Len(stream) + 1] = e
      /\ \A k : EventsOf(k)' = EventsOf(k) \cup (IF e.kind = k THEN {Len(stream) + 1} ELSE {})
  BY <1>1, <1>2, <1>3, OneMoreEvent
<1>6. /\ Paid' = Paid + (IF e.kind = "usage" THEN e.of ELSE 0)
      /\ Cardinality(EventsOf("step_complete"))' =
           Cardinality(EventsOf("step_complete")) + (IF e.kind = "step_complete" THEN 1 ELSE 0)
      /\ Paid \in Nat /\ Cardinality(EventsOf("step_complete")) \in Nat
  BY <1>1, <1>2, <1>3, OneMoreCounted
<1>7. Numbered'
  <2>1. /\ \A i \in 1..Len(stream) : stream[i].seq < pturn.seq
        /\ \A i \in 1..(Len(stream) - 1) : stream[i].seq < stream[i + 1].seq
    BY <1>5 DEF TurnInv, Numbered
  <2>2. \A i \in 1..Len(stream) : stream[i].seq \in Nat
    <3>1. \A i \in 1..Len(stream) : stream[i] \in Event
      BY <1>1
    <3> QED  BY <3>1 DEF Event
  <2>3. ASSUME NEW i \in 1..(Len(stream) + 1) PROVE stream'[i].seq < pturn'.seq
    <3>1. CASE i = Len(stream) + 1
      BY <1>1, <1>3, <1>4, <1>5, <3>1
    <3>2. CASE i \in 1..Len(stream)
      BY <1>1, <1>4, <1>5, <2>1, <2>2, <3>2
    <3> QED  BY <1>5, <3>1, <3>2
  <2>4. ASSUME NEW i \in 1..Len(stream) PROVE stream'[i].seq < stream'[i + 1].seq
    <3>1. CASE i = Len(stream)
      BY <1>3, <1>5, <2>1, <3>1
    <3>2. CASE i \in 1..(Len(stream) - 1)
      BY <1>5, <2>1, <3>2
    <3>3. Len(stream) \in Nat /\ i \in 1..Len(stream)
      BY <1>5
    <3>4. i = Len(stream) \/ i \in 1..(Len(stream) - 1)
      BY <3>3
    <3> QED  BY <3>1, <3>2, <3>4
  <2>5. \A i \in 1..(Len(stream') - 1) : stream'[i].seq < stream'[i + 1].seq
    BY <1>5, <2>4
  <2>6. \A i \in DOMAIN stream' : stream'[i].seq < pturn'.seq
    BY <1>5, <2>3
  <2> QED  BY <2>5, <2>6 DEF Numbered
<1>8. TurnTyped' /\ stream' # <<>>
  BY <1>1, <1>2, <1>4, <1>5 DEF TurnTyped
<1> QED  BY <1>2, <1>3, <1>5, <1>6, <1>7, <1>8 DEF e

\* The blocks that were told stay told.
LEMMA BlocksKept ==
  ASSUME NEW k, NEW i \in Nat, NEW j \in Nat, Block(k, i, j), stream \in Seq(Event),
         NEW e, stream' = Append(stream, e), pturn'.result = pturn.result
  PROVE  Block(k, i, j)'
<1>1. /\ \A p \in DOMAIN stream : p \in DOMAIN stream' /\ stream'[p] = stream[p]
  OBVIOUS
<1> QED  BY <1>1 DEF Block, ToolOf

\* The fields of a turn, one by one.
LEMMA TurnFields ==
  ASSUME TurnTyped
  PROVE  /\ pturn \in Turn /\ pturn.phase \in TurnPhases /\ pturn.at \in Nat /\ pturn.at > 0
         /\ pturn.synthesis \in Nat /\ pturn.seq \in Nat /\ pturn.judged \in Nat
         /\ pturn.held \in Seq(Notes) /\ stored \in Seq(Notes) /\ stream \in Seq(Event)
         /\ pturn.result.cost \in Nat /\ Len(pturn.result.steps) \in Nat
         /\ pturn.result.steps \in Seq([kind : StepKinds, tool : BOOLEAN])
         /\ pturn.result.known \in BOOLEAN
         /\ pturn.result \in PlanResults \cup {NoResult}
<1>1. pturn.result \in PlanResults \cup {NoResult}
  BY DEF TurnTyped, Turn
<1>2. /\ pturn.result.cost \in Nat /\ pturn.result.known \in BOOLEAN
      /\ pturn.result.steps \in Seq([kind : StepKinds, tool : BOOLEAN])
  <2>1. CASE pturn.result = NoResult
    BY <2>1 DEF NoResult
  <2>2. CASE pturn.result \in PlanResults
    BY <2>2, PlanTurnAssumption
  <2> QED  BY <1>1, <2>1, <2>2
<1>3. Len(pturn.result.steps) \in Nat
  BY <1>2
<1>4. /\ pturn \in Turn /\ pturn.phase \in TurnPhases /\ pturn.at \in Nat /\ pturn.at > 0
      /\ pturn.synthesis \in Nat /\ pturn.seq \in Nat /\ pturn.judged \in Nat
      /\ pturn.held \in Seq(Notes) /\ stored \in Seq(Notes) /\ stream \in Seq(Event)
  BY DEF TurnTyped, Turn
<1> QED  BY <1>1, <1>2, <1>3, <1>4

\* A step that yields nothing, and leaves the result, its place and its cost alone.
LEMMA BooksQuiet ==
  ASSUME Books, UNCHANGED stream, pturn'.result = pturn.result, pturn'.at = pturn.at,
         pturn'.synthesis = pturn.synthesis
  PROVE  Books' /\ \A k : EventsOf(k)' = EventsOf(k)
<1>1. \A k : EventsOf(k)' = EventsOf(k)
  BY DEF EventsOf
<1>2. Paid' = Paid
  BY DEF Paid, Amounts, EventsOf
<1>3. \A k, i, j : Block(k, i, j)' = Block(k, i, j)
  BY DEF Block, ToolOf
<1>4. Cardinality(EventsOf("step_complete"))' = Cardinality(EventsOf("step_complete"))
  BY DEF EventsOf
<1> QED  BY <1>1, <1>2, <1>3, <1>4 DEF Books

\* So does one that yields an event that is neither a cost nor the end of a step.
LEMMA BooksYield ==
  ASSUME TurnInv, NEW kind \in EventKinds \ {"usage", "step_complete"}, NEW of \in Nat,
         NEW turn \in Turn, Yields(kind, of, turn), turn.result = pturn.result,
         turn.at = pturn.at, turn.synthesis = pturn.synthesis
  PROVE  Books'
<1>1. /\ pturn' = [turn EXCEPT !.seq = pturn.seq + 1]
      /\ stream' = Append(stream, [seq |-> pturn.seq, kind |-> kind, of |-> of])
      /\ Paid' = Paid + 0 /\ Paid \in Nat
      /\ Cardinality(EventsOf("step_complete"))' = Cardinality(EventsOf("step_complete")) + 0
      /\ Cardinality(EventsOf("step_complete")) \in Nat
  BY Yielded
<1>2. /\ pturn'.result = pturn.result /\ pturn'.at = pturn.at /\ pturn'.synthesis = pturn.synthesis
  BY <1>1 DEF Turn
<1>3. stream \in Seq(Event)
  BY DEF TurnInv, TurnTyped
<1>4. \A k \in 1..(pturn.at - 1) : \E i, j \in Nat : Block(k, i, j)'
  BY <1>1, <1>2, <1>3, BlocksKept DEF TurnInv, Books
<1> QED  BY <1>1, <1>2, <1>4 DEF TurnInv, Books

\* Nothing told yet: before a turn, at its beginning, and after it.
LEMMA NothingTold ==
  ASSUME stream' = <<>>, pturn' \in Turn, stored' \in Seq(Notes),
         pturn'.phase \in {"idle", "running"}, pturn'.result = NoResult, pturn'.at = 1,
         pturn'.synthesis = 0, pturn'.phase = "running" => pturn'.held = stored'
  PROVE  TurnInv'
<1>1. TurnTyped'
  BY DEF TurnTyped
<1>2. Numbered'
  BY DEF Numbered
<1>3. \A k : EventsOf(k)' = {}
  BY DEF EventsOf
<1>4. Paid' = 0 /\ Cardinality(EventsOf("step_complete"))' = 0
  BY <1>3, SumEmpty, FS_EmptySet DEF Paid
<1>5. Len(NoResult.steps) = 0 /\ NoResult.cost = 0
  BY DEF NoResult
<1>6. Books'
  BY <1>4, <1>5 DEF Books
<1>7. ToldSoFar'
  BY DEF ToldSoFar
<1>8. AnsweredSoFar'
  BY <1>3 DEF AnsweredSoFar, Answering
<1> QED  BY <1>1, <1>2, <1>6, <1>7, <1>8 DEF TurnInv

\* The idle turn is one.
LEMMA IdleTurnTyped ==
  /\ IdleTurn \in Turn /\ IdleTurn.phase = "idle" /\ IdleTurn.result = NoResult
  /\ IdleTurn.at = 1 /\ IdleTurn.synthesis = 0
BY DEF IdleTurn, Turn, TurnPhases, Notes

\* The last notes of a section.
LEMMA LastNotes ==
  ASSUME NEW S, NEW s \in Seq(S), NEW m \in Nat
  PROVE  LastN(s, m) \in Seq(S)
BY DEF LastN

\* The last notes of a section, and one more.
LEMMA OneMoreNote ==
  ASSUME NEW S, NEW s \in Seq(S), NEW kept \in 0..Len(s), NEW e \in S
  PROVE  /\ Append(LastN(s, kept), e) \in Seq(S) /\ Append(LastN(s, kept), e) # <<>>
         /\ Append(LastN(s, kept), e)[Len(Append(LastN(s, kept), e))] = e
<1> DEFINE old == LastN(s, kept)
<1>1. old \in Seq(S)
  BY LastNotes
<1> HIDE DEF old
<1>2. Append(old, e) \in Seq(S) /\ Append(old, e) # <<>> /\ Append(old, e)[Len(Append(old, e))] = e
  BY <1>1
<1> QED  BY <1>2 DEF old

\* A turn begins, is saved or is left: nothing is told.
LEMMA TurnEnds ==
  ASSUME TurnInv, BeginPlan \/ SaveTurn \/ LeavePlan \/ JudgeEmits PROVE TurnInv'
<1>1. /\ stored \in Seq(Notes) /\ pturn.held \in Seq(Notes) /\ pturn \in Turn
      /\ pturn.seq \in Nat /\ pturn.judged \in Nat
  BY TurnFields DEF TurnInv
<1>2. CASE SaveTurn \/ LeavePlan
  <2>1. Summarized(pturn.held) \subseteq Seq(Notes)
    <3>1. <<"summary">> \in Seq(Notes) /\ <<>> \in Seq(Notes)
      BY DEF Notes
    <3> QED  BY <1>1, <3>1 DEF Summarized
  <2>2. stored' \in Seq(Notes)
    BY <1>1, <1>2, <2>1 DEF SaveTurn, LeavePlan
  <2> QED  BY <1>1, <1>2, <2>2, IdleTurnTyped, NothingTold DEF SaveTurn, LeavePlan
<1>3. CASE BeginPlan
  <2>1. LastN(stored, PriorCount) \in Seq(Notes)
    BY <1>1, PlanTurnAssumption, LastNotes
  <2> DEFINE prior == LastN(stored, PriorCount)
             turn == [IdleTurn EXCEPT !.phase = "running", !.held = stored, !.prior = prior]
  <2> HIDE DEF prior
  <2>2. /\ turn \in Turn /\ turn.phase = "running" /\ turn.held = stored
        /\ turn.result = NoResult /\ turn.at = 1 /\ turn.synthesis = 0
    BY <1>1, <2>1, IdleTurnTyped DEF Turn, TurnPhases, prior
  <2>3. pturn' = turn /\ stream' = stream /\ stored' = stored
    BY <1>3 DEF BeginPlan, prior
  <2>4. stream = <<>>
    BY <1>3 DEF BeginPlan, TurnInv, ToldSoFar
  <2> QED  BY <1>1, <2>2, <2>3, <2>4, NothingTold
<1>4. CASE JudgeEmits
  <2> DEFINE number == pturn.seq + 1
             judged1 == pturn.judged + 1
             turn == [pturn EXCEPT !.seq = number, !.judged = judged1]
  <2>0. number \in Nat /\ judged1 \in Nat
    BY <1>1
  <2>1. pturn' = turn /\ stream' = stream /\ stored' = stored /\ pturn.phase = "running"
    BY <1>4 DEF JudgeEmits
  <2>2. stream = <<>> /\ pturn.result = NoResult /\ pturn.at = 1 /\ pturn.synthesis = 0
        /\ pturn.held = stored
    BY <2>1 DEF TurnInv, ToldSoFar, AnsweredSoFar
  <2>3. /\ turn \in Turn /\ turn.phase = "running" /\ turn.held = stored
        /\ turn.result = NoResult /\ turn.at = 1 /\ turn.synthesis = 0
    <3> HIDE DEF number, judged1
    <3> QED  BY <1>1, <2>0, <2>1, <2>2 DEF Turn
  <2> HIDE DEF turn
  <2> QED  BY <1>1, <2>1, <2>2, <2>3, NothingTold
<1> QED  BY <1>2, <1>3, <1>4

\* The plan's result is in: its cost is the first event.
LEMMA TurnComposed == ASSUME TurnInv, Composed PROVE TurnInv'
<1>1. PICK r \in PlanResults :
        Yields("usage", r.cost, [pturn EXCEPT !.phase = "proposing", !.result = r])
  BY DEF Composed
<1> DEFINE turn == [pturn EXCEPT !.phase = "proposing", !.result = r]
<1>2. pturn \in Turn /\ r.cost \in Nat /\ "usage" \in EventKinds /\ Len(r.steps) \in Nat
  BY TurnFields, PlanTurnAssumption DEF TurnInv, EventKinds
<1>3. /\ pturn.phase = "running" /\ stream = <<>> /\ pturn.result = NoResult /\ pturn.at = 1
      /\ pturn.synthesis = 0 /\ pturn.held = stored /\ NoResult.cost = 0
  BY DEF Composed, TurnInv, ToldSoFar, AnsweredSoFar, NoResult
<1>4. /\ turn \in Turn /\ turn.phase = "proposing" /\ turn.result = r /\ turn.at = 1
      /\ turn.synthesis = 0 /\ turn.held = stored
  BY <1>2, <1>3 DEF Turn, TurnPhases
<1> HIDE DEF turn
<1>5. /\ stored' = stored /\ TurnTyped' /\ Numbered' /\ pturn' = [turn EXCEPT !.seq = pturn.seq + 1]
      /\ Paid' = Paid + r.cost
      /\ Cardinality(EventsOf("step_complete"))' = Cardinality(EventsOf("step_complete"))
      /\ EventsOf("text")' = EventsOf("text")
      /\ EventsOf("budget_exceeded")' = EventsOf("budget_exceeded")
  <2>1. Yields("usage", r.cost, turn)
    BY <1>1 DEF turn
  <2>2. /\ stored' = stored /\ TurnTyped' /\ Numbered' /\ pturn' = [turn EXCEPT !.seq = pturn.seq + 1]
        /\ Paid' = Paid + (IF "usage" = "usage" THEN r.cost ELSE 0)
        /\ Cardinality(EventsOf("step_complete"))' =
             Cardinality(EventsOf("step_complete")) + (IF "usage" = "step_complete" THEN 1 ELSE 0)
        /\ \A k : EventsOf(k)' = EventsOf(k) \cup (IF "usage" = k THEN {Len(stream) + 1} ELSE {})
        /\ Cardinality(EventsOf("step_complete")) \in Nat
    BY <1>2, <1>4, <2>1, Yielded
  <2> QED  BY <2>2
<1>6. /\ pturn'.phase = "proposing" /\ pturn'.result = r /\ pturn'.at = 1
      /\ pturn'.synthesis = 0 /\ pturn'.held = stored
  BY <1>4, <1>5 DEF Turn
<1>7. Paid = 0 /\ Cardinality(EventsOf("step_complete")) = 0
  BY <1>3 DEF TurnInv, Books
<1>8. Books'
  BY <1>2, <1>5, <1>6, <1>7 DEF Books
<1>9. ToldSoFar'
  BY <1>6 DEF ToldSoFar
<1>10. AnsweredSoFar'
  BY <1>3, <1>5, <1>6 DEF AnsweredSoFar, Answering, TurnInv
<1> QED  BY <1>5, <1>8, <1>9, <1>10 DEF TurnInv

\* The plan raises: the turn is answered without a result.
LEMMA TurnRaises == ASSUME TurnInv, ComposeRaises PROVE TurnInv'
<1> DEFINE turn == [pturn EXCEPT !.phase = "answered"]
<1>1. pturn.phase = "running" /\ pturn \in Turn /\ pturn.result = NoResult /\ pturn.at = 1
  BY TurnFields DEF TurnInv, ComposeRaises, ToldSoFar
<1>2. /\ turn \in Turn /\ turn.phase = "answered" /\ turn.result = pturn.result
      /\ turn.at = pturn.at /\ turn.synthesis = pturn.synthesis
  BY <1>1 DEF Turn, TurnPhases
<1>3. Yields("run_error", 0, turn)
  BY DEF ComposeRaises
<1> HIDE DEF turn
<1>4. /\ TurnTyped' /\ Numbered' /\ pturn' = [turn EXCEPT !.seq = pturn.seq + 1]
  BY <1>2, <1>3, Yielded DEF EventKinds
<1>5. Books'
  BY <1>2, <1>3, BooksYield DEF EventKinds
<1>6. /\ pturn'.phase = "answered" /\ pturn'.result = NoResult
  BY <1>1, <1>2, <1>4 DEF Turn
<1>7. ToldSoFar' /\ AnsweredSoFar'
  BY <1>6 DEF ToldSoFar, AnsweredSoFar, Answering, Telling
<1> QED  BY <1>4, <1>5, <1>7 DEF TurnInv

\* While a plan is told, an event other than a cost, the end of a step, the budget and
\* the text is yielded, or none: only the phase changes.
LEMMA TurnTells ==
  ASSUME TurnInv, NEW phase1 \in Telling, pturn.phase \in {"proposing"} \cup Telling,
         \/ pturn' = [pturn EXCEPT !.phase = phase1] /\ UNCHANGED <<stored, stream>>
         \/ \E kind \in EventKinds \ {"usage", "step_complete", "text", "budget_exceeded"}, of \in Nat :
              Yields(kind, of, [pturn EXCEPT !.phase = phase1])
  PROVE  /\ TurnTyped' /\ Numbered' /\ Books' /\ AnsweredSoFar'
         /\ pturn'.phase = phase1 /\ pturn'.result = pturn.result /\ pturn'.at = pturn.at
         /\ pturn'.synthesis = 0
<1> DEFINE turn == [pturn EXCEPT !.phase = phase1]
<1>1. pturn \in Turn /\ stored \in Seq(Notes) /\ stream \in Seq(Event)
      /\ pturn.synthesis = 0 /\ pturn.held = stored
  BY TurnFields DEF TurnInv, ToldSoFar, AnsweredSoFar, Telling
<1>2. /\ turn \in Turn /\ turn.phase = phase1 /\ turn.result = pturn.result
      /\ turn.at = pturn.at /\ turn.synthesis = 0 /\ turn.held = stored
  BY <1>1 DEF Turn, TurnPhases, Telling
<1>3. EventsOf("text") = {} /\ EventsOf("budget_exceeded") = {}
  BY DEF TurnInv, AnsweredSoFar, Telling, Answering
<1>4. /\ TurnTyped' /\ Numbered' /\ Books' /\ stored' = stored
      /\ EventsOf("text")' = {} /\ EventsOf("budget_exceeded")' = {}
      /\ pturn'.phase = phase1 /\ pturn'.result = pturn.result /\ pturn'.at = pturn.at
      /\ pturn'.synthesis = 0 /\ pturn'.held = stored
  <2>1. CASE pturn' = turn /\ UNCHANGED <<stored, stream>>
    <3>1. pturn'.seq = pturn.seq
      BY <1>1, <2>1 DEF Turn
    <3> HIDE DEF turn
    <3>2. Books' /\ \A k : EventsOf(k)' = EventsOf(k)
      BY <1>1, <1>2, <2>1, BooksQuiet DEF TurnInv
    <3>3. Numbered'
      BY <2>1, <3>1 DEF TurnInv, Numbered
    <3> QED  BY <1>1, <1>2, <1>3, <2>1, <3>2, <3>3 DEF TurnTyped
  <2>2. ASSUME NEW kind \in EventKinds \ {"usage", "step_complete", "text", "budget_exceeded"},
               NEW of \in Nat, Yields(kind, of, turn)
        PROVE  <1>4
    <3> HIDE DEF turn
    <3>1. /\ TurnTyped' /\ Numbered' /\ pturn' = [turn EXCEPT !.seq = pturn.seq + 1]
          /\ stored' = stored
          /\ \A k : EventsOf(k)' = EventsOf(k) \cup (IF kind = k THEN {Len(stream) + 1} ELSE {})
      BY <1>2, <2>2, Yielded
    <3>2. Books'
      BY <1>1, <1>2, <2>2, BooksYield
    <3>3. /\ pturn'.phase = phase1 /\ pturn'.result = pturn.result /\ pturn'.at = pturn.at
          /\ pturn'.synthesis = 0 /\ pturn'.held = stored
      BY <1>2, <3>1 DEF Turn
    <3>4. EventsOf("text")' = {} /\ EventsOf("budget_exceeded")' = {}
      BY <1>3, <3>1
    <3> QED  BY <3>1, <3>2, <3>3, <3>4
  <2> QED  BY <2>1, <2>2
<1>5. AnsweredSoFar'
  BY <1>4 DEF AnsweredSoFar, Telling, Answering
<1> QED  BY <1>4, <1>5

\* The proposed plan is shown, or there is nothing to show.
LEMMA TurnProposes == ASSUME TurnInv, Propose PROVE TurnInv'
<1>1. Len(pturn.result.steps) \in Nat /\ pturn.phase = "proposing"
  BY TurnFields DEF TurnInv, Propose
<1>2. \/ pturn' = [pturn EXCEPT !.phase = "steps"] /\ UNCHANGED <<stored, stream>>
      \/ \E kind \in EventKinds \ {"usage", "step_complete", "text", "budget_exceeded"}, of \in Nat :
           Yields(kind, of, [pturn EXCEPT !.phase = "steps"])
  BY <1>1 DEF Propose, EventKinds
<1>3. /\ TurnTyped' /\ Numbered' /\ Books' /\ AnsweredSoFar'
      /\ pturn'.phase = "steps" /\ pturn'.synthesis = 0
  BY <1>1, <1>2, TurnTells DEF Telling
<1> QED  BY <1>3 DEF ToldSoFar, TurnInv

\* Where the open step is, when another event follows it.
LEMMA OpenMoves ==
  ASSUME TurnTyped, NEW e \in Event, stream' = Append(stream, e), NEW back \in Nat, OpenStep(back),
         pturn'.result = pturn.result, pturn'.at = pturn.at
  PROVE  OpenStep(back + 1)'
<1>1. /\ Len(stream) \in Nat /\ Len(stream') = Len(stream) + 1
      /\ \A i \in 1..Len(stream) : stream'[i] = stream[i]
  BY OneMoreEvent DEF TurnTyped
<1>2. Len(stream') - (back + 1) = Len(stream) - back /\ Len(stream) - back \in 1..Len(stream)
  BY <1>1 DEF OpenStep
<1> QED  BY <1>1, <1>2 DEF OpenStep

\* The step starts, or its tool does, or the tool is done.
LEMMA TurnStarts ==
  ASSUME TurnInv, StepStarts \/ ToolStarts \/ ToolCompletes PROVE TurnInv'
<1> DEFINE tool == ToolOf(pturn.result, pturn.at)
           kind == IF pturn.phase = "steps" THEN "step_start"
                   ELSE IF pturn.phase = "tool" THEN "tool_start" ELSE "tool_complete"
           phase1 == IF pturn.phase = "steps" THEN IF tool THEN "tool" ELSE "closing"
                     ELSE IF pturn.phase = "tool" THEN "tool_done" ELSE "closing"
           e == [seq |-> pturn.seq, kind |-> kind, of |-> pturn.at]
<1>1. pturn.at \in Nat /\ Len(pturn.result.steps) \in Nat /\ pturn.seq \in Nat
      /\ stream \in Seq(Event) /\ pturn \in Turn
  BY TurnFields DEF TurnInv
<1>2. /\ pturn.phase \in {"steps", "tool", "tool_done"}
      /\ Yields(kind, pturn.at, [pturn EXCEPT !.phase = phase1])
      /\ pturn.phase = "steps" => pturn.at <= Len(pturn.result.steps)
  BY DEF StepStarts, ToolStarts, ToolCompletes
<1>3. /\ phase1 \in Telling /\ pturn.phase \in Telling
      /\ kind \in EventKinds \ {"usage", "step_complete", "text", "budget_exceeded"}
      /\ e \in Event
  BY <1>1, <1>2 DEF Telling, EventKinds, Event
<1>4. /\ pturn.phase = "tool" => tool /\ OpenStep(0)
      /\ pturn.phase = "tool_done" => tool /\ OpenStep(1)
  BY DEF TurnInv, ToldSoFar
<1>5. stream' = Append(stream, e)
  BY <1>2 DEF Yields
<1>6. /\ TurnTyped' /\ Numbered' /\ Books' /\ AnsweredSoFar'
      /\ pturn'.phase = phase1 /\ pturn'.result = pturn.result /\ pturn'.at = pturn.at
      /\ pturn'.synthesis = 0
  <2> HIDE DEF phase1, kind
  <2> QED  BY <1>1, <1>2, <1>3, TurnTells
<1>7. ToolOf(pturn'.result, pturn'.at) = tool
  BY <1>6
<1>8. CASE pturn.phase = "steps"
  <2>1. e.kind = "step_start" /\ e.of = pturn.at
    BY <1>8
  <2>2. OpenStep(0)'
    <3> HIDE DEF e
    <3>1. Len(stream') = Len(stream) + 1 /\ Len(stream) \in Nat /\ stream'[Len(stream) + 1] = e
      BY <1>1, <1>3, <1>5, OneMoreEvent
    <3>2. Len(stream') > 0 /\ Len(stream') - 0 = Len(stream) + 1
      BY <3>1
    <3> QED  BY <1>2, <1>6, <1>8, <2>1, <3>1, <3>2 DEF OpenStep
  <2>3. ToldSoFar'
    BY <1>6, <1>7, <1>8, <2>2 DEF ToldSoFar, Telling
  <2> QED  BY <1>6, <2>3 DEF TurnInv
<1>9. CASE pturn.phase = "tool"
  <2>1. OpenStep(0 + 1)'
    <3> HIDE DEF e
    <3> QED  BY <1>3, <1>4, <1>5, <1>6, <1>9, OpenMoves DEF TurnInv
  <2>2. ToldSoFar'
    BY <1>4, <1>6, <1>7, <1>9, <2>1 DEF ToldSoFar, Telling
  <2> QED  BY <1>6, <2>2 DEF TurnInv
<1>10. CASE pturn.phase = "tool_done"
  <2>1. OpenStep(1 + 1)'
    <3> HIDE DEF e
    <3> QED  BY <1>3, <1>4, <1>5, <1>6, <1>10, OpenMoves DEF TurnInv
  <2>2. ToldSoFar'
    BY <1>4, <1>6, <1>7, <1>10, <2>1 DEF ToldSoFar, Telling
  <2> QED  BY <1>6, <2>2 DEF TurnInv
<1> QED  BY <1>2, <1>8, <1>9, <1>10

\* The step is complete: its block is closed, and one more call collected.
LEMMA TurnCompletes == ASSUME TurnInv, StepCompletes PROVE TurnInv'
<1> DEFINE k1 == pturn.at
           tool == ToolOf(pturn.result, k1)
           turn == [pturn EXCEPT !.phase = "steps", !.at = k1 + 1]
           e == [seq |-> pturn.seq, kind |-> "step_complete", of |-> k1]
           back == IF tool THEN 2 ELSE 0
<1>1. /\ pturn \in Turn /\ k1 \in Nat /\ k1 > 0 /\ pturn.seq \in Nat /\ stream \in Seq(Event)
      /\ Len(pturn.result.steps) \in Nat /\ stored \in Seq(Notes) /\ pturn.result.cost \in Nat
  BY TurnFields DEF TurnInv
<1>2. /\ pturn.phase = "closing" /\ Yields("step_complete", k1, turn)
  BY DEF StepCompletes
<1>3. /\ OpenStep(back) /\ pturn.synthesis = 0 /\ pturn.held = stored
  BY <1>2 DEF TurnInv, ToldSoFar, AnsweredSoFar, Telling
<1>4. /\ turn \in Turn /\ turn.phase = "steps" /\ turn.result = pturn.result
      /\ turn.at = k1 + 1 /\ turn.synthesis = 0 /\ turn.held = stored
  <2> DEFINE following == k1 + 1
  <2>1. following \in Nat \ {0}
    BY <1>1
  <2> HIDE DEF following
  <2> DEFINE there == [pturn EXCEPT !.phase = "steps", !.at = following]
  <2>2. /\ there \in Turn /\ there.phase = "steps" /\ there.result = pturn.result
        /\ there.at = following /\ there.synthesis = pturn.synthesis /\ there.held = pturn.held
    BY <1>1, <2>1 DEF Turn, TurnPhases
  <2> QED  BY <1>3, <2>2 DEF following
<1> HIDE DEF turn
<1>5. /\ stored' = stored /\ TurnTyped' /\ Numbered' /\ pturn' = [turn EXCEPT !.seq = pturn.seq + 1]
      /\ stream' = Append(stream, e)
      /\ Paid' = Paid + (IF "step_complete" = "usage" THEN k1 ELSE 0)
      /\ Cardinality(EventsOf("step_complete"))' =
           Cardinality(EventsOf("step_complete")) + (IF "step_complete" = "step_complete" THEN 1 ELSE 0)
      /\ \A k : EventsOf(k)' = EventsOf(k) \cup (IF "step_complete" = k THEN {Len(stream) + 1} ELSE {})
      /\ Paid \in Nat /\ Cardinality(EventsOf("step_complete")) \in Nat
  BY <1>1, <1>2, <1>4, Yielded DEF EventKinds
<1>6. /\ pturn'.phase = "steps" /\ pturn'.result = pturn.result /\ pturn'.at = k1 + 1
      /\ pturn'.synthesis = 0 /\ pturn'.held = stored
  <2> HIDE DEF k1
  <2> QED  BY <1>4, <1>5 DEF Turn
<1>7. e \in Event
  BY <1>1 DEF Event, EventKinds
<1>8. /\ Len(stream) \in Nat /\ Len(stream') = Len(stream) + 1
      /\ DOMAIN stream' = 1..(Len(stream) + 1)
      /\ \A i \in 1..Len(stream) : stream'[i] = stream[i]
      /\ stream'[Len(stream) + 1] = e
  <2> HIDE DEF e
  <2> QED  BY <1>1, <1>5, <1>7, OneMoreEvent
<1>9. ASSUME NEW k0 \in Nat, k0 = k1
      PROVE  \E i, j \in Nat : Block(k0, i, j)'
  <2>1. Len(stream) - back \in 1..Len(stream)
    BY <1>3, <1>8 DEF OpenStep
  <2>2. /\ stream'[Len(stream) - back].kind = "step_start" /\ stream'[Len(stream) - back].of = k1
    BY <1>3, <1>8, <2>1 DEF OpenStep
  <2>3. /\ stream'[Len(stream) + 1].kind = "step_complete" /\ stream'[Len(stream) + 1].of = k1
    BY <1>8
  <2>4. (Len(stream) + 1) - (Len(stream) - back) = IF tool THEN 3 ELSE 1
    BY <1>8
  <2>5. ToolOf(pturn'.result, k1) = tool
    BY <1>6
  <2>6. PICK i1 \in Nat, j1 \in Nat : i1 = Len(stream) - back /\ j1 = Len(stream) + 1
    <3>1. Len(stream) - back \in Nat /\ Len(stream) + 1 \in Nat
      BY <1>8, <2>1
    <3> HIDE DEF back
    <3> QED  BY <3>1
  <2>7. /\ i1 \in DOMAIN stream' /\ j1 \in DOMAIN stream'
        /\ stream'[i1].kind = "step_start" /\ stream'[i1].of = k0
        /\ stream'[j1].kind = "step_complete" /\ stream'[j1].of = k0
    BY <1>8, <1>9, <2>1, <2>2, <2>3, <2>6
  <2>8. j1 - i1 = IF ToolOf(pturn'.result, k0) THEN 3 ELSE 1
    BY <1>9, <2>4, <2>5, <2>6
  <2> QED  BY <2>7, <2>8 DEF Block, ToolOf
<1>10. \A k \in 1..(k1 - 1) : \E i, j \in Nat : Block(k, i, j)'
  <2> HIDE DEF e
  <2>1. \A k \in 1..(pturn.at - 1) : \E i, j \in Nat : Block(k, i, j)
    BY DEF TurnInv, Books
  <2> QED  BY <1>1, <1>5, <1>6, <2>1, BlocksKept
<1>11. \A k \in 1..(pturn'.at - 1) : \E i, j \in Nat : Block(k, i, j)'
  <2>1. pturn'.at - 1 = k1 /\ Len(stream) + 1 \in Nat
    BY <1>1, <1>6, <1>8
  <2>2. ASSUME NEW k \in 1..k1 PROVE \E i, j \in Nat : Block(k, i, j)'
    <3>1. CASE k = k1
      BY <1>1, <1>9, <3>1
    <3>2. CASE k # k1
      <4>1. k \in 1..(k1 - 1)
        BY <1>1, <2>2, <3>2
      <4> QED  BY <1>10, <4>1
    <3> QED  BY <3>1, <3>2
  <2> QED  BY <2>1, <2>2
<1>12. Books'
  <2>1. Paid' = pturn'.result.cost + pturn'.synthesis
    BY <1>1, <1>3, <1>5, <1>6 DEF TurnInv, Books
  <2>2. Cardinality(EventsOf("step_complete"))' = pturn'.at - 1
    BY <1>1, <1>5, <1>6 DEF TurnInv, Books
  <2>3. pturn'.at <= Len(pturn'.result.steps) + 1
    BY <1>1, <1>3, <1>6 DEF OpenStep
  <2> QED  BY <1>11, <2>1, <2>2, <2>3 DEF Books
<1>13. ToldSoFar'
  BY <1>6 DEF ToldSoFar, Telling
<1>14. AnsweredSoFar'
  <2>1. EventsOf("text")' = EventsOf("text") /\ EventsOf("budget_exceeded")' = EventsOf("budget_exceeded")
    BY <1>5
  <2>2. EventsOf("text") = {} /\ EventsOf("budget_exceeded") = {}
    BY <1>2 DEF TurnInv, AnsweredSoFar, Answering
  <2> QED  BY <1>5, <1>6, <2>1, <2>2 DEF AnsweredSoFar, Answering
<1> QED  BY <1>5, <1>12, <1>13, <1>14 DEF TurnInv

\* The plan is told: the budget's stop is reported if it is one.
LEMMA TurnReports == ASSUME TurnInv, ReportBudget PROVE TurnInv'
<1> DEFINE turn == [pturn EXCEPT !.phase = "answer"]
           over == pturn.result.stop \in BudgetStops
<1>1. /\ pturn \in Turn /\ stored \in Seq(Notes) /\ stream \in Seq(Event)
      /\ pturn.at \in Nat /\ Len(pturn.result.steps) \in Nat
  BY TurnFields DEF TurnInv
<1>2. /\ pturn.phase = "steps" /\ pturn.at > Len(pturn.result.steps)
      /\ over => Yields("budget_exceeded", 0, turn)
      /\ ~over => pturn' = turn /\ UNCHANGED <<stored, stream, ran>>
  BY DEF ReportBudget
<1>3. /\ pturn.synthesis = 0 /\ pturn.held = stored /\ EventsOf("text") = {}
      /\ EventsOf("budget_exceeded") = {} /\ pturn.at = Len(pturn.result.steps) + 1
  BY <1>1, <1>2 DEF TurnInv, ToldSoFar, AnsweredSoFar, Telling, Answering, Books
<1>4. /\ turn \in Turn /\ turn.phase = "answer" /\ turn.result = pturn.result
      /\ turn.at = pturn.at /\ turn.synthesis = pturn.synthesis /\ turn.held = stored
  BY <1>1, <1>3 DEF Turn, TurnPhases
<1>5. /\ stored' = stored /\ TurnTyped' /\ Numbered' /\ Books' /\ EventsOf("text")' = {}
      /\ over = (EventsOf("budget_exceeded")' # {})
      /\ pturn'.phase = "answer" /\ pturn'.result = pturn.result /\ pturn'.at = pturn.at
      /\ pturn'.synthesis = 0 /\ pturn'.held = stored
  <2>1. CASE over
    <3> HIDE DEF turn
    <3>1. /\ stored' = stored /\ TurnTyped' /\ Numbered' /\ pturn' = [turn EXCEPT !.seq = pturn.seq + 1]
          /\ \A k : EventsOf(k)' =
               EventsOf(k) \cup (IF "budget_exceeded" = k THEN {Len(stream) + 1} ELSE {})
      BY <1>2, <1>4, <2>1, Yielded DEF EventKinds
    <3>2. Books'
      BY <1>2, <1>4, <2>1, BooksYield DEF EventKinds
    <3>3. /\ pturn'.phase = "answer" /\ pturn'.result = pturn.result /\ pturn'.at = pturn.at
          /\ pturn'.synthesis = 0 /\ pturn'.held = stored
      BY <1>3, <1>4, <3>1 DEF Turn
    <3>4. EventsOf("text")' = {} /\ EventsOf("budget_exceeded")' # {}
      BY <1>3, <3>1
    <3> QED  BY <2>1, <3>1, <3>2, <3>3, <3>4
  <2>2. CASE ~over
    <3>1. pturn'.seq = pturn.seq /\ pturn' = turn /\ UNCHANGED <<stored, stream>>
      BY <1>1, <1>2, <2>2 DEF Turn
    <3> HIDE DEF turn
    <3>2. Books' /\ \A k : EventsOf(k)' = EventsOf(k)
      BY <1>4, <3>1, BooksQuiet DEF TurnInv
    <3>3. Numbered'
      BY <3>1 DEF TurnInv, Numbered
    <3> QED  BY <1>1, <1>3, <1>4, <2>2, <3>1, <3>2, <3>3 DEF TurnTyped
  <2> QED  BY <2>1, <2>2
<1>6. ToldSoFar'
  BY <1>5 DEF ToldSoFar
<1>7. AnsweredSoFar'
  BY <1>3, <1>5 DEF AnsweredSoFar, Answering
<1> QED  BY <1>5, <1>6, <1>7 DEF TurnInv

\* What the formatter can tell is findings exactly when something is worth telling.
LEMMA FormattedLemma ==
  ASSUME NEW r, r.steps \in Seq([kind : StepKinds, tool : BOOLEAN])
  PROVE  /\ Formatted(r) \in {"status", "findings", "nothing_usable"}
         /\ WorthTelling(r) = (Formatted(r) \in {"narrative", "findings"})
<1>0. WorthTelling(r) \in BOOLEAN
  BY DEF WorthTelling
<1>1. r.steps = <<>> => ~WorthTelling(r)
  BY DEF WorthTelling
<1>2. CASE r.steps = <<>>
  <2>1. Formatted(r) = "status"
    BY <1>1, <1>2, Zenon DEF Formatted
  <2>2. ~WorthTelling(r) /\ ~(Formatted(r) \in {"narrative", "findings"})
    BY <1>1, <1>2, <2>1
  <2> QED  BY <1>0, <2>1, <2>2
<1>3. CASE r.steps # <<>> /\ WorthTelling(r)
  BY <1>3 DEF Formatted
<1>4. CASE r.steps # <<>> /\ ~WorthTelling(r)
  <2>1. Formatted(r) = "nothing_usable"
    BY <1>4, Zenon DEF Formatted
  <2>2. ~WorthTelling(r) /\ ~(Formatted(r) \in {"narrative", "findings"})
    BY <1>4, <2>1
  <2> QED  BY <1>0, <2>1, <2>2
<1> QED  BY <1>2, <1>3, <1>4

\* The model answers, or the formatter does.
LEMMA TurnWrites == ASSUME TurnInv, Synthesize \/ Format PROVE TurnInv'
<1>1. /\ pturn \in Turn /\ stored \in Seq(Notes) /\ stream \in Seq(Event) /\ pturn.result.cost \in Nat
      /\ pturn.result.steps \in Seq([kind : StepKinds, tool : BOOLEAN])
      /\ pturn.at \in Nat
  BY TurnFields DEF TurnInv
<1>2. /\ Formatted(pturn.result) \in {"status", "findings", "nothing_usable"}
      /\ WorthTelling(pturn.result) = (Formatted(pturn.result) \in {"narrative", "findings"})
  BY <1>1, FormattedLemma
<1>3. pturn.phase = "answer"
  BY DEF Synthesize, Format
<1>4. /\ pturn.synthesis = 0 /\ pturn.held = stored /\ EventsOf("text") = {}
      /\ (pturn.result.stop \in BudgetStops) = (EventsOf("budget_exceeded") # {})
      /\ pturn.at = Len(pturn.result.steps) + 1
  BY <1>3 DEF TurnInv, ToldSoFar, AnsweredSoFar, Answering
<1> DEFINE Texts == {"none", "narrative", "findings", "status", "nothing_usable"}
           Tells(told, c) ==
             /\ WorthTelling(pturn.result) = (told \in {"narrative", "findings"})
             /\ \/ Yields("usage", c,
                          [pturn EXCEPT !.phase = "deliver", !.text = told, !.synthesis = c])
                \/ /\ c = 0 /\ UNCHANGED <<stored, stream>>
                   /\ pturn' = [pturn EXCEPT !.phase = "deliver", !.text = told]
<1>5. PICK told \in Texts, cost1 \in Nat : Tells(told, cost1)
  <2>1. CASE Synthesize
    <3>1. PICK c \in PlanCosts, t \in {"narrative", Formatted(pturn.result)} :
            Yields("usage", c, [pturn EXCEPT !.phase = "deliver", !.text = t, !.synthesis = c])
      BY <2>1 DEF Synthesize
    <3>2. WorthTelling(pturn.result) /\ c \in Nat
      BY <2>1, PlanTurnAssumption DEF Synthesize
    <3>3. t \in Texts /\ t \in {"narrative", "findings"}
      BY <1>2, <3>1, <3>2
    <3>4. Tells(t, c)
      BY <3>1, <3>2, <3>3
    <3> HIDE DEF Tells
    <3> QED  BY <3>2, <3>3, <3>4
  <2>2. CASE Format
    <3>1. Tells(Formatted(pturn.result), 0)
      BY <1>2, <2>2 DEF Format
    <3>2. Formatted(pturn.result) \in Texts
      BY <1>2
    <3> HIDE DEF Tells
    <3> QED  BY <3>1, <3>2
  <2> QED  BY <2>1, <2>2
<1>6. /\ stored' = stored /\ TurnTyped' /\ Numbered'
      /\ EventsOf("text")' = {} /\ EventsOf("budget_exceeded")' = EventsOf("budget_exceeded")
      /\ EventsOf("step_complete")' = EventsOf("step_complete")
      /\ Paid' = Paid + cost1
      /\ pturn'.phase = "deliver" /\ pturn'.result = pturn.result /\ pturn'.at = pturn.at
      /\ pturn'.synthesis = cost1 /\ pturn'.held = stored /\ pturn'.text = told
      /\ \A k \in 1..(pturn.at - 1) : \E i, j \in Nat : Block(k, i, j)'
  <2>1. CASE Yields("usage", cost1,
                    [pturn EXCEPT !.phase = "deliver", !.text = told, !.synthesis = cost1])
    <3> DEFINE turn == [pturn EXCEPT !.phase = "deliver", !.text = told, !.synthesis = cost1]
    <3>1. /\ turn \in Turn /\ turn.phase = "deliver" /\ turn.result = pturn.result
          /\ turn.at = pturn.at /\ turn.synthesis = cost1 /\ turn.held = stored /\ turn.text = told
      BY <1>1, <1>4, <1>5 DEF Turn, TurnPhases
    <3>2. Yields("usage", cost1, turn)
      BY <2>1
    <3> HIDE DEF turn
    <3>3. /\ stored' = stored /\ TurnTyped' /\ Numbered' /\ pturn' = [turn EXCEPT !.seq = pturn.seq + 1]
          /\ stream' = Append(stream, [seq |-> pturn.seq, kind |-> "usage", of |-> cost1])
          /\ Paid' = Paid + (IF "usage" = "usage" THEN cost1 ELSE 0)
          /\ \A k : EventsOf(k)' = EventsOf(k) \cup (IF "usage" = k THEN {Len(stream) + 1} ELSE {})
      BY <3>1, <3>2, Yielded DEF EventKinds
    <3>4. /\ pturn'.phase = "deliver" /\ pturn'.result = pturn.result /\ pturn'.at = pturn.at
          /\ pturn'.synthesis = cost1 /\ pturn'.held = stored /\ pturn'.text = told
      BY <3>1, <3>3 DEF Turn
    <3>5. \A k \in 1..(pturn.at - 1) : \E i, j \in Nat : Block(k, i, j)'
      BY <1>1, <3>3, <3>4, BlocksKept DEF TurnInv, Books
    <3>6. /\ EventsOf("text")' = {} /\ EventsOf("budget_exceeded")' = EventsOf("budget_exceeded")
          /\ EventsOf("step_complete")' = EventsOf("step_complete")
      BY <1>4, <3>3
    <3> QED  BY <3>3, <3>4, <3>5, <3>6
  <2>2. CASE /\ cost1 = 0 /\ UNCHANGED <<stored, stream>>
             /\ pturn' = [pturn EXCEPT !.phase = "deliver", !.text = told]
    <3> DEFINE turn == [pturn EXCEPT !.phase = "deliver", !.text = told]
    <3>1. /\ turn \in Turn /\ turn.phase = "deliver" /\ turn.result = pturn.result
          /\ turn.at = pturn.at /\ turn.synthesis = pturn.synthesis /\ turn.held = stored
          /\ turn.text = told /\ turn.seq = pturn.seq
      BY <1>1, <1>4, <1>5 DEF Turn, TurnPhases
    <3> HIDE DEF turn
    <3>2. pturn' = turn
      BY <2>2 DEF turn
    <3>3. Books' /\ \A k : EventsOf(k)' = EventsOf(k)
      BY <2>2, <3>1, <3>2, BooksQuiet DEF TurnInv
    <3>4. Numbered' /\ TurnTyped'
      BY <1>1, <2>2, <3>1, <3>2 DEF TurnInv, Numbered, TurnTyped
    <3>5. Paid' = Paid + cost1
      BY <1>1, <2>2, <1>4, <3>1, <3>2, <3>3 DEF Books, TurnInv
    <3> QED  BY <1>4, <2>2, <3>1, <3>2, <3>3, <3>4, <3>5 DEF Books
  <2> QED  BY <1>5, <2>1, <2>2
<1>7. Books'
  <2>1. Paid = pturn.result.cost /\ Cardinality(EventsOf("step_complete")) = pturn.at - 1
    BY <1>1, <1>4 DEF TurnInv, Books
  <2>2. Cardinality(EventsOf("step_complete"))' = pturn.at - 1
    BY <1>6, <2>1
  <2> QED  BY <1>1, <1>4, <1>6, <2>1, <2>2 DEF TurnInv, Books
<1>8. ToldSoFar'
  BY <1>6 DEF ToldSoFar, Telling
<1>9. AnsweredSoFar'
  BY <1>4, <1>5, <1>6 DEF AnsweredSoFar, Answering
<1> QED  BY <1>6, <1>7, <1>8, <1>9 DEF TurnInv

\* The text closes the stream; the note of a plan that did not succeed is added.
LEMMA TurnDelivers == ASSUME TurnInv, Deliver PROVE TurnInv'
<1>0. PICK noted \in Noted(pturn) :
        Yields("text", 0, [pturn EXCEPT !.phase = "answered", !.held = noted])
  BY DEF Deliver
<1> DEFINE turn == [pturn EXCEPT !.phase = "answered", !.held = noted]
<1>1. /\ pturn \in Turn /\ stored \in Seq(Notes) /\ stream \in Seq(Event) /\ pturn.at \in Nat
  BY TurnFields DEF TurnInv
<1>2. pturn.phase = "deliver" /\ Yields("text", 0, turn)
  BY <1>0 DEF Deliver
<1>3. /\ pturn.held = stored /\ EventsOf("text") = {}
      /\ (pturn.result.stop \in BudgetStops) = (EventsOf("budget_exceeded") # {})
      /\ pturn.at = Len(pturn.result.steps) + 1
      /\ WorthTelling(pturn.result) = (pturn.text \in {"narrative", "findings"})
  BY <1>2 DEF TurnInv, AnsweredSoFar, Answering
<1>4. noted \in Seq(Notes) /\ HeldAfter(pturn.result, noted)
  <2>1. CASE pturn.result.stop = "success"
    BY <1>0, <1>1, <1>3, <2>1 DEF Noted, HeldAfter
  <2>2. CASE pturn.result.stop # "success"
    <3> DEFINE note == NoteOf(pturn.result)
    <3>1. note \in Notes
      BY DEF NoteOf, Notes
    <3>2. PICK kept \in 0..Len(stored) : noted = Append(LastN(stored, kept), note)
      BY <1>0, <1>3, <2>2 DEF Noted
    <3>3. noted \in Seq(Notes) /\ noted # <<>> /\ noted[Len(noted)] = note
      <4> HIDE DEF note
      <4> QED  BY <1>1, <3>1, <3>2, OneMoreNote
    <3> QED  BY <2>2, <3>3 DEF HeldAfter, Last
  <2> QED  BY <2>1, <2>2
<1>5. /\ turn \in Turn /\ turn.phase = "answered" /\ turn.result = pturn.result
      /\ turn.at = pturn.at /\ turn.synthesis = pturn.synthesis /\ turn.held = noted
      /\ turn.text = pturn.text
  BY <1>1, <1>4 DEF Turn, TurnPhases
<1> HIDE DEF turn
<1>6. /\ stored' = stored /\ TurnTyped' /\ Numbered' /\ pturn' = [turn EXCEPT !.seq = pturn.seq + 1]
      /\ Len(stream') = Len(stream) + 1 /\ stream' # <<>>
      /\ \A k : EventsOf(k)' = EventsOf(k) \cup (IF "text" = k THEN {Len(stream) + 1} ELSE {})
  BY <1>2, <1>5, Yielded DEF EventKinds
<1>7. Books'
  BY <1>2, <1>5, BooksYield DEF EventKinds
<1>8. /\ pturn'.phase = "answered" /\ pturn'.result = pturn.result /\ pturn'.at = pturn.at
      /\ pturn'.held = noted /\ pturn'.text = pturn.text
  BY <1>5, <1>6 DEF Turn
<1>9. EventsOf("text")' = {Len(stream')} /\ EventsOf("budget_exceeded")' = EventsOf("budget_exceeded")
  BY <1>3, <1>6
<1>10. ToldSoFar'
  BY <1>8 DEF ToldSoFar, Telling
<1>11. AnsweredSoFar'
  <2>1. HeldAfter(pturn.result, pturn.held)'
    BY <1>4, <1>6, <1>8 DEF HeldAfter
  <2> QED  BY <1>3, <1>6, <1>8, <1>9, <2>1 DEF AnsweredSoFar, Answering
<1> QED  BY <1>6, <1>7, <1>10, <1>11 DEF TurnInv

\* Every step of the session keeps the invariant.
LEMMA TurnStep == TurnInv /\ [PlanTurnNext]_planTurnVars => TurnInv'
<1> SUFFICES ASSUME TurnInv, [PlanTurnNext]_planTurnVars PROVE TurnInv'
  OBVIOUS
<1>1. CASE UNCHANGED planTurnVars
  <2>1. UNCHANGED <<stored, pturn, stream>>
    BY <1>1 DEF planTurnVars
  <2>2. Books' /\ \A k : EventsOf(k)' = EventsOf(k)
    BY <2>1, BooksQuiet DEF TurnInv
  <2>3. TurnTyped' /\ Numbered'
    BY <2>1 DEF TurnInv, TurnTyped, Numbered
  <2>4. ToldSoFar'
    BY <2>1 DEF TurnInv, ToldSoFar, OpenStep
  <2>5. AnsweredSoFar'
    BY <2>1, <2>2 DEF TurnInv, AnsweredSoFar, HeldAfter
  <2> QED  BY <2>2, <2>3, <2>4, <2>5 DEF TurnInv
<1> QED  BY <1>1, TurnEnds, TurnComposed, TurnRaises, TurnProposes, TurnStarts, TurnCompletes,
            TurnReports, TurnWrites, TurnDelivers DEF PlanTurnNext

\* Before the first turn nothing is told.
LEMMA TurnInit == PlanTurnInit => TurnInv
<1> SUFFICES ASSUME PlanTurnInit PROVE TurnInv
  OBVIOUS
<1>1. /\ stream = <<>> /\ pturn \in Turn /\ stored \in Seq(Notes) /\ pturn.phase = "idle"
      /\ pturn.result = NoResult /\ pturn.at = 1 /\ pturn.synthesis = 0
  BY IdleTurnTyped DEF PlanTurnInit
<1>2. TurnTyped
  BY <1>1 DEF TurnTyped
<1>3. Numbered
  BY <1>1 DEF Numbered
<1>4. \A k : EventsOf(k) = {}
  BY <1>1 DEF EventsOf
<1>5. Paid = 0 /\ Cardinality(EventsOf("step_complete")) = 0
  BY <1>4, SumEmpty, FS_EmptySet DEF Paid
<1>6. Len(NoResult.steps) = 0 /\ NoResult.cost = 0
  BY DEF NoResult
<1>7. Books
  BY <1>1, <1>5, <1>6 DEF Books
<1>8. ToldSoFar
  BY <1>1 DEF ToldSoFar
<1>9. AnsweredSoFar
  BY <1>1, <1>4 DEF AnsweredSoFar, Answering
<1> QED  BY <1>2, <1>3, <1>7, <1>8, <1>9 DEF TurnInv

\* The fold of the amounts, as Collected writes it.
LEMMA PaidIs ==
  ASSUME stream \in Seq(Event)
  PROVE  MapThenSumSet(LAMBDA i : stream[i].of, EventsOf("usage")) = Paid
<1> DEFINE U == EventsOf("usage")
           Same(h) == h = [s \in SUBSET U |->
             IF s = {} THEN 0 ELSE stream[NextOf(s)].of + h[s \ {NextOf(s)}]]
           h1 == CHOOSE f : Same(f)
<1>1. IsFiniteSet(U) /\ \A i \in U : Amounts[i] \in Nat /\ Amounts[i] = stream[i].of
  BY PlacesFinite DEF Amounts, EventsOf
<1>2. \A s \in SUBSET U : s # {} => NextOf(s) \in U
  BY NextIn
<1>3. \A h : Same(h) <=> Adds(Amounts, U, h)
  <2> SUFFICES ASSUME NEW h PROVE Same(h) <=> Adds(Amounts, U, h)
    OBVIOUS
  <2>1. \A s \in SUBSET U :
          (IF s = {} THEN 0 ELSE stream[NextOf(s)].of + h[s \ {NextOf(s)}])
            = (IF s = {} THEN 0 ELSE Amounts[NextOf(s)] + h[s \ {NextOf(s)}])
    BY <1>1, <1>2
  <2> HIDE DEF U
  <2> QED  BY <2>1 DEF Adds
<1>4. PICK g : Adds(Amounts, U, g) /\ SumOver(Amounts, U) = g[U]
  BY <1>1, SumIs
<1>5. Adds(Amounts, U, h1)
  <2> HIDE DEF Same, U
  <2>1. Same(g)
    BY <1>3, <1>4
  <2>2. Same(h1)
    BY <2>1 DEF h1
  <2> QED  BY <1>3, <2>2
<1>6. MapThenSumSet(LAMBDA i : stream[i].of, U) = h1[U]
  BY DEF MapThenSumSet, MapThenFoldSet, NextOf
<1>7. h1[U] = g[U]
  <2> HIDE DEF h1, U
  <2> QED  BY <1>1, <1>4, <1>5, SumsAgree
<1> QED  BY <1>4, <1>6, <1>7 DEF Paid

\* A finished turn has told all of it.
LEMMA TurnTold == TurnInv => PlanTurnSound
<1> SUFFICES ASSUME TurnInv PROVE PlanTurnSound
  OBVIOUS
<1>1. \A i \in 1..(Len(stream) - 1) : stream[i].seq < stream[i + 1].seq
  BY DEF TurnInv, Numbered
<1>2. ASSUME pturn.phase = "answered", pturn.result # NoResult
      PROVE  LET r == pturn.result n1 == Len(r.steps) IN
       /\ Collected = [calls |-> n1, cost |-> r.cost + pturn.synthesis, texts |-> 1]
       /\ Last(stream).kind = "text"
       /\ WorthTelling(r) = (pturn.text \in {"narrative", "findings"})
       /\ (r.stop \in BudgetStops) = (EventsOf("budget_exceeded") # {})
       /\ IF r.stop = "success" THEN pturn.held = stored
          ELSE pturn.held # <<>> /\ Last(pturn.held) = NoteOf(r)
       /\ \A k \in 1..n1 :
            \E i, j \in DOMAIN stream :
              /\ stream[i].kind = "step_start" /\ stream[i].of = k
              /\ stream[j].kind = "step_complete" /\ stream[j].of = k
              /\ SubSeq(stream, i + 1, j - 1) # <<>> <=> ToolOf(r, k)
              /\ j - i \in {1, 3}
  <2> DEFINE r == pturn.result
             n1 == Len(r.steps)
  <2>1. /\ stream # <<>> /\ EventsOf("text") = {Len(stream)}
        /\ IF r.stop = "success" THEN pturn.held = stored
          ELSE pturn.held # <<>> /\ Last(pturn.held) = NoteOf(r)
        /\ pturn.at = n1 + 1 /\ (r.stop \in BudgetStops) = (EventsOf("budget_exceeded") # {})
        /\ WorthTelling(r) = (pturn.text \in {"narrative", "findings"})
    BY <1>2 DEF TurnInv, AnsweredSoFar, HeldAfter
  <2>2. stream \in Seq(Event) /\ n1 \in Nat /\ Len(stream) \in Nat
    BY TurnFields DEF TurnInv
  <2>3. Collected = [calls |-> n1, cost |-> r.cost + pturn.synthesis, texts |-> 1]
    <3>1. Cardinality(EventsOf("step_complete")) = n1
      BY <2>1, <2>2 DEF TurnInv, Books
    <3>2. MapThenSumSet(LAMBDA i : stream[i].of, EventsOf("usage")) = r.cost + pturn.synthesis
      BY <2>2, PaidIs DEF TurnInv, Books
    <3>3. Cardinality(EventsOf("text")) = 1
      BY <2>1, FS_Singleton
    <3> QED  BY <3>1, <3>2, <3>3 DEF Collected
  <2>4. Last(stream).kind = "text"
    <3>1. Len(stream) \in EventsOf("text")
      BY <2>1
    <3> QED  BY <3>1 DEF EventsOf, Last
  <2>5. ASSUME NEW k \in 1..n1
        PROVE  \E i, j \in DOMAIN stream :
                 /\ stream[i].kind = "step_start" /\ stream[i].of = k
                 /\ stream[j].kind = "step_complete" /\ stream[j].of = k
                 /\ SubSeq(stream, i + 1, j - 1) # <<>> <=> ToolOf(r, k)
                 /\ j - i \in {1, 3}
    <3>1. PICK i \in Nat, j \in Nat : Block(k, i, j)
      BY <2>1, <2>2 DEF TurnInv, Books
    <3>2. /\ i \in DOMAIN stream /\ j \in DOMAIN stream
          /\ stream[i].kind = "step_start" /\ stream[i].of = k
          /\ stream[j].kind = "step_complete" /\ stream[j].of = k
          /\ j - i = IF ToolOf(r, k) THEN 3 ELSE 1
      BY <3>1 DEF Block
    <3>3. SubSeq(stream, i + 1, j - 1) # <<>> <=> i + 1 <= j - 1
      <4>1. i + 1 \in Int /\ j - 1 \in Int /\ i + 1 >= 1 /\ j - 1 <= Len(stream)
        BY <2>2, <3>2
      <4> QED  BY <2>2, <4>1, SMTT(30)
    <3>4. i + 1 <= j - 1 <=> ToolOf(r, k)
      BY <3>2
    <3> QED  BY <3>2, <3>3, <3>4
  <2> QED  BY <2>1, <2>3, <2>4, <2>5
<1> QED  BY <1>1, <1>2 DEF PlanTurnSound

-----------------------------------------------------------------------------
(* The refinement around its turns.                                          *)

\* The weights of a rubric by its ids, and those of its criteria.
Weights(rubric) == [id \in IdsOf(rubric) |-> WeightOf(rubric, id)]
CriterionWeights(rubric) == [i \in DOMAIN rubric |-> WeightOf(rubric, rubric[i].id)]
VerdictCosts == [i \in DOMAIN verdicts |-> verdicts[i].cost]

\* A set of places has a last one.
LEMMA LastPlace ==
  ASSUME NEW S, S # {}, NEW L \in Nat, S \subseteq 1..L
  PROVE  Max(S) \in S
<1> DEFINE T == {L - i : i \in S}
<1>1. T \subseteq Nat /\ T # {}
  <2>1. ASSUME NEW i \in S PROVE L - i \in Nat
    <3>1. i \in 1..L
      OBVIOUS
    <3> QED  BY <3>1
  <2> QED  BY <2>1
<1>2. PICK t \in T : \A k \in T : t <= k
  BY <1>1, LeastNatural
<1>3. PICK i \in S : t = L - i
  BY <1>2
<1>4. \A j \in S : i >= j
  <2> SUFFICES ASSUME NEW j \in S PROVE i >= j
    OBVIOUS
  <2>1. L - i <= L - j
    BY <1>2, <1>3
  <2> QED  BY <2>1
<1>5. \E x \in S : \A y \in S : x >= y
  BY <1>4
<1> QED  BY <1>5 DEF Max

\* The ids of a rubric have weights.
LEMMA WeightsTyped ==
  ASSUME NEW rubric \in Rubrics
  PROVE  /\ Len(rubric) \in Nat /\ DOMAIN rubric = 1..Len(rubric) /\ IsFiniteSet(DOMAIN rubric)
         /\ IsFiniteSet(IdsOf(rubric))
         /\ \A id \in IdsOf(rubric) : WeightOf(rubric, id) \in Nat
         /\ \A i \in DOMAIN rubric : rubric[i].id \in IdsOf(rubric)
<1>1. rubric \in Seq([id : {rubric[i].id : i \in DOMAIN rubric}, weight : Nat])
  BY RefineAssumption
<1>2. Len(rubric) \in Nat /\ DOMAIN rubric = 1..Len(rubric)
  BY <1>1
<1>3. \A i \in DOMAIN rubric : rubric[i].weight \in Nat
  <2> DEFINE R == [id : {rubric[i].id : i \in DOMAIN rubric}, weight : Nat]
  <2>1. \A r \in R : r.weight \in Nat
    OBVIOUS
  <2>2. rubric \in Seq(R)
    BY <1>1
  <2> HIDE DEF R
  <2>3. \A i \in DOMAIN rubric : rubric[i] \in R
    BY <2>2
  <2> QED  BY <2>1, <2>3
<1>4. IsFiniteSet(DOMAIN rubric)
  BY <1>2, FS_Interval
<1>5. \A i \in DOMAIN rubric : rubric[i].id \in IdsOf(rubric)
  BY DEF IdsOf
<1>6. ASSUME NEW id \in IdsOf(rubric) PROVE WeightOf(rubric, id) \in Nat
  <2> DEFINE P == {i \in DOMAIN rubric : rubric[i].id = id}
  <2>1. P # {} /\ P \subseteq 1..Len(rubric)
    BY <1>2, <1>6 DEF IdsOf
  <2>2. Max(P) \in P
    BY <1>2, <2>1, LastPlace
  <2> QED  BY <1>3, <2>2 DEF WeightOf
<1>7. IsFiniteSet(IdsOf(rubric))
  <2> DEFINE named == [i \in DOMAIN rubric |-> rubric[i].id]
  <2>1. named \in Surjection(DOMAIN rubric, IdsOf(rubric))
    BY <1>5 DEF Surjection, IdsOf
  <2> QED  BY <1>4, <2>1, FS_Surjection
<1> QED  BY <1>2, <1>4, <1>5, <1>6, <1>7

\* The divisor of the rates is at least 1.
LEMMA TotalTyped ==
  ASSUME NEW rubric \in Rubrics PROVE TotalWeight(rubric) \in Nat \ {0}
<1> DEFINE U == IdsOf(rubric)
           w == Weights(rubric)
           Same(h) == h = [s \in SUBSET U |->
             IF s = {} THEN 0 ELSE WeightOf(rubric, NextOf(s)) + h[s \ {NextOf(s)}]]
           h1 == CHOOSE f : Same(f)
<1>1. IsFiniteSet(U) /\ \A id \in U : w[id] \in Nat /\ w[id] = WeightOf(rubric, id)
  BY WeightsTyped DEF Weights
<1>2. \A h : Same(h) <=> Adds(w, U, h)
  <2> SUFFICES ASSUME NEW h PROVE Same(h) <=> Adds(w, U, h)
    OBVIOUS
  <2>1. \A s \in SUBSET U :
          (IF s = {} THEN 0 ELSE WeightOf(rubric, NextOf(s)) + h[s \ {NextOf(s)}])
            = (IF s = {} THEN 0 ELSE w[NextOf(s)] + h[s \ {NextOf(s)}])
    BY <1>1, NextIn
  <2> HIDE DEF U, w
  <2> QED  BY <2>1 DEF Adds
<1>3. PICK g : Adds(w, U, g) /\ SumOver(w, U) = g[U]
  BY <1>1, SumIs
<1>4. Adds(w, U, h1)
  <2> HIDE DEF Same, U, w
  <2>1. Same(h1)
    BY <1>2, <1>3 DEF h1
  <2> QED  BY <1>2, <2>1
<1>5. MapThenSumSet(LAMBDA id : WeightOf(rubric, id), U) = h1[U]
  BY DEF MapThenSumSet, MapThenFoldSet, NextOf
<1>6. h1[U] = g[U] /\ g[U] \in Nat
  <2> HIDE DEF h1, U, w
  <2> QED  BY <1>1, <1>3, <1>4, SumsAgree, SumNat
<1> QED  BY <1>5, <1>6 DEF TotalWeight

\* A rate is a sum of weights.
LEMMA RateTyped ==
  ASSUME NEW rubric \in Rubrics, DOMAIN verdicts = DOMAIN rubric PROVE Rate(rubric) \in Nat
<1> DEFINE U == {i \in DOMAIN verdicts : Outcome(i) = "pass"}
           w == CriterionWeights(rubric)
           Same(h) == h = [s \in SUBSET U |->
             IF s = {} THEN 0 ELSE WeightOf(rubric, rubric[NextOf(s)].id) + h[s \ {NextOf(s)}]]
           h1 == CHOOSE f : Same(f)
<1>1. IsFiniteSet(U) /\ \A i \in U : w[i] \in Nat /\ w[i] = WeightOf(rubric, rubric[i].id)
  BY WeightsTyped, FS_Subset DEF CriterionWeights
<1>2. \A h : Same(h) <=> Adds(w, U, h)
  <2> SUFFICES ASSUME NEW h PROVE Same(h) <=> Adds(w, U, h)
    OBVIOUS
  <2>1. \A s \in SUBSET U :
          (IF s = {} THEN 0 ELSE WeightOf(rubric, rubric[NextOf(s)].id) + h[s \ {NextOf(s)}])
            = (IF s = {} THEN 0 ELSE w[NextOf(s)] + h[s \ {NextOf(s)}])
    <3> HIDE DEF U, w
    <3> QED  BY <1>1, NextIn
  <2> HIDE DEF U, w
  <2> QED  BY <2>1 DEF Adds
<1>3. PICK g : Adds(w, U, g) /\ SumOver(w, U) = g[U]
  BY <1>1, SumIs
<1>4. Adds(w, U, h1)
  <2> HIDE DEF Same, U, w
  <2>1. Same(h1)
    BY <1>2, <1>3 DEF h1
  <2> QED  BY <1>2, <2>1
<1>5. Rate(rubric) = h1[U]
  BY DEF Rate, MapThenSumSet, MapThenFoldSet, NextOf
<1>6. h1[U] = g[U] /\ g[U] \in Nat
  <2> HIDE DEF h1, U, w
  <2> QED  BY <1>1, <1>3, <1>4, SumsAgree, SumNat
<1> QED  BY <1>5, <1>6

\* So is the cost of an iteration.
LEMMA CostTyped ==
  ASSUME IsFiniteSet(DOMAIN verdicts), \A i \in DOMAIN verdicts : verdicts[i].cost \in Nat
  PROVE  MapThenSumSet(LAMBDA i : verdicts[i].cost, DOMAIN verdicts) \in Nat
<1> DEFINE U == DOMAIN verdicts
           w == VerdictCosts
           Same(h) == h = [s \in SUBSET U |->
             IF s = {} THEN 0 ELSE verdicts[NextOf(s)].cost + h[s \ {NextOf(s)}]]
           h1 == CHOOSE f : Same(f)
<1>1. IsFiniteSet(U) /\ \A i \in U : w[i] \in Nat /\ w[i] = verdicts[i].cost
  BY DEF VerdictCosts
<1>2. \A h : Same(h) <=> Adds(w, U, h)
  <2> SUFFICES ASSUME NEW h PROVE Same(h) <=> Adds(w, U, h)
    OBVIOUS
  <2>1. \A s \in SUBSET U :
          (IF s = {} THEN 0 ELSE verdicts[NextOf(s)].cost + h[s \ {NextOf(s)}])
            = (IF s = {} THEN 0 ELSE w[NextOf(s)] + h[s \ {NextOf(s)}])
    <3> HIDE DEF U, w
    <3> QED  BY <1>1, NextIn
  <2> HIDE DEF U, w
  <2> QED  BY <2>1 DEF Adds
<1>3. PICK g : Adds(w, U, g) /\ SumOver(w, U) = g[U]
  BY <1>1, SumIs
<1>4. Adds(w, U, h1)
  <2> HIDE DEF Same, U, w
  <2>1. Same(h1)
    BY <1>2, <1>3 DEF h1
  <2> QED  BY <1>2, <2>1
<1>5. MapThenSumSet(LAMBDA i : verdicts[i].cost, U) = h1[U]
  BY DEF MapThenSumSet, MapThenFoldSet, NextOf
<1>6. h1[U] = g[U] /\ g[U] \in Nat
  <2> HIDE DEF h1, U, w
  <2> QED  BY <1>1, <1>3, <1>4, SumsAgree, SumNat
<1> QED  BY <1>5, <1>6

\* A sequence over a set is one over a larger set.
LEMMA SeqWider ==
  ASSUME NEW S, NEW T, S \subseteq T, NEW s \in Seq(S) PROVE s \in Seq(T)
OBVIOUS

Feedbacks == {<<>>} \cup {<<"gaps", k>> : k \in Nat}
Sights == Feedbacks \cup Notes
Iteration == [seen : Seq(Sights), rate : Nat, failed : Nat, feedback : Feedbacks]
Verdict == [outcome : {"waiting", "pass", "fail", "unavailable"}, cost : Nat]

RefineTyped ==
  /\ refine \in [phase : {"idle", "produce", "score", "done", "raised"},
                 rubric : Rubrics \cup {NoRubric}, own : BOOLEAN, best : Nat, rate : Int,
                 patience : Nat, cost : Nat, seen : Seq(Sights),
                 stop : {"none", "error", "perfect", "early_stop", "completed"}]
  /\ history \in Seq(Iteration) /\ section \in Seq(Feedbacks)
  /\ refine.phase # "idle" => refine.rubric \in Rubrics
  /\ refine.phase = "score" =>
       verdicts \in [DOMAIN refine.rubric -> Verdict]

\* How many iterations in a row, up to the last, have gained too little.
Idle == Patience - refine.patience

\* A loop under way has left its feedback on the last iteration, gone on after none that
\* was perfect, and been idle as long as its patience has shrunk.
LoopSoFar ==
  /\ refine.phase = "idle" => history = <<>> /\ section = <<>>
  /\ refine.phase \in {"idle", "produce", "score"} => refine.stop = "none"
  /\ refine.phase \in {"produce", "score"} =>
       /\ history # <<>> =>
            section # <<>> /\ section[Len(section)] = history[Len(history)].feedback
       /\ \A i \in 1..Len(history) : ~Perfect(refine.rubric, Rates[i])
       /\ refine.patience <= Patience
       /\ history = <<>> => /\ refine.best = 0 /\ refine.rate = -TotalWeight(refine.rubric)
                            /\ refine.patience = Patience
       /\ Idle <= Len(history)
       /\ \A i \in (Len(history) - Idle + 1)..Len(history) : ~Gains(i)
  /\ refine.phase = "score" /\ refine.own /\ history # <<>> =>
       refine.seen # <<>> /\ Last(refine.seen) = history[Len(history)].feedback

RefineInv == RefineTyped /\ LoopSoFar /\ AttemptsSound

\* The feedback left for the next iteration is not empty.
LEMMA GapsNotEmpty == \A k \in Nat : <<"gaps", k>> # <<>> /\ <<"gaps", k>> \in Feedbacks
BY DEF Feedbacks

\* The fields of the refinement, one by one.
LEMMA RefineFields ==
  ASSUME RefineTyped
  PROVE  /\ refine.phase \in {"idle", "produce", "score", "done", "raised"}
         /\ refine.own \in BOOLEAN /\ refine.best \in Nat /\ refine.rate \in Int
         /\ refine.patience \in Nat /\ refine.cost \in Nat /\ refine.seen \in Seq(Sights)
         /\ refine.stop \in {"none", "error", "perfect", "early_stop", "completed"}
         /\ Len(history) \in Nat /\ DOMAIN history = 1..Len(history)
         /\ \A i \in 1..Len(history) : history[i] \in Iteration /\ Rates[i] = history[i].rate
                                       /\ Rates[i] \in Nat
         /\ refine.phase # "idle" => TotalWeight(refine.rubric) \in Nat \ {0}
<1>1. Len(history) \in Nat /\ DOMAIN history = 1..Len(history)
      /\ \A i \in 1..Len(history) : history[i] \in Iteration
  BY DEF RefineTyped
<1>2. \A i \in 1..Len(history) : Rates[i] = history[i].rate /\ Rates[i] \in Nat
  BY <1>1 DEF Rates, Iteration
<1>3. refine.phase # "idle" => TotalWeight(refine.rubric) \in Nat \ {0}
  BY TotalTyped DEF RefineTyped
<1> QED  BY <1>1, <1>2, <1>3 DEF RefineTyped

\* What one more iteration leaves of those before it.
LEMMA OneMoreIteration ==
  ASSUME RefineTyped, NEW it \in Iteration, history' = Append(history, it),
         refine'.rubric = refine.rubric
  PROVE  /\ history' \in Seq(Iteration) /\ history' # <<>> /\ Len(history') = Len(history) + 1
         /\ \A i \in 1..Len(history) : history'[i] = history[i] /\ Rates'[i] = Rates[i]
         /\ history'[Len(history) + 1] = it /\ Rates'[Len(history) + 1] = it.rate
         /\ \A i \in 1..Len(history) : Gains(i)' <=> Gains(i)
<1>1. /\ history' \in Seq(Iteration) /\ history' # <<>> /\ Len(history') = Len(history) + 1
      /\ Len(history) \in Nat
      /\ DOMAIN history = 1..Len(history) /\ DOMAIN history' = 1..(Len(history) + 1)
      /\ \A i \in 1..Len(history) : history'[i] = history[i]
      /\ history'[Len(history) + 1] = it
  BY DEF RefineTyped
<1>2. Rates' = [i \in DOMAIN history' |-> history'[i].rate] /\ Rates = [i \in DOMAIN history |-> history[i].rate]
  BY DEF Rates
<1>3. /\ \A i \in 1..Len(history) : Rates'[i] = Rates[i]
      /\ Rates'[Len(history) + 1] = it.rate
  BY <1>1, <1>2
<1>4. ASSUME NEW i \in 1..Len(history) PROVE Gains(i)' <=> Gains(i)
  <2>1. \A j \in 1..(i - 1) : j \in 1..Len(history)
    BY <1>1
  <2>2. Gains(i)' = (/\ Rates'[i] > MinGain - TotalWeight(refine.rubric)
                     /\ \A j \in 1..(i - 1) : Rates'[i] > Rates'[j] + MinGain)
    BY DEF Gains
  <2> QED  BY <1>3, <2>1, <2>2 DEF Gains
<1> QED  BY <1>1, <1>3, <1>4

\* Before a refinement.
LEMMA RefineBegins == RefineInit => RefineInv
<1> SUFFICES ASSUME RefineInit PROVE RefineInv
  OBVIOUS
<1>1. RefineTyped
  BY DEF RefineInit, IdleRefine, RefineTyped
<1>2. LoopSoFar
  BY DEF RefineInit, IdleRefine, LoopSoFar
<1>3. AttemptsSound
  BY DEF RefineInit, IdleRefine, AttemptsSound
<1> QED  BY <1>1, <1>2, <1>3 DEF RefineInv

\* A refinement begins with nothing tried.
LEMMA RefineStarts == ASSUME RefineInv, BeginRefine PROVE RefineInv'
<1>1. PICK rubric \in Rubrics, own \in BOOLEAN :
        refine' = [IdleRefine EXCEPT !.phase = "produce", !.rubric = rubric, !.own = own,
                                     !.rate = -TotalWeight(rubric), !.patience = Patience]
  BY DEF BeginRefine
<1> DEFINE least == -TotalWeight(rubric)
<1>2. least \in Int /\ Patience \in Nat
  BY TotalTyped, RefineAssumption
<1>3. refine.phase = "idle" /\ UNCHANGED <<history, section, verdicts>>
      /\ history = <<>> /\ section = <<>>
  BY DEF BeginRefine, RefineInv, LoopSoFar
<1>4. /\ refine'.phase = "produce" /\ refine'.stop = "none" /\ refine'.rubric = rubric
      /\ refine'.best = 0 /\ refine'.rate = least /\ refine'.patience = Patience
      /\ RefineTyped'
  <2> HIDE DEF least
  <2>1. refine' = [IdleRefine EXCEPT !.phase = "produce", !.rubric = rubric, !.own = own,
                                     !.rate = least, !.patience = Patience]
    BY <1>1 DEF least
  <2>2. refine' = [phase |-> "produce", rubric |-> rubric, own |-> own, best |-> 0, rate |-> least,
                   patience |-> Patience, cost |-> 0, stop |-> "none", seen |-> <<>>]
    BY <2>1 DEF IdleRefine
  <2>3. history' \in Seq(Iteration) /\ section' \in Seq(Feedbacks)
    BY <1>3
  <2> QED  BY <1>2, <2>2, <2>3 DEF RefineTyped
<1>5. LoopSoFar'
  BY <1>2, <1>3, <1>4 DEF LoopSoFar, Idle
<1>6. AttemptsSound'
  BY <1>3, <1>4 DEF AttemptsSound
<1> QED  BY <1>4, <1>5, <1>6 DEF RefineInv

\* The sections a producer reads end with what was added last.
LEMMA LastOfSection ==
  ASSUME NEW S, NEW s \in Seq(S)
  PROVE  /\ LastN(s, PriorCount) \in Seq(S)
         /\ s # <<>> => LastN(s, PriorCount) # <<>> /\ Last(LastN(s, PriorCount)) = s[Len(s)]
<1> DEFINE from == IF Len(s) > PriorCount THEN Len(s) - PriorCount + 1 ELSE 1
           part == LastN(s, PriorCount)
<1>1. Len(s) \in Nat /\ PriorCount \in Nat \ {0}
  BY PlanTurnAssumption
<1>2. from \in 1..(Len(s) + 1) /\ (s # <<>> => from <= Len(s))
  BY <1>1
<1>3. part = SubSeq(s, from, Len(s))
  BY DEF LastN
<1> HIDE DEF from, part
<1>4. part \in Seq(S)
  BY <1>1, <1>2, <1>3
<1>5. ASSUME s # <<>> PROVE part # <<>> /\ Last(part) = s[Len(s)]
  <2>1. Len(part) = Len(s) - from + 1 /\ Len(part) > 0
    BY <1>1, <1>2, <1>3, <1>5
  <2>2. part[Len(part)] = s[from + Len(part) - 1]
    BY <1>1, <1>2, <1>3, <2>1
  <2>3. from + Len(part) - 1 = Len(s)
    BY <1>1, <1>2, <2>1
  <2> QED  BY <2>1, <2>2, <2>3 DEF Last
<1> QED  BY <1>4, <1>5 DEF part

\* Scoring begins, and leaves what was tried alone.
LEMMA RefineScores ==
  ASSUME RefineInv, refine.phase = "produce", NEW seen \in Seq(Sights), Scoring(seen),
         UNCHANGED <<history, section>>,
         refine.own /\ history # <<>> => seen # <<>> /\ Last(seen) = history[Len(history)].feedback
  PROVE  RefineInv'
<1>1. /\ refine' = [refine EXCEPT !.phase = "score", !.seen = seen]
      /\ verdicts' = [i \in DOMAIN refine.rubric |-> [outcome |-> "waiting", cost |-> 0]]
  BY DEF Scoring
<1>2. /\ refine'.phase = "score" /\ refine'.rubric = refine.rubric /\ refine'.own = refine.own
      /\ refine'.best = refine.best /\ refine'.rate = refine.rate /\ refine'.seen = seen
      /\ refine'.patience = refine.patience /\ refine'.stop = refine.stop
      /\ RefineTyped'
  <2>1. verdicts' \in [DOMAIN refine.rubric -> Verdict]
    BY <1>1 DEF Verdict
  <2> QED  BY <1>1, <2>1 DEF RefineInv, RefineTyped
<1>3. Rates' = Rates /\ (\A i : Gains(i)' <=> Gains(i))
  BY <1>2 DEF Rates, Gains
<1>4. LoopSoFar'
  BY <1>2, <1>3 DEF RefineInv, LoopSoFar, Idle
<1>5. AttemptsSound'
  BY <1>2, <1>3 DEF RefineInv, AttemptsSound
<1> QED  BY <1>2, <1>4, <1>5 DEF RefineInv

\* The producer has made its deliverable.
LEMMA RefineProduces == ASSUME RefineInv, TurnInv, ProducesOwn \/ ProducesTurn PROVE RefineInv'
<1>1. CASE ProducesOwn
  <2>1. /\ refine.phase = "produce" /\ Scoring(LastN(section, PriorCount)) /\ UNCHANGED <<history, section>>
    BY <1>1 DEF ProducesOwn
  <2>2. section \in Seq(Feedbacks)
    BY DEF RefineInv, RefineTyped
  <2>3. LastN(section, PriorCount) \in Seq(Feedbacks)
    BY <2>2, LastOfSection
  <2>4. LastN(section, PriorCount) \in Seq(Sights)
    BY <2>3, SeqWider DEF Sights
  <2>5. history # <<>> => section # <<>> /\ section[Len(section)] = history[Len(history)].feedback
    BY <2>1 DEF RefineInv, LoopSoFar
  <2> QED  BY <2>1, <2>2, <2>4, <2>5, LastOfSection, RefineScores
<1>2. CASE ProducesTurn
  <2>1. /\ refine.phase = "produce" /\ ~refine.own /\ Scoring(pturn.prior) /\ UNCHANGED <<history, section>>
    BY <1>2 DEF ProducesTurn
  <2>2. pturn.prior \in Seq(Notes)
    BY DEF TurnInv, TurnTyped, Turn
  <2>3. pturn.prior \in Seq(Sights)
    BY <2>2, SeqWider DEF Sights
  <2> QED  BY <2>1, <2>3, RefineScores
<1> QED  BY <1>1, <1>2

\* A verdict of the judge.
LEMMA RefineJudges == ASSUME RefineInv, JudgeCriterion PROVE RefineInv'
<1>1. /\ refine.phase = "score" /\ UNCHANGED <<refine, history, section>>
      /\ verdicts \in [DOMAIN refine.rubric -> Verdict]
  BY DEF JudgeCriterion, RefineInv, RefineTyped
<1>2. verdicts' \in [DOMAIN refine.rubric -> Verdict]
  <2>1. PICK i \in DOMAIN verdicts, v \in Verdict : verdicts' = [verdicts EXCEPT ![i] = v]
    <3>1. PICK i \in DOMAIN verdicts :
            \/ \E outcome1 \in {"pass", "fail"}, cost1 \in JudgeCosts :
                 verdicts' = [verdicts EXCEPT ![i] = [outcome |-> outcome1, cost |-> cost1]]
            \/ verdicts' = [verdicts EXCEPT ![i] = [outcome |-> "unavailable", cost |-> 0]]
      BY DEF JudgeCriterion
    <3>2. [outcome |-> "unavailable", cost |-> 0] \in Verdict
      BY DEF Verdict
    <3>3. \A outcome1 \in {"pass", "fail"}, cost1 \in JudgeCosts :
            [outcome |-> outcome1, cost |-> cost1] \in Verdict
      BY RefineAssumption DEF Verdict
    <3> QED  BY <3>1, <3>2, <3>3
  <2> QED  BY <1>1, <2>1
<1>3. RefineTyped'
  BY <1>1, <1>2 DEF RefineInv, RefineTyped
<1>4. Rates' = Rates /\ (\A i : Gains(i)' <=> Gains(i))
  BY <1>1 DEF Rates, Gains
<1>5. LoopSoFar'
  BY <1>1, <1>4 DEF RefineInv, LoopSoFar, Idle
<1>6. AttemptsSound'
  BY <1>1, <1>4 DEF RefineInv, AttemptsSound
<1> QED  BY <1>3, <1>5, <1>6 DEF RefineInv

\* The producer raises.
LEMMA RefineRaises == ASSUME RefineInv, StepRaises PROVE RefineInv'
<1>1. /\ refine.phase = "produce" /\ UNCHANGED <<history, section, verdicts>>
      /\ refine' = [refine EXCEPT !.phase = IF refine.best = 0 THEN "raised" ELSE "done",
                                  !.stop = "error"]
  BY DEF StepRaises
<1>2. /\ refine'.phase \in {"raised", "done"} /\ refine'.rubric = refine.rubric
      /\ refine'.own = refine.own /\ refine'.best = refine.best /\ refine'.rate = refine.rate
      /\ refine'.stop = "error" /\ refine.stop = "none"
      /\ RefineTyped'
  BY <1>1 DEF RefineInv, RefineTyped, LoopSoFar
<1>3. Rates' = Rates /\ (\A i : Gains(i)' <=> Gains(i))
  BY <1>1, <1>2 DEF Rates, Gains
<1>4. LoopSoFar'
  BY <1>2 DEF LoopSoFar
<1>5. AttemptsSound'
  BY <1>1, <1>2, <1>3 DEF RefineInv, AttemptsSound
<1> QED  BY <1>2, <1>4, <1>5 DEF RefineInv

\* What scoring an iteration does, named: the rate, whether the loop ends and why, and the
\* feedback that is left if it does not.
ScoredAs(rate, stop1, feedback1) ==
  /\ stop1 = EndOf(rate)
  /\ feedback1 = IF stop1 = "none" THEN <<"gaps", Len(history) + 1>> ELSE <<>>
  /\ history' = Append(history, [seen |-> refine.seen, rate |-> rate,
                                 failed |-> Cardinality(Failures), feedback |-> feedback1])
  /\ stop1 = "none" => section' # <<>> /\ section'[Len(section')] = feedback1
  /\ refine'.phase = IF stop1 = "none" THEN "produce" ELSE "done"
  /\ refine'.stop = stop1 /\ refine'.rubric = refine.rubric /\ refine'.own = refine.own
  /\ refine'.best = IF Better(rate) THEN Len(history) + 1 ELSE refine.best
  /\ refine'.rate = IF Better(rate) THEN rate ELSE refine.rate
  /\ refine'.patience = PatienceAfter(rate)

\* What patience and the reason to stop are.
LEMMA StopLemma ==
  ASSUME RefineTyped, NEW rate \in Nat
  PROVE  /\ StopOf(rate) \in {"none", "perfect", "early_stop"}
         /\ StopOf(rate) = "perfect" <=> Perfect(refine.rubric, rate)
         /\ StopOf(rate) = "early_stop" <=>
              ~Perfect(refine.rubric, rate) /\ ~Improved(rate) /\ refine.patience = 0
         /\ EndOf(rate) = IF StopOf(rate) # "none" THEN StopOf(rate)
                          ELSE IF Len(history) + 1 = MaxIterations THEN "completed" ELSE "none"
         /\ PatienceAfter(rate) \in Nat
         /\ Perfect(refine.rubric, rate) => PatienceAfter(rate) = refine.patience
         /\ ~Perfect(refine.rubric, rate) /\ Improved(rate) => PatienceAfter(rate) = Patience
         /\ ~Perfect(refine.rubric, rate) /\ ~Improved(rate) /\ refine.patience > 0 =>
              PatienceAfter(rate) = refine.patience - 1
<1>1. refine.patience \in Nat /\ Patience \in Nat
  BY RefineFields, RefineAssumption
<1>2. CASE Perfect(refine.rubric, rate)
  BY <1>1, <1>2 DEF StopOf, EndOf, PatienceAfter
<1>3. CASE ~Perfect(refine.rubric, rate) /\ Improved(rate)
  BY <1>1, <1>3 DEF StopOf, EndOf, PatienceAfter
<1>4. CASE ~Perfect(refine.rubric, rate) /\ ~Improved(rate) /\ refine.patience = 0
  BY <1>1, <1>4 DEF StopOf, EndOf, PatienceAfter
<1>5. CASE ~Perfect(refine.rubric, rate) /\ ~Improved(rate) /\ refine.patience # 0
  BY <1>1, <1>5 DEF StopOf, EndOf, PatienceAfter
<1> QED  BY <1>2, <1>3, <1>4, <1>5

\* The refinement once the verdicts are in, field by field.
LEMMA ScoredTyped ==
  ASSUME RefineInv, refine.phase = "score",
         NEW stop1 \in {"none", "error", "perfect", "early_stop", "completed"},
         refine' = Scored(Rate(refine.rubric), stop1)
  PROVE  LET rate == Rate(refine.rubric) IN
         /\ rate \in Nat
         /\ refine'.phase = IF stop1 = "none" THEN "produce" ELSE "done"
         /\ refine'.stop = stop1 /\ refine'.rubric = refine.rubric /\ refine'.own = refine.own
         /\ refine'.best = IF Better(rate) THEN Len(history) + 1 ELSE refine.best
         /\ refine'.rate = IF Better(rate) THEN rate ELSE refine.rate
         /\ refine'.patience = PatienceAfter(rate)
         /\ refine'.rubric \in Rubrics
         /\ refine' \in [phase : {"idle", "produce", "score", "done", "raised"},
                  rubric : Rubrics \cup {NoRubric}, own : BOOLEAN, best : Nat, rate : Int,
                  patience : Nat, cost : Nat, seen : Seq(Sights),
                  stop : {"none", "error", "perfect", "early_stop", "completed"}]
<1> DEFINE rate == Rate(refine.rubric)
           cost1 == MapThenSumSet(LAMBDA i : verdicts[i].cost, DOMAIN verdicts)
           best1 == IF Better(rate) THEN Len(history) + 1 ELSE refine.best
           rate1 == IF Better(rate) THEN rate ELSE refine.rate
           phase1 == IF stop1 = "none" THEN "produce" ELSE "done"
           left == PatienceAfter(rate)
           charged == refine.cost + cost1
<1>1. refine.rubric \in Rubrics /\ verdicts \in [DOMAIN refine.rubric -> Verdict]
  BY DEF RefineInv, RefineTyped
<1>2. rate \in Nat /\ IsFiniteSet(DOMAIN verdicts)
  BY <1>1, RateTyped, WeightsTyped
<1>3. cost1 \in Nat
  <2>1. \A i \in DOMAIN verdicts : verdicts[i].cost \in Nat
    BY <1>1 DEF Verdict
  <2> QED  BY <1>2, <2>1, CostTyped
<1>4. refine.best \in Nat /\ refine.rate \in Int /\ refine.cost \in Nat /\ Len(history) \in Nat
  BY RefineFields DEF RefineInv
<1>5. refine' = [refine EXCEPT !.phase = phase1, !.stop = stop1, !.best = best1, !.rate = rate1,
                               !.patience = left, !.cost = charged]
  BY DEF Scored
<1> HIDE DEF rate
<1>6. left \in Nat
  BY <1>2, StopLemma DEF RefineInv
<1>7. best1 \in Nat /\ rate1 \in Int /\ charged \in Nat /\ phase1 \in {"produce", "done"}
  BY <1>2, <1>3, <1>4
<1> HIDE DEF best1, rate1, cost1, left, charged, phase1
<1>8. /\ refine'.phase = phase1 /\ refine'.stop = stop1 /\ refine'.rubric = refine.rubric
      /\ refine'.own = refine.own /\ refine'.best = best1 /\ refine'.rate = rate1
      /\ refine'.patience = left
      /\ refine' \in [phase : {"idle", "produce", "score", "done", "raised"},
                rubric : Rubrics \cup {NoRubric}, own : BOOLEAN, best : Nat, rate : Int,
                patience : Nat, cost : Nat, seen : Seq(Sights),
                stop : {"none", "error", "perfect", "early_stop", "completed"}]
  BY <1>5, <1>6, <1>7 DEF RefineInv, RefineTyped
<1> QED  BY <1>1, <1>2, <1>8 DEF rate, best1, rate1, left, phase1

\* Scoring is typed, and is as named.
LEMMA ScoreNamed ==
  ASSUME RefineInv, ScoreStep
  PROVE  /\ refine.phase = "score" /\ RefineTyped'
         /\ \E rate \in Nat : \E stop1, feedback1 : ScoredAs(rate, stop1, feedback1)
<1> DEFINE rate == Rate(refine.rubric)
           stop1 == EndOf(rate)
           feedback1 == IF stop1 = "none" THEN <<"gaps", Len(history) + 1>> ELSE <<>>
           it == [seen |-> refine.seen, rate |-> rate, failed |-> Cardinality(Failures),
                  feedback |-> feedback1]
<1>1. refine.phase = "score" /\ refine.rubric \in Rubrics
      /\ verdicts \in [DOMAIN refine.rubric -> Verdict] /\ UNCHANGED verdicts
  BY DEF ScoreStep, RefineInv, RefineTyped
<1>2. /\ rate \in Nat /\ IsFiniteSet(DOMAIN verdicts)
  BY <1>1, RateTyped, WeightsTyped
<1>3. Cardinality(Failures) \in Nat
  <2>1. Failures \subseteq DOMAIN verdicts
    BY DEF Failures
  <2> QED  BY <1>2, <2>1, FS_Subset, FS_CardinalityType
<1>4. Len(history) \in Nat /\ refine.seen \in Seq(Sights) /\ section \in Seq(Feedbacks)
      /\ history \in Seq(Iteration)
  BY RefineFields DEF RefineInv, RefineTyped
<1>5. /\ history' = Append(history, it)
      /\ IF stop1 = "none"
         THEN \E kept \in 0..Len(section) : section' = Append(LastN(section, kept), feedback1)
         ELSE section' = section
      /\ refine' = Scored(rate, stop1)
  BY DEF ScoreStep
<1>6. stop1 \in {"none", "error", "perfect", "early_stop", "completed"}
  <2> HIDE DEF rate
  <2> QED  BY <1>2, StopLemma DEF RefineInv
<1> HIDE DEF stop1
<1>7. /\ refine'.phase = IF stop1 = "none" THEN "produce" ELSE "done"
      /\ refine'.stop = stop1 /\ refine'.rubric = refine.rubric /\ refine'.own = refine.own
      /\ refine'.best = IF Better(rate) THEN Len(history) + 1 ELSE refine.best
      /\ refine'.rate = IF Better(rate) THEN rate ELSE refine.rate
      /\ refine'.patience = PatienceAfter(rate)
      /\ refine'.rubric \in Rubrics
      /\ refine' \in [phase : {"idle", "produce", "score", "done", "raised"},
               rubric : Rubrics \cup {NoRubric}, own : BOOLEAN, best : Nat, rate : Int,
               patience : Nat, cost : Nat, seen : Seq(Sights),
               stop : {"none", "error", "perfect", "early_stop", "completed"}]
  BY <1>1, <1>5, <1>6, ScoredTyped
<1> HIDE DEF rate
<1>8. feedback1 \in Feedbacks
  BY <1>4, GapsNotEmpty DEF Feedbacks
<1> HIDE DEF feedback1
<1>9. it \in Iteration
  BY <1>2, <1>3, <1>4, <1>8 DEF Iteration
<1>10. /\ section' \in Seq(Feedbacks)
       /\ stop1 = "none" => section' # <<>> /\ section'[Len(section')] = feedback1
  <2>1. CASE stop1 = "none"
    <3>1. PICK kept \in 0..Len(section) : section' = Append(LastN(section, kept), feedback1)
      BY <1>5, <2>1
    <3> QED  BY <1>4, <1>8, <3>1, OneMoreNote
  <2>2. CASE stop1 # "none"
    BY <1>4, <1>5, <2>2
  <2> QED  BY <2>1, <2>2
<1>11. history' \in Seq(Iteration)
  BY <1>4, <1>5, <1>9
<1>12. RefineTyped'
  <2>1. refine'.phase # "score"
    BY <1>7
  <2> QED  BY <1>7, <1>10, <1>11, <2>1 DEF RefineTyped
<1>13. ScoredAs(rate, stop1, feedback1)
  BY <1>5, <1>7, <1>10 DEF ScoredAs, stop1, feedback1, it
<1> QED  BY <1>1, <1>2, <1>12, <1>13

\* The iteration is scored: the best is kept, patience counted and feedback left.
LEMMA RefineScored == ASSUME RefineInv, ScoreStep PROVE RefineInv'
<1>1. refine.phase = "score" /\ RefineTyped' /\ RefineTyped
  BY ScoreNamed DEF RefineInv
<1>2. PICK rate \in Nat : \E stop1, feedback1 : ScoredAs(rate, stop1, feedback1)
  BY ScoreNamed
<1>3. PICK stop1, feedback1 : ScoredAs(rate, stop1, feedback1)
  BY <1>2
<1> DEFINE rubric == refine.rubric
           perfect(r) == Perfect(rubric, r)
           it == [seen |-> refine.seen, rate |-> rate, failed |-> Cardinality(Failures),
                  feedback |-> feedback1]
<1>4. PICK m \in Nat : m = Len(history)
  BY <1>1, RefineFields
<1>5. /\ refine.best \in Nat /\ refine.rate \in Int /\ refine.patience \in Nat
      /\ TotalWeight(rubric) \in Nat \ {0}
      /\ Patience \in Nat /\ MinGain \in Nat
      /\ \A i \in 1..m : history[i] \in Iteration /\ Rates[i] = history[i].rate /\ Rates[i] \in Nat
  BY <1>1, <1>4, RefineFields, RefineAssumption DEF RefineTyped
<1>6. /\ stop1 = IF StopOf(rate) # "none" THEN StopOf(rate)
                 ELSE IF Len(history) + 1 = MaxIterations THEN "completed" ELSE "none"
      /\ feedback1 = IF stop1 = "none" THEN <<"gaps", m + 1>> ELSE <<>>
      /\ history' = Append(history, it)
      /\ stop1 = "none" => section' # <<>> /\ section'[Len(section')] = feedback1
      /\ refine'.phase = IF stop1 = "none" THEN "produce" ELSE "done"
      /\ refine'.stop = stop1 /\ refine'.rubric = rubric /\ refine'.own = refine.own
      /\ refine'.best = IF Better(rate) THEN m + 1 ELSE refine.best
      /\ refine'.rate = IF Better(rate) THEN rate ELSE refine.rate
      /\ refine'.patience = PatienceAfter(rate)
  BY <1>1, <1>3, <1>4, StopLemma DEF ScoredAs
<1>7. /\ StopOf(rate) \in {"none", "perfect", "early_stop"}
      /\ StopOf(rate) = "perfect" <=> perfect(rate)
      /\ StopOf(rate) = "early_stop" <=> ~perfect(rate) /\ ~Improved(rate) /\ refine.patience = 0
      /\ perfect(rate) => PatienceAfter(rate) = refine.patience
      /\ ~perfect(rate) /\ Improved(rate) => PatienceAfter(rate) = Patience
      /\ ~perfect(rate) /\ ~Improved(rate) /\ refine.patience > 0 =>
           PatienceAfter(rate) = refine.patience - 1
  BY <1>1, StopLemma
<1>8. it \in Iteration
  <2>1. history' \in Seq(Iteration) /\ history \in Seq(Iteration)
    BY <1>1 DEF RefineTyped
  <2> HIDE DEF it
  <2>2. Len(history') = m + 1 /\ history'[m + 1] = it
    BY <1>4, <1>6, <2>1
  <2>3. m + 1 \in 1..Len(history')
    BY <2>2
  <2> QED  BY <2>1, <2>2, <2>3
<1>9. /\ Len(history') = m + 1 /\ history' # <<>>
      /\ \A i \in 1..m : history'[i] = history[i] /\ Rates'[i] = Rates[i]
      /\ history'[m + 1] = it /\ Rates'[m + 1] = rate
      /\ \A i \in 1..m : Gains(i)' <=> Gains(i)
  <2>1. it.rate = rate
    OBVIOUS
  <2> HIDE DEF it
  <2> QED  BY <1>1, <1>4, <1>6, <1>8, <2>1, OneMoreIteration
<1> HIDE DEF it
<1>10. /\ stop1 \in {"none", "perfect", "early_stop", "completed"}
       /\ stop1 = "perfect" <=> perfect(rate)
       /\ stop1 = "early_stop" <=> ~perfect(rate) /\ ~Improved(rate) /\ refine.patience = 0
  BY <1>6, <1>7
<1>11. (feedback1 = <<>>) <=> stop1 # "none"
  BY <1>6, GapsNotEmpty
<1>12. /\ \A i \in 1..m : ~perfect(Rates[i])
       /\ refine.patience <= Patience
       /\ m = 0 => /\ refine.best = 0 /\ refine.rate = -TotalWeight(rubric)
                   /\ refine.patience = Patience
       /\ Patience - refine.patience <= m
       /\ \A i \in (m - (Patience - refine.patience) + 1)..m : ~Gains(i)
       /\ refine.stop = "none"
       /\ m # 0 /\ refine.own => refine.seen # <<>> /\ Last(refine.seen) = history[m].feedback
  <2>1. history = <<>> <=> m = 0
    BY <1>1, <1>4 DEF RefineTyped
  <2> QED  BY <1>1, <1>4, <2>1 DEF RefineInv, LoopSoFar, Idle
<1>13. m # 0 =>
       /\ refine.best \in 1..m /\ refine.rate = Rates[refine.best]
       /\ \A i \in 1..m : Rates[i] <= refine.rate /\ (i < refine.best => Rates[i] < refine.rate)
       /\ \A i \in 1..m : (history[i].feedback = <<>>) = (i = m /\ refine.stop \notin {"none", "error"})
       /\ refine.own =>
            \A i \in 2..m : history[i].seen # <<>> /\ Last(history[i].seen) = history[i - 1].feedback
  <2>1. history # <<>> <=> m # 0
    BY <1>1, <1>4 DEF RefineTyped
  <2> QED  BY <1>4, <1>12, <2>1 DEF RefineInv, AttemptsSound
<1>14. m = 0 => Better(rate)
  BY <1>5, <1>12 DEF Better
<1>15. /\ refine'.best \in 1..(m + 1) /\ refine'.rate = Rates'[refine'.best]
       /\ \A i \in 1..(m + 1) : /\ Rates'[i] <= refine'.rate
                                /\ i < refine'.best => Rates'[i] < refine'.rate
  <2>1. CASE Better(rate)
    <3>1. refine'.best = m + 1 /\ refine'.rate = rate /\ rate > refine.rate
      BY <1>6, <2>1 DEF Better
    <3>2. ASSUME NEW i \in 1..m PROVE Rates'[i] < rate
      <4>1. Rates[i] <= refine.rate /\ Rates[i] \in Nat
        BY <1>5, <1>13
      <4> QED  BY <1>5, <1>9, <3>1, <4>1
    <3>3. \A i \in 1..(m + 1) : i = m + 1 \/ i \in 1..m
      OBVIOUS
    <3>4. ASSUME NEW i \in 1..(m + 1)
          PROVE  /\ Rates'[i] <= refine'.rate
                 /\ i < refine'.best => Rates'[i] < refine'.rate
      <4>1. CASE i = m + 1
        <5>1. Rates'[i] = rate /\ ~(i < refine'.best)
          BY <1>9, <3>1, <4>1
        <5> QED  BY <3>1, <5>1
      <4>2. CASE i # m + 1
        <5>1. i \in 1..m /\ Rates'[i] \in Nat
          BY <1>5, <1>9, <4>2
        <5> QED  BY <3>1, <3>2, <5>1
      <4> QED  BY <4>1, <4>2
    <3>5. refine'.best \in 1..(m + 1) /\ refine'.rate = Rates'[refine'.best]
      BY <1>9, <3>1
    <3> QED  BY <3>4, <3>5
  <2>2. CASE ~Better(rate)
    <3>1. /\ refine'.best = refine.best /\ refine'.rate = refine.rate /\ rate <= refine.rate
      BY <1>5, <1>6, <2>2 DEF Better
    <3>2. m # 0 /\ refine.best \in 1..m /\ refine.rate = Rates[refine.best]
      BY <1>13, <1>14, <2>2
    <3>3. \A i \in 1..(m + 1) : i = m + 1 \/ i \in 1..m
      OBVIOUS
    <3>4. \A i \in 1..m : Rates'[i] <= refine.rate /\ (i < refine.best => Rates'[i] < refine.rate)
      BY <1>9, <1>13, <3>2
    <3>5. refine.best \in 1..(m + 1) /\ refine.rate = Rates'[refine.best] /\ ~(m + 1 < refine.best)
      BY <1>9, <3>2
    <3> QED  BY <1>9, <3>1, <3>3, <3>4, <3>5
  <2> QED  BY <2>1, <2>2
<1>16. ~Improved(rate) => ~Gains(m + 1)'
  <2> SUFFICES ASSUME ~Improved(rate) PROVE ~Gains(m + 1)'
    OBVIOUS
  <2>1. Gains(m + 1)' <=> /\ Rates'[m + 1] > MinGain - TotalWeight(refine'.rubric)
                          /\ \A j \in 1..((m + 1) - 1) : Rates'[m + 1] > Rates'[j] + MinGain
    BY DEF Gains
  <2>2. CASE m # 0
    <3>1. refine.best \in 1..m /\ rate <= Rates[refine.best] + MinGain
      BY <1>5, <1>13, <2>2 DEF Improved
    <3>2. refine.best \in 1..((m + 1) - 1) /\ ~(Rates'[m + 1] > Rates'[refine.best] + MinGain)
      BY <1>5, <1>9, <3>1
    <3> QED  BY <2>1, <3>2
  <2>3. CASE m = 0
    <3> DEFINE total == TotalWeight(rubric)
    <3>1. total \in Nat /\ refine.rate = -total
      BY <1>5, <1>12, <2>3
    <3>2. Rates'[m + 1] = rate /\ TotalWeight(refine'.rubric) = total
      BY <1>6, <1>9
    <3>3. ~(rate > refine.rate + MinGain)
      BY DEF Improved
    <3> HIDE DEF total
    <3>4. ~(rate > MinGain - total)
      BY <1>5, <3>1, <3>3
    <3> QED  BY <2>1, <3>2, <3>4
  <2> QED  BY <2>2, <2>3
<1>17. stop1 = "early_stop" =>
         m + 1 > Patience /\ \A i \in (m + 1 - Patience)..(m + 1) : ~Gains(i)'
  <2> SUFFICES ASSUME stop1 = "early_stop"
               PROVE  m + 1 > Patience /\ \A i \in (m + 1 - Patience)..(m + 1) : ~Gains(i)'
    OBVIOUS
  <2>1. ~Improved(rate) /\ refine.patience = 0
    BY <1>10
  <2>2. Patience <= m /\ \A i \in (m - Patience + 1)..m : ~Gains(i)
    BY <1>5, <1>12, <2>1
  <2>3. ASSUME NEW i \in (m + 1 - Patience)..(m + 1) PROVE ~Gains(i)'
    <3>1. CASE i = m + 1
      BY <1>16, <2>1, <3>1
    <3>2. CASE i # m + 1
      <4>1. i \in (m - Patience + 1)..m /\ i \in 1..m
        BY <1>5, <2>2, <3>2
      <4> QED  BY <1>9, <2>2, <4>1
    <3> QED  BY <3>1, <3>2
  <2> QED  BY <1>5, <2>2, <2>3
<1>18. stop1 = "none" =>
         LET idle1 == Patience - PatienceAfter(rate) IN
         /\ PatienceAfter(rate) <= Patience /\ idle1 <= m + 1
         /\ \A i \in (m + 1 - idle1 + 1)..(m + 1) : ~Gains(i)'
  <2> SUFFICES ASSUME stop1 = "none"
               PROVE  LET idle1 == Patience - PatienceAfter(rate) IN
                      /\ PatienceAfter(rate) <= Patience /\ idle1 <= m + 1
                      /\ \A i \in (m + 1 - idle1 + 1)..(m + 1) : ~Gains(i)'
    OBVIOUS
  <2>1. CASE Improved(rate)
    <3>1. PatienceAfter(rate) = Patience
      BY <1>7, <1>10, <2>1
    <3>2. \A i \in (m + 1 - 0 + 1)..(m + 1) : FALSE
      OBVIOUS
    <3> QED  BY <1>5, <3>1, <3>2
  <2>2. CASE ~Improved(rate)
    <3>1. refine.patience > 0 /\ PatienceAfter(rate) = refine.patience - 1
      BY <1>5, <1>7, <1>10, <2>2
    <3> DEFINE idle == Patience - refine.patience
    <3>2. idle \in Nat /\ idle <= m /\ \A i \in (m - idle + 1)..m : ~Gains(i)
      BY <1>5, <1>12, <3>1
    <3>3. Patience - PatienceAfter(rate) = idle + 1
      BY <1>5, <3>1
    <3> HIDE DEF idle
    <3>4. ASSUME NEW i \in (m + 1 - (idle + 1) + 1)..(m + 1) PROVE ~Gains(i)'
      <4>1. CASE i = m + 1
        BY <1>16, <2>2, <4>1
      <4>2. CASE i # m + 1
        <5>1. i \in (m - idle + 1)..m /\ i \in 1..m
          BY <3>2, <4>2
        <5> QED  BY <1>9, <3>2, <5>1
      <4> QED  BY <4>1, <4>2
    <3>5. PatienceAfter(rate) <= Patience /\ idle + 1 <= m + 1
      BY <1>5, <1>12, <3>1, <3>2
    <3> QED  BY <3>3, <3>4, <3>5
  <2> QED  BY <2>1, <2>2
<1>19. \A i \in 1..(m + 1) : (history'[i].feedback = <<>>) = (i = m + 1 /\ stop1 \notin {"none", "error"})
  <2>1. it.feedback = feedback1
    BY DEF it
  <2>2. ASSUME NEW i \in 1..m PROVE history'[i].feedback # <<>>
    BY <1>9, <1>12, <1>13
  <2>3. \A i \in 1..(m + 1) : i = m + 1 \/ (i \in 1..m /\ i # m + 1)
    OBVIOUS
  <2>4. (history'[m + 1].feedback = <<>>) = (stop1 \notin {"none", "error"})
    BY <1>9, <1>10, <1>11, <2>1
  <2> QED  BY <2>2, <2>3, <2>4
<1>20. refine.own =>
         \A i \in 2..(m + 1) :
           history'[i].seen # <<>> /\ Last(history'[i].seen) = history'[i - 1].feedback
  <2> SUFFICES ASSUME refine.own, NEW i \in 2..(m + 1)
               PROVE  history'[i].seen # <<>> /\ Last(history'[i].seen) = history'[i - 1].feedback
    OBVIOUS
  <2>1. CASE i = m + 1
    <3>1. it.seen = refine.seen /\ m # 0 /\ m \in 1..m
      BY <2>1 DEF it
    <3> QED  BY <1>9, <1>12, <2>1, <3>1
  <2>2. CASE i # m + 1
    <3>1. i \in 2..m /\ i \in 1..m /\ i - 1 \in 1..m /\ m # 0
      BY <2>2
    <3> QED  BY <1>9, <1>13, <3>1
  <2> QED  BY <2>1, <2>2
<1>21. \A i \in 1..m : ~perfect(Rates'[i])
  BY <1>9, <1>12
<1>22. AttemptsSound'
  <2> HIDE DEF perfect
  <2>1. /\ \A i \in 1..(m + 1 - 1) : ~Perfect(rubric, Rates'[i])
        /\ stop1 = "perfect" => Perfect(rubric, Rates'[m + 1])
    BY <1>9, <1>10, <1>21 DEF perfect
  <2>2. refine'.rubric = rubric /\ refine'.own = refine.own /\ refine'.stop = stop1
    BY <1>6
  <2> HIDE DEF rubric
  <2> DEFINE n1 == Len(history')
  <2>3. n1 = m + 1
    BY <1>9
  <2> DEFINE Kept == /\ \/ refine'.best \in 1..n1 /\ refine'.rate = Rates'[refine'.best]
                        \/ refine'.best = n1 + 1 /\ refine'.stop = "error"
                     /\ \A i \in 1..n1 : /\ Rates'[i] <= refine'.rate
                                         /\ i < refine'.best => Rates'[i] < refine'.rate
             NonePerfect == \A i \in 1..(n1 - 1) : ~Perfect(refine'.rubric, Rates'[i])
             LastPerfect == refine'.stop = "perfect" => Perfect(refine'.rubric, Rates'[n1])
             Idles == refine'.stop = "early_stop" =>
                        n1 > Patience /\ \A i \in (n1 - Patience)..n1 : ~Gains(i)'
             Left == \A i \in 1..n1 : (history'[i].feedback = <<>>)
                                        = (i = n1 /\ refine'.stop \notin {"none", "error"})
             Seen == refine'.own =>
                       \A i \in 2..n1 : /\ history'[i].seen # <<>>
                                        /\ Last(history'[i].seen) = history'[i - 1].feedback
  <2>4. Kept
    BY <1>15, <2>3
  <2>5. NonePerfect /\ LastPerfect
    BY <2>1, <2>2, <2>3
  <2>6. Idles
    <3>2. refine'.stop = stop1
      BY <2>2
    <3>3. refine'.stop = "early_stop" => m + 1 > Patience
      BY <1>17, <3>2
    <3>4. ASSUME refine'.stop = "early_stop", NEW i \in (m + 1 - Patience)..(m + 1)
          PROVE  ~Gains(i)'
      BY <1>17, <3>2, <3>4
    <3> HIDE DEF n1
    <3>1. (n1 - Patience)..n1 = (m + 1 - Patience)..(m + 1)
      BY <1>5, <2>3
    <3> QED  BY <2>3, <3>1, <3>3, <3>4
  <2>7. Left
    BY <1>19, <2>2, <2>3
  <2>8. Seen
    BY <1>20, <2>2, <2>3
  <2>9. Kept /\ NonePerfect /\ LastPerfect /\ Idles /\ Left /\ Seen => AttemptsSound'
    BY DEF AttemptsSound
  <2> HIDE DEF Kept, NonePerfect, LastPerfect, Idles, Left, Seen
  <2> QED  BY <2>4, <2>5, <2>6, <2>7, <2>8, <2>9
<1>23. LoopSoFar'
  <2>1. CASE stop1 # "none"
    <3>1. refine'.phase = "done"
      BY <1>6, <2>1
    <3> QED  BY <3>1 DEF LoopSoFar
  <2>2. CASE stop1 = "none"
    <3>1. refine'.phase = "produce" /\ refine'.stop = "none"
      BY <1>6, <2>2
    <3>2. ~perfect(rate)
      BY <1>10, <2>2
    <3>3. section' # <<>> /\ section'[Len(section')] = history'[m + 1].feedback
      <4>1. it.feedback = feedback1
        BY DEF it
      <4> QED  BY <1>6, <1>9, <2>2, <4>1
    <3>4. \A i \in 1..(m + 1) : ~perfect(Rates'[i])
      <4>1. \A i \in 1..(m + 1) : i = m + 1 \/ i \in 1..m
        OBVIOUS
      <4> HIDE DEF perfect
      <4> QED  BY <1>9, <1>21, <3>2, <4>1
    <3>5. LET idle1 == Patience - PatienceAfter(rate) IN
         /\ PatienceAfter(rate) <= Patience /\ idle1 <= m + 1
         /\ \A i \in (m + 1 - idle1 + 1)..(m + 1) : ~Gains(i)'
      BY <1>18, <2>2
    <3>6. refine'.rubric = rubric /\ refine'.patience = PatienceAfter(rate)
      BY <1>6
    <3> HIDE DEF perfect
    <3>7. \A i \in 1..(m + 1) : ~Perfect(refine'.rubric, Rates'[i])
      BY <3>4, <3>6 DEF perfect
    <3> HIDE DEF rubric
    <3> DEFINE n1 == Len(history')
               idle1 == Idle'
    <3>8. n1 = m + 1 /\ idle1 = Patience - PatienceAfter(rate)
      BY <1>9, <3>6 DEF Idle
    <3>9. /\ section' # <<>> /\ section'[Len(section')] = history'[n1].feedback
          /\ \A i \in 1..n1 : ~Perfect(refine'.rubric, Rates'[i])
      BY <3>3, <3>7, <3>8
    <3>10. /\ refine'.patience <= Patience /\ idle1 <= n1
           /\ \A i \in (n1 - idle1 + 1)..n1 : ~Gains(i)'
      BY <3>5, <3>6, <3>8
    <3> QED  BY <1>9, <3>1, <3>9, <3>10 DEF LoopSoFar
  <2> QED  BY <2>1, <2>2
<1> QED  BY <1>1, <1>22, <1>23 DEF RefineInv

\* The feedback cannot be written: what was scored is kept, with no record of it.
LEMMA RefineUnrecorded == ASSUME RefineInv, FeedbackRaises PROVE RefineInv'
<1> DEFINE rate == Rate(refine.rubric)
<1>1. /\ refine.phase = "score" /\ history' = history /\ section' = <<>> /\ UNCHANGED verdicts
      /\ refine' = Scored(rate, "error") /\ EndOf(rate) = "none" /\ RefineTyped
  BY DEF FeedbackRaises, RefineInv
<1>2. /\ rate \in Nat
      /\ refine'.phase = "done" /\ refine'.stop = "error" /\ refine'.rubric = refine.rubric
      /\ refine'.own = refine.own
      /\ refine'.best = IF Better(rate) THEN Len(history) + 1 ELSE refine.best
      /\ refine'.rate = IF Better(rate) THEN rate ELSE refine.rate
      /\ refine'.rubric \in Rubrics
      /\ refine' \in [phase : {"idle", "produce", "score", "done", "raised"},
               rubric : Rubrics \cup {NoRubric}, own : BOOLEAN, best : Nat, rate : Int,
               patience : Nat, cost : Nat, seen : Seq(Sights),
               stop : {"none", "error", "perfect", "early_stop", "completed"}]
  BY <1>1, ScoredTyped
<1> HIDE DEF rate
<1>3. RefineTyped'
  <2>1. section' \in Seq(Feedbacks) /\ history' \in Seq(Iteration)
    BY <1>1 DEF RefineTyped
  <2> QED  BY <1>2, <2>1 DEF RefineTyped
<1>4. Rates' = Rates /\ (\A i : Gains(i)' <=> Gains(i))
  BY <1>1, <1>2 DEF Rates, Gains
<1>5. LoopSoFar'
  BY <1>2 DEF LoopSoFar
<1>6. PICK m \in Nat : m = Len(history)
  BY <1>1, RefineFields
<1>7. /\ refine.best \in Nat /\ refine.rate \in Int /\ TotalWeight(refine.rubric) \in Nat \ {0}
      /\ \A i \in 1..m : Rates[i] \in Nat
  BY <1>1, <1>6, RefineFields
<1>8. /\ m = 0 => refine.best = 0 /\ refine.rate = -TotalWeight(refine.rubric)
      /\ \A i \in 1..m : ~Perfect(refine.rubric, Rates[i])
      /\ refine.stop = "none"
  <2>1. history = <<>> <=> m = 0
    BY <1>1, <1>6 DEF RefineTyped
  <2> QED  BY <1>1, <1>6, <2>1 DEF RefineInv, LoopSoFar
<1>9. m # 0 =>
      /\ refine.best \in 1..m /\ refine.rate = Rates[refine.best]
      /\ \A i \in 1..m : Rates[i] <= refine.rate /\ (i < refine.best => Rates[i] < refine.rate)
      /\ \A i \in 1..m : history[i].feedback # <<>>
      /\ refine.own =>
           \A i \in 2..m : history[i].seen # <<>> /\ Last(history[i].seen) = history[i - 1].feedback
  <2>1. history # <<>> <=> m # 0
    BY <1>1, <1>6 DEF RefineTyped
  <2> QED  BY <1>6, <1>8, <2>1 DEF RefineInv, AttemptsSound
<1>10. /\ \/ refine'.best \in 1..m /\ refine'.rate = Rates[refine'.best]
          \/ refine'.best = m + 1
       /\ \A i \in 1..m : Rates[i] <= refine'.rate /\ (i < refine'.best => Rates[i] < refine'.rate)
  <2>1. CASE Better(rate)
    <3>1. refine'.best = m + 1 /\ refine'.rate = rate /\ rate > refine.rate
      BY <1>2, <1>6, <2>1 DEF Better
    <3>2. ASSUME NEW i \in 1..m PROVE Rates[i] < rate
      BY <1>2, <1>7, <1>9, <3>1
    <3>3. ASSUME NEW i \in 1..m
          PROVE  Rates[i] <= refine'.rate /\ (i < refine'.best => Rates[i] < refine'.rate)
      BY <1>2, <1>7, <3>1, <3>2
    <3> QED  BY <3>1, <3>3
  <2>2. CASE ~Better(rate)
    <3>1. refine'.best = refine.best /\ refine'.rate = refine.rate
      BY <1>2, <2>2
    <3>2. m # 0
      BY <1>2, <1>7, <1>8, <2>2 DEF Better
    <3> QED  BY <1>9, <3>1, <3>2
  <2> QED  BY <2>1, <2>2
<1>11. AttemptsSound'
  <2> DEFINE n1 == Len(history')
             Kept == /\ \/ refine'.best \in 1..n1 /\ refine'.rate = Rates'[refine'.best]
                        \/ refine'.best = n1 + 1 /\ refine'.stop = "error"
                     /\ \A i \in 1..n1 : /\ Rates'[i] <= refine'.rate
                                         /\ i < refine'.best => Rates'[i] < refine'.rate
             NonePerfect == \A i \in 1..(n1 - 1) : ~Perfect(refine'.rubric, Rates'[i])
             Left == \A i \in 1..n1 : (history'[i].feedback = <<>>)
                                        = (i = n1 /\ refine'.stop \notin {"none", "error"})
             Seen == refine'.own =>
                       \A i \in 2..n1 : /\ history'[i].seen # <<>>
                                        /\ Last(history'[i].seen) = history'[i - 1].feedback
  <2>1. n1 = m
    BY <1>1, <1>6
  <2>2. Kept
    BY <1>2, <1>4, <1>10, <2>1
  <2>3. NonePerfect
    <3>1. \A i \in 1..(n1 - 1) : i \in 1..m
      BY <2>1
    <3> QED  BY <1>2, <1>4, <1>8, <3>1
  <2>4. Left
    BY <1>1, <1>2, <1>9, <2>1
  <2>5. Seen
    BY <1>1, <1>2, <1>9, <2>1
  <2>6. Kept /\ NonePerfect /\ Left /\ Seen /\ refine'.stop = "error" => AttemptsSound'
    BY DEF AttemptsSound
  <2> HIDE DEF Kept, NonePerfect, Left, Seen
  <2> QED  BY <1>2, <2>2, <2>3, <2>4, <2>5, <2>6
<1> QED  BY <1>3, <1>5, <1>11 DEF RefineInv

\* A step of the session alone leaves the refinement as it was.
LEMMA RefineRests == ASSUME RefineInv, UNCHANGED refineVars PROVE RefineInv'
<1>1. UNCHANGED <<refine, history, section, verdicts>>
  BY DEF refineVars
<1>2. Rates' = Rates /\ (\A i : Gains(i)' <=> Gains(i))
  BY <1>1 DEF Rates, Gains
<1>3. RefineTyped'
  BY <1>1 DEF RefineInv, RefineTyped
<1>4. LoopSoFar'
  BY <1>1, <1>2 DEF RefineInv, LoopSoFar, Idle
<1>5. AttemptsSound'
  BY <1>1, <1>2 DEF RefineInv, AttemptsSound
<1> QED  BY <1>3, <1>4, <1>5 DEF RefineInv

\* Every step of the refinement, and of the turns it runs, keeps both invariants.
LEMMA RefineStep ==
  ASSUME RefineInv, TurnInv, [RefineNext]_<<refineVars, planTurnVars>>
  PROVE  RefineInv' /\ TurnInv'
<1>1. CASE BeginRefine
  <2>1. UNCHANGED planTurnVars
    BY <1>1 DEF BeginRefine
  <2> QED  BY <1>1, <2>1, RefineStarts, TurnStep
<1>2. CASE ProducesOwn
  <2>1. UNCHANGED planTurnVars
    BY <1>2 DEF ProducesOwn
  <2> QED  BY <1>2, <2>1, RefineProduces, TurnStep
<1>3. CASE ProducesTurn
  <2>1. PlanTurnNext
    BY <1>3 DEF ProducesTurn, PlanTurnNext
  <2> QED  BY <1>3, <2>1, RefineProduces, TurnStep
<1>4. CASE JudgeCriterion
  <2>1. UNCHANGED planTurnVars
    BY <1>4 DEF JudgeCriterion
  <2> QED  BY <1>4, <2>1, RefineJudges, TurnStep
<1>5. CASE ScoreStep
  <2>1. UNCHANGED planTurnVars
    BY <1>5 DEF ScoreStep
  <2> QED  BY <1>5, <2>1, RefineScored, TurnStep
<1>6. CASE StepRaises
  <2>1. UNCHANGED planTurnVars
    BY <1>6 DEF StepRaises
  <2> QED  BY <1>6, <2>1, RefineRaises, TurnStep
<1>7. CASE SessionTurn
  <2>1. PlanTurnNext /\ UNCHANGED refineVars
    BY <1>7 DEF SessionTurn
  <2> QED  BY <2>1, RefineRests, TurnStep
<1>8. CASE FeedbackRaises
  <2>1. UNCHANGED planTurnVars
    BY <1>8 DEF FeedbackRaises
  <2> QED  BY <1>8, <2>1, RefineUnrecorded, TurnStep
<1>9. CASE UNCHANGED <<refineVars, planTurnVars>>
  BY <1>9, RefineRests, TurnStep
<1> QED  BY <1>1, <1>2, <1>3, <1>4, <1>5, <1>6, <1>7, <1>8, <1>9 DEF RefineNext

\* A refinement keeps its promises around plan turns that keep theirs: the first of the best
\* iterations is kept, with its record unless writing its feedback ended the loop, the loop
\* stops early only after more idle iterations than its patience and never goes on after a
\* perfect one, and feedback reaches the iteration after it; and a turn of the session tells
\* its stream, its answer and its books what it ran.
THEOREM RefineSoundHolds == RefineSpec => []RefineSound
<1>1. RefineInit /\ PlanTurnInit => RefineInv /\ TurnInv
  BY RefineBegins, TurnInit
<1>2. RefineInv /\ TurnInv /\ [RefineNext]_<<refineVars, planTurnVars>> => RefineInv' /\ TurnInv'
  BY RefineStep
<1>3. RefineInv /\ TurnInv => RefineSound
  BY TurnTold DEF RefineSound, RefineInv
<1> QED  BY <1>1, <1>2, <1>3, PTL DEF RefineSpec

-----------------------------------------------------------------------------
(* What outlives a turn: the knowledge base and the lessons.                 *)

\* Where a member of a finite set stands in a strict total order of its members.
Below(S, R, i) == {j \in S : <<j, i>> \in R}
PlaceIn(S, R, i) == 1 + Cardinality(Below(S, R, i))
Orders(R, S) ==
  /\ \A i \in S : <<i, i>> \notin R
  /\ \A i, j \in S : i # j => <<i, j>> \in R \/ <<j, i>> \in R
  /\ \A i, j, k \in S : <<i, j>> \in R /\ <<j, k>> \in R => <<i, k>> \in R

\* Every place from the first to the last is taken, and what comes before stands before.
LEMMA Placing ==
  ASSUME NEW S, IsFiniteSet(S), NEW R, Orders(R, S)
  PROVE  /\ \A i \in S : PlaceIn(S, R, i) \in 1..Cardinality(S)
         /\ \A i, j \in S : <<i, j>> \in R <=> PlaceIn(S, R, i) < PlaceIn(S, R, j)
         /\ \A k \in 1..Cardinality(S) : \E i \in S : PlaceIn(S, R, i) = k
<1> DEFINE N == Cardinality(S)
<1>1. ASSUME NEW i \in S
      PROVE  /\ IsFiniteSet(Below(S, R, i)) /\ Cardinality(Below(S, R, i)) \in Nat
             /\ PlaceIn(S, R, i) \in 1..N
  <2> DEFINE B == Below(S, R, i)
  <2>1. B \in SUBSET (S \ {i})
    BY DEF Below, Orders
  <2>2. IsFiniteSet(S \ {i}) /\ Cardinality(S \ {i}) = N - 1 /\ N \in Nat
    BY FS_RemoveElement, FS_CardinalityType
  <2> HIDE DEF B
  <2>3. IsFiniteSet(B) /\ Cardinality(B) <= N - 1
    BY <2>1, <2>2, FS_Subset
  <2>4. Cardinality(B) \in Nat
    BY <2>3, FS_CardinalityType
  <2>5. 1 + Cardinality(B) \in 1..N
    BY <2>2, <2>3, <2>4
  <2> QED  BY <2>3, <2>4, <2>5 DEF PlaceIn, B
<1>2. ASSUME NEW i \in S, NEW j \in S, <<i, j>> \in R
      PROVE  PlaceIn(S, R, i) < PlaceIn(S, R, j)
  <2> DEFINE B == Below(S, R, i)
             C == Below(S, R, j)
  <2>1. B \cup {i} \in SUBSET C /\ i \notin B
    BY <1>2 DEF Below, Orders
  <2>2. IsFiniteSet(B) /\ IsFiniteSet(C) /\ Cardinality(B) \in Nat /\ Cardinality(C) \in Nat
    BY <1>1
  <2>3. PlaceIn(S, R, i) = 1 + Cardinality(B) /\ PlaceIn(S, R, j) = 1 + Cardinality(C)
    BY DEF PlaceIn
  <2> HIDE DEF B, C
  <2>4. Cardinality(B \cup {i}) = Cardinality(B) + 1
    BY <2>1, <2>2, FS_AddElement
  <2>5. Cardinality(B \cup {i}) <= Cardinality(C)
    BY <2>1, <2>2, FS_Subset
  <2> QED  BY <2>2, <2>3, <2>4, <2>5
<1>3. \A i \in S : PlaceIn(S, R, i) \in Nat
  BY <1>1, FS_CardinalityType
<1>4. \A i, j \in S : <<i, j>> \in R <=> PlaceIn(S, R, i) < PlaceIn(S, R, j)
  <2> SUFFICES ASSUME NEW i \in S, NEW j \in S
               PROVE  <<i, j>> \in R <=> PlaceIn(S, R, i) < PlaceIn(S, R, j)
    OBVIOUS
  <2>1. CASE <<i, j>> \in R
    BY <1>2, <2>1
  <2>2. CASE <<j, i>> \in R /\ <<i, j>> \notin R
    BY <1>2, <1>3, <2>2
  <2>3. CASE i = j /\ <<i, j>> \notin R
    BY <1>3, <2>3
  <2> QED  BY <2>1, <2>2, <2>3 DEF Orders
<1>5. \A k \in 1..N : \E i \in S : PlaceIn(S, R, i) = k
  <2> DEFINE f == [i \in S |-> PlaceIn(S, R, i)]
  <2>1. f \in [S -> 1..N]
    BY <1>1
  <2>2. \A i, j \in S : f[i] = f[j] => i = j
    BY <1>3, <1>4 DEF Orders
  <2>3. f \in Injection(S, 1..N)
    <3> HIDE DEF f
    <3> QED  BY <2>1, <2>2 DEF Injection, IsInjective
  <2>4. IsFiniteSet(1..N) /\ Cardinality(1..N) = N
    BY FS_CardinalityType, FS_Interval
  <2>5. f \in Surjection(S, 1..N)
    <3> HIDE DEF f
    <3> QED  BY <2>3, <2>4, FS_Injection
  <2>6. \A k \in 1..N : \E i \in S : f[i] = k
    <3> HIDE DEF f
    <3> QED  BY <2>5 DEF Surjection
  <2> QED  BY <2>6
<1> QED  BY <1>1, <1>4, <1>5

\* The lesser of two numbers.
LEMMA LesserOf ==
  ASSUME NEW a \in Nat, NEW b \in Nat
  PROVE  Min({a, b}) \in Nat /\ Min({a, b}) <= a /\ Min({a, b}) <= b
         /\ (Min({a, b}) = a \/ Min({a, b}) = b)
<1>1. \E x \in {a, b} : \A y \in {a, b} : x <= y
  <2>1. CASE a <= b
    BY <2>1
  <2>2. CASE ~(a <= b)
    BY <2>2
  <2> QED  BY <2>1, <2>2
<1>2. Min({a, b}) \in {a, b} /\ \A y \in {a, b} : Min({a, b}) <= y
  BY <1>1 DEF Min
<1> QED  BY <1>2

Entry == [finding : Candidates, matter : Matters, grounded : BOOLEAN]

\* How the entries of a query are ordered.
Standing == {p \in (DOMAIN entries) \X (DOMAIN entries) : Before(p[1], p[2])}

LEMMA EntriesOrdered ==
  ASSUME entries \in Seq(Entry), NEW S \in SUBSET DOMAIN entries
  PROVE  /\ IsFiniteSet(S) /\ Orders(Standing, S)
         /\ \A i, j \in S : <<i, j>> \in Standing <=> Before(i, j)
<1>1. DOMAIN entries = 1..Len(entries) /\ Len(entries) \in Nat
      /\ \A i \in DOMAIN entries : entries[i] \in Entry
  OBVIOUS
<1>2. IsFiniteSet(DOMAIN entries)
  BY <1>1, FS_Interval
<1>3. IsFiniteSet(S)
  BY <1>2, FS_Subset
<1>4. \A i, j \in S : <<i, j>> \in Standing <=> Before(i, j)
  BY DEF Standing
<1>5. \A i \in S : i \in Int /\ entries[i].finding.score \in Int
  BY <1>1, KnowledgeAssumption DEF Entry
<1>6. /\ \A i \in S : ~Before(i, i)
      /\ \A i, j \in S : i # j => Before(i, j) \/ Before(j, i)
      /\ \A i, j, k \in S : Before(i, j) /\ Before(j, k) => Before(i, k)
  BY <1>5 DEF Before
<1>7. Orders(Standing, S)
  BY <1>4, <1>6 DEF Orders
<1> QED  BY <1>3, <1>4, <1>7

\* What a query is answered: the first of its entries.
LEMMA RankedSound ==
  ASSUME entries \in Seq(Entry), NEW S \in SUBSET DOMAIN entries, NEW topK \in Nat
  PROVE  LET shown == Ranked(S, topK) IN
         /\ shown \in Seq(Entry) /\ Len(shown) \in Nat /\ Len(shown) <= topK
         /\ DOMAIN shown = 1..Len(shown)
         /\ \A k \in DOMAIN shown : \E i \in S : entries[i] = shown[k]
         /\ \A k, l \in DOMAIN shown : k < l => shown[k].finding.score >= shown[l].finding.score
         /\ \A i \in S : \A k \in DOMAIN shown :
              entries[i].finding.score > shown[k].finding.score => entries[i] \in ToSet(shown)
<1> DEFINE place(i) == 1 + Cardinality({j \in S : Before(j, i)})
           m == Min({topK, Cardinality(S)})
           at1(k) == CHOOSE i \in S : place(i) = k
           shown == [k \in 1..m |-> entries[at1(k)]]
<1>1. Ranked(S, topK) = shown
  BY DEF Ranked
<1>2. IsFiniteSet(S) /\ Orders(Standing, S) /\ \A i, j \in S : <<i, j>> \in Standing <=> Before(i, j)
  BY EntriesOrdered
<1>3. \A i \in S : place(i) = PlaceIn(S, Standing, i)
  <2> SUFFICES ASSUME NEW i \in S PROVE place(i) = PlaceIn(S, Standing, i)
    OBVIOUS
  <2>1. {j \in S : Before(j, i)} = Below(S, Standing, i)
    BY <1>2 DEF Below
  <2> QED  BY <2>1 DEF PlaceIn
<1> HIDE DEF place
<1>4. /\ \A i \in S : place(i) \in 1..Cardinality(S)
      /\ \A i, j \in S : Before(i, j) <=> place(i) < place(j)
      /\ \A k \in 1..Cardinality(S) : \E i \in S : place(i) = k
  <2>1. /\ \A i \in S : PlaceIn(S, Standing, i) \in 1..Cardinality(S)
        /\ \A i, j \in S : <<i, j>> \in Standing <=> PlaceIn(S, Standing, i) < PlaceIn(S, Standing, j)
        /\ \A k \in 1..Cardinality(S) : \E i \in S : PlaceIn(S, Standing, i) = k
    BY <1>2, Placing
  <2>2. \A i, j \in S : Before(i, j) <=> place(i) < place(j)
    <3> SUFFICES ASSUME NEW i \in S, NEW j \in S PROVE Before(i, j) <=> place(i) < place(j)
      OBVIOUS
    <3>1. place(i) = PlaceIn(S, Standing, i) /\ place(j) = PlaceIn(S, Standing, j)
      BY <1>3
    <3> QED  BY <1>2, <2>1, <3>1
  <2> QED  BY <1>3, <2>1, <2>2
<1>5. m \in Nat /\ m <= topK /\ m <= Cardinality(S) /\ Cardinality(S) \in Nat
  BY <1>2, LesserOf, FS_CardinalityType
<1> HIDE DEF m
<1>6. ASSUME NEW k \in 1..m PROVE at1(k) \in S /\ place(at1(k)) = k
  <2>1. \E i \in S : place(i) = k
    BY <1>4, <1>5
  <2> QED  BY <2>1
<1> HIDE DEF at1
<1>7. \A i \in DOMAIN entries : entries[i] \in Entry /\ i \in Int /\ entries[i].finding.score \in Int
  <2>1. \A i \in DOMAIN entries : entries[i] \in Entry /\ i \in Int
    OBVIOUS
  <2> QED  BY <2>1, KnowledgeAssumption DEF Entry
<1>8. /\ DOMAIN shown = 1..m /\ \A k \in 1..m : shown[k] = entries[at1(k)]
  OBVIOUS
<1>9. shown \in Seq(Entry) /\ Len(shown) = m
  BY <1>5, <1>6, <1>7
<1> HIDE DEF shown
<1>10. \A k \in 1..m : \E i \in S : entries[i] = shown[k]
  BY <1>6, <1>8
<1>11. ASSUME NEW k \in 1..m, NEW l \in 1..m, k < l
       PROVE  shown[k].finding.score >= shown[l].finding.score
  <2>1. Before(at1(k), at1(l)) /\ at1(k) \in DOMAIN entries /\ at1(l) \in DOMAIN entries
    BY <1>4, <1>6, <1>11
  <2> QED  BY <1>7, <1>8, <2>1 DEF Before
<1>12. ASSUME NEW i \in S, NEW k \in 1..m, entries[i].finding.score > shown[k].finding.score
       PROVE  entries[i] \in ToSet(shown)
  <2>1. Before(i, at1(k))
    BY <1>8, <1>12 DEF Before
  <2>2. place(i) < k /\ place(i) \in Nat /\ place(i) >= 1
    BY <1>4, <1>5, <1>6, <2>1
  <2>3. place(i) \in 1..m
    BY <1>5, <2>2
  <2>4. at1(place(i)) = i
    <3>1. at1(place(i)) \in S /\ place(at1(place(i))) = place(i)
      BY <1>6, <2>3
    <3>2. ~Before(at1(place(i)), i) /\ ~Before(i, at1(place(i)))
      BY <1>4, <2>2, <3>1
    <3> QED  BY <1>2, <3>1, <3>2 DEF Orders
  <2>5. shown[place(i)] = entries[i]
    BY <1>8, <2>3, <2>4
  <2> QED  BY <1>8, <2>3, <2>5 DEF ToSet
<1> QED  BY <1>1, <1>5, <1>8, <1>9, <1>10, <1>11, <1>12

-----------------------------------------------------------------------------
(* The lessons.                                                              *)

Item == [n : Nat, size : Nat, typed : BOOLEAN]
Sizes(items) == [i \in DOMAIN items |-> items[i].size]

LEMMA ItemsTyped ==
  ASSUME NEW items \in Seq(Item)
  PROVE  /\ Len(items) \in Nat /\ DOMAIN items = 1..Len(items) /\ IsFiniteSet(DOMAIN items)
         /\ \A i \in DOMAIN items : items[i] \in Item /\ Sizes(items)[i] = items[i].size
                                    /\ Sizes(items)[i] \in Nat
<1>1. Len(items) \in Nat /\ DOMAIN items = 1..Len(items)
      /\ \A i \in DOMAIN items : items[i] \in Item
  OBVIOUS
<1>2. IsFiniteSet(DOMAIN items)
  BY <1>1, FS_Interval
<1>3. \A i \in DOMAIN items : Sizes(items)[i] = items[i].size /\ Sizes(items)[i] \in Nat
  BY <1>1 DEF Sizes, Item
<1> QED  BY <1>1, <1>2, <1>3

\* The tokens of items are the sum of their sizes.
LEMMA TokensAre ==
  ASSUME NEW items \in Seq(Item)
  PROVE  Tokens(items) = SumOver(Sizes(items), DOMAIN items) /\ Tokens(items) \in Nat
<1> DEFINE U == DOMAIN items
           w == Sizes(items)
           Same(h) == h = [s \in SUBSET U |->
             IF s = {} THEN 0 ELSE items[NextOf(s)].size + h[s \ {NextOf(s)}]]
           h1 == CHOOSE f : Same(f)
<1>1. IsFiniteSet(U) /\ \A i \in U : w[i] \in Nat /\ w[i] = items[i].size
  BY ItemsTyped
<1>2. \A h : Same(h) <=> Adds(w, U, h)
  <2> SUFFICES ASSUME NEW h PROVE Same(h) <=> Adds(w, U, h)
    OBVIOUS
  <2>1. \A s \in SUBSET U :
          (IF s = {} THEN 0 ELSE items[NextOf(s)].size + h[s \ {NextOf(s)}])
            = (IF s = {} THEN 0 ELSE w[NextOf(s)] + h[s \ {NextOf(s)}])
    <3> HIDE DEF U, w
    <3> QED  BY <1>1, NextIn
  <2> HIDE DEF U, w
  <2> QED  BY <2>1 DEF Adds
<1>3. PICK g : Adds(w, U, g) /\ SumOver(w, U) = g[U]
  BY <1>1, SumIs
<1>4. Adds(w, U, h1)
  <2> HIDE DEF Same, U, w
  <2>1. Same(h1)
    BY <1>2, <1>3 DEF h1
  <2> QED  BY <1>2, <2>1
<1>5. Tokens(items) = h1[U]
  BY DEF Tokens, FoldSeq, FoldFunction, FoldFunctionOnSet, MapThenFoldSet, NextOf
<1>6. h1[U] = g[U] /\ g[U] \in Nat
  <2> HIDE DEF h1, U, w
  <2> QED  BY <1>1, <1>3, <1>4, SumsAgree, SumNat
<1> QED  BY <1>3, <1>5, <1>6

\* One more item adds its size.
LEMMA TokensAppend ==
  ASSUME NEW items \in Seq(Item), NEW item \in Item
  PROVE  Tokens(Append(items, item)) = Tokens(items) + item.size
<1> DEFINE more == Append(items, item)
           U == DOMAIN items
           m == Len(items) + 1
           v == Sizes(more)
           w == Sizes(items)
<1>1. more \in Seq(Item) /\ DOMAIN more = 1..m /\ U = 1..Len(items) /\ Len(items) \in Nat
      /\ more[m] = item /\ \A i \in U : more[i] = items[i]
  OBVIOUS
<1>2. DOMAIN more \ {m} = U /\ m \in DOMAIN more
  BY <1>1
<1> HIDE DEF more, U
<1>3. IsFiniteSet(DOMAIN more) /\ \A i \in DOMAIN more : v[i] = more[i].size /\ v[i] \in Nat
  BY <1>1, ItemsTyped
<1>4. IsFiniteSet(U) /\ \A i \in U : w[i] = items[i].size /\ w[i] \in Nat
  BY ItemsTyped DEF U
<1> HIDE DEF v, w, m
<1>5. SumOver(v, DOMAIN more) = v[m] + SumOver(v, U)
  BY <1>2, <1>3, SumPlus
<1>6. SumOver(v, U) = SumOver(w, U)
  <2>1. \A i \in U : w[i] = v[i]
    BY <1>1, <1>2, <1>3, <1>4
  <2> QED  BY <1>4, <2>1, SumEqual
<1>7. Tokens(more) = SumOver(v, DOMAIN more) /\ Tokens(items) = SumOver(w, U) /\ Tokens(items) \in Nat
  BY <1>1, TokensAre DEF v, w, U
<1>8. v[m] = item.size /\ item.size \in Nat
  BY <1>1, <1>2, <1>3 DEF Item
<1> QED  BY <1>5, <1>6, <1>7, <1>8 DEF more

LEMMA TokensOfNone == Tokens(<<>>) = 0
<1>1. <<>> \in Seq(Item) /\ DOMAIN <<>> = {}
  OBVIOUS
<1> QED  BY <1>1, TokensAre, SumEmpty

\* What is left of items once there is room: the newest of them, with the room.
LEMMA RoomMade ==
  ASSUME NEW items \in Seq(Item), NEW size \in Nat, size <= Budget, Tokens(<<>>) = 0
  PROVE  \E k \in 0..Len(items) :
           /\ RoomFor(items, size) = SubSeq(items, k + 1, Len(items))
           /\ Tokens(RoomFor(items, size)) + size <= Budget
<1> DEFINE L == Len(items)
           dropped == {k \in 0..L : Tokens(SubSeq(items, k + 1, L)) + size <= Budget}
<1>1. L \in Nat /\ Budget \in Nat
  BY KnowledgeAssumption
<1>2. SubSeq(items, L + 1, L) = <<>>
  OBVIOUS
<1>3. L \in dropped
  <2>1. Tokens(SubSeq(items, L + 1, L)) = 0
    BY <1>2
  <2>2. Tokens(SubSeq(items, L + 1, L)) + size <= Budget
    BY <1>1, <2>1
  <2>3. L \in 0..L
    BY <1>1
  <2> HIDE DEF L
  <2> QED  BY <2>2, <2>3
<1>4. dropped \subseteq Nat
  OBVIOUS
<1>5. \E k \in dropped : \A j \in dropped : k <= j
  <2> HIDE DEF dropped
  <2> QED  BY <1>3, <1>4, LeastNatural
<1>6. Min(dropped) \in dropped
  BY <1>5 DEF Min
<1>7. RoomFor(items, size) = SubSeq(items, Min(dropped) + 1, L)
  BY <1>3 DEF RoomFor
<1> DEFINE k == Min(dropped)
<1>8. k \in 0..L /\ Tokens(SubSeq(items, k + 1, L)) + size <= Budget
  <2>1. k \in dropped
    BY <1>6
  <2> HIDE DEF k
  <2> QED  BY <2>1
<1> HIDE DEF k, dropped
<1> QED  BY <1>7, <1>8 DEF k

\* The newest items, without a gap.
Newest(kept, all) ==
  /\ kept \in Seq(Item) /\ all \in Seq(Item) /\ Len(kept) <= Len(all)
  /\ \A i \in 1..Len(kept) : kept[i] = all[Len(all) - Len(kept) + i]

LEMMA NewestIsSuffix ==
  ASSUME NEW kept, NEW all, Newest(kept, all) PROVE IsSuffix(kept, all)
<1> DEFINE K == Len(kept)
           L == Len(all)
           r == Reverse(kept)
           t == Reverse(all)
<1>1. K \in Nat /\ L \in Nat /\ K <= L
  BY DEF Newest
<1>2. /\ Len(r) = K /\ Len(t) = L /\ DOMAIN r = 1..K /\ DOMAIN t = 1..L
      /\ \A i \in 1..K : r[i] = kept[K - i + 1]
      /\ \A i \in 1..L : t[i] = all[L - i + 1]
  <2>1. r = [i \in 1..K |-> kept[K - i + 1]] /\ t = [i \in 1..L |-> all[L - i + 1]]
    BY DEF Reverse
  <2> HIDE DEF r, t, K, L
  <2> QED  BY <1>1, <2>1
<1>3. r \in Seq(Item) /\ t \in Seq(Item)
  <2>1. kept \in Seq(Item) /\ all \in Seq(Item)
    BY DEF Newest
  <2>2. r = [i \in 1..K |-> kept[K - i + 1]] /\ t = [i \in 1..L |-> all[L - i + 1]]
    BY DEF Reverse
  <2>3. \A i \in 1..K : kept[K - i + 1] \in Item
    BY <1>1, <2>1
  <2>4. \A i \in 1..L : all[L - i + 1] \in Item
    BY <1>1, <2>1
  <2> HIDE DEF r, t, K, L
  <2> QED  BY <1>1, <2>2, <2>3, <2>4
<1>4. \A i \in 1..K : r[i] = t[i]
  <2> SUFFICES ASSUME NEW i \in 1..K PROVE r[i] = t[i]
    OBVIOUS
  <2>1. K - i + 1 \in 1..K /\ L - K + (K - i + 1) = L - i + 1 /\ i \in 1..L
    BY <1>1
  <2>2. kept[K - i + 1] = all[L - K + (K - i + 1)]
    BY <2>1 DEF Newest
  <2> HIDE DEF r, t, K, L
  <2> QED  BY <1>2, <2>1, <2>2
<1>5. SubSeq(r, 1, K) = SubSeq(t, 1, K)
  <2> HIDE DEF r, t, K, L
  <2> QED  BY <1>1, <1>2, <1>3, <1>4
<1> QED  BY <1>1, <1>2, <1>5 DEF IsSuffix, IsPrefix

KnowledgeTyped ==
  /\ entries \in Seq(Entry) /\ bound \in Matters \cup {NoMatter}
  /\ lessons \in [Sessions -> Seq(Item)] /\ written \in [Sessions -> Seq(Item)]
  /\ recalled.session \in Sessions

KnowledgeInv ==
  /\ KnowledgeTyped /\ AnswerSound /\ EntriesSound
  /\ \A s \in Sessions : Newest(lessons[s], written[s]) /\ Tokens(lessons[s]) <= Budget
  /\ ToSet(recalled.items) \subseteq ToSet(lessons[recalled.session]) /\ IsInjective(recalled.items)

\* Nothing recalled is sound, and so is an answer to nothing.
LEMMA NothingRecalled == /\ NoRecall.session \in Sessions /\ IsInjective(NoRecall.items)
                         /\ \A S : ToSet(NoRecall.items) \subseteq S
BY KnowledgeAssumption DEF NoRecall, IsInjective, ToSet

LEMMA NothingAsked == answer = NoQuery => AnswerSound
BY DEF NoQuery, AnswerSound

LEMMA KnowledgeBegins == KnowledgeInit => KnowledgeInv
<1> SUFFICES ASSUME KnowledgeInit PROVE KnowledgeInv
  OBVIOUS
<1>1. /\ entries = <<>> /\ bound \in Matters \cup {NoMatter} /\ answer = NoQuery
      /\ lessons = [s \in Sessions |-> <<>>] /\ written = lessons /\ recalled = NoRecall
  BY DEF KnowledgeInit
<1>2. KnowledgeTyped
  BY <1>1, NothingRecalled DEF KnowledgeTyped
<1>3. AnswerSound
  BY <1>1, NothingAsked
<1>4. EntriesSound
  BY <1>1 DEF EntriesSound
<1>5. ASSUME NEW s \in Sessions PROVE Newest(lessons[s], written[s]) /\ Tokens(lessons[s]) <= Budget
  <2>1. lessons[s] = <<>> /\ written[s] = <<>>
    BY <1>1
  <2>2. 0 <= Budget
    BY KnowledgeAssumption
  <2> QED  BY <2>1, <2>2, TokensOfNone DEF Newest
<1> QED  BY <1>1, <1>2, <1>3, <1>4, <1>5, NothingRecalled DEF KnowledgeInv

\* A finding is considered, and joins the entries if it qualifies and does not cross.
LEMMA KnowledgeConsiders ==
  ASSUME KnowledgeInv, NEW f \in Candidates, NEW matter \in Matters, NEW grounding \in BOOLEAN,
         Consider(f, matter, grounding)
  PROVE  KnowledgeInv'
<1> DEFINE entry == [finding |-> f, matter |-> matter, grounded |-> grounding]
           joins == Qualifies(f, grounding) /\ ~Crosses(matter)
<1>1. /\ entries' = IF joins THEN Append(entries, entry) ELSE entries
      /\ answer' = NoQuery /\ bound' = bound /\ lessons' = lessons /\ written' = written
      /\ recalled' = recalled
  BY DEF Consider, lessonVars
<1>2. entry \in Entry /\ entries \in Seq(Entry)
  BY DEF Entry, KnowledgeInv, KnowledgeTyped
<1>3. KnowledgeTyped'
  BY <1>1, <1>2 DEF KnowledgeInv, KnowledgeTyped
<1>4. AnswerSound'
  BY <1>1 DEF NoQuery, AnswerSound
<1>5. EntriesSound'
  <2>1. CASE joins
    <3>1. entries' = Append(entries, entry)
      BY <1>1, <2>1
    <3>2. entry.matter = matter /\ entry.finding = f
      OBVIOUS
    <3>3. ~Crosses(matter) /\ f.confidence >= Confident
      BY <2>1 DEF Qualifies
    <3> HIDE DEF entry, joins
    <3>4. DOMAIN entries' = 1..(Len(entries) + 1) /\ entries'[Len(entries) + 1] = entry
          /\ \A i \in 1..Len(entries) : entries'[i] = entries[i] /\ i \in DOMAIN entries
      BY <1>2, <3>1
    <3>5. \A i \in 1..(Len(entries) + 1) : i = Len(entries) + 1 \/ i \in 1..Len(entries)
      BY <1>2
    <3>6. \A m : Crosses(m)' <=> Crosses(m)
      BY <1>1 DEF Crosses
    <3>7. \A i \in DOMAIN entries : ~Crosses(entries[i].matter) /\ entries[i].finding.confidence >= Confident
      BY DEF KnowledgeInv, EntriesSound
    <3>8. ASSUME NEW i \in DOMAIN entries'
          PROVE  ~Crosses(entries'[i].matter) /\ entries'[i].finding.confidence >= Confident
      BY <3>2, <3>3, <3>4, <3>5, <3>7
    <3> QED  BY <1>1, <3>8 DEF EntriesSound, Crosses
  <2>2. CASE ~joins
    <3>1. entries' = entries
      BY <1>1, <2>2
    <3> QED  BY <1>1, <3>1 DEF KnowledgeInv, EntriesSound, Crosses
  <2> QED  BY <2>1, <2>2
<1> QED  BY <1>1, <1>3, <1>4, <1>5 DEF KnowledgeInv

\* A query is answered.
LEMMA KnowledgeAnswers ==
  ASSUME KnowledgeInv, NEW matter \in Matters, NEW topK \in TopKs, NEW least \in MinConfidences,
         Query(matter, topK, least)
  PROVE  KnowledgeInv'
<1> DEFINE S == Eligible(matter, least)
           shown == Ranked(S, topK)
<1>1. /\ answer' = IF Crosses(matter) THEN NoQuery
                   ELSE [matter |-> matter, topK |-> topK, least |-> least, result |-> shown]
      /\ UNCHANGED <<entries, bound, lessons, written, recalled>>
  BY DEF Query, lessonVars
<1>2. entries \in Seq(Entry) /\ S \in SUBSET DOMAIN entries /\ topK \in Nat
  BY KnowledgeAssumption DEF KnowledgeInv, KnowledgeTyped, Eligible
<1>3. KnowledgeTyped' /\ EntriesSound'
  BY <1>1 DEF KnowledgeInv, KnowledgeTyped, EntriesSound, Crosses
<1>4. AnswerSound'
  <2>1. CASE Crosses(matter)
    BY <1>1, <2>1 DEF NoQuery, AnswerSound
  <2>2. CASE ~Crosses(matter)
    <3>1. /\ answer'.matter = matter /\ answer'.topK = topK /\ answer'.least = least
          /\ answer'.result = shown
      BY <1>1, <2>2
    <3>2. Eligible(answer.matter, answer.least)' = S
      BY <1>1, <3>1 DEF Eligible
    <3>3. /\ Len(shown) <= topK
          /\ \A k \in DOMAIN shown : \E i \in S : entries[i] = shown[k]
          /\ \A k, l \in DOMAIN shown : k < l => shown[k].finding.score >= shown[l].finding.score
          /\ \A i \in S : \A k \in DOMAIN shown :
               entries[i].finding.score > shown[k].finding.score => entries[i] \in ToSet(shown)
      <4> HIDE DEF S
      <4> QED  BY <1>2, RankedSound
    <3> HIDE DEF S, shown
    <3> QED  BY <1>1, <3>1, <3>2, <3>3 DEF AnswerSound
  <2> QED  BY <2>1, <2>2
<1> QED  BY <1>1, <1>3, <1>4 DEF KnowledgeInv

\* An item is written behind the newest items that leave room for it.
LEMMA KnowledgeWrites ==
  ASSUME KnowledgeInv, NEW s \in Sessions, NEW size \in LessonSizes, NEW typed \in BOOLEAN,
         Write(s, size, typed)
  PROVE  KnowledgeInv'
<1> DEFINE item == [n |-> Len(written[s]) + 1, size |-> size, typed |-> typed]
           left == RoomFor(lessons[s], size)
<1>1. /\ IF size <= Budget
         THEN /\ lessons' = [lessons EXCEPT ![s] = Append(left, item)]
              /\ written' = [written EXCEPT ![s] = Append(written[s], item)]
         ELSE lessons' = [lessons EXCEPT ![s] = <<>>] /\ written' = written
      /\ recalled' = NoRecall /\ UNCHANGED <<bound, entries, answer>>
  BY DEF Write, kbVars
<1>2. /\ lessons \in [Sessions -> Seq(Item)] /\ written \in [Sessions -> Seq(Item)]
      /\ Newest(lessons[s], written[s]) /\ size \in Nat /\ Budget \in Nat
  BY KnowledgeAssumption DEF KnowledgeInv, KnowledgeTyped
<1>3. item \in Item /\ item.size = size
  <2>1. Len(written[s]) + 1 \in Nat
    BY <1>2
  <2> QED  BY <1>2, <2>1 DEF Item
<1> HIDE DEF item, left
<1>4. AnswerSound' /\ EntriesSound'
  BY <1>1 DEF KnowledgeInv, AnswerSound, EntriesSound, Crosses, Eligible
<1>5. PICK kept, all \in Seq(Item) :
        /\ kept \in Seq(Item)
        /\ lessons' = [lessons EXCEPT ![s] = kept] /\ written' = [written EXCEPT ![s] = all]
        /\ Newest(kept, all) /\ Tokens(kept) <= Budget
  <2>1. CASE size <= Budget
    <3> DEFINE l == lessons[s]
               w == written[s]
    <3>1. PICK k \in 0..Len(l) : left = SubSeq(l, k + 1, Len(l)) /\ Tokens(left) + size <= Budget
      BY <1>2, <2>1, RoomMade, TokensOfNone DEF left
    <3>2. l \in Seq(Item) /\ w \in Seq(Item) /\ Len(l) <= Len(w)
          /\ \A i \in 1..Len(l) : l[i] = w[Len(w) - Len(l) + i]
      BY <1>2 DEF Newest
    <3> HIDE DEF l, w
    <3>3. left \in Seq(Item) /\ Len(left) = Len(l) - k
          /\ \A i \in 1..Len(left) : left[i] = l[k + i]
      BY <3>1, <3>2
    <3> DEFINE K == Len(left)
               M == Len(w)
    <3>7. K \in Nat /\ M \in Nat /\ Len(l) \in Nat /\ K = Len(l) - k
      BY <3>2, <3>3
    <3> HIDE DEF K, M
    <3>4. Newest(Append(left, item), Append(w, item))
      <4>1. /\ Append(left, item) \in Seq(Item) /\ Append(w, item) \in Seq(Item)
            /\ Len(Append(left, item)) = K + 1 /\ Len(Append(w, item)) = M + 1
        BY <1>3, <3>2, <3>3 DEF K, M
      <4>2. ASSUME NEW i \in 1..(K + 1)
            PROVE  Append(left, item)[i] = Append(w, item)[M + 1 - (K + 1) + i]
        <5>1. CASE i = K + 1
          <6>1. M + 1 - (K + 1) + i = M + 1
            BY <3>7, <5>1
          <6>2. Append(left, item)[K + 1] = item
            BY <1>3, <3>3 DEF K
          <6>3. Append(w, item)[M + 1] = item
            BY <1>3, <3>2 DEF M
          <6> QED  BY <5>1, <6>1, <6>2, <6>3
        <5>2. CASE i # K + 1
          <6>1. i \in 1..K /\ k + i \in 1..Len(l)
            BY <3>1, <3>7, <5>2
          <6>2. Append(left, item)[i] = l[k + i] /\ l[k + i] = w[M - Len(l) + (k + i)]
            BY <1>3, <3>2, <3>3, <3>7, <6>1 DEF K, M
          <6>3. M + 1 - (K + 1) + i = M - Len(l) + (k + i)
                /\ M - Len(l) + (k + i) \in 1..M
            BY <3>1, <3>2, <3>7, <6>1 DEF M
          <6>4. \A j \in 1..M : Append(w, item)[j] = w[j]
            BY <1>3, <3>2 DEF M
          <6> QED  BY <6>2, <6>3, <6>4
        <5> QED  BY <5>1, <5>2
      <4>3. K + 1 <= M + 1
        BY <3>1, <3>2, <3>7 DEF M
      <4> DEFINE p == Append(left, item)
                 q == Append(w, item)
      <4>4. p \in Seq(Item) /\ q \in Seq(Item) /\ Len(p) = K + 1 /\ Len(q) = M + 1
        BY <4>1
      <4>5. \A i \in 1..(K + 1) : p[i] = q[M + 1 - (K + 1) + i]
        BY <4>2
      <4> HIDE DEF p, q
      <4>6. Len(p) <= Len(q) /\ \A i \in 1..Len(p) : p[i] = q[Len(q) - Len(p) + i]
        BY <3>7, <4>3, <4>4, <4>5
      <4>7. Newest(p, q)
        BY <4>4, <4>6 DEF Newest
      <4> QED  BY <4>7 DEF p, q
    <3>5. Tokens(Append(left, item)) <= Budget
      BY <1>3, <3>1, <3>3, TokensAppend
    <3>6. lessons' = [lessons EXCEPT ![s] = Append(left, item)]
          /\ written' = [written EXCEPT ![s] = Append(w, item)]
      BY <1>1, <2>1 DEF w
    <3> QED  BY <3>4, <3>5, <3>6 DEF Newest
  <2>2. CASE ~(size <= Budget)
    <3>1. lessons' = [lessons EXCEPT ![s] = <<>>] /\ written' = [written EXCEPT ![s] = written[s]]
      BY <1>1, <1>2, <2>2
    <3>2. Newest(<<>>, written[s]) /\ Tokens(<<>>) <= Budget
      BY <1>2, TokensOfNone DEF Newest
    <3>3. <<>> \in Seq(Item) /\ written[s] \in Seq(Item)
      BY <1>2
    <3> QED  BY <3>1, <3>2, <3>3
  <2> QED  BY <2>1, <2>2
<1>6. \A t \in Sessions : Newest(lessons'[t], written'[t]) /\ Tokens(lessons'[t]) <= Budget
  <2> SUFFICES ASSUME NEW t \in Sessions
               PROVE  Newest(lessons'[t], written'[t]) /\ Tokens(lessons'[t]) <= Budget
    OBVIOUS
  <2>1. CASE t = s
    <3>1. lessons'[t] = kept /\ written'[t] = all
      BY <1>2, <1>5, <2>1
    <3> QED  BY <1>5, <3>1
  <2>2. CASE t # s
    <3>1. lessons'[t] = lessons[t] /\ written'[t] = written[t]
      BY <1>2, <1>5, <2>2
    <3> QED  BY <3>1 DEF KnowledgeInv
  <2> QED  BY <2>1, <2>2
<1>7. KnowledgeTyped'
  BY <1>1, <1>2, <1>5, NothingRecalled DEF KnowledgeInv, KnowledgeTyped
<1> QED  BY <1>1, <1>4, <1>6, <1>7, NothingRecalled DEF KnowledgeInv

\* What is recalled is an arrangement of items that are there.
LEMMA KnowledgeRecalls ==
  ASSUME KnowledgeInv, NEW s \in Sessions, (\E topK \in TopKs : Recall(s, topK)) \/ ReadLessons(s)
  PROVE  KnowledgeInv'
<1>1. PICK some \in SUBSET ToSet(lessons[s]) : \E items \in SetToSeqs(Typed(some)) :
        recalled' = [session |-> s, items |-> items]
  BY DEF Recall, ReadLessons
<1>2. PICK items \in SetToSeqs(Typed(some)) : recalled' = [session |-> s, items |-> items]
  BY <1>1
<1>3. UNCHANGED <<lessons, written, bound, entries, answer>>
  BY DEF Recall, ReadLessons, kbVars
<1>4. ToSet(items) \subseteq ToSet(lessons[s]) /\ IsInjective(items)
  <2>1. /\ items \in [1..Cardinality(Typed(some)) -> Typed(some)]
        /\ \A i, j \in 1..Cardinality(Typed(some)) : i # j => items[i] # items[j]
    BY DEF SetToSeqs
  <2>2. Typed(some) \subseteq ToSet(lessons[s])
    BY <1>1 DEF Typed
  <2> HIDE DEF Typed
  <2>3. \A i \in DOMAIN items : items[i] \in ToSet(lessons[s])
    BY <2>1, <2>2
  <2>4. ToSet(items) \subseteq ToSet(lessons[s])
    <3> DEFINE T == ToSet(lessons[s])
    <3>1. \A i \in DOMAIN items : items[i] \in T
      BY <2>3
    <3> HIDE DEF T
    <3>2. ToSet(items) \subseteq T
      BY <3>1 DEF ToSet
    <3> QED  BY <3>2 DEF T
  <2>5. IsInjective(items)
    BY <2>1 DEF IsInjective
  <2> QED  BY <2>4, <2>5
<1>5. KnowledgeTyped' /\ AnswerSound' /\ EntriesSound'
  BY <1>2, <1>3 DEF KnowledgeInv, KnowledgeTyped, AnswerSound, EntriesSound, Crosses, Eligible
<1> QED  BY <1>2, <1>3, <1>4, <1>5 DEF KnowledgeInv

\* Every step keeps the invariant.
LEMMA KnowledgeStep == KnowledgeInv /\ [KnowledgeNext]_knowledgeVars => KnowledgeInv'
<1> SUFFICES ASSUME KnowledgeInv, [KnowledgeNext]_knowledgeVars PROVE KnowledgeInv'
  OBVIOUS
<1>1. CASE BaseNext
  BY <1>1, KnowledgeConsiders, KnowledgeAnswers, KnowledgeAssumption DEF BaseNext
<1>2. CASE LessonsNext
  BY <1>2, KnowledgeWrites, KnowledgeRecalls DEF LessonsNext
<1>3. CASE UNCHANGED knowledgeVars
  BY <1>3 DEF knowledgeVars, KnowledgeInv, KnowledgeTyped, AnswerSound, EntriesSound, Crosses, Eligible
<1> QED  BY <1>1, <1>2, <1>3 DEF KnowledgeNext

\* A query is answered from its own matter with the best that is known and sure enough, a bound
\* base holds one matter, and the lessons of a session are the newest that fit its budget, each
\* recalled once; for any matters, findings, sessions, sizes and budgets.
THEOREM KnowledgeSoundHolds == KnowledgeSpec => []KnowledgeSound
<1>1. KnowledgeInit => KnowledgeInv
  BY KnowledgeBegins
<1>2. KnowledgeInv /\ [KnowledgeNext]_knowledgeVars => KnowledgeInv'
  BY KnowledgeStep
<1>3. KnowledgeInv => KnowledgeSound
  BY NewestIsSuffix DEF KnowledgeInv, KnowledgeSound, LessonsSound
<1> QED  BY <1>1, <1>2, <1>3, PTL DEF KnowledgeSpec

-----------------------------------------------------------------------------
(* Findings: the union of the runs, the spending and the reason of a refusal. *)

\* A finite set of numbers has a greatest member.
LEMMA GreatestOf ==
  ASSUME NEW T, IsFiniteSet(T), T \subseteq Int, T # {}
  PROVE  Max(T) \in T /\ \A x \in T : x <= Max(T)
<1> DEFINE Tops(s, m) == m \in s /\ \A x \in s : x <= m
           Bad == {k \in 0..Cardinality(T) :
                     \E s \in SUBSET T : Cardinality(s) = k /\ s # {} /\ \A m \in s : ~Tops(s, m)}
<1>1. ASSUME Bad # {} PROVE FALSE
  <2>1. Bad \subseteq Nat
    OBVIOUS
  <2>2. PICK k \in Bad : \A l \in Bad : k <= l
    BY <1>1, <2>1, LeastNatural
  <2>3. PICK s \in SUBSET T : Cardinality(s) = k /\ s # {} /\ \A m \in s : ~Tops(s, m)
    BY <2>2
  <2>4. PICK x \in s : TRUE
    BY <2>3
  <2> DEFINE r == s \ {x}
  <2>5. IsFiniteSet(s) /\ IsFiniteSet(T)
    BY FS_Subset
  <2>6. r \in SUBSET T /\ Cardinality(r) = k - 1 /\ k \in 0..Cardinality(T) /\ k > 0
    BY <2>3, <2>4, <2>5, LessOne
  <2>7. Cardinality(T) \in Nat
    BY FS_CardinalityType
  <2>8. k - 1 \in 0..Cardinality(T) /\ ~(k <= k - 1)
    BY <2>6, <2>7
  <2>9. k - 1 \notin Bad
    <3> HIDE DEF Bad
    <3> QED  BY <2>2, <2>8
  <2>10. r # {}
    <3>1. ASSUME r = {} PROVE Tops(s, x)
      <4>1. \A y \in s : y = x
        BY <3>1
      <4> QED  BY <2>4, <4>1
    <3> QED  BY <2>3, <2>4, <3>1
  <2>11. PICK m \in r : Tops(r, m)
    <3> HIDE DEF Tops, r
    <3> QED  BY <2>6, <2>8, <2>9, <2>10
  <2>12. x \in Int /\ m \in Int /\ m \in s
    OBVIOUS
  <2>13. CASE m <= x
    <3>1. Tops(s, x)
      BY <2>4, <2>11, <2>12, <2>13
    <3> QED  BY <2>3, <2>4, <3>1
  <2>14. CASE ~(m <= x)
    <3>1. Tops(s, m)
      BY <2>11, <2>12, <2>14
    <3> QED  BY <2>3, <2>12, <3>1
  <2> QED  BY <2>13, <2>14
<1>2. Cardinality(T) \in 0..Cardinality(T)
  BY FS_CardinalityType
<1>3. \E m \in T : Tops(T, m)
  <2>1. Cardinality(T) \notin Bad
    <3> HIDE DEF Bad
    <3> QED  BY <1>1
  <2> HIDE DEF Tops
  <2> QED  BY <1>2, <2>1
<1>4. \E m \in T : \A y \in T : m >= y
  BY <1>3
<1> QED  BY <1>4 DEF Max

\* What the calls of a set of answers cost together.
Costs(S) == MapThenSumSet(LAMBDA a : a[3], S)
CostOf(S) == [a \in S |-> a[3]]

LEMMA CostsSum ==
  ASSUME NEW S, IsFiniteSet(S), \A a \in S : a[3] \in Nat
  PROVE  Costs(S) = SumOver(CostOf(S), S)
<1> DEFINE w == CostOf(S)
           Tabled(f) == f = [s \in SUBSET S |-> IF s = {} THEN 0 ELSE NextOf(s)[3] + f[s \ {NextOf(s)}]]
           h == CHOOSE f : Tabled(f)
<1>1. \A a \in S : w[a] = a[3] /\ w[a] \in Nat
  BY DEF CostOf
<1> HIDE DEF w
<1>2. PICK g : Adds(w, S, g) /\ SumOver(w, S) = g[S]
  BY <1>1, SumIs
<1>3. ASSUME NEW f PROVE Adds(w, S, f) <=> Tabled(f)
  <2>1. \A s \in SUBSET S : s # {} => w[NextOf(s)] = NextOf(s)[3]
    BY <1>1, NextIn
  <2>2. [s \in SUBSET S |-> IF s = {} THEN 0 ELSE w[NextOf(s)] + f[s \ {NextOf(s)}]]
          = [s \in SUBSET S |-> IF s = {} THEN 0 ELSE NextOf(s)[3] + f[s \ {NextOf(s)}]]
    BY <2>1
  <2> QED  BY <2>2 DEF Adds
<1>4. Tabled(g)
  BY <1>2, <1>3
<1>5. Tabled(h)
  <2> HIDE DEF Tabled
  <2> QED  BY <1>4
<1>6. Adds(w, S, h)
  <2> HIDE DEF Tabled, h
  <2> QED  BY <1>3, <1>5
<1>7. Costs(S) = h[S]
  BY DEF Costs, MapThenSumSet, MapThenFoldSet, NextOf
<1>8. h[S] = g[S]
  <2> HIDE DEF h
  <2> QED  BY <1>1, <1>2, <1>6, SumsAgree
<1> QED  BY <1>2, <1>7, <1>8 DEF w

LEMMA CostsPlus ==
  ASSUME NEW S, IsFiniteSet(S), \A a \in S : a[3] \in Nat, NEW y, y \notin S, y[3] \in Nat
  PROVE  Costs(S) \in Nat /\ Costs(S \cup {y}) = Costs(S) + y[3]
<1> DEFINE T == S \cup {y}
           v == CostOf(S)
           w == CostOf(T)
<1>1. IsFiniteSet(T) /\ T \ {y} = S /\ y \in T /\ \A a \in T : a[3] \in Nat
  BY FS_AddElement
<1>2. (\A a \in T : w[a] = a[3]) /\ \A a \in S : v[a] = a[3]
  BY DEF CostOf
<1>3. Costs(S) = SumOver(v, S) /\ Costs(T) = SumOver(w, T)
  BY <1>1, CostsSum
<1> HIDE DEF v, w
<1>4. SumOver(v, S) = SumOver(w, S) /\ SumOver(v, S) \in Nat
  BY <1>2, SumEqual, SumNat
<1>5. SumOver(w, T) = w[y] + SumOver(w, T \ {y})
  BY <1>1, <1>2, SumPlus
<1>6. SumOver(w, T) = y[3] + SumOver(v, S)
  BY <1>1, <1>2, <1>4, <1>5
<1> HIDE DEF T
<1> QED  BY <1>3, <1>4, <1>6 DEF T

LEMMA CostsOfNone == Costs({}) = 0
<1>1. Costs({}) = SumOver(CostOf({}), {})
  BY CostsSum, FS_EmptySet
<1> QED  BY <1>1, SumEmpty

StagesOf == {"plan", "enumerate", "wave", "gather", "synthesize", "done"}
ChunkOf(v, u) ==
  LET c == u % ChunksOf(Len(v))
  IN {v[i] : i \in (c * ChunkSize + 1)..Min({(c + 1) * ChunkSize, Len(v)})}
\* The relevances the calls H of a run on v gave an id, the least of them none at all.
MarksIn(H, v, id) ==
  {NoScore} \cup {s \in Scores : \E h \in H : \E p \in h[2] :
                    id \in ChunkOf(v, h[1]) /\ p[1] = id /\ p[2] = s /\ s >= Threshold}

\* What the caller keeps of the runs.
CallerTyped ==
  /\ caller \in {"tool", "dispatch"} /\ cap \in Caps \cup {0} /\ corpus \in Corpora
  /\ scope \in {"whole", "narrowed", "wider"} /\ failed \in {"none", "lost", "kept"}
  /\ first \in [refusal : Reasons, cost : Nat, calls : Nat]
  /\ before \in Nat /\ paid \in Nat
RunTyped ==
  /\ stage \in StagesOf /\ view \in Seq(Ids)
  /\ next \in 0..Units(view) /\ flight \subseteq 0..(next - 1)
  /\ answers \subseteq (0..(next - 1)) \X Answers \X FilterCosts /\ IsFiniteSet(answers)
  /\ best \in [Ids -> Scores \cup {NoScore}] /\ heard \subseteq Nat \X Answers
  /\ filterCost \in Nat /\ synthesisCost \in Nat /\ calls \in Nat
  /\ exceeded \in BOOLEAN /\ answered \in BOOLEAN /\ refusal \in Reasons

\* What a stage and a caller say of the rest.
CallerStaged ==
  /\ caller = "dispatch" => cap = 0
  /\ caller = "tool" => scope = "whole"
  /\ scope # "wider" => first = NoRun
RunStaged ==
  /\ scope # "narrowed" => view = corpus
  /\ stage = "plan" => scope = "whole" /\ before = 0
  /\ stage \in {"plan", "enumerate"} => next = 0 /\ heard = {} /\ filterCost = 0
  /\ stage \in {"wave", "gather", "synthesize"} => view # <<>>
  /\ stage # "done" => failed = "none" /\ refusal = "none" /\ ~answered /\ synthesisCost = 0
  /\ stage # "gather" => answers = {}
  /\ flight # {} => stage = "gather" \/ (stage = "done" /\ failed # "none")

\* The units that were dispatched were heard, have answered in this wave, or are in flight.
UnitsTold ==
  /\ \A a \in answers : a[1] \notin flight
  /\ stage # "done" =>
       /\ {h[1] : h \in heard} \cup {a[1] : a \in answers} \cup flight = 0..(next - 1)
       /\ calls + Cardinality(answers) + Cardinality(flight) = next
  /\ calls <= next \/ calls = first.calls

BestOfHeard ==
  \A id \in Ids : /\ best[id] \in MarksIn(heard, view, id)
                  /\ \A s \in MarksIn(heard, view, id) : s <= best[id]

\* What was paid is what is reported and what this wave has answered so far; and with a cap it
\* is bounded, with what the calls in flight may still cost.
MaxFilter == Max(FilterCosts)
MaxSynthesis == Max(SynthesisCosts)
WaveCost == NumParallel * MaxFilter
Counted == failed = "none" => paid = Reported + Costs(answers)
WithinCap ==
  Capped =>
    /\ \/ paid = before \/ paid <= cap - 1 + WaveCost \/ paid <= cap - Estimate + MaxSynthesis
    /\ stage = "gather" \/ flight # {} =>
         paid + Cardinality(flight) * MaxFilter <= cap - 1 + WaveCost
    /\ stage = "synthesize" => paid + Estimate <= cap

FindingsInv ==
  /\ CallerTyped /\ RunTyped /\ CallerStaged /\ RunStaged
  /\ UnitsTold /\ BestOfHeard /\ Counted /\ WithinCap /\ RefusalHonest

\* The numbers of a run.
LEMMA FindingsNumbers ==
  /\ MaxFilter \in FilterCosts /\ MaxFilter \in Nat /\ \A c \in FilterCosts : c <= MaxFilter
  /\ MaxSynthesis \in SynthesisCosts /\ MaxSynthesis \in Nat /\ \A c \in SynthesisCosts : c <= MaxSynthesis
  /\ WaveCost \in Nat /\ Scores \subseteq Nat /\ IsFiniteSet(Scores) /\ NoScore \in Int
<1>1. IsFiniteSet(FilterCosts) /\ IsFiniteSet(SynthesisCosts) /\ IsFiniteSet(Scores)
  BY NumbersAssumption, FS_Subset
<1>2. FilterCosts \subseteq Nat /\ SynthesisCosts \subseteq Nat /\ Scores \subseteq Nat
  BY NumbersAssumption
<1>3. MaxFilter \in FilterCosts /\ \A c \in FilterCosts : c <= MaxFilter
  BY <1>1, <1>2, GreatestOf, NumbersAssumption DEF MaxFilter
<1>4. MaxSynthesis \in SynthesisCosts /\ \A c \in SynthesisCosts : c <= MaxSynthesis
  BY <1>1, <1>2, GreatestOf, NumbersAssumption DEF MaxSynthesis
<1>5. WaveCost \in Nat
  <2>1. NumParallel \in Nat /\ MaxFilter \in Nat
    BY <1>2, <1>3, NumbersAssumption
  <2> QED  BY <2>1 DEF WaveCost
<1> QED  BY <1>1, <1>2, <1>3, <1>4, <1>5 DEF NoScore

LEMMA UnitsNatural == \A v \in Seq(Ids) : Units(v) \in Nat /\ (Len(v) = 0 => v = <<>>) /\ Len(v) \in Nat
<1> SUFFICES ASSUME NEW v \in Seq(Ids) PROVE Units(v) \in Nat /\ (Len(v) = 0 => v = <<>>) /\ Len(v) \in Nat
  OBVIOUS
<1>1. Len(v) \in Nat /\ ChunkSize \in Nat /\ ChunkSize > 0 /\ Runs \in Nat
  BY NumbersAssumption
<1>2. ChunksOf(Len(v)) \in Nat
  BY <1>1 DEF ChunksOf
<1>3. Units(v) \in Nat
  BY <1>1, <1>2 DEF Units
<1> QED  BY <1>3

\* Less of something costs no more.
LEMMA CostsLess ==
  ASSUME NEW a \in Nat, NEW b \in Nat, NEW m \in Nat
  PROVE  (a <= b => a * m <= b * m) /\ (a > 0 => (a - 1) * m = a * m - m) /\ a * m \in Nat
OBVIOUS

LEMMA ChunkIs == \A u : Chunk(u) = ChunkOf(view, u)
BY DEF Chunk, ChunkOf

LEMMA NothingMarked == \A v, id : MarksIn({}, v, id) = {NoScore}
BY DEF MarksIn

\* A run begins on a view, for a caller that may have spent before it.
LEMMA ViewBegun ==
  ASSUME NEW v \in Seq(Ids), Begin(v), CallerTyped', CallerStaged', failed' = "none",
         scope' # "narrowed" => v = corpus', paid' = before' + first'.cost, Capped' => paid' = before'
  PROVE  FindingsInv'
<1>1. Units(v) \in Nat
  BY UnitsNatural
<1>2. view' = v /\ stage' = "enumerate" /\ answers' = {} /\ flight' = {} /\ heard' = {} /\ next' = 0
      /\ best' = Unheard /\ filterCost' = 0 /\ calls' = 0 /\ synthesisCost' = 0
      /\ exceeded' = FALSE /\ refusal' = "none" /\ answered' = FALSE
  BY DEF Begin
<1>3. RunTyped'
  <2>1. best' \in [Ids -> Scores \cup {NoScore}]
    BY <1>2 DEF Unheard
  <2>2. 0 \in 0..Units(v) /\ IsFiniteSet({}) /\ stage' \in StagesOf /\ refusal' \in Reasons
    BY <1>1, <1>2, FS_EmptySet DEF StagesOf, Reasons
  <2>3. next' \in 0..Units(view') /\ IsFiniteSet(answers')
    BY <1>2, <2>2
  <2> QED  BY <1>2, <2>1, <2>2, <2>3 DEF RunTyped
<1>4. RunStaged'
  BY <1>2 DEF RunStaged
<1>5. UnitsTold'
  <2>1. Cardinality({}) = 0 /\ 0..(0 - 1) = {}
    BY FS_EmptySet
  <2> QED  BY <1>2, <2>1 DEF UnitsTold
<1>6. BestOfHeard'
  BY <1>2, NothingMarked, FindingsNumbers DEF BestOfHeard, Unheard
<1>7. Counted'
  BY <1>2, CostsOfNone DEF Counted, Reported, CallerTyped
<1>8. WithinCap'
  BY <1>2 DEF WithinCap
<1>9. RefusalHonest'
  BY <1>2 DEF RefusalHonest
<1> QED  BY <1>3, <1>4, <1>5, <1>6, <1>7, <1>8, <1>9 DEF FindingsInv

\* The sentences a narrowing keeps are a view.
LEMMA NarrowedIsView ==
  ASSUME CallerTyped, NEW v \in Narrowings
  PROVE  v \in Seq(Ids)
<1>1. PICK S \in Keeps : v = Narrowed(S)
  BY DEF Narrowings
<1>2. corpus \in Seq(Ids)
  BY DataAssumption DEF CallerTyped
<1> DEFINE places == {i \in DOMAIN corpus : corpus[i] \in S}
           R == {p \in Nat \X Nat : p[1] < p[2]}
           place(i) == 1 + Cardinality({j \in places : j < i})
<1>3. IsFiniteSet(places) /\ places \subseteq Nat
  <2>1. DOMAIN corpus = 1..Len(corpus) /\ Len(corpus) \in Nat
    BY <1>2
  <2>2. IsFiniteSet(1..Len(corpus))
    BY <2>1, FS_Interval
  <2> QED  BY <2>1, <2>2, FS_Subset
<1>4. Orders(R, places)
  <2>1. \A i, j \in Nat : <<i, j>> \in R <=> i < j
    OBVIOUS
  <2> HIDE DEF R, places
  <2> QED  BY <1>3, <2>1 DEF Orders
<1>5. \A i \in places : place(i) = PlaceIn(places, R, i)
  <2> SUFFICES ASSUME NEW i \in places PROVE place(i) = PlaceIn(places, R, i)
    OBVIOUS
  <2>1. {j \in places : j < i} = Below(places, R, i)
    <3> HIDE DEF places
    <3>1. \A j \in places : j \in Nat /\ i \in Nat /\ (<<j, i>> \in R <=> j < i)
      BY <1>3
    <3> HIDE DEF R
    <3> QED  BY <3>1 DEF Below
  <2> HIDE DEF places, R
  <2> QED  BY <2>1 DEF PlaceIn
<1>6. \A k \in 1..Cardinality(places) : \E i \in places : place(i) = k
  <2> HIDE DEF places, R
  <2>1. \A k \in 1..Cardinality(places) : \E i \in places : PlaceIn(places, R, i) = k
    BY <1>3, <1>4, Placing
  <2> HIDE DEF place
  <2> QED  BY <1>5, <2>1
<1>7. v = [k \in 1..Cardinality(places) |-> corpus[CHOOSE i \in places : place(i) = k]]
  BY <1>1 DEF Narrowed
<1>8. Cardinality(places) \in Nat
  <2> HIDE DEF places
  <2> QED  BY <1>3, FS_CardinalityType
<1>9. ASSUME NEW k \in 1..Cardinality(places)
      PROVE  corpus[CHOOSE i \in places : place(i) = k] \in Ids
  <2>1. (CHOOSE i \in places : place(i) = k) \in places
    <3> HIDE DEF places, place
    <3> QED  BY <1>6
  <2>2. (CHOOSE i \in places : place(i) = k) \in DOMAIN corpus
    BY <2>1
  <2> QED  BY <1>2, <2>2
<1> DEFINE kept(k) == corpus[CHOOSE i \in places : place(i) = k]
           N == Cardinality(places)
<1>10. v = [k \in 1..N |-> kept(k)] /\ N \in Nat /\ \A k \in 1..N : kept(k) \in Ids
  BY <1>7, <1>8, <1>9
<1> HIDE DEF places, place, kept, N
<1> QED  BY <1>10

\* What the end of a run for a reason says of what it did.
Honest(reason, cut) ==
  /\ reason \in Reasons \ {"none"} /\ cut \in BOOLEAN
  /\ cut => Capped
  /\ reason = "no_relevant_candidates" =>
       /\ {h[1] : h \in heard} = 0..(Units(view) - 1) /\ view # <<>>
       /\ \A h \in heard : \A p \in h[2] : p[1] \in Chunk(h[1]) => p[2] < Threshold
  /\ reason = "no_candidates_enumerated" => view = <<>>
  /\ reason \in {"too_many_candidates", "too_many_chunks"} => paid = before + first.cost
  /\ reason = "budget_exceeded" => cut /\ Capped /\ paid + Estimate >= cap

LEMMA SameChunks == view' = view => \A u : Chunk(u)' = Chunk(u)
BY DEF Chunk

LEMMA RunEnds ==
  ASSUME FindingsInv, NEW reason, NEW cut, EndRun(reason, cut), Honest(reason, cut),
         stage \in {"enumerate", "wave"}, UNCHANGED <<input, before, failed, paid>>
  PROVE  FindingsInv'
<1>1. /\ CallerTyped /\ RunTyped /\ CallerStaged /\ RunStaged
      /\ UnitsTold /\ BestOfHeard /\ Counted /\ WithinCap
  BY DEF FindingsInv
<1>2. /\ flight = {} /\ answers = {} /\ failed = "none" /\ refusal = "none" /\ ~answered
      /\ synthesisCost = 0 /\ corpus \in Seq(Ids)
  BY <1>1, DataAssumption DEF RunStaged, CallerTyped
<1>3. /\ caller' = caller /\ cap' = cap /\ corpus' = corpus /\ before' = before
      /\ failed' = failed /\ paid' = paid
  BY DEF input
<1>4. paid = before + first.cost + filterCost
  BY <1>1, <1>2, CostsOfNone DEF Counted, Reported, CallerTyped, RunTyped
<1>5. CASE Widens(reason, cut)
  <2>1. /\ Begin(corpus) /\ scope' = "wider" /\ scope = "narrowed"
        /\ first' = [refusal |-> reason, cost |-> filterCost, calls |-> calls]
    BY <1>5 DEF EndRun, Widens
  <2>2. first = NoRun /\ first.cost = 0 /\ caller = "dispatch" /\ cap = 0
    BY <1>1, <2>1 DEF CallerStaged, CallerTyped, NoRun
  <2>3. CallerTyped'
    BY <1>1, <1>3, <2>1 DEF CallerTyped, RunTyped, Honest
  <2>4. CallerStaged'
    BY <1>3, <2>1, <2>2 DEF CallerStaged
  <2>5. PICK v : v = corpus
    OBVIOUS
  <2>6. v \in Seq(Ids) /\ Begin(v) /\ v = corpus' /\ failed' = "none" /\ cap' = 0
    BY <1>2, <1>3, <2>1, <2>2, <2>5
  <2>7. paid' = before' + first'.cost
    BY <1>1, <1>3, <1>4, <2>1, <2>2 DEF CallerTyped, RunTyped
  <2> QED  BY <2>3, <2>4, <2>6, <2>7, ViewBegun DEF Capped
<1>6. CASE ~Widens(reason, cut)
  <2>1. /\ stage' = "done" /\ refusal' = reason /\ exceeded' = cut
        /\ view' = view /\ scope' = scope /\ first' = first /\ next' = next /\ flight' = flight
        /\ answers' = answers /\ best' = best /\ heard' = heard /\ filterCost' = filterCost
        /\ calls' = calls /\ synthesisCost' = synthesisCost /\ answered' = answered
    BY <1>6 DEF EndRun
  <2>2. CallerTyped' /\ CallerStaged'
    BY <1>1, <1>3, <2>1 DEF CallerTyped, CallerStaged
  <2>3. RunTyped'
    BY <1>1, <1>3, <2>1 DEF RunTyped, StagesOf, Honest
  <2>4. RunStaged'
    BY <1>1, <1>2, <1>3, <2>1 DEF RunStaged
  <2>5. UnitsTold'
    BY <1>1, <1>2, <2>1 DEF UnitsTold
  <2>6. BestOfHeard'
    BY <1>1, <2>1 DEF BestOfHeard
  <2>7. Counted'
    BY <1>1, <1>3, <2>1 DEF Counted, Reported
  <2>8. WithinCap'
    BY <1>1, <1>2, <1>3, <2>1 DEF WithinCap, Capped
  <2>9. RefusalHonest'
    <3>1. \A u : Chunk(u)' = Chunk(u)
      BY <2>1, SameChunks
    <3>2. caller = "dispatch" => view = corpus
      <4> SUFFICES ASSUME caller = "dispatch", scope = "narrowed" PROVE FALSE
        BY <1>1 DEF RunStaged
      <4>1. ~cut
        BY <1>1 DEF Honest, Capped, CallerStaged
      <4> QED  BY <1>6, <4>1 DEF Widens, RecallMiss, Honest
    <3>3. /\ reason = "no_relevant_candidates" =>
               /\ {h[1] : h \in heard'} = 0..(Units(view') - 1) /\ view' # <<>>
               /\ \A h \in heard' : \A p \in h[2] : p[1] \in Chunk(h[1])' => p[2] < Threshold
          /\ reason = "budget_exceeded" => exceeded' /\ Capped' /\ paid' + Estimate >= cap'
      BY <1>3, <2>1, <3>1 DEF Honest, Capped
    <3>4. /\ reason = "no_candidates_enumerated" => view' = <<>>
          /\ reason \in {"too_many_candidates", "too_many_chunks"} => paid' = before' + first'.cost
          /\ reason # "none" /\ ~answered' /\ (caller' = "dispatch" => view' = corpus')
      BY <1>2, <1>3, <2>1, <3>2 DEF Honest
    <3> QED  BY <2>1, <3>3, <3>4 DEF RefusalHonest
  <2> QED  BY <2>2, <2>3, <2>4, <2>5, <2>6, <2>7, <2>8, <2>9 DEF FindingsInv
<1> QED  BY <1>5, <1>6

\* A call of a run raises.
LEMMA RunFails ==
  ASSUME FindingsInv, Fail, stage \in {"gather", "synthesize"}, flight' \subseteq flight, paid' = paid
  PROVE  FindingsInv'
<1>1. /\ CallerTyped /\ RunTyped /\ CallerStaged /\ RunStaged
      /\ UnitsTold /\ BestOfHeard /\ Counted /\ WithinCap
  BY DEF FindingsInv
<1>2. /\ stage' = "done" /\ answers' = {} /\ caller' = caller /\ cap' = cap /\ corpus' = corpus
      /\ view' = view /\ before' = before /\ scope' = scope /\ first' = first /\ next' = next
      /\ synthesisCost' = synthesisCost /\ answered' = answered /\ failed' # "none"
  BY DEF Fail, input
<1>3. failed' \in {"lost", "kept"}
  BY DEF Fail
<1>4. \/ /\ refusal' = first.refusal /\ exceeded' = FALSE /\ filterCost' = first.cost
         /\ calls' = first.calls /\ best' = Unheard /\ heard' = {}
      \/ /\ refusal' = refusal /\ exceeded' = exceeded /\ filterCost' = filterCost
         /\ calls' = calls /\ best' = best /\ heard' = heard
  BY DEF Fail
<1>5. CallerTyped' /\ CallerStaged'
  BY <1>1, <1>2, <1>3 DEF CallerTyped, CallerStaged
<1>6. RunTyped'
  <2>1. best' \in [Ids -> Scores \cup {NoScore}] /\ heard' \subseteq Nat \X Answers
    BY <1>1, <1>4 DEF RunTyped, Unheard
  <2>2. filterCost' \in Nat /\ calls' \in Nat /\ exceeded' \in BOOLEAN /\ refusal' \in Reasons
    BY <1>1, <1>4 DEF RunTyped, CallerTyped
  <2>3. answers' \subseteq (0..(next' - 1)) \X Answers \X FilterCosts /\ IsFiniteSet(answers')
    BY <1>2, FS_EmptySet
  <2> QED  BY <1>1, <1>2, <2>1, <2>2, <2>3 DEF RunTyped, StagesOf
<1>7. RunStaged'
  BY <1>1, <1>2 DEF RunStaged
<1>8. UnitsTold'
  BY <1>1, <1>2, <1>4 DEF UnitsTold
<1>9. BestOfHeard'
  <2>1. CASE best' = Unheard /\ heard' = {}
    BY <2>1, NothingMarked, FindingsNumbers DEF BestOfHeard, Unheard
  <2>2. CASE best' = best /\ heard' = heard
    BY <1>1, <1>2, <2>2 DEF BestOfHeard
  <2> QED  BY <1>4, <2>1, <2>2
<1>10. Counted'
  BY <1>2 DEF Counted
<1>11. WithinCap'
  <2> SUFFICES ASSUME Capped PROVE WithinCap'
    BY <1>2 DEF WithinCap, Capped
  <2>1. paid = before \/ paid <= cap - 1 + WaveCost \/ paid <= cap - Estimate + MaxSynthesis
    BY <1>1 DEF WithinCap
  <2>2. ASSUME flight' # {}
        PROVE  paid + Cardinality(flight') * MaxFilter <= cap - 1 + WaveCost
    <3>1. paid + Cardinality(flight) * MaxFilter <= cap - 1 + WaveCost
      BY <1>1, <2>2 DEF WithinCap
    <3>2. IsFiniteSet(0..(next - 1))
      BY <1>1, FS_Interval, UnitsNatural DEF RunTyped
    <3>3. IsFiniteSet(flight)
      BY <1>1, <3>2, FS_Subset DEF RunTyped
    <3>4. Cardinality(flight) \in Nat /\ Cardinality(flight') \in Nat /\ Cardinality(flight') <= Cardinality(flight)
      BY <3>3, FS_Subset, FS_CardinalityType
    <3>5. /\ Cardinality(flight') * MaxFilter <= Cardinality(flight) * MaxFilter
          /\ Cardinality(flight') * MaxFilter \in Nat /\ Cardinality(flight) * MaxFilter \in Nat
      BY <3>4, CostsLess, FindingsNumbers
    <3>6. paid \in Nat /\ cap \in Int /\ WaveCost \in Nat
      BY <1>1, NumbersAssumption, FindingsNumbers DEF CallerTyped
    <3> DEFINE x == Cardinality(flight') * MaxFilter
               y == Cardinality(flight) * MaxFilter
    <3>7. x \in Nat /\ y \in Nat /\ x <= y /\ paid + y <= cap - 1 + WaveCost
      BY <3>1, <3>5
    <3>8. paid + x <= cap - 1 + WaveCost
      <4> HIDE DEF x, y
      <4> QED  BY <3>6, <3>7
    <3> QED  BY <3>8
  <2> QED  BY <1>2, <2>1, <2>2 DEF WithinCap
<1>12. RefusalHonest'
  BY <1>2 DEF RefusalHonest
<1> QED  BY <1>5, <1>6, <1>7, <1>8, <1>9, <1>10, <1>11, <1>12 DEF FindingsInv

LEMMA FindingsPlanned == ASSUME FindingsInv, Tool PROVE FindingsInv'
<1>1. /\ CallerTyped /\ RunTyped /\ CallerStaged /\ RunStaged
      /\ UnitsTold /\ BestOfHeard /\ Counted /\ WithinCap
  BY DEF FindingsInv
<1>2. /\ caller = "tool" /\ stage = "plan" /\ caller' = caller /\ cap' = cap /\ corpus' = corpus
      /\ scope' = scope /\ first' = first
  BY DEF Tool, input
<1>3. /\ scope = "whole" /\ first = NoRun /\ first.cost = 0 /\ before = 0 /\ view = corpus
      /\ failed = "none" /\ refusal = "none" /\ ~answered /\ synthesisCost = 0 /\ filterCost = 0
      /\ answers = {} /\ flight = {} /\ paid = 0 /\ corpus \in Seq(Ids)
  <2>1. /\ scope = "whole" /\ before = 0 /\ view = corpus /\ failed = "none" /\ refusal = "none"
        /\ ~answered /\ synthesisCost = 0 /\ filterCost = 0 /\ answers = {} /\ flight = {}
    BY <1>1, <1>2 DEF RunStaged, CallerStaged
  <2>2. first = NoRun /\ first.cost = 0
    BY <1>1, <2>1 DEF CallerStaged, NoRun
  <2>3. paid = 0
    BY <1>1, <2>1, <2>2, CostsOfNone DEF Counted, Reported, CallerTyped
  <2>4. corpus \in Seq(Ids)
    BY <1>1, DataAssumption DEF CallerTyped
  <2> QED  BY <1>1, <1>2, <2>1, <2>2, <2>3, <2>4 DEF CallerStaged
\* The call is over without a run.
<1>4. ASSUME stage' = "done", failed' = "lost" \/ (failed' = failed /\ Capped /\ paid' >= cap /\ exceeded' /\ refusal' = "budget_exceeded"),
             before' \in Nat, paid' = before', failed' \in {"lost", "none"},
             exceeded' \in BOOLEAN, refusal' \in Reasons,
             UNCHANGED <<view, next, flight, answers, best, heard, filterCost, calls, synthesisCost, answered>>
      PROVE  FindingsInv'
  <2>1. CallerTyped' /\ CallerStaged'
    BY <1>1, <1>2, <1>4 DEF CallerTyped, CallerStaged
  <2>2. RunTyped'
    BY <1>1, <1>4 DEF RunTyped, StagesOf
  <2>3. RunStaged'
    BY <1>1, <1>2, <1>3, <1>4 DEF RunStaged
  <2>4. UnitsTold'
    BY <1>1, <1>2, <1>4 DEF UnitsTold
  <2>5. BestOfHeard'
    BY <1>1, <1>4 DEF BestOfHeard
  <2>6. Counted'
    BY <1>1, <1>2, <1>3, <1>4, CostsOfNone DEF Counted, Reported
  <2>7. WithinCap'
    BY <1>3, <1>4 DEF WithinCap
  <2>8. RefusalHonest'
    <3>1. CASE failed' = "lost"
      BY <3>1 DEF RefusalHonest
    <3>2. CASE failed' = failed /\ Capped /\ paid' >= cap /\ exceeded' /\ refusal' = "budget_exceeded"
      <4>1. paid' + Estimate >= cap'
        BY <1>1, <1>2, <1>4, <3>2, NumbersAssumption DEF CallerTyped
      <4>2. Capped' /\ caller' # "dispatch" /\ ~answered'
        BY <1>2, <1>3, <1>4, <3>2 DEF Capped
      <4> QED  BY <3>2, <4>1, <4>2 DEF RefusalHonest
    <3> QED  BY <1>4, <3>1, <3>2
  <2> QED  BY <2>1, <2>2, <2>3, <2>4, <2>5, <2>6, <2>7, <2>8 DEF FindingsInv
<1>5. CASE \E c \in PlanningCosts \cup {0} :
             /\ before' = c /\ paid' = paid + c
             /\ \/ /\ Capped /\ c >= cap
                   /\ stage' = "done" /\ exceeded' = TRUE /\ refusal' = "budget_exceeded"
                   /\ UNCHANGED <<view, next, flight, answers, best, heard, filterCost, calls,
                                  synthesisCost, answered, failed>>
                \/ ~(Capped /\ c >= cap) /\ Begin(corpus) /\ UNCHANGED failed
                \/ /\ stage' = "done" /\ failed' = "lost"
                   /\ UNCHANGED <<view, next, flight, answers, best, heard, results>>
  <2>1. PICK c \in PlanningCosts \cup {0} :
             /\ before' = c /\ paid' = paid + c
             /\ \/ /\ Capped /\ c >= cap
                   /\ stage' = "done" /\ exceeded' = TRUE /\ refusal' = "budget_exceeded"
                   /\ UNCHANGED <<view, next, flight, answers, best, heard, filterCost, calls,
                                  synthesisCost, answered, failed>>
                \/ ~(Capped /\ c >= cap) /\ Begin(corpus) /\ UNCHANGED failed
                \/ /\ stage' = "done" /\ failed' = "lost"
                   /\ UNCHANGED <<view, next, flight, answers, best, heard, results>>
    BY <1>5
  <2>2. c \in Nat /\ before' = c /\ paid' = before'
    BY <1>3, <2>1, NumbersAssumption
  <2>3. CASE /\ Capped /\ c >= cap
             /\ stage' = "done" /\ exceeded' = TRUE /\ refusal' = "budget_exceeded"
             /\ UNCHANGED <<view, next, flight, answers, best, heard, filterCost, calls,
                            synthesisCost, answered, failed>>
    BY <1>3, <1>4, <2>2, <2>3 DEF Reasons
  <2>4. CASE Begin(corpus) /\ UNCHANGED failed
    <3>1. CallerTyped' /\ CallerStaged'
      BY <1>1, <1>2, <2>2, <2>4 DEF CallerTyped, CallerStaged
    <3>2. PICK v : v = corpus
      OBVIOUS
    <3>3. v \in Seq(Ids) /\ Begin(v) /\ v = corpus' /\ failed' = "none" /\ first'.cost = 0 /\ paid' = before' + first'.cost
      BY <1>2, <1>3, <2>2, <2>4, <3>2
    <3> QED  BY <2>2, <3>1, <3>3, ViewBegun
  <2>5. CASE stage' = "done" /\ failed' = "lost" /\ UNCHANGED <<view, next, flight, answers, best, heard, results>>
    BY <1>1, <1>4, <2>2, <2>5 DEF results, RunTyped
  <2> QED  BY <2>1, <2>3, <2>4, <2>5
<1>6. CASE stage' = "done" /\ failed' = "lost"
           /\ UNCHANGED <<view, next, flight, answers, best, heard, results, before, paid>>
  BY <1>1, <1>3, <1>4, <1>6 DEF results, RunTyped
<1> QED  BY <1>5, <1>6 DEF Tool

LEMMA FindingsDispatched == ASSUME FindingsInv, Dispatch PROVE FindingsInv'
<1>1. /\ CallerTyped /\ RunTyped /\ CallerStaged /\ RunStaged
      /\ UnitsTold /\ BestOfHeard /\ Counted /\ WithinCap
  BY DEF FindingsInv
<1>2. /\ caller = "dispatch" /\ stage = "plan" /\ caller' = caller /\ cap' = cap /\ corpus' = corpus
      /\ failed' = failed /\ first' = first
  BY DEF Dispatch, input
<1>3. /\ scope = "whole" /\ first = NoRun /\ first.cost = 0 /\ before = 0 /\ view = corpus
      /\ failed = "none" /\ synthesisCost = 0 /\ filterCost = 0
      /\ answers = {} /\ flight = {} /\ paid = 0 /\ corpus \in Seq(Ids) /\ cap = 0
  <2>1. /\ scope = "whole" /\ before = 0 /\ view = corpus /\ failed = "none" /\ refusal = "none"
        /\ ~answered /\ synthesisCost = 0 /\ filterCost = 0 /\ answers = {} /\ flight = {}
    BY <1>1, <1>2 DEF RunStaged, CallerStaged
  <2>2. first = NoRun /\ first.cost = 0
    BY <1>1, <2>1 DEF CallerStaged, NoRun
  <2>3. paid = 0
    BY <1>1, <2>1, <2>2, CostsOfNone DEF Counted, Reported, CallerTyped
  <2>4. corpus \in Seq(Ids)
    BY <1>1, DataAssumption DEF CallerTyped
  <2> QED  BY <1>1, <1>2, <2>1, <2>2, <2>3, <2>4 DEF CallerStaged
<1>4. ASSUME NEW v \in Seq(Ids), Begin(v), before' \in Nat, paid' = before',
             scope' \in {"whole", "narrowed"}, scope' # "narrowed" => v = corpus
      PROVE  FindingsInv'
  <2>1. CallerTyped' /\ CallerStaged'
    BY <1>1, <1>2, <1>3, <1>4 DEF CallerTyped, CallerStaged
  <2>2. first'.cost = 0
    BY <1>2, <1>3
  <2>3. paid' = before' + first'.cost
    <3>1. PICK b \in Nat : before' = b /\ paid' = b
      BY <1>4
    <3>2. b + 0 = b
      OBVIOUS
    <3> QED  BY <2>2, <3>1, <3>2
  <2> QED  BY <1>2, <1>3, <1>4, <2>1, <2>3, ViewBegun
<1>5. PICK v : v = corpus
  OBVIOUS
<1>6. CASE Begin(corpus) /\ UNCHANGED <<before, paid, scope>>
  BY <1>3, <1>4, <1>5, <1>6
<1>7. ASSUME NEW c \in PlanningCosts, before' = c, paid' = paid + c,
             \/ Begin(corpus) /\ UNCHANGED scope
             \/ \E w \in Narrowings : Begin(w) /\ scope' = "narrowed"
      PROVE  FindingsInv'
  <2>1. before' \in Nat /\ paid' = before'
    BY <1>3, <1>7, NumbersAssumption
  <2>2. CASE Begin(corpus) /\ UNCHANGED scope
    BY <1>3, <1>4, <1>5, <2>1, <2>2
  <2>3. ASSUME NEW w \in Narrowings, Begin(w), scope' = "narrowed" PROVE FindingsInv'
    BY <1>1, <1>4, <2>1, <2>3, NarrowedIsView
  <2> QED  BY <1>7, <2>2, <2>3
<1> QED  BY <1>6, <1>7 DEF Dispatch

LEMMA FindingsEnumerated == ASSUME FindingsInv, Enumerate PROVE FindingsInv'
<1>1. /\ CallerTyped /\ RunTyped /\ CallerStaged /\ RunStaged
      /\ UnitsTold /\ BestOfHeard /\ Counted /\ WithinCap
  BY DEF FindingsInv
<1>2. /\ stage = "enumerate" /\ UNCHANGED <<input, before, failed, paid>>
      /\ caller' = caller /\ cap' = cap /\ corpus' = corpus /\ before' = before
      /\ failed' = failed /\ paid' = paid
  BY DEF Enumerate, input
<1>3. answers = {} /\ filterCost = 0 /\ synthesisCost = 0 /\ failed = "none" /\ next = 0 /\ flight = {}
  BY <1>1, <1>2 DEF RunStaged
<1>4. paid = before + first.cost
  <2>1. paid = before + first.cost + 0 + 0 + 0
    BY <1>1, <1>3, CostsOfNone DEF Counted, Reported
  <2>2. before \in Nat /\ first.cost \in Nat
    BY <1>1 DEF CallerTyped
  <2> QED  BY <2>1, <2>2
<1>5. Len(view) \in Nat /\ (Len(view) = 0 => view = <<>>) /\ (view = <<>> => Len(view) = 0)
  BY <1>1, UnitsNatural DEF RunTyped
<1>6. CASE stage' = "wave" /\ view # <<>>
           /\ UNCHANGED <<view, scope, first, next, flight, answers, best, heard, results>>
  <2>1. /\ stage' = "wave" /\ view' = view /\ scope' = scope /\ first' = first /\ next' = next
        /\ flight' = flight /\ answers' = answers /\ best' = best /\ heard' = heard
        /\ filterCost' = filterCost /\ calls' = calls /\ synthesisCost' = synthesisCost
        /\ exceeded' = exceeded /\ refusal' = refusal /\ answered' = answered
    BY <1>6 DEF results
  <2>2. CallerTyped' /\ CallerStaged'
    BY <1>1, <1>2, <2>1 DEF CallerTyped, CallerStaged
  <2>3. RunTyped'
    BY <1>1, <2>1 DEF RunTyped, StagesOf
  <2>4. RunStaged'
    BY <1>1, <1>2, <1>3, <1>6, <2>1 DEF RunStaged
  <2>5. UnitsTold'
    BY <1>1, <1>2, <2>1 DEF UnitsTold
  <2>6. BestOfHeard'
    BY <1>1, <2>1 DEF BestOfHeard
  <2>7. Counted'
    BY <1>1, <1>2, <2>1 DEF Counted, Reported
  <2>8. WithinCap'
    BY <1>1, <1>2, <1>3, <2>1 DEF WithinCap, Capped
  <2>9. RefusalHonest'
    BY <2>1 DEF RefusalHonest
  <2> QED  BY <2>2, <2>3, <2>4, <2>5, <2>6, <2>7, <2>8, <2>9 DEF FindingsInv
<1>7. ASSUME NEW why \in {"too_many_candidates", "no_candidates_enumerated", "too_many_chunks"},
             why = "no_candidates_enumerated" => view = <<>>, EndRun(why, FALSE)
      PROVE  FindingsInv'
  <2>1. Honest(why, FALSE)
    BY <1>4, <1>7 DEF Honest, Reasons
  <2> QED  BY <1>2, <1>7, <2>1, RunEnds
<1>8. CASE Len(view) > MaxCandidates
  BY <1>7, <1>8 DEF Enumerate
<1>9. CASE ~(Len(view) > MaxCandidates) /\ Len(view) = 0
  BY <1>5, <1>7, <1>9 DEF Enumerate
<1>10. CASE ~(Len(view) > MaxCandidates) /\ Len(view) # 0 /\ Units(view) > MaxChunks
  BY <1>7, <1>10 DEF Enumerate
<1>11. CASE ~(Len(view) > MaxCandidates) /\ Len(view) # 0 /\ ~(Units(view) > MaxChunks)
  BY <1>5, <1>6, <1>11 DEF Enumerate
<1> QED  BY <1>8, <1>9, <1>10, <1>11

LEMMA FindingsWaves == ASSUME FindingsInv, Wave PROVE FindingsInv'
<1>1. /\ CallerTyped /\ RunTyped /\ CallerStaged /\ RunStaged
      /\ UnitsTold /\ BestOfHeard /\ Counted /\ WithinCap
  BY DEF FindingsInv
<1>2. PICK end : end = WaveEnd
  OBVIOUS
<1>3. /\ stage = "wave" /\ next < Units(view) /\ ~OverCap /\ stage' = "gather"
      /\ flight' = next..(end - 1) /\ next' = end
      /\ caller' = caller /\ cap' = cap /\ corpus' = corpus /\ view' = view /\ before' = before
      /\ scope' = scope /\ first' = first /\ answers' = answers /\ best' = best
      /\ filterCost' = filterCost /\ calls' = calls /\ synthesisCost' = synthesisCost
      /\ exceeded' = exceeded /\ refusal' = refusal /\ answered' = answered
      /\ failed' = failed /\ paid' = paid /\ heard' = heard
  BY <1>2 DEF Wave, input, results
<1>4. PICK m \in Nat : m = next
  BY <1>1, UnitsNatural DEF RunTyped
<1>5. Units(view) \in Nat /\ NumParallel \in Nat /\ NumParallel > 0
  BY <1>1, UnitsNatural, NumbersAssumption DEF RunTyped
<1>6. end \in Nat /\ end > m /\ end <= m + NumParallel /\ end <= Units(view)
  BY <1>2, <1>3, <1>4, <1>5, LesserOf DEF WaveEnd
<1>7. /\ flight = {} /\ answers = {} /\ failed = "none" /\ refusal = "none" /\ ~answered
      /\ synthesisCost = 0 /\ view # <<>>
  BY <1>1, <1>3 DEF RunStaged
<1>8. Cardinality(m..(end - 1)) = end - m
  BY <1>6, FS_Interval
<1>9. CallerTyped' /\ CallerStaged'
  BY <1>1, <1>3 DEF CallerTyped, CallerStaged
<1>10. RunTyped'
  <2>1. next' \in 0..Units(view') /\ flight' \subseteq 0..(next' - 1)
    BY <1>3, <1>4, <1>5, <1>6
  <2>2. answers' \subseteq (0..(next' - 1)) \X Answers \X FilterCosts
    BY <1>3, <1>7
  <2> QED  BY <1>1, <1>3, <2>1, <2>2 DEF RunTyped, StagesOf
<1>11. RunStaged'
  BY <1>1, <1>3, <1>7 DEF RunStaged
<1>12. UnitsTold'
  <2>1. {h[1] : h \in heard} = 0..(m - 1) /\ calls + 0 + 0 = m /\ calls \in Nat
    BY <1>1, <1>3, <1>4, <1>7, FS_EmptySet DEF UnitsTold, RunTyped
  <2>2. {h[1] : h \in heard'} \cup {a[1] : a \in answers'} \cup flight' = 0..(next' - 1)
    <3>1. (0..(m - 1)) \cup (m..(end - 1)) = 0..(end - 1)
      BY <1>6
    <3>2. {h[1] : h \in heard'} = 0..(m - 1) /\ {a[1] : a \in answers'} = {}
      BY <1>3, <1>7, <2>1
    <3> QED  BY <1>3, <1>4, <3>1, <3>2
  <2>3. calls' + Cardinality(answers') + Cardinality(flight') = next' /\ calls' <= next'
    <3>1. calls' = m /\ Cardinality(answers') = 0 /\ Cardinality(flight') = end - m /\ next' = end
      BY <1>3, <1>4, <1>7, <1>8, <2>1, FS_EmptySet
    <3> QED  BY <1>6, <3>1
  <2> QED  BY <1>3, <1>7, <2>2, <2>3 DEF UnitsTold
<1>13. BestOfHeard'
  BY <1>1, <1>3 DEF BestOfHeard
<1>14. Counted'
  BY <1>1, <1>3 DEF Counted, Reported
<1>15. WithinCap'
  <2> SUFFICES ASSUME Capped PROVE WithinCap'
    BY <1>3 DEF WithinCap, Capped
  <2>1. caller = "tool" /\ first = NoRun /\ first.cost = 0
    BY <1>1 DEF CallerStaged, CallerTyped, Capped, NoRun
  <2>2. paid = before + 0 + filterCost + 0 + 0
    BY <1>1, <1>7, <2>1, CostsOfNone DEF Counted, Reported
  <2>3. before \in Nat /\ filterCost \in Nat /\ cap \in Nat /\ paid \in Nat
    BY <1>1, NumbersAssumption DEF CallerTyped, RunTyped
  <2>4. filterCost < cap - before
    BY <1>3, <2>3 DEF OverCap, AgentCap, Capped
  <2>5. paid <= cap - 1
    BY <2>2, <2>3, <2>4
  <2>6. MaxFilter \in Nat /\ WaveCost \in Nat
    BY FindingsNumbers
  <2> DEFINE spent == (end - m) * MaxFilter
  <2>7. spent \in Nat /\ spent <= WaveCost
    <3>1. end - m \in Nat /\ end - m <= NumParallel
      BY <1>5, <1>6
    <3> QED  BY <1>5, <2>6, <3>1, CostsLess DEF WaveCost
  <2> HIDE DEF spent
  <2>8. paid + spent <= cap - 1 + WaveCost /\ paid <= cap - 1 + WaveCost
    BY <2>3, <2>5, <2>6, <2>7
  <2>9. Cardinality(flight') * MaxFilter = spent
    BY <1>3, <1>4, <1>8 DEF spent
  <2> QED  BY <1>3, <2>8, <2>9 DEF WithinCap
<1>16. RefusalHonest'
  BY <1>3 DEF RefusalHonest
<1> QED  BY <1>9, <1>10, <1>11, <1>12, <1>13, <1>14, <1>15, <1>16 DEF FindingsInv

\* What the calls of a wave say and cost.
LEMMA WaveTold ==
  ASSUME RunTyped
  PROVE  /\ \A a \in answers : a[1] \in Nat /\ a[2] \in Answers /\ a[3] \in FilterCosts /\ a[3] \in Nat
         /\ Costs(answers) \in Nat /\ Cardinality(answers) \in Nat
         /\ IsFiniteSet(flight) /\ Cardinality(flight) \in Nat /\ next \in Nat
<1>1. next \in Nat
  BY UnitsNatural DEF RunTyped
<1>2. FilterCosts \subseteq Nat
  BY NumbersAssumption
<1>3. \A a \in answers : a[1] \in 0..(next - 1) /\ a[2] \in Answers /\ a[3] \in FilterCosts
  BY DEF RunTyped
<1>4. \A a \in answers : a[3] \in Nat
  BY <1>2, <1>3
<1>5. IsFiniteSet(answers)
  BY DEF RunTyped
<1>6. Costs(answers) \in Nat
  <2>1. \A a \in answers : CostOf(answers)[a] \in Nat
    BY <1>4 DEF CostOf
  <2>2. SumOver(CostOf(answers), answers) \in Nat
    BY <1>5, <2>1, SumNat
  <2> QED  BY <1>4, <1>5, <2>2, CostsSum
<1>7. IsFiniteSet(flight)
  <2>1. IsFiniteSet(0..(next - 1)) /\ flight \subseteq 0..(next - 1)
    BY <1>1, FS_Interval DEF RunTyped
  <2> QED  BY <2>1, FS_Subset
<1> QED  BY <1>1, <1>3, <1>4, <1>5, <1>6, <1>7, FS_CardinalityType

LEMMA FindingsAnswered ==
  ASSUME FindingsInv, NEW u \in flight, Answer(u) PROVE FindingsInv'
<1>1. /\ CallerTyped /\ RunTyped /\ CallerStaged /\ RunStaged
      /\ UnitsTold /\ BestOfHeard /\ Counted /\ WithinCap
  BY DEF FindingsInv
<1>2. /\ flight' = flight \ {u} /\ stage' = stage /\ view' = view /\ next' = next
      /\ caller' = caller /\ cap' = cap /\ corpus' = corpus /\ before' = before
      /\ scope' = scope /\ first' = first /\ best' = best
      /\ filterCost' = filterCost /\ calls' = calls /\ synthesisCost' = synthesisCost
      /\ exceeded' = exceeded /\ refusal' = refusal /\ answered' = answered
      /\ failed' = failed /\ heard' = heard
  BY DEF Answer, input, results
<1>3. PICK said \in Answers, c \in FilterCosts :
        /\ answers' = IF stage = "gather" THEN answers \cup {<<u, said, c>>} ELSE {}
        /\ paid' = paid + c
  BY DEF Answer
<1>4. c \in Nat /\ c <= MaxFilter /\ MaxFilter \in Nat /\ WaveCost \in Nat
  BY NumbersAssumption, FindingsNumbers
<1>5. /\ Costs(answers) \in Nat /\ Cardinality(answers) \in Nat /\ IsFiniteSet(answers)
      /\ IsFiniteSet(flight) /\ Cardinality(flight) \in Nat /\ next \in Nat
      /\ \A a \in answers : a[3] \in Nat
  BY <1>1, WaveTold DEF RunTyped
<1> DEFINE y == <<u, said, c>>
<1>6. y[1] = u /\ y[2] = said /\ y[3] = c /\ y \notin answers /\ y \in (0..(next - 1)) \X Answers \X FilterCosts
  BY <1>1 DEF UnitsTold, RunTyped
<1>7. stage = "gather" \/ (stage = "done" /\ failed # "none")
  BY <1>1 DEF RunStaged
<1>8. IsFiniteSet(flight') /\ Cardinality(flight') = Cardinality(flight) - 1 /\ Cardinality(flight) > 0
  BY <1>2, <1>5, LessOne
<1>9. CallerTyped' /\ CallerStaged'
  BY <1>1, <1>2, <1>3, <1>4 DEF CallerTyped, CallerStaged
<1>10. answers' = answers \cup {y} \/ answers' = {}
  BY <1>3
<1>11. RunTyped'
  <2>1. answers' \subseteq (0..(next - 1)) \X Answers \X FilterCosts
    BY <1>1, <1>6, <1>10 DEF RunTyped
  <2>2. IsFiniteSet(answers')
    <3>1. IsFiniteSet(answers \cup {y}) /\ IsFiniteSet({})
      <4> HIDE DEF y
      <4> QED  BY <1>5, FS_AddElement, FS_EmptySet
    <3> HIDE DEF y
    <3>2. CASE answers' = answers \cup {y}
      BY <3>1, <3>2
    <3>3. CASE answers' = {}
      BY <3>1, <3>3
    <3> QED  BY <1>10, <3>2, <3>3
  <2> HIDE DEF y
  <2> QED  BY <1>1, <1>2, <2>1, <2>2 DEF RunTyped
<1>12. RunStaged'
  BY <1>1, <1>2, <1>3 DEF RunStaged
<1>13. UnitsTold'
  <2>1. CASE stage = "gather"
    <3>1. answers' = answers \cup {y}
      BY <1>3, <2>1
    <3>2. \A a \in answers' : a[1] \notin flight'
      BY <1>1, <1>2, <1>6, <3>1 DEF UnitsTold
    <3>3. {a[1] : a \in answers'} = {a[1] : a \in answers} \cup {u}
      BY <1>6, <3>1
    <3>4. {h[1] : h \in heard'} \cup {a[1] : a \in answers'} \cup flight' = 0..(next' - 1)
      <4>1. {h[1] : h \in heard} \cup {a[1] : a \in answers} \cup flight = 0..(next - 1)
        BY <1>1, <2>1 DEF UnitsTold
      <4> QED  BY <1>2, <3>3, <4>1
    <3>5. Cardinality(answers') = Cardinality(answers) + 1
      BY <1>5, <1>6, <3>1, FS_AddElement
    <3>6. calls' + Cardinality(answers') + Cardinality(flight') = next'
      <4>1. calls + Cardinality(answers) + Cardinality(flight) = next /\ calls \in Nat
        BY <1>1, <2>1 DEF UnitsTold, RunTyped
      <4> QED  BY <1>2, <1>5, <1>8, <3>5, <4>1
    <3> HIDE DEF y
    <3> QED  BY <1>1, <1>2, <3>2, <3>4, <3>6 DEF UnitsTold
  <2>2. CASE stage = "done"
    BY <1>1, <1>2, <1>3, <2>2 DEF UnitsTold
  <2> QED  BY <1>7, <2>1, <2>2
<1>14. BestOfHeard'
  BY <1>1, <1>2 DEF BestOfHeard
<1>15. Counted'
  <2> SUFFICES ASSUME failed = "none" PROVE Counted'
    BY <1>2 DEF Counted
  <2>1. answers' = answers \cup {y}
    BY <1>3, <1>7
  <2>2. Costs(answers \cup {y}) = Costs(answers) + c
    BY <1>4, <1>5, <1>6, CostsPlus
  <2> HIDE DEF y
  <2> DEFINE r == before + first.cost + filterCost + synthesisCost
  <2>3. paid = r + Costs(answers) /\ r \in Nat /\ paid' = paid + c /\ Reported' = r
    BY <1>1, <1>2, <1>3 DEF Counted, Reported, CallerTyped, RunTyped
  <2> HIDE DEF r
  <2>4. PICK k \in Nat : k = Costs(answers)
    BY <1>5
  <2>5. paid' = r + (k + c)
    BY <1>4, <2>3, <2>4
  <2> QED  BY <2>1, <2>2, <2>3, <2>4, <2>5 DEF Counted
<1>16. WithinCap'
  <2> SUFFICES ASSUME Capped PROVE WithinCap'
    BY <1>2 DEF WithinCap, Capped
  <2> DEFINE q == Cardinality(flight)
  <2>1. paid + q * MaxFilter <= cap - 1 + WaveCost
    BY <1>1 DEF WithinCap
  <2>2. q \in Nat /\ q > 0 /\ paid \in Nat /\ cap \in Nat
    BY <1>1, <1>5, <1>8, NumbersAssumption DEF CallerTyped
  <2> HIDE DEF q
  <2>3. (q - 1) * MaxFilter = q * MaxFilter - MaxFilter /\ q * MaxFilter \in Nat /\ (q - 1) * MaxFilter \in Nat
    BY <1>4, <2>2, CostsLess
  <2> DEFINE x == q * MaxFilter
             z == (q - 1) * MaxFilter
  <2>4. x \in Nat /\ z \in Nat /\ z = x - MaxFilter /\ paid + x <= cap - 1 + WaveCost
    BY <2>1, <2>3
  <2>5. Cardinality(flight') * MaxFilter = z
    BY <1>8 DEF q
  <2> HIDE DEF x, z
  <2>6. paid' + z <= cap - 1 + WaveCost /\ paid' <= cap - 1 + WaveCost
    BY <1>3, <1>4, <2>2, <2>4
  <2>7. stage' # "synthesize"
    BY <1>2, <1>7
  <2> QED  BY <1>2, <2>5, <2>6, <2>7 DEF WithinCap
<1>17. RefusalHonest'
  BY <1>2, <1>7 DEF RefusalHonest
<1> QED  BY <1>9, <1>11, <1>12, <1>13, <1>14, <1>15, <1>16, <1>17 DEF FindingsInv

LEMMA FindingsRaised ==
  ASSUME FindingsInv, NEW u \in flight, Raise(u) PROVE FindingsInv'
<1>1. stage = "gather" /\ flight' = flight \ {u} /\ Fail /\ paid' = paid
  BY DEF Raise
<1> QED  BY <1>1, RunFails

\* The union of the runs keeps the best of what was heard.
LEMMA UnionKeeps ==
  ASSUME NEW old \in [Ids -> Scores \cup {NoScore}], NEW pairs, NEW v, NEW H, NEW told,
         \A h \in H \cup told : h[2] \subseteq Ids \X Scores,
         \A p : p \in pairs <=> \E h \in told : p \in h[2] /\ p[1] \in ChunkOf(v, h[1]) /\ p[2] >= Threshold,
         \A id \in Ids : old[id] \in MarksIn(H, v, id) /\ \A s \in MarksIn(H, v, id) : s <= old[id]
  PROVE  /\ Union(old, pairs) \in [Ids -> Scores \cup {NoScore}]
         /\ \A id \in Ids : /\ Union(old, pairs)[id] \in MarksIn(H \cup told, v, id)
                            /\ \A s \in MarksIn(H \cup told, v, id) : s <= Union(old, pairs)[id]
<1> DEFINE new(id) == {p[2] : p \in {q \in pairs : q[1] = id}}
           all(id) == {old[id]} \cup new(id)
<1>1. \A p \in pairs : p \in Ids \X Scores /\ p[2] \in Scores
  <2> SUFFICES ASSUME NEW p \in pairs PROVE p \in Ids \X Scores
    OBVIOUS
  <2>1. PICK h \in told : p \in h[2]
    OBVIOUS
  <2> QED  BY <2>1
<1>2. ASSUME NEW id \in Ids
      PROVE  MarksIn(H \cup told, v, id) = MarksIn(H, v, id) \cup new(id)
  <2>1. ASSUME NEW s \in new(id) PROVE s \in MarksIn(H \cup told, v, id)
    <3>1. PICK p \in pairs : p[1] = id /\ p[2] = s
      BY <2>1
    <3>2. PICK h \in told : p \in h[2] /\ p[1] \in ChunkOf(v, h[1]) /\ p[2] >= Threshold
      OBVIOUS
    <3> QED  BY <1>1, <3>1, <3>2 DEF MarksIn
  <2>2. ASSUME NEW s \in MarksIn(H \cup told, v, id), s \notin MarksIn(H, v, id) PROVE s \in new(id)
    <3>1. PICK h \in told : \E p \in h[2] :
            id \in ChunkOf(v, h[1]) /\ p[1] = id /\ p[2] = s /\ s >= Threshold
      BY <2>2 DEF MarksIn
    <3>2. PICK p \in h[2] : id \in ChunkOf(v, h[1]) /\ p[1] = id /\ p[2] = s /\ s >= Threshold
      BY <3>1
    <3>3. p \in pairs
      BY <3>2
    <3> QED  BY <3>2, <3>3
  <2>3. MarksIn(H, v, id) \subseteq MarksIn(H \cup told, v, id)
    BY DEF MarksIn
  <2> HIDE DEF new
  <2> QED  BY <2>1, <2>2, <2>3
<1>3. ASSUME NEW id \in Ids
      PROVE  /\ all(id) \subseteq Scores \cup {NoScore} /\ all(id) \subseteq Int
             /\ Max(all(id)) \in all(id) /\ \A x \in all(id) : x <= Max(all(id))
  <2>1. new(id) \subseteq Scores
    BY <1>1
  <2>2. all(id) \subseteq Scores \cup {NoScore} /\ all(id) # {}
    BY <2>1
  <2>3. IsFiniteSet(Scores \cup {NoScore}) /\ Scores \cup {NoScore} \subseteq Int
    BY FindingsNumbers, FS_AddElement
  <2> HIDE DEF all
  <2>4. IsFiniteSet(all(id)) /\ all(id) \subseteq Int
    BY <2>2, <2>3, FS_Subset
  <2> QED  BY <2>2, <2>4, GreatestOf
<1>4. \A id \in Ids : Union(old, pairs)[id] = Max(all(id))
  BY DEF Union
<1>5. Union(old, pairs) \in [Ids -> Scores \cup {NoScore}]
  <2>1. Union(old, pairs) = [id \in Ids |-> Max(all(id))]
    BY DEF Union
  <2> HIDE DEF all
  <2> QED  BY <1>3, <2>1
<1>6. ASSUME NEW id \in Ids
      PROVE  /\ Union(old, pairs)[id] \in MarksIn(H \cup told, v, id)
             /\ \A s \in MarksIn(H \cup told, v, id) : s <= Union(old, pairs)[id]
  <2> DEFINE m == Max(all(id))
  <2>1. m \in all(id) /\ (\A x \in all(id) : x <= m) /\ m \in Int /\ old[id] \in all(id) /\ old[id] \in Int
    BY <1>3
  <2>2. \A x \in new(id) : x \in all(id)
    OBVIOUS
  <2>3. m \in MarksIn(H, v, id) \cup new(id)
    BY <2>1
  <2> HIDE DEF m, all, new
  <2>4. \A s \in MarksIn(H, v, id) : s \in Int
    BY FindingsNumbers DEF MarksIn
  <2>5. \A s \in new(id) : s <= m
    BY <2>1, <2>2
  <2>6. ASSUME NEW s \in MarksIn(H, v, id) PROVE s <= m
    <3>1. s <= old[id] /\ old[id] <= m
      BY <2>1
    <3> QED  BY <2>1, <2>4, <3>1
  <2>7. \A s \in MarksIn(H, v, id) \cup new(id) : s <= m
    BY <2>5, <2>6
  <2> QED  BY <1>2, <1>4, <2>3, <2>7 DEF m
<1> QED  BY <1>5, <1>6

LEMMA FindingsCollected == ASSUME FindingsInv, Collect PROVE FindingsInv'
<1>1. /\ CallerTyped /\ RunTyped /\ CallerStaged /\ RunStaged
      /\ UnitsTold /\ BestOfHeard /\ Counted /\ WithinCap
  BY DEF FindingsInv
<1> DEFINE kept == UNION {Survivors(a[1], a[2]) : a \in answers}
           told == {<<a[1], a[2]>> : a \in answers}
<1>2. /\ stage = "gather" /\ flight = {} /\ best' = Union(best, kept) /\ heard' = heard \cup told
      /\ filterCost' = filterCost + Costs(answers)
      /\ calls' = calls + Cardinality(answers) /\ answers' = {} /\ stage' = "wave"
      /\ view' = view /\ next' = next /\ flight' = flight
      /\ caller' = caller /\ cap' = cap /\ corpus' = corpus /\ before' = before
      /\ scope' = scope /\ first' = first /\ synthesisCost' = synthesisCost
      /\ exceeded' = exceeded /\ refusal' = refusal /\ answered' = answered
      /\ failed' = failed /\ paid' = paid
  BY DEF Collect, input, Costs
<1>3. /\ \A a \in answers : a[1] \in Nat /\ a[2] \in Answers
      /\ Costs(answers) \in Nat /\ Cardinality(answers) \in Nat /\ next \in Nat
  BY <1>1, WaveTold DEF RunTyped
<1>4. told \subseteq Nat \X Answers
  BY <1>3
<1>5. \A p : p \in kept <=> \E h \in told : p \in h[2] /\ p[1] \in ChunkOf(view, h[1]) /\ p[2] >= Threshold
  <2>1. ASSUME NEW p \in kept
        PROVE  \E h \in told : p \in h[2] /\ p[1] \in ChunkOf(view, h[1]) /\ p[2] >= Threshold
    <3>1. PICK a \in answers : p \in Survivors(a[1], a[2])
      OBVIOUS
    <3>2. p \in a[2] /\ p[1] \in ChunkOf(view, a[1]) /\ p[2] >= Threshold
      BY <3>1, ChunkIs DEF Survivors
    <3>3. <<a[1], a[2]>> \in told /\ <<a[1], a[2]>>[1] = a[1] /\ <<a[1], a[2]>>[2] = a[2]
      OBVIOUS
    <3> HIDE DEF told
    <3> QED  BY <3>2, <3>3
  <2>2. ASSUME NEW p, NEW h \in told, p \in h[2], p[1] \in ChunkOf(view, h[1]), p[2] >= Threshold
        PROVE  p \in kept
    <3>1. PICK a \in answers : h = <<a[1], a[2]>>
      OBVIOUS
    <3>2. h[1] = a[1] /\ h[2] = a[2]
      BY <3>1
    <3>3. p \in Survivors(a[1], a[2])
      BY <2>2, <3>2, ChunkIs DEF Survivors
    <3> QED  BY <3>3
  <2> HIDE DEF kept, told
  <2> QED  BY <2>1, <2>2
<1>6. {h[1] : h \in told} = {a[1] : a \in answers}
  <2>1. ASSUME NEW a \in answers PROVE a[1] \in {h[1] : h \in told}
    <3>1. <<a[1], a[2]>> \in told /\ <<a[1], a[2]>>[1] = a[1]
      OBVIOUS
    <3> HIDE DEF told
    <3> QED  BY <3>1
  <2>2. ASSUME NEW h \in told PROVE h[1] \in {a[1] : a \in answers}
    OBVIOUS
  <2> HIDE DEF told
  <2> QED  BY <2>1, <2>2
<1> HIDE DEF kept, told
<1>7. /\ best' \in [Ids -> Scores \cup {NoScore}]
      /\ \A id \in Ids : /\ best'[id] \in MarksIn(heard', view', id)
                         /\ \A s \in MarksIn(heard', view', id) : s <= best'[id]
  <2>1. \A h \in heard \cup told : h[2] \subseteq Ids \X Scores
    BY <1>1, <1>4, DataAssumption DEF RunTyped
  <2>2. best \in [Ids -> Scores \cup {NoScore}]
    BY <1>1 DEF RunTyped
  <2>3. PICK old, H, v : old = best /\ H = heard /\ v = view
    OBVIOUS
  <2>4. PICK pairs, said : pairs = kept /\ said = told
    OBVIOUS
  <2>5. /\ Union(old, pairs) \in [Ids -> Scores \cup {NoScore}]
        /\ \A id \in Ids : /\ Union(old, pairs)[id] \in MarksIn(H \cup said, v, id)
                           /\ \A s \in MarksIn(H \cup said, v, id) : s <= Union(old, pairs)[id]
    BY <1>1, <1>5, <2>1, <2>2, <2>3, <2>4, UnionKeeps DEF BestOfHeard
  <2>6. best' = Union(old, pairs) /\ heard' = H \cup said /\ view' = v
    BY <1>2, <2>3, <2>4
  <2> QED  BY <2>5, <2>6
<1>8. CallerTyped' /\ CallerStaged'
  BY <1>1, <1>2 DEF CallerTyped, CallerStaged
<1>9. RunTyped'
  <2>1. filterCost' \in Nat /\ calls' \in Nat /\ heard' \subseteq Nat \X Answers
    BY <1>1, <1>2, <1>3, <1>4 DEF RunTyped
  <2>2. answers' \subseteq (0..(next' - 1)) \X Answers \X FilterCosts /\ IsFiniteSet(answers')
    BY <1>2, FS_EmptySet
  <2> QED  BY <1>1, <1>2, <1>7, <2>1, <2>2 DEF RunTyped, StagesOf
<1>10. RunStaged'
  BY <1>1, <1>2 DEF RunStaged
<1>11. UnitsTold'
  <2>1. {h[1] : h \in heard'} = {h[1] : h \in heard} \cup {a[1] : a \in answers}
    BY <1>2, <1>6
  <2>2. {h[1] : h \in heard'} = 0..(next' - 1)
    BY <1>1, <1>2, <2>1 DEF UnitsTold
  <2>3. calls' = next'
    <3>1. calls + Cardinality(answers) + 0 = next /\ calls \in Nat
      BY <1>1, <1>2, FS_EmptySet DEF UnitsTold, RunTyped
    <3> QED  BY <1>2, <1>3, <3>1
  <2>4. Cardinality(answers') = 0 /\ Cardinality(flight') = 0 /\ {a[1] : a \in answers'} = {} /\ flight' = {}
    BY <1>2, FS_EmptySet
  <2>5. calls' + Cardinality(answers') + Cardinality(flight') = next' /\ calls' <= next'
    BY <1>2, <1>3, <2>3, <2>4
  <2>6. {h[1] : h \in heard'} \cup {a[1] : a \in answers'} \cup flight' = 0..(next' - 1)
    BY <2>2, <2>4
  <2> QED  BY <1>2, <2>5, <2>6 DEF UnitsTold
<1>12. BestOfHeard'
  BY <1>7 DEF BestOfHeard
<1>13. Counted'
  <2> SUFFICES ASSUME failed = "none" PROVE Counted'
    BY <1>2 DEF Counted
  <2>1. paid = before + first.cost + filterCost + synthesisCost + Costs(answers)
    BY <1>1 DEF Counted, Reported
  <2>2. Costs(answers') = 0
    BY <1>2, CostsOfNone
  <2>3. before \in Nat /\ first.cost \in Nat /\ filterCost \in Nat /\ synthesisCost \in Nat
    BY <1>1 DEF CallerTyped, RunTyped
  <2>4. paid' = before + first.cost + (filterCost + Costs(answers)) + synthesisCost + 0
    BY <1>2, <1>3, <2>1, <2>3
  <2> QED  BY <1>2, <2>2, <2>4 DEF Counted, Reported
<1>14. WithinCap'
  BY <1>1, <1>2 DEF WithinCap, Capped
<1>15. RefusalHonest'
  BY <1>2 DEF RefusalHonest
<1> QED  BY <1>8, <1>9, <1>10, <1>11, <1>12, <1>13, <1>14, <1>15 DEF FindingsInv

LEMMA FindingsFiltered == ASSUME FindingsInv, Filtered PROVE FindingsInv'
<1>1. /\ CallerTyped /\ RunTyped /\ CallerStaged /\ RunStaged
      /\ UnitsTold /\ BestOfHeard /\ Counted /\ WithinCap
  BY DEF FindingsInv
<1>2. /\ stage = "wave" /\ (next = Units(view) \/ OverCap) /\ UNCHANGED <<input, before, failed, paid>>
      /\ caller' = caller /\ cap' = cap /\ corpus' = corpus /\ before' = before
      /\ failed' = failed /\ paid' = paid
  BY DEF Filtered, input
<1>3. /\ answers = {} /\ flight = {} /\ failed = "none" /\ synthesisCost = 0 /\ view # <<>>
  BY <1>1, <1>2 DEF RunStaged
<1>4. PICK cut \in BOOLEAN : cut = (next < Units(view)) /\ (cut <=> next < Units(view))
  <2>1. (next < Units(view)) \in BOOLEAN
    OBVIOUS
  <2> QED  BY <2>1
<1>5. Units(view) \in Nat /\ next \in Nat /\ next <= Units(view)
  BY <1>1, UnitsNatural DEF RunTyped
<1>6. cut => OverCap
  BY <1>2, <1>4, <1>5
<1>7. /\ cap \in Nat /\ before \in Nat /\ first.cost \in Nat /\ filterCost \in Nat /\ paid \in Nat
      /\ Estimate \in Nat
  BY <1>1, NumbersAssumption DEF CallerTyped, RunTyped
<1>8. Capped => paid = before + filterCost /\ AgentCap = cap - before
  <2> SUFFICES ASSUME Capped PROVE paid = before + filterCost /\ AgentCap = cap - before
    OBVIOUS
  <2>1. first = NoRun /\ first.cost = 0
    BY <1>1 DEF CallerStaged, CallerTyped, Capped, NoRun
  <2>2. paid = before + 0 + filterCost + 0 + 0
    BY <1>1, <1>3, <2>1, CostsOfNone DEF Counted, Reported
  <2> QED  BY <1>7, <2>2 DEF AgentCap, Capped
<1>9. OverCap \/ NoHeadroom => Capped /\ paid + Estimate >= cap
  <2>1. OverCap \/ NoHeadroom => Capped
    BY DEF OverCap, NoHeadroom
  <2>2. CASE OverCap
    BY <1>7, <1>8, <2>1, <2>2 DEF OverCap
  <2>3. CASE NoHeadroom
    BY <1>7, <1>8, <2>1, <2>3 DEF NoHeadroom
  <2> QED  BY <2>1, <2>2, <2>3
<1>10. CASE Found(best) = {} /\ cut
  <2>1. EndRun("budget_exceeded", TRUE)
    BY <1>4, <1>10 DEF Filtered
  <2>2. Honest("budget_exceeded", TRUE)
    BY <1>6, <1>9, <1>10 DEF Honest, Reasons
  <2> QED  BY <1>2, <2>1, <2>2, RunEnds
<1>11. CASE Found(best) = {} /\ ~cut
  <2>1. EndRun("no_relevant_candidates", FALSE)
    BY <1>4, <1>11 DEF Filtered
  <2>2. {h[1] : h \in heard} = 0..(Units(view) - 1)
    <3>1. {h[1] : h \in heard} = 0..(next - 1)
      BY <1>1, <1>2, <1>3 DEF UnitsTold
    <3>2. next = Units(view)
      BY <1>4, <1>5, <1>11
    <3> QED  BY <3>1, <3>2
  <2>3. ASSUME NEW h \in heard, NEW p \in h[2], p[1] \in Chunk(h[1]) PROVE p[2] < Threshold
    <3>1. p \in Ids \X Scores /\ p[1] \in Ids /\ p[2] \in Scores
      BY <1>1, DataAssumption DEF RunTyped
    <3>2. p[2] \in Nat /\ Threshold \in Nat
      BY <3>1, FindingsNumbers, NumbersAssumption
    <3>3. ASSUME p[2] >= Threshold PROVE FALSE
      <4>1. p[2] \in MarksIn(heard, view, p[1])
        BY <2>3, <3>1, <3>3, ChunkIs DEF MarksIn
      <4>2. p[2] <= best[p[1]]
        BY <1>1, <3>1, <4>1 DEF BestOfHeard
      <4>3. best[p[1]] = NoScore
        BY <1>11, <3>1 DEF Found
      <4> QED  BY <3>2, <4>2, <4>3 DEF NoScore
    <3> QED  BY <3>2, <3>3
  <2>4. Honest("no_relevant_candidates", FALSE)
    BY <1>3, <2>2, <2>3 DEF Honest, Reasons
  <2> QED  BY <1>2, <2>1, <2>4, RunEnds
<1>12. CASE Found(best) # {} /\ NoHeadroom
  <2>1. EndRun("budget_exceeded", TRUE)
    BY <1>12 DEF Filtered
  <2>2. Honest("budget_exceeded", TRUE)
    BY <1>9, <1>12 DEF Honest, Reasons
  <2> QED  BY <1>2, <2>1, <2>2, RunEnds
<1>13. CASE Found(best) # {} /\ ~NoHeadroom
  <2>1. /\ stage' = "synthesize" /\ exceeded' = cut
        /\ view' = view /\ scope' = scope /\ first' = first /\ next' = next /\ flight' = flight
        /\ answers' = answers /\ best' = best /\ heard' = heard /\ filterCost' = filterCost
        /\ calls' = calls /\ synthesisCost' = synthesisCost /\ refusal' = refusal /\ answered' = answered
    BY <1>4, <1>13 DEF Filtered
  <2>2. CallerTyped' /\ CallerStaged'
    BY <1>1, <1>2, <2>1 DEF CallerTyped, CallerStaged
  <2>3. RunTyped'
    BY <1>1, <2>1 DEF RunTyped, StagesOf
  <2>4. RunStaged'
    BY <1>1, <1>2, <1>3, <2>1 DEF RunStaged
  <2>5. UnitsTold'
    BY <1>1, <1>2, <2>1 DEF UnitsTold
  <2>6. BestOfHeard'
    BY <1>1, <2>1 DEF BestOfHeard
  <2>7. Counted'
    BY <1>1, <1>2, <2>1 DEF Counted, Reported
  <2>8. WithinCap'
    <3> SUFFICES ASSUME Capped PROVE WithinCap'
      BY <1>2 DEF WithinCap, Capped
    <3>1. paid + Estimate <= cap
      BY <1>7, <1>8, <1>13 DEF NoHeadroom
    <3> QED  BY <1>1, <1>2, <1>3, <2>1, <3>1 DEF WithinCap
  <2>9. RefusalHonest'
    BY <2>1 DEF RefusalHonest
  <2> QED  BY <2>2, <2>3, <2>4, <2>5, <2>6, <2>7, <2>8, <2>9 DEF FindingsInv
<1> QED  BY <1>10, <1>11, <1>12, <1>13

LEMMA FindingsSynthesized == ASSUME FindingsInv, SynthesizeAnswer PROVE FindingsInv'
<1>1. /\ CallerTyped /\ RunTyped /\ CallerStaged /\ RunStaged
      /\ UnitsTold /\ BestOfHeard /\ Counted /\ WithinCap
  BY DEF FindingsInv
<1>2. stage = "synthesize" /\ flight' = flight
  BY DEF SynthesizeAnswer
<1>3. /\ answers = {} /\ flight = {} /\ failed = "none" /\ synthesisCost = 0 /\ refusal = "none"
  BY <1>1, <1>2 DEF RunStaged
<1>4. CASE Fail /\ UNCHANGED paid
  BY <1>2, <1>4, RunFails
<1>5. ASSUME NEW c \in SynthesisCosts, synthesisCost' = c, paid' = paid + c, answered' = TRUE, stage' = "done",
             UNCHANGED <<input, view, before, scope, first, next, answers, best, filterCost, calls, exceeded,
                         refusal, failed, heard>>
      PROVE  FindingsInv'
  <2>1. /\ view' = view /\ before' = before /\ scope' = scope /\ first' = first /\ next' = next
        /\ answers' = answers /\ best' = best /\ filterCost' = filterCost /\ calls' = calls
        /\ exceeded' = exceeded /\ refusal' = refusal /\ failed' = failed /\ heard' = heard
        /\ caller' = caller /\ cap' = cap /\ corpus' = corpus
    BY <1>5 DEF input
  <2>2. c \in Nat /\ c <= MaxSynthesis /\ MaxSynthesis \in Nat /\ Estimate \in Nat
    BY FindingsNumbers, NumbersAssumption
  <2>3. /\ before \in Nat /\ first.cost \in Nat /\ filterCost \in Nat /\ paid \in Nat /\ cap \in Nat
    BY <1>1, NumbersAssumption DEF CallerTyped, RunTyped
  <2>4. CallerTyped' /\ CallerStaged'
    BY <1>1, <1>5, <2>1, <2>2 DEF CallerTyped, CallerStaged
  <2>5. RunTyped'
    BY <1>1, <1>2, <1>5, <2>1, <2>2 DEF RunTyped, StagesOf
  <2>6. RunStaged'
    BY <1>1, <1>2, <1>3, <1>5, <2>1 DEF RunStaged
  <2>7. UnitsTold'
    BY <1>1, <1>2, <1>3, <1>5, <2>1 DEF UnitsTold
  <2>8. BestOfHeard'
    BY <1>1, <2>1 DEF BestOfHeard
  <2>9. Counted'
    <3>1. paid = before + first.cost + filterCost + 0 + 0
      BY <1>1, <1>3, CostsOfNone DEF Counted, Reported
    <3>2. paid' = before + first.cost + filterCost + c + 0
      BY <1>5, <2>2, <2>3, <3>1
    <3>3. Costs(answers') = 0
      BY <1>3, <2>1, CostsOfNone
    <3> QED  BY <1>5, <2>1, <3>2, <3>3 DEF Counted, Reported
  <2>10. WithinCap'
    <3> SUFFICES ASSUME Capped PROVE WithinCap'
      BY <2>1 DEF WithinCap, Capped
    <3>1. paid + Estimate <= cap
      BY <1>1, <1>2 DEF WithinCap
    <3>2. paid' <= cap - Estimate + MaxSynthesis
      BY <1>5, <2>2, <2>3, <3>1
    <3> QED  BY <1>2, <1>3, <1>5, <2>1, <3>2 DEF WithinCap
  <2>11. RefusalHonest'
    BY <1>3, <1>5, <2>1 DEF RefusalHonest
  <2> QED  BY <2>4, <2>5, <2>6, <2>7, <2>8, <2>9, <2>10, <2>11 DEF FindingsInv
<1> QED  BY <1>4, <1>5 DEF SynthesizeAnswer

LEMMA FindingsBegins == FindingsInit => FindingsInv
<1> SUFFICES ASSUME FindingsInit PROVE FindingsInv
  OBVIOUS
<1>1. /\ stage = "plan" /\ corpus \in Corpora /\ view = corpus /\ caller \in {"tool", "dispatch"}
      /\ cap \in Caps \cup {0} /\ (caller = "dispatch" => cap = 0)
      /\ before = 0 /\ scope = "whole" /\ first = NoRun /\ next = 0 /\ flight = {} /\ answers = {}
      /\ best = Unheard /\ filterCost = 0 /\ calls = 0 /\ synthesisCost = 0
      /\ exceeded = FALSE /\ refusal = "none" /\ answered = FALSE
      /\ failed = "none" /\ paid = 0 /\ heard = {}
  BY DEF FindingsInit
<1>2. view \in Seq(Ids) /\ Units(view) \in Nat
  BY <1>1, DataAssumption, UnitsNatural
<1>3. first \in [refusal : Reasons, cost : Nat, calls : Nat] /\ first.cost = 0
  BY <1>1 DEF NoRun, Reasons
<1>4. CallerTyped /\ CallerStaged
  BY <1>1, <1>3 DEF CallerTyped, CallerStaged
<1>5. RunTyped
  <2>1. best \in [Ids -> Scores \cup {NoScore}]
    BY <1>1 DEF Unheard
  <2>2. 0 \in 0..Units(view) /\ IsFiniteSet({}) /\ stage \in StagesOf /\ refusal \in Reasons
    BY <1>1, <1>2, FS_EmptySet DEF StagesOf, Reasons
  <2> QED  BY <1>1, <1>2, <2>1, <2>2 DEF RunTyped
<1>6. RunStaged
  BY <1>1 DEF RunStaged
<1>7. UnitsTold
  <2>1. Cardinality({}) = 0 /\ 0..(0 - 1) = {}
    BY FS_EmptySet
  <2> QED  BY <1>1, <2>1 DEF UnitsTold
<1>8. BestOfHeard
  BY <1>1, NothingMarked, FindingsNumbers DEF BestOfHeard, Unheard
<1>9. Counted
  BY <1>1, <1>3, CostsOfNone DEF Counted, Reported
<1>10. WithinCap
  BY <1>1 DEF WithinCap
<1>11. RefusalHonest
  BY <1>1 DEF RefusalHonest
<1> QED  BY <1>4, <1>5, <1>6, <1>7, <1>8, <1>9, <1>10, <1>11 DEF FindingsInv

LEMMA FindingsRest == ASSUME FindingsInv, UNCHANGED findingsVars PROVE FindingsInv'
<1>1. /\ CallerTyped /\ RunTyped /\ CallerStaged /\ RunStaged
      /\ UnitsTold /\ BestOfHeard /\ Counted /\ WithinCap /\ RefusalHonest
  BY DEF FindingsInv
<1>2. /\ stage' = stage /\ caller' = caller /\ cap' = cap /\ corpus' = corpus /\ view' = view
      /\ before' = before /\ scope' = scope /\ first' = first /\ next' = next /\ flight' = flight
      /\ answers' = answers /\ best' = best /\ filterCost' = filterCost /\ calls' = calls
      /\ synthesisCost' = synthesisCost /\ exceeded' = exceeded /\ refusal' = refusal
      /\ answered' = answered /\ failed' = failed /\ paid' = paid /\ heard' = heard
  BY DEF findingsVars, input, results
<1>3. CallerTyped' /\ CallerStaged'
  BY <1>1, <1>2 DEF CallerTyped, CallerStaged
<1>4. RunTyped'
  BY <1>1, <1>2 DEF RunTyped
<1>5. RunStaged' /\ UnitsTold'
  BY <1>1, <1>2 DEF RunStaged, UnitsTold
<1>6. BestOfHeard' /\ Counted' /\ WithinCap'
  BY <1>1, <1>2 DEF BestOfHeard, Counted, Reported, WithinCap, Capped
<1>7. RefusalHonest'
  <2>1. \A u : Chunk(u)' = Chunk(u)
    BY <1>2, SameChunks
  <2> QED  BY <1>1, <1>2, <2>1 DEF RefusalHonest, Capped
<1> QED  BY <1>3, <1>4, <1>5, <1>6, <1>7 DEF FindingsInv

LEMMA FindingsStep == FindingsInv /\ [FindingsNext]_findingsVars => FindingsInv'
<1> SUFFICES ASSUME FindingsInv, [FindingsNext]_findingsVars PROVE FindingsInv'
  OBVIOUS
<1>1. CASE Tool
  BY <1>1, FindingsPlanned
<1>2. CASE Dispatch
  BY <1>2, FindingsDispatched
<1>3. CASE Enumerate
  BY <1>3, FindingsEnumerated
<1>4. CASE Wave
  BY <1>4, FindingsWaves
<1>5. CASE Collect
  BY <1>5, FindingsCollected
<1>6. CASE Filtered
  BY <1>6, FindingsFiltered
<1>7. CASE SynthesizeAnswer
  BY <1>7, FindingsSynthesized
<1>8. ASSUME NEW u \in flight, Answer(u) PROVE FindingsInv'
  BY <1>8, FindingsAnswered
<1>9. ASSUME NEW u \in flight, Raise(u) PROVE FindingsInv'
  BY <1>9, FindingsRaised
<1>10. CASE Finished \/ UNCHANGED findingsVars
  BY <1>10, FindingsRest DEF Finished
<1> QED  BY <1>1, <1>2, <1>3, <1>4, <1>5, <1>6, <1>7, <1>8, <1>9, <1>10 DEF FindingsNext, Step

LEMMA FindingsTold == FindingsInv => FindingsSound
<1> SUFFICES ASSUME FindingsInv PROVE FindingsSound
  OBVIOUS
<1>1. /\ CallerTyped /\ RunTyped /\ CallerStaged /\ RunStaged
      /\ UnitsTold /\ BestOfHeard /\ Counted /\ WithinCap /\ RefusalHonest
  BY DEF FindingsInv
<1>2. next \in Nat /\ first.calls \in Nat /\ calls \in Nat
  BY <1>1, UnitsNatural DEF RunTyped, CallerTyped
<1>3. FindingsTypeOK
  <2> DEFINE T == {next, first.calls}
  <2>1. IsFiniteSet({next}) /\ T = {next} \cup {first.calls}
    BY FS_Singleton
  <2>2. IsFiniteSet(T) /\ T \subseteq Int /\ T # {}
    BY <1>2, <2>1, FS_AddElement
  <2>3. Max(T) \in T /\ next <= Max(T) /\ first.calls <= Max(T)
    BY <2>2, GreatestOf
  <2>4. calls \in 0..Max(T)
    <3>1. Max(T) \in Nat
      BY <1>2, <2>3
    <3>2. calls <= next \/ calls = first.calls
      BY <1>1 DEF UnitsTold
    <3> HIDE DEF T
    <3> QED  BY <1>2, <2>3, <3>1, <3>2
  <2>5. first.refusal \in Reasons /\ {before, paid, filterCost, synthesisCost} \subseteq Nat
        /\ {exceeded, answered} \subseteq BOOLEAN
    BY <1>1 DEF CallerTyped, RunTyped
  <2> HIDE DEF T
  <2>6. calls \in 0..Max({next, first.calls})
    BY <2>4 DEF T
  <2> QED  BY <1>1, <2>5, <2>6 DEF FindingsTypeOK, CallerTyped, RunTyped, StagesOf
<1>4. BestOfRuns
  <2> DEFINE Given(id) == {h \in heard : id \in Chunk(h[1])}
             Marks(id) == {p[2] : p \in {q \in UNION {h[2] : h \in Given(id)} : q[1] = id}}
             Kept(id) == {NoScore} \cup {s \in Marks(id) : s >= Threshold}
  <2>1. ASSUME NEW id \in Ids PROVE best[id] = Max(Kept(id))
    <3>1. ASSUME NEW s \in Kept(id) PROVE s \in MarksIn(heard, view, id)
      <4>1. CASE s = NoScore
        BY <4>1 DEF MarksIn
      <4>2. CASE s # NoScore
        <5>1. PICK h \in heard : \E p \in h[2] : id \in Chunk(h[1]) /\ p[1] = id /\ p[2] = s /\ s >= Threshold
          BY <4>2
        <5>2. PICK p \in h[2] : id \in Chunk(h[1]) /\ p[1] = id /\ p[2] = s /\ s >= Threshold
          BY <5>1
        <5>3. p \in Ids \X Scores
          BY <1>1, DataAssumption DEF RunTyped
        <5>4. s \in Scores
          BY <5>2, <5>3
        <5> QED  BY <5>2, <5>4, ChunkIs DEF MarksIn
      <4> QED  BY <4>1, <4>2
    <3>2. ASSUME NEW s \in MarksIn(heard, view, id) PROVE s \in Kept(id)
      <4>1. CASE s = NoScore
        BY <4>1
      <4>2. CASE s # NoScore
        <5>1. PICK h \in heard : \E p \in h[2] : id \in ChunkOf(view, h[1]) /\ p[1] = id /\ p[2] = s /\ s >= Threshold
          BY <4>2 DEF MarksIn
        <5>2. PICK p \in h[2] : id \in ChunkOf(view, h[1]) /\ p[1] = id /\ p[2] = s /\ s >= Threshold
          BY <5>1
        <5>3. h \in Given(id)
          BY <5>2, ChunkIs
        <5>4. p \in {q \in UNION {g[2] : g \in Given(id)} : q[1] = id}
          <6> HIDE DEF Given
          <6> QED  BY <5>2, <5>3
        <5>5. s \in Marks(id)
          <6> HIDE DEF Given
          <6> QED  BY <5>2, <5>4
        <5> HIDE DEF Marks
        <5> QED  BY <5>2, <5>5
      <4> QED  BY <4>1, <4>2
    <3> HIDE DEF Kept
    <3>3. Kept(id) = MarksIn(heard, view, id)
      BY <3>1, <3>2
    <3>4. Kept(id) \subseteq Scores \cup {NoScore} /\ Kept(id) # {}
      BY <3>3 DEF MarksIn
    <3>5. IsFiniteSet(Scores \cup {NoScore}) /\ Scores \cup {NoScore} \subseteq Int
      BY FindingsNumbers, FS_AddElement
    <3>6. IsFiniteSet(Kept(id)) /\ Kept(id) \subseteq Int
      BY <3>4, <3>5, FS_Subset
    <3>7. Max(Kept(id)) \in Kept(id) /\ \A x \in Kept(id) : x <= Max(Kept(id))
      BY <3>4, <3>6, GreatestOf
    <3>8. best[id] \in Kept(id) /\ \A x \in Kept(id) : x <= best[id]
      BY <1>1, <3>3 DEF BestOfHeard
    <3>9. best[id] \in Int /\ Max(Kept(id)) \in Int /\ best[id] <= Max(Kept(id)) /\ Max(Kept(id)) <= best[id]
      BY <3>6, <3>7, <3>8
    <3> QED  BY <3>9
  <2> QED  BY <2>1 DEF BestOfRuns
<1>5. SpendKept
  <2>1. ASSUME stage = "done", failed = "none" PROVE paid = Reported /\ flight = {}
    <3>1. answers = {} /\ flight = {}
      BY <1>1, <2>1 DEF RunStaged
    <3>2. paid = Reported + 0
      BY <1>1, <2>1, <3>1, CostsOfNone DEF Counted
    <3>3. Reported \in Nat
      BY <1>1 DEF Reported, CallerTyped, RunTyped
    <3> QED  BY <3>1, <3>2, <3>3
  <2>2. ASSUME Capped
        PROVE  paid <= Max({before, cap - 1 + NumParallel * Max(FilterCosts), cap - Estimate + Max(SynthesisCosts)})
    <3> DEFINE x == cap - 1 + WaveCost
               y == cap - Estimate + MaxSynthesis
               T == {before, x, y}
    <3>1. before \in Int /\ x \in Int /\ y \in Int /\ paid \in Int
      BY <1>1, NumbersAssumption, FindingsNumbers DEF CallerTyped
    <3>2. paid = before \/ paid <= x \/ paid <= y
      BY <1>1, <2>2 DEF WithinCap
    <3> HIDE DEF x, y
    <3>3. IsFiniteSet(T) /\ T \subseteq Int /\ T # {}
      <4>1. T = ({before} \cup {x}) \cup {y}
        OBVIOUS
      <4>2. IsFiniteSet({before})
        BY FS_Singleton
      <4>3. IsFiniteSet({before} \cup {x})
        BY <4>2, FS_AddElement
      <4>4. IsFiniteSet(({before} \cup {x}) \cup {y})
        BY <4>3, FS_AddElement
      <4> QED  BY <3>1, <4>1, <4>4
    <3>4. Max(T) \in T /\ before <= Max(T) /\ x <= Max(T) /\ y <= Max(T)
      BY <3>3, GreatestOf
    <3>5. Max(T) \in Int
      BY <3>3, <3>4
    <3>6. paid <= Max(T)
      <4> HIDE DEF T
      <4> QED  BY <3>1, <3>2, <3>4, <3>5
    <3> HIDE DEF T
    <3> QED  BY <3>6 DEF T, x, y, WaveCost, MaxFilter, MaxSynthesis
  <2> QED  BY <2>1, <2>2 DEF SpendKept
<1> QED  BY <1>1, <1>3, <1>4, <1>5 DEF FindingsSound, UnionSound

\* A run keeps every score its calls gave, every cost they had and the true reason it ended
\* for, in whatever order they return, raise, or hit the cap, for every corpus, cap, chunk
\* size, number of runs and cost.
THEOREM FindingsSoundHolds == FindingsSpec => []FindingsSound
<1>1. FindingsInit => FindingsInv
  BY FindingsBegins
<1>2. FindingsInv /\ [FindingsNext]_findingsVars => FindingsInv'
  BY FindingsStep
<1>3. FindingsInv => FindingsSound
  BY FindingsTold
<1> QED  BY <1>1, <1>2, <1>3, PTL DEF FindingsSpec

-----------------------------------------------------------------------------
USE PlanComposeAssumption

-----------------------------------------------------------------------------
(* What a walk and the operators it is built from give.                      *)

\* SkipPending changes steps of S that are pending, and nothing else.
LEMMA SkipPendingLemma ==
  ASSUME NEW st \in [Steps -> Statuses], NEW S
  PROVE  /\ SkipPending(st, S) \in [Steps -> Statuses]
         /\ \A s \in Steps : /\ st[s] # "pending" => SkipPending(st, S)[s] = st[s]
                             /\ st[s] = "pending" => SkipPending(st, S)[s] \in {"pending", "skipped"}
                             /\ s \notin S => SkipPending(st, S)[s] = st[s]
BY DEF SkipPending, Statuses

\* AfterAborts skips F and pending dependents of F; the rest keeps its status.
LEMMA AfterAbortsLemma ==
  ASSUME TypeOK, NEW F, F \subseteq ReadySteps
  PROVE  /\ AfterAborts(F) \in [Steps -> Statuses]
         /\ \A s \in Steps : /\ status[s] # "pending" => AfterAborts(F)[s] = status[s]
                             /\ status[s] = "pending" => AfterAborts(F)[s] \in {"pending", "skipped"}
                             /\ AfterAborts(F)[s] = "skipped" =>
                                  status[s] = "skipped" \/ s \in F \cup Descendants(F)
<1>1. Marked(status, F, "skipped") \in [Steps -> Statuses]
  BY DEF TypeOK, Marked, Statuses
<1>2. \A s \in F : status[s] = "pending"
  BY DEF ReadySteps
<1>3. \A s \in Steps : Marked(status, F, "skipped")[s] = IF s \in F THEN "skipped" ELSE status[s]
  BY DEF Marked
<1> QED  BY <1>1, <1>2, <1>3, SkipPendingLemma DEF AfterAborts, TypeOK, Statuses

\* What descends from a set descends from a larger one.
LEMMA DescendantsMonotone ==
  ASSUME NEW F, NEW G, F \subseteq G
  PROVE  Descendants(F) \subseteq Descendants(G)
<1> SUFFICES ASSUME NEW t \in Descendants(F) PROVE t \in Descendants(G)
  OBVIOUS
<1>1. t \in Plan
  BY DEF Descendants
<1>2. ASSUME NEW C \in SUBSET Plan, \A s \in G \cup C : Successors(s) \subseteq C
      PROVE  t \in C
  <2>1. \A s \in F \cup C : Successors(s) \subseteq C
    BY <1>2
  <2> QED  BY <2>1 DEF Descendants
<1> QED  BY <1>1, <1>2 DEF Descendants

\* A decision other than the stops and REPLAN is CONTINUE, and CONTINUE is decided
\* only with the budget not used up and the step not rejected for certain.
LEMMA RouteLemma ==
  ASSUME NEW v, NEW limit
  PROVE  Route(v, limit) = "continue" => limit = "none" /\ v \in {"accepted", "doubted"}
BY DEF Route

\* Within the limits nothing stops.
LEMMA ShouldStopLemma ==
  ASSUME NEW c \in Nat, NEW k \in Nat, NEW r \in Nat
  PROVE  /\ ShouldStop(c, k, r) = "none" => k < MaxSteps
         /\ ShouldStop(c, k, r) \in {"none"} \cup BudgetReasons
BY DEF ShouldStop, BudgetReasons

\* What processing one result does to the statuses: s gets its own, pending steps
\* are skipped if the walk ends here, and the walk goes on only within the budget and
\* on a judgment that continues.
LEMMA ProcessLemma ==
  ASSUME TypeOK, NEW s \in Steps, NEW v, Process(s, v)
  PROVE  /\ status' \in [Steps -> Statuses]
         /\ status'[s] \in {"completed", "failed"}
         /\ \A t \in Steps \ {s} : \/ status'[t] = status[t]
                                   \/ status[t] = "pending" /\ status'[t] = "skipped"
         /\ phase' # "done" =>
              /\ \A t \in Steps \ {s} : status'[t] = status[t]
              /\ status'[s] = IF output[s] = "ok" THEN "completed" ELSE "failed"
              /\ ShouldStop(cost + fee[s], steps + 1, replans) = "none"
              /\ v \in Verdicts(s) \cap {"accepted", "doubted"}
              /\ phase' = (IF wave' = {} THEN "walk" ELSE "process")
              /\ stop' = stop
         /\ phase' = "done" => stop' # "success"
<1> DEFINE own == IF output[s] = "ok" THEN "completed" ELSE "failed"
           marked == [status EXCEPT ![s] = own]
           rejected == [marked EXCEPT ![s] = "failed"]
           limit == ShouldStop(cost + fee[s], steps + 1, replans)
           decision == Route(v, limit)
<1>1. /\ marked \in [Steps -> Statuses] /\ rejected \in [Steps -> Statuses]
      /\ marked[s] = own /\ rejected[s] = "failed"
      /\ \A t \in Steps \ {s} : marked[t] = status[t] /\ rejected[t] = status[t]
  BY DEF TypeOK, Statuses
<1>2. limit \in {"none"} \cup BudgetReasons
  BY DEF ShouldStop, BudgetReasons
<1>3. \/ decision = "continue" /\ status' = marked /\ stop' = stop
            /\ phase' = (IF wave' = {} THEN "walk" ELSE "process")
      \/ decision \in {"stop_budget", "stop_failure"} /\ status' = SkipPending(marked, Plan)
            /\ Done(IF limit # "none" THEN limit ELSE "failure")
      \/ decision = "replan" /\ status' = SkipPending(rejected, Plan) /\ Done("needs_replan")
  BY DEF Process
<1>4. v \in Verdicts(s)
  BY DEF Process
<1> HIDE DEF marked, rejected
<1>5. CASE decision = "continue" /\ status' = marked /\ stop' = stop
            /\ phase' = (IF wave' = {} THEN "walk" ELSE "process")
  <2>1. limit = "none" /\ v \in {"accepted", "doubted"}
    BY <1>5, RouteLemma
  <2> QED  BY <1>1, <1>4, <1>5, <2>1
<1>6. CASE decision \in {"stop_budget", "stop_failure"} /\ status' = SkipPending(marked, Plan)
            /\ Done(IF limit # "none" THEN limit ELSE "failure")
  <2>1. phase' = "done" /\ stop' # "success"
    BY <1>2, <1>6 DEF Done, BudgetReasons
  <2>2. \A t \in Steps : /\ marked[t] # "pending" => status'[t] = marked[t]
                         /\ marked[t] = "pending" => status'[t] \in {"pending", "skipped"}
    BY <1>1, <1>6, SkipPendingLemma
  <2> QED  BY <1>1, <1>6, <2>1, <2>2, SkipPendingLemma
<1>7. CASE decision = "replan" /\ status' = SkipPending(rejected, Plan) /\ Done("needs_replan")
  <2>1. phase' = "done" /\ stop' # "success"
    BY <1>7 DEF Done
  <2>2. \A t \in Steps : /\ rejected[t] # "pending" => status'[t] = rejected[t]
                         /\ rejected[t] = "pending" => status'[t] \in {"pending", "skipped"}
    BY <1>1, <1>7, SkipPendingLemma
  <2> QED  BY <1>1, <1>7, <2>1, <2>2, SkipPendingLemma
<1> QED  BY <1>3, <1>5, <1>6, <1>7

-----------------------------------------------------------------------------
(* Type correctness.                                                         *)

\* The initial state is typed.
LEMMA TypeInit == ComposeInit => TypeOK
<1> SUFFICES ASSUME ComposeInit PROVE TypeOK
  OBVIOUS
<1>1. n \in 0..MaxPlan /\ Plan = {}
  BY DEF ComposeInit, Plan
<1>2. /\ deps \in [Steps -> SUBSET Steps] /\ status \in [Steps -> Statuses]
      /\ output \in [Steps -> {"none"} \cup Outputs] /\ fee \in [Steps -> Nat]
  BY DEF ComposeInit, Statuses
<1>3. stop \in StopReasons
  BY DEF ComposeInit, StopReasons
<1> QED  BY <1>1, <1>2, <1>3 DEF ComposeInit, TypeOK

\* A new plan is typed, the budget left as it was.
LEMMA TypeNewPlan == TypeOK /\ NewPlan /\ UNCHANGED <<budget, late>> => TypeOK'
<1> SUFFICES ASSUME TypeOK, NewPlan, UNCHANGED <<budget, late>> PROVE TypeOK'
  OBVIOUS
<1>1. n' \in 1..MaxPlan /\ n' \in 0..MaxPlan
  BY DEF NewPlan
<1>2. deps' \in [Steps -> SUBSET Steps] /\ \A s \in 1..n' : deps'[s] \subseteq 1..s
  BY <1>1 DEF NewPlan, Steps
<1>3. guarded' \subseteq Steps /\ pivots' \subseteq guarded'
  BY <1>1 DEF NewPlan, Steps
<1>4. /\ status' \in [Steps -> Statuses] /\ output' \in [Steps -> {"none"} \cup Outputs]
      /\ fee' \in [Steps -> Nat] /\ wave' \subseteq 1..n' /\ aborted' \subseteq 1..n'
      /\ phase' \in {"idle", "walk", "act", "process", "done"} /\ stop' \in StopReasons
      /\ count' \in Nat
  BY DEF NewPlan, Statuses, Outputs, StopReasons
<1>5. cost' \in Nat /\ steps' \in Nat /\ replans' \in Nat /\ late' \in BOOLEAN
  BY DEF TypeOK, budget
<1> QED  BY <1>1, <1>2, <1>3, <1>4, <1>5 DEF TypeOK, Plan

\* Every step keeps the types.
LEMMA TypeStep == TypeOK /\ [Next]_vars => TypeOK'
<1> SUFFICES ASSUME TypeOK, [Next]_vars PROVE TypeOK'
  OBVIOUS
<1>1. CASE Call
  BY <1>1, TypeNewPlan DEF Call
<1>2. CASE Complete
  BY <1>2 DEF Complete, Done, TypeOK, Plan, plan, budget, StopReasons
<1>3. CASE Stuck
  BY <1>3 DEF Stuck, Done, TypeOK, Plan, plan, budget, StopReasons
<1>4. ASSUME NEW F \in Abortable, Pivot(F) PROVE TypeOK'
  <2>1. F \subseteq ReadySteps /\ F \subseteq Plan
    BY <1>4 DEF Abortable, ReadySteps
  <2>2. AfterAborts(F) \in [Steps -> Statuses]
    BY <2>1, AfterAbortsLemma
  <2>3. status' \in [Steps -> Statuses]
    BY <2>2, <1>4, SkipPendingLemma DEF Pivot
  <2> QED  BY <1>4, <2>1, <2>3 DEF Pivot, Done, TypeOK, Plan, plan, budget, StopReasons
<1>5. ASSUME NEW F \in Abortable, Launch(F) PROVE TypeOK'
  <2>1. F \subseteq ReadySteps /\ F \subseteq Plan /\ ReadySteps \subseteq Plan
    BY <1>5 DEF Abortable, ReadySteps
  <2>2. AfterAborts(F) \in [Steps -> Statuses]
    BY <2>1, AfterAbortsLemma
  <2>3. status' \in [Steps -> Statuses]
    BY <2>2, <1>5 DEF Launch, Marked, Statuses
  <2> QED  BY <1>5, <2>1, <2>3 DEF Launch, TypeOK, Plan, plan, budget
<1>6. ASSUME NEW s \in Steps, Act(s) PROVE TypeOK'
  BY <1>6 DEF Act, TypeOK, Plan, plan, budget
<1>7. ASSUME NEW s \in Steps, NEW v, Process(s, v) PROVE TypeOK'
  <2>2. cost' \in Nat /\ steps' \in Nat /\ wave' \subseteq Plan
    BY <1>7 DEF Process, TypeOK
  <2>3. status' \in [Steps -> Statuses]
    BY <1>7, ProcessLemma
  <2>4. /\ phase' \in {"idle", "walk", "act", "process", "done"}
        /\ count' \in Nat /\ replans' \in Nat
    BY <1>7 DEF Process, Done, TypeOK
  <2>5. stop' \in StopReasons
    BY <1>7, ShouldStopLemma, <2>2 DEF Process, Done, TypeOK, StopReasons
  <2> QED  BY <1>7, <2>2, <2>3, <2>4, <2>5 DEF Process, TypeOK, Plan, plan
<1>8. CASE Clock
  BY <1>8 DEF Clock, TypeOK, Plan, plan, budget
<1>9. CASE UNCHANGED vars
  BY <1>9 DEF vars, TypeOK, Plan, plan, budget
<1> QED  BY <1>1, <1>2, <1>3, <1>4, <1>5, <1>6, <1>7, <1>8, <1>9 DEF Next, Walk

\* Every variable keeps its type.
THEOREM TypeCorrect == Spec => []TypeOK
BY TypeInit, TypeStep, PTL DEF Spec

-----------------------------------------------------------------------------
(* What a step needs to run, and what failing means: the inductive invariant.*)

\* A launched step has its predecessors completed for good; what is in the wave is
\* running; a walk under way has budget left; with a threshold of 0.9 or less it has
\* no failed step; and all it has skipped was aborted or descends from aborted steps.
WalkInv ==
  /\ \A s \in Plan : output[s] # "none" \/ status[s] = "running" =>
       \A d \in deps[s] : status[d] = "completed"
  /\ \A s \in wave : status[s] = "running"
  /\ phase = "process" => \A s \in wave : output[s] # "none"
  /\ steps <= MaxSteps /\ (phase # "done" => steps < MaxSteps)
  /\ StopsOnError
  /\ phase # "done" \/ stop = "success" =>
       \A s \in Plan : status[s] = "skipped" => s \in aborted \cup Descendants(aborted)
  /\ phase = "done" /\ stop = "success" => IsComplete

\* Before the call there is nothing to show.
LEMMA WalkInit == ComposeInit => WalkInv
<1> SUFFICES ASSUME ComposeInit PROVE WalkInv
  OBVIOUS
<1>1. Plan = {} /\ wave = {}
  BY DEF ComposeInit, Plan
<1> QED  BY <1>1 DEF ComposeInit, WalkInv, StopsOnError, IsComplete

\* A new plan has run nothing and skipped nothing.
LEMMA WalkCall == TypeOK /\ WalkInv /\ Call => WalkInv'
<1> SUFFICES ASSUME TypeOK, WalkInv, Call PROVE WalkInv'
  OBVIOUS
<1>1. \A s \in Steps : status'[s] = "pending" /\ output'[s] = "none"
  BY DEF Call, NewPlan
<1>2. Plan' \subseteq Steps
  BY DEF Call, NewPlan, Plan, Steps
<1>3. wave' = {} /\ phase' = "walk" /\ steps' = steps /\ steps < MaxSteps
  BY DEF Call, NewPlan, budget, WalkInv
<1> QED  BY <1>1, <1>2, <1>3 DEF WalkInv, StopsOnError, TypeOK

\* The walk's part of the invariant, when abort_if has skipped F and its dependents.
LEMMA AbortedCovered ==
  ASSUME TypeOK, WalkInv, phase = "walk", NEW F, F \subseteq ReadySteps,
         NEW s \in Plan, AfterAborts(F)[s] = "skipped"
  PROVE  s \in (aborted \cup F) \cup Descendants(aborted \cup F)
<1>1. status[s] = "skipped" \/ s \in F \cup Descendants(F)
  BY AfterAbortsLemma DEF Plan, Steps, TypeOK
<1>2. Descendants(F) \subseteq Descendants(aborted \cup F)
      /\ Descendants(aborted) \subseteq Descendants(aborted \cup F)
  BY DescendantsMonotone
<1> QED  BY <1>1, <1>2 DEF WalkInv

\* A pivot runs nothing, and does not end in SUCCESS.
LEMMA WalkPivot ==
  ASSUME TypeOK, WalkInv, NEW F \in Abortable, Pivot(F) PROVE WalkInv'
<1>1. F \subseteq ReadySteps /\ AfterAborts(F) \in [Steps -> Statuses]
  BY AfterAbortsLemma DEF Abortable
<1>2. \A s \in Steps : /\ status[s] # "pending" => status'[s] = status[s]
                       /\ status[s] = "pending" => status'[s] \in {"pending", "skipped"}
  BY <1>1, AfterAbortsLemma, SkipPendingLemma DEF Pivot
<1>3. /\ phase = "walk" /\ phase' = "done" /\ stop' = "pivoted"
      /\ UNCHANGED <<n, deps, output, wave, steps>>
  BY DEF Pivot, Done, plan, budget
<1>4. Plan \subseteq Steps /\ Plan' = Plan /\ wave \subseteq Plan /\ deps \in [Steps -> SUBSET Steps]
  BY <1>3 DEF TypeOK, Plan, Steps
<1>5. \A s \in Plan' : output'[s] # "none" \/ status'[s] = "running" =>
        \A d \in deps'[s] : status'[d] = "completed"
  BY <1>2, <1>3, <1>4 DEF WalkInv
<1>6. \A s \in wave' : status'[s] = "running"
  BY <1>2, <1>3, <1>4 DEF WalkInv
<1> QED  BY <1>3, <1>5, <1>6 DEF WalkInv, StopsOnError

\* Only ready steps are launched; what is skipped was aborted or descends from it.
LEMMA WalkLaunch ==
  ASSUME TypeOK, WalkInv, NEW F \in Abortable, Launch(F) PROVE WalkInv'
<1>1. F \subseteq ReadySteps /\ AfterAborts(F) \in [Steps -> Statuses]
  BY AfterAbortsLemma DEF Abortable
<1>2. /\ phase = "walk" /\ phase' \in {"walk", "act"} /\ wave' = ReadySteps \ F
      /\ UNCHANGED <<n, deps, output, stop, steps>> /\ aborted' = aborted \cup F
  BY DEF Launch, plan, budget
<1>3. Plan \subseteq Steps /\ Plan' = Plan /\ ReadySteps \subseteq Plan
      /\ deps \in [Steps -> SUBSET Steps]
  BY <1>2 DEF TypeOK, Plan, Steps, ReadySteps
<1>4. \A s \in Steps : status'[s] = IF s \in wave' THEN "running" ELSE AfterAborts(F)[s]
  BY <1>2 DEF Launch, Marked
<1>5. \A s \in ReadySteps : status[s] = "pending" /\ \A d \in deps[s] : status[d] = "completed"
  BY DEF ReadySteps
<1>6. \A s \in Steps : /\ status[s] # "pending" => status'[s] = status[s]
                       /\ status'[s] \in {status[s], "skipped", "running"}
                       /\ status'[s] = "running" => s \in wave' \/ status[s] = "running"
  BY <1>1, <1>2, <1>4, <1>5, AfterAbortsLemma
<1>7. \A s \in Plan' : output'[s] # "none" \/ status'[s] = "running" =>
        \A d \in deps'[s] : status'[d] = "completed"
  BY <1>2, <1>3, <1>5, <1>6 DEF WalkInv
<1>8. \A s \in wave' : status'[s] = "running"
  BY <1>2, <1>3, <1>4
<1>9. StopsOnError'
  BY <1>2, <1>3, <1>6 DEF WalkInv, StopsOnError
<1>10. (\A s \in Plan : status[s] = "skipped" => s \in aborted \cup Descendants(aborted))'
  <2>1. \A s \in Plan : status'[s] = "skipped" =>
           s \in (aborted \cup F) \cup Descendants(aborted \cup F)
    BY <1>1, <1>2, <1>3, <1>4, AbortedCovered
  <2>2. Descendants(aborted)' = Descendants(aborted \cup F)
    BY <1>2, <1>3 DEF Descendants, Successors
  <2> QED  BY <1>2, <1>3, <2>1, <2>2
<1> QED  BY <1>2, <1>7, <1>8, <1>9, <1>10 DEF WalkInv

\* A result changes no status.
LEMMA WalkAct ==
  ASSUME TypeOK, WalkInv, NEW s \in Steps, Act(s) PROVE WalkInv'
<1>1. /\ s \in wave /\ phase = "act" /\ phase' \in {"act", "process"}
      /\ UNCHANGED <<n, deps, status, wave, stop, steps, aborted>>
      /\ \A t \in Steps \ {s} : output'[t] = output[t]
  BY DEF Act, plan, budget, TypeOK
<1>2. Plan' = Plan /\ Plan \subseteq Steps
  BY <1>1 DEF Plan, TypeOK, Steps
<1>3. \A t \in Plan' : output'[t] # "none" \/ status'[t] = "running" =>
        \A d \in deps'[t] : status'[d] = "completed"
  BY <1>1, <1>2 DEF WalkInv
<1>4. Descendants(aborted)' = Descendants(aborted)
  BY <1>1, <1>2 DEF Descendants, Successors
<1>5. phase' = "process" => \A t \in wave' : output'[t] # "none"
  BY DEF Act
<1> QED  BY <1>1, <1>2, <1>3, <1>4, <1>5 DEF WalkInv, StopsOnError

\* Processing a result completes or fails a running step only.
LEMMA WalkProcess ==
  ASSUME TypeOK, WalkInv, NEW s \in Steps, NEW v, Process(s, v) PROVE WalkInv'
<1>1. /\ s \in wave /\ phase = "process" /\ wave' = wave \ {s}
      /\ steps' = steps + 1 /\ cost' = cost + fee[s]
      /\ UNCHANGED <<n, deps, output, aborted>>
  BY DEF Process, plan
<1>2. /\ status'[s] \in {"completed", "failed"}
      /\ \A t \in Steps \ {s} : \/ status'[t] = status[t]
                                \/ status[t] = "pending" /\ status'[t] = "skipped"
  BY ProcessLemma
<1>3. /\ Plan' = Plan /\ Plan \subseteq Steps /\ wave \subseteq Plan
      /\ deps \in [Steps -> SUBSET Steps] /\ status[s] = "running"
  BY <1>1 DEF Plan, TypeOK, Steps, WalkInv
<1>4. \A t \in Plan' : output'[t] # "none" \/ status'[t] = "running" =>
        \A d \in deps'[t] : status'[d] = "completed"
  <2> SUFFICES ASSUME NEW t \in Plan, output[t] # "none" \/ status'[t] = "running",
                      NEW d \in deps[t]
               PROVE  status'[d] = "completed"
    BY <1>1, <1>3
  <2>1. output[t] # "none" \/ status[t] = "running"
    BY <1>2, <1>3
  <2>2. status[d] = "completed" /\ d # s /\ d \in Steps
    BY <1>3, <2>1 DEF WalkInv
  <2> QED  BY <1>2, <2>2
<1>5. \A t \in wave' : status'[t] = "running"
  BY <1>1, <1>2, <1>3 DEF WalkInv
<1>6. steps' <= MaxSteps /\ (phase' # "done" => steps' < MaxSteps)
  <2>1. steps < MaxSteps
    BY <1>1 DEF WalkInv
  <2>2. cost + fee[s] \in Nat /\ steps + 1 \in Nat /\ replans \in Nat
    BY DEF TypeOK
  <2>3. phase' # "done" => steps + 1 < MaxSteps
    BY <2>2, ProcessLemma, ShouldStopLemma
  <2> QED  BY <1>1, <2>1, <2>3 DEF TypeOK
<1>7. StopsOnError'
  <2> SUFFICES ASSUME EmptySure, phase' # "done" PROVE \A t \in Plan : status'[t] # "failed"
    BY <1>3 DEF StopsOnError
  <2>1. /\ \A t \in Steps \ {s} : status'[t] = status[t]
        /\ status'[s] = IF output[s] = "ok" THEN "completed" ELSE "failed"
        /\ v \in Verdicts(s) \cap {"accepted", "doubted"}
    BY ProcessLemma
  <2>2. \A t \in Plan : status[t] # "failed"
    BY <1>1 DEF WalkInv, StopsOnError
  <2>3. output[s] \in {"none"} \cup Outputs /\ output[s] # "none"
    BY DEF TypeOK, WalkInv, Process
  <2>4. output[s] = "ok"
    BY <2>1, <2>3 DEF Verdicts, Outputs
  <2> QED  BY <1>3, <2>1, <2>2, <2>4
<1>8. phase' # "done" \/ stop' = "success" =>
        (\A t \in Plan : status[t] = "skipped" => t \in aborted \cup Descendants(aborted))'
  <2> SUFFICES ASSUME phase' # "done"
               PROVE  (\A t \in Plan : status[t] = "skipped" => t \in aborted \cup Descendants(aborted))'
    BY ProcessLemma
  <2>1. \A t \in Steps \ {s} : status'[t] = status[t]
    BY ProcessLemma
  <2>2. Descendants(aborted)' = Descendants(aborted)
    BY <1>1, <1>3 DEF Descendants, Successors
  <2> QED  BY <1>1, <1>2, <1>3, <2>1, <2>2 DEF WalkInv
<1>9. ~(phase' = "done" /\ stop' = "success")
  BY ProcessLemma
<1>10. \A t \in wave' : output'[t] # "none"
  BY <1>1 DEF WalkInv
<1> QED  BY <1>4, <1>5, <1>6, <1>7, <1>8, <1>9, <1>10 DEF WalkInv

\* Every step keeps the invariant.
LEMMA WalkStep == TypeOK /\ WalkInv /\ [Next]_vars => WalkInv'
<1> SUFFICES ASSUME TypeOK, WalkInv, [Next]_vars PROVE WalkInv'
  OBVIOUS
<1>1. CASE Call
  BY <1>1, WalkCall
<1>2. CASE Complete
  <2>1. UNCHANGED <<plan, status, output, wave, steps, aborted>> /\ IsComplete
        /\ phase = "walk" /\ phase' = "done" /\ stop' = "success"
    BY <1>2 DEF Complete, Done, budget
  <2>2. Plan' = Plan /\ Descendants(aborted)' = Descendants(aborted) /\ IsComplete'
    BY <2>1 DEF Plan, plan, Descendants, Successors, IsComplete
  <2> QED  BY <2>1, <2>2 DEF WalkInv, StopsOnError, plan
<1>3. CASE Stuck
  <2>1. UNCHANGED <<plan, status, output, wave, steps, aborted>>
        /\ phase = "walk" /\ phase' = "done" /\ stop' = "failure"
    BY <1>3 DEF Stuck, Done, budget
  <2>2. Plan' = Plan
    BY <2>1 DEF Plan, plan
  <2> QED  BY <2>1, <2>2 DEF WalkInv, StopsOnError, plan
<1>4. ASSUME NEW F \in Abortable, Pivot(F) PROVE WalkInv'
  BY <1>4, WalkPivot
<1>5. ASSUME NEW F \in Abortable, Launch(F) PROVE WalkInv'
  BY <1>5, WalkLaunch
<1>6. ASSUME NEW s \in Steps, Act(s) PROVE WalkInv'
  BY <1>6, WalkAct
<1>7. ASSUME NEW s \in Steps, NEW v, Process(s, v) PROVE WalkInv'
  BY <1>7, WalkProcess
<1>8. CASE Clock \/ UNCHANGED vars
  <2>1. UNCHANGED <<plan, status, output, wave, phase, stop, steps, aborted>>
    BY <1>8 DEF Clock, vars, budget
  <2>2. Plan' = Plan /\ Descendants(aborted)' = Descendants(aborted)
        /\ IsComplete' = IsComplete
    BY <2>1 DEF Plan, plan, Descendants, Successors, IsComplete
  <2> QED  BY <2>1, <2>2 DEF WalkInv, StopsOnError, plan
<1> QED  BY <1>1, <1>2, <1>3, <1>4, <1>5, <1>6, <1>7, <1>8 DEF Next, Walk

\* The invariant holds throughout.
LEMMA WalkInductive == Spec => [](TypeOK /\ WalkInv)
BY TypeInit, TypeStep, WalkInit, WalkStep, PTL DEF Spec

\* A step has run only with every step it depends on completed.
THEOREM DepsRespectedHolds == Spec => []DepsRespected
<1>1. WalkInv => DepsRespected
  BY DEF WalkInv, DepsRespected
<1> QED  BY <1>1, WalkInductive, PTL

\* No walk charges more steps than max_steps, for any width of its waves.
THEOREM StepsWithinLimitHolds == Spec => []StepsWithinLimit
<1>1. WalkInv => StepsWithinLimit
  BY DEF WalkInv, StepsWithinLimit
<1> QED  BY <1>1, WalkInductive, PTL

\* Nothing is started after a failure, with a confidence threshold of 0.9 or less.
THEOREM StopsOnErrorHolds == Spec => []StopsOnError
<1>1. WalkInv => StopsOnError
  BY DEF WalkInv
<1> QED  BY <1>1, WalkInductive, PTL

\* A SUCCESS leaves out nothing but what was aborted and what depends on it.
THEOREM SuccessMeansAllRanHolds == Spec => []SuccessMeansAllRan
<1>1. WalkInv => SuccessMeansAllRan
  BY DEF WalkInv, SuccessMeansAllRan, IsComplete
<1> QED  BY <1>1, WalkInductive, PTL

\* The walk keeps the order of its plan and stops on an error, for plans of every size.
THEOREM WalkInOrderHolds == Spec => []WalkInOrder
BY DepsRespectedHolds, StopsOnErrorHolds, PTL DEF WalkInOrder

\* The order and the meaning of SUCCESS together, for plans of every size.
THEOREM WalkSoundHolds == Spec => []WalkSound
BY WalkInOrderHolds, SuccessMeansAllRanHolds, PTL DEF WalkSound

-----------------------------------------------------------------------------
(* What a walk has charged.                                                  *)

\* The steps whose results have been processed.
Processed == Executed \ wave

\* What has been processed, and no more, has been charged; what is running is in the
\* wave, and only the wave of a walk that was cut short outlives the walk.
ChargeInv ==
  /\ steps = Cardinality(Processed)
  /\ cost = SumOver(fee, Processed)
  /\ \A s \in Plan : status[s] = "running" => s \in wave
  /\ \A s \in Plan : status[s] = "pending" => output[s] = "none"
  /\ phase \in {"idle", "walk"} => wave = {}
  /\ phase = "done" /\ stop \in {"success", "failure", "pivoted"} => wave = {}
  /\ phase # "done" => stop = "success"
  /\ phase = "idle" => n = 0 /\ replans = 0
  /\ count = replans

\* What has been processed is a finite set of steps, each with a fee.
LEMMA ProcessedFinite ==
  TypeOK => /\ IsFiniteSet(Processed) /\ \A s \in Processed : fee[s] \in Nat
            /\ Processed \subseteq Plan /\ Plan \subseteq Steps
<1> SUFFICES ASSUME TypeOK
             PROVE  /\ IsFiniteSet(Processed) /\ \A s \in Processed : fee[s] \in Nat
                    /\ Processed \subseteq Plan /\ Plan \subseteq Steps
  OBVIOUS
<1>1. Plan \subseteq Steps
  <2>1. n \in 0..MaxPlan
    BY DEF TypeOK
  <2> QED  BY <2>1 DEF Plan, Steps
<1>2. Processed \subseteq Plan
  BY DEF Processed, Executed
<1>3. IsFiniteSet(Plan)
  BY FS_Interval DEF Plan, TypeOK
<1> QED  BY <1>1, <1>2, <1>3, FS_Subset DEF TypeOK

\* With nothing processed and nothing charged the books balance.
LEMMA NothingProcessed ==
  Processed = {} /\ steps = 0 /\ cost = 0 => steps = Cardinality(Processed) /\ cost = SumOver(fee, Processed)
BY FS_EmptySet, SumEmpty

\* Before the call nothing has run and nothing is charged.
LEMMA ChargeInit == ComposeInit => ChargeInv
<1> SUFFICES ASSUME ComposeInit PROVE ChargeInv
  OBVIOUS
<1>1. Plan = {} /\ wave = {} /\ Processed = {} /\ steps = 0 /\ cost = 0
  BY DEF ComposeInit, Plan, Processed, Executed
<1> QED  BY <1>1, NothingProcessed DEF ComposeInit, ChargeInv

\* A step that processes nothing, and leaves the fees of what was processed alone, keeps
\* the books.
LEMMA BooksKept ==
  ASSUME TypeOK, ChargeInv, TypeOK', Processed' = Processed, UNCHANGED <<steps, cost>>,
         \A s \in Processed : fee'[s] = fee[s]
  PROVE  steps' = Cardinality(Processed') /\ cost' = SumOver(fee', Processed')
<1>1. SumOver(fee, Processed) = SumOver(fee', Processed)
  BY ProcessedFinite, SumEqual
<1> QED  BY <1>1 DEF ChargeInv

\* A call, on a budget nothing has been charged to.
LEMMA ChargeCall == TypeOK /\ ChargeInv /\ Call => ChargeInv'
<1> SUFFICES ASSUME TypeOK, ChargeInv, Call PROVE ChargeInv'
  OBVIOUS
<1>1. /\ phase = "idle" /\ phase' = "walk" /\ wave' = {} /\ count' = 0
      /\ UNCHANGED <<cost, steps, replans>>
      /\ \A s \in Steps : status'[s] = "pending" /\ output'[s] = "none"
      /\ stop' = "success" /\ n' \in 1..MaxPlan
  BY DEF Call, NewPlan, budget
<1>2. Plan' \subseteq Steps
  <2>1. n' \in 1..MaxPlan /\ Plan' = 1..n'
    BY <1>1 DEF Plan
  <2> QED  BY <2>1 DEF Steps
<1>3. Processed = {} /\ Processed' = {}
  BY <1>1, <1>2 DEF Processed, Executed, Plan, ChargeInv
<1>4. steps = 0 /\ cost = 0
  BY <1>3, FS_EmptySet, SumEmpty DEF ChargeInv
<1>5. steps' = Cardinality(Processed') /\ cost' = SumOver(fee', Processed')
  BY <1>1, <1>3, <1>4, FS_EmptySet, SumEmpty
<1> QED  BY <1>1, <1>2, <1>5 DEF ChargeInv

\* The walk ends with nothing in the wave, and with no more than was already skipped.
LEMMA ChargeEnd == TypeOK /\ TypeOK' /\ ChargeInv /\ (Complete \/ Stuck) => ChargeInv'
<1> SUFFICES ASSUME TypeOK, TypeOK', ChargeInv, Complete \/ Stuck PROVE ChargeInv'
  OBVIOUS
<1>1. /\ phase = "walk" /\ phase' = "done"
      /\ UNCHANGED <<n, status, output, fee, wave, count, cost, steps, replans>>
  BY DEF Complete, Stuck, Done, plan, budget
<1>2. Plan' = Plan /\ Processed' = Processed
  BY <1>1 DEF Plan, Processed, Executed
<1>3. steps' = Cardinality(Processed') /\ cost' = SumOver(fee', Processed')
  BY <1>1, <1>2, BooksKept
<1> QED  BY <1>1, <1>2, <1>3 DEF ChargeInv

\* A pivot skips pending steps, which have not run.
LEMMA ChargePivot ==
  ASSUME TypeOK, TypeOK', ChargeInv, NEW F \in Abortable, Pivot(F) PROVE ChargeInv'
<1>1. F \subseteq ReadySteps /\ AfterAborts(F) \in [Steps -> Statuses]
  BY AfterAbortsLemma DEF Abortable
<1>2. \A s \in Steps : /\ status[s] # "pending" => status'[s] = status[s]
                       /\ status[s] = "pending" => status'[s] \in {"pending", "skipped"}
  BY <1>1, AfterAbortsLemma, SkipPendingLemma DEF Pivot
<1>3. /\ phase = "walk" /\ phase' = "done" /\ stop' = "pivoted"
      /\ UNCHANGED <<n, output, fee, wave, count, cost, steps, replans>>
  BY DEF Pivot, Done, plan, budget
<1>4. Plan' = Plan /\ Processed' = Processed /\ Plan \subseteq Steps
  BY <1>3, ProcessedFinite DEF Plan, Processed, Executed
<1>5. steps' = Cardinality(Processed') /\ cost' = SumOver(fee', Processed')
  BY <1>3, <1>4, BooksKept
<1>6. \A s \in Plan' : status'[s] = "running" => s \in wave'
  BY <1>2, <1>3, <1>4 DEF ChargeInv
<1>7. \A s \in Plan' : status'[s] = "pending" => output'[s] = "none"
  BY <1>2, <1>3, <1>4 DEF ChargeInv
<1> QED  BY <1>3, <1>5, <1>6, <1>7 DEF ChargeInv

\* What is launched was pending, so it has not run.
LEMMA ChargeLaunch ==
  ASSUME TypeOK, TypeOK', ChargeInv, NEW F \in Abortable, Launch(F) PROVE ChargeInv'
<1>1. F \subseteq ReadySteps /\ AfterAborts(F) \in [Steps -> Statuses]
  BY AfterAbortsLemma DEF Abortable
<1>2. /\ phase = "walk" /\ phase' = (IF wave' = {} THEN "walk" ELSE "act")
      /\ wave' = ReadySteps \ F /\ wave = {}
      /\ UNCHANGED <<n, output, fee, stop, count, cost, steps, replans>>
  BY DEF Launch, plan, budget, ChargeInv
<1>3. \A s \in Steps : status'[s] = IF s \in wave' THEN "running" ELSE AfterAborts(F)[s]
  BY <1>2 DEF Launch, Marked
<1>4. \A s \in wave' : s \in Plan /\ status[s] = "pending" /\ output[s] = "none"
  BY <1>2 DEF ReadySteps, ChargeInv
<1>5. Plan' = Plan /\ Processed' = Processed /\ Plan \subseteq Steps
  BY <1>2, <1>4, ProcessedFinite DEF Plan, Processed, Executed
<1>6. steps' = Cardinality(Processed') /\ cost' = SumOver(fee', Processed')
  BY <1>2, <1>5, BooksKept
<1>7. \A s \in Plan' : status'[s] = "running" => s \in wave'
  <2> SUFFICES ASSUME NEW s \in Plan, s \notin wave' PROVE status'[s] # "running"
    BY <1>5
  <2>1. status'[s] = AfterAborts(F)[s] /\ status[s] # "running"
    BY <1>2, <1>3, <1>5 DEF ChargeInv
  <2> QED  BY <1>1, <1>5, <2>1, AfterAbortsLemma
<1>8. \A s \in Plan' : status'[s] = "pending" => output'[s] = "none"
  <2> SUFFICES ASSUME NEW s \in Plan, status'[s] = "pending" PROVE output[s] = "none"
    BY <1>2, <1>5
  <2>1. AfterAborts(F)[s] = "pending"
    BY <1>3, <1>5
  <2>2. status[s] = "pending"
    BY <1>1, <1>5, <2>1, AfterAbortsLemma
  <2> QED  BY <2>2 DEF ChargeInv
<1> QED  BY <1>2, <1>6, <1>7, <1>8 DEF ChargeInv

\* An act in the wave is not processed yet, and its fee not charged.
LEMMA ChargeAct ==
  ASSUME TypeOK, TypeOK', WalkInv, ChargeInv, NEW s \in Steps, Act(s) PROVE ChargeInv'
<1>1. /\ phase = "act" /\ phase' \in {"act", "process"} /\ s \in wave
      /\ UNCHANGED <<n, status, wave, stop, count, cost, steps, replans>>
      /\ \A t \in Steps \ {s} : output'[t] = output[t] /\ fee'[t] = fee[t]
  BY DEF Act, plan, budget, TypeOK
<1>2. Plan' = Plan /\ Plan \subseteq Steps
  BY <1>1, ProcessedFinite DEF Plan
<1>3. Processed' = Processed
  BY <1>1, <1>2 DEF Processed, Executed
<1>4. \A t \in Processed : fee'[t] = fee[t]
  BY <1>1, <1>2 DEF Processed, Executed
<1>5. steps' = Cardinality(Processed') /\ cost' = SumOver(fee', Processed')
  BY <1>1, <1>3, <1>4, BooksKept
<1>6. \A t \in Plan' : status'[t] = "pending" => output'[t] = "none"
  <2>1. output'[s] # "none" => status[s] # "pending"
    BY <1>1, <1>2 DEF WalkInv, TypeOK
  <2> QED  BY <1>1, <1>2, <2>1 DEF ChargeInv
<1> QED  BY <1>1, <1>2, <1>5, <1>6 DEF ChargeInv

\* Processing a result charges its step and its fee.
LEMMA ChargeProcess ==
  ASSUME TypeOK, TypeOK', WalkInv, ChargeInv, NEW s \in Steps, NEW v, Process(s, v)
  PROVE  ChargeInv'
<1> DEFINE limit == ShouldStop(cost + fee[s], steps + 1, replans)
           decision == Route(v, limit)
<1>1. /\ phase = "process" /\ s \in wave /\ wave' = wave \ {s} /\ output[s] # "none"
      /\ cost' = cost + fee[s] /\ steps' = steps + 1 /\ UNCHANGED <<n, output, fee>>
  BY DEF Process, plan, WalkInv
<1>2. Plan' = Plan /\ Plan \subseteq Steps /\ wave \subseteq Plan
  BY <1>1, ProcessedFinite DEF Plan, TypeOK
<1>3. Processed' = Processed \cup {s} /\ s \notin Processed
  BY <1>1, <1>2 DEF Processed, Executed
<1>4. steps' = Cardinality(Processed')
  <2>1. Cardinality(Processed \cup {s}) = Cardinality(Processed) + 1
    BY <1>3, ProcessedFinite, FS_AddElement
  <2> QED  BY <1>1, <1>3, <2>1 DEF ChargeInv
<1>5. cost' = SumOver(fee', Processed')
  <2>1. IsFiniteSet(Processed') /\ \A t \in Processed' : fee[t] \in Nat
    BY <1>1, <1>3, ProcessedFinite, FS_AddElement DEF TypeOK
  <2>2. SumOver(fee, Processed') = fee[s] + SumOver(fee, Processed' \ {s})
    BY <1>3, <2>1, SumPlus
  <2>3. Processed' \ {s} = Processed
    BY <1>3
  <2>4. fee[s] \in Nat /\ cost \in Nat
    BY DEF TypeOK
  <2>5. SumOver(fee, Processed') = fee[s] + cost
    BY <2>2, <2>3 DEF ChargeInv
  <2>6. SumOver(fee', Processed') = SumOver(fee, Processed')
    BY <1>1
  <2> QED  BY <1>1, <2>4, <2>5, <2>6
<1>6. /\ status'[s] \in {"completed", "failed"}
      /\ \A t \in Steps \ {s} : \/ status'[t] = status[t]
                                \/ status[t] = "pending" /\ status'[t] = "skipped"
  BY ProcessLemma
<1>7. \A t \in Plan' : /\ status'[t] = "running" => t \in wave'
                       /\ status'[t] = "pending" => output'[t] = "none"
  BY <1>1, <1>2, <1>6 DEF ChargeInv
<1>8. limit \in {"none"} \cup BudgetReasons /\ (limit = "none" => replans < MaxReplans)
  BY DEF ShouldStop, BudgetReasons, TypeOK
<1>9. count = replans /\ replans \in Nat /\ stop = "success"
  BY <1>1 DEF ChargeInv, TypeOK
<1>10. decision # "stop_failure" /\ (decision = "stop_budget" => limit # "none")
  BY <1>8, <1>9 DEF Route
<1>11. \/ /\ phase' = (IF wave' = {} THEN "walk" ELSE "process")
          /\ UNCHANGED <<stop, count, replans>>
       \/ /\ decision \in {"stop_budget", "stop_failure"}
          /\ Done(IF limit # "none" THEN limit ELSE "failure")
          /\ UNCHANGED <<count, replans>>
       \/ count' = count + 1 /\ replans' = replans + 1 /\ Done("needs_replan")
  BY DEF Process
<1> HIDE DEF limit, decision
<1>12. \/ phase' = (IF wave' = {} THEN "walk" ELSE "process") /\ stop' = "success"
       \/ phase' = "done" /\ stop' \in BudgetReasons \cup {"needs_replan"}
  BY <1>8, <1>9, <1>10, <1>11 DEF Done, BudgetReasons
<1>13. count' = replans'
  BY <1>9, <1>11
<1> QED  BY <1>4, <1>5, <1>7, <1>12, <1>13 DEF ChargeInv, BudgetReasons

\* Every step keeps the books.
LEMMA ChargeStep == TypeOK /\ WalkInv /\ ChargeInv /\ [Next]_vars => ChargeInv'
<1> SUFFICES ASSUME TypeOK, WalkInv, ChargeInv, [Next]_vars PROVE ChargeInv'
  OBVIOUS
<1>1. TypeOK'
  BY TypeStep
<1>2. CASE Call
  BY <1>2, ChargeCall
<1>3. CASE Complete \/ Stuck
  BY <1>1, <1>3, ChargeEnd
<1>4. ASSUME NEW F \in Abortable, Pivot(F) PROVE ChargeInv'
  BY <1>1, <1>4, ChargePivot
<1>5. ASSUME NEW F \in Abortable, Launch(F) PROVE ChargeInv'
  BY <1>1, <1>5, ChargeLaunch
<1>6. ASSUME NEW s \in Steps, Act(s) PROVE ChargeInv'
  BY <1>1, <1>6, ChargeAct
<1>7. ASSUME NEW s \in Steps, NEW v, Process(s, v) PROVE ChargeInv'
  BY <1>1, <1>7, ChargeProcess
<1>8. CASE Clock \/ UNCHANGED vars
  <2>1. UNCHANGED <<n, status, output, fee, wave, phase, stop, count, cost, steps, replans>>
    BY <1>8 DEF Clock, vars, plan, budget
  <2>2. Plan' = Plan /\ Processed' = Processed
    BY <2>1 DEF Plan, Processed, Executed
  <2>3. steps' = Cardinality(Processed') /\ cost' = SumOver(fee', Processed')
    BY <1>1, <2>1, <2>2, BooksKept
  <2> QED  BY <2>1, <2>2, <2>3 DEF ChargeInv
<1> QED  BY <1>2, <1>3, <1>4, <1>5, <1>6, <1>7, <1>8 DEF Next, Walk

\* A walk that ends in SUCCESS, FAILURE or PIVOTED has charged the budget for every step
\* it ran, whatever the width of its waves and the order its acts return in.
THEOREM ChargedUnlessCutHolds == Spec => []ChargedUnlessCut
<1>1. TypeOK /\ ChargeInv => ChargedUnlessCut
  <2> SUFFICES ASSUME TypeOK, ChargeInv, phase = "done", stop \in {"success", "failure", "pivoted"}
               PROVE  /\ steps = Cardinality(Executed)
                      /\ cost = MapThenSumSet(LAMBDA s : fee[s], Executed)
                      /\ InStatus("running") = {}
    BY DEF ChargedUnlessCut
  <2>1. wave = {} /\ Processed = Executed
    BY DEF ChargeInv, Processed
  <2>2. cost = MapThenSumSet(LAMBDA s : fee[s], Executed)
    BY <2>1 DEF ChargeInv, SumOver
  <2>3. InStatus("running") = {}
    BY <2>1 DEF ChargeInv, InStatus
  <2> QED  BY <2>1, <2>2, <2>3 DEF ChargeInv
<1> QED  BY <1>1, TypeInit, TypeStep, WalkInit, WalkStep, ChargeInit, ChargeStep, PTL DEF Spec

-----------------------------------------------------------------------------
(* The strategies over the walk.                                             *)

\* What a step of the walk does to the budget: a processed result charges one step,
\* and only NEEDS_REPLAN, decided within the limits, charges a replan.
LEMMA WalkBudget ==
  ASSUME TypeOK, Walk
  PROVE  /\ phase # "done" /\ phase # "idle" /\ phase' # "idle"
         /\ \/ /\ UNCHANGED <<steps, replans>>
               /\ phase' = "done" => stop' # "needs_replan"
            \/ /\ phase = "process"
               /\ steps' = steps + 1
               /\ \/ UNCHANGED replans /\ phase' # "done" /\ steps + 1 < MaxSteps
                  \/ UNCHANGED replans /\ phase' = "done" /\ stop' # "needs_replan"
                  \/ /\ replans' = replans + 1 /\ phase' = "done" /\ stop' = "needs_replan"
                     /\ replans < MaxReplans /\ steps + 1 < MaxSteps
<1>1. CASE Complete \/ Stuck
  BY <1>1 DEF Complete, Stuck, Done, budget
<1>2. ASSUME NEW F \in Abortable, Pivot(F) \/ Launch(F)
      PROVE  /\ phase = "walk" /\ phase' # "idle" /\ UNCHANGED <<steps, replans>>
             /\ phase' = "done" => stop' # "needs_replan"
  BY <1>2 DEF Pivot, Launch, Done, budget
<1>3. ASSUME NEW s \in Steps, Act(s)
      PROVE  phase = "act" /\ phase' \in {"act", "process"} /\ UNCHANGED <<steps, replans>>
  BY <1>3 DEF Act, budget
<1>4. ASSUME NEW s \in Steps, NEW v, Process(s, v)
      PROVE  /\ phase = "process" /\ phase' # "idle" /\ steps' = steps + 1
             /\ \/ UNCHANGED replans /\ phase' # "done" /\ steps + 1 < MaxSteps
                \/ UNCHANGED replans /\ phase' = "done" /\ stop' # "needs_replan"
                \/ /\ replans' = replans + 1 /\ phase' = "done" /\ stop' = "needs_replan"
                   /\ replans < MaxReplans /\ steps + 1 < MaxSteps
  <2> DEFINE limit == ShouldStop(cost + fee[s], steps + 1, replans)
             decision == Route(v, limit)
  <2>1. cost + fee[s] \in Nat /\ steps + 1 \in Nat /\ replans \in Nat
    BY DEF TypeOK
  <2>2. /\ limit \in {"none"} \cup BudgetReasons
        /\ limit = "none" => steps + 1 < MaxSteps /\ replans < MaxReplans
    BY <2>1 DEF ShouldStop, BudgetReasons
  <2>3. \/ decision = "continue" /\ phase' \in {"walk", "process"} /\ UNCHANGED replans
        \/ UNCHANGED replans /\ Done(IF limit # "none" THEN limit ELSE "failure")
        \/ decision = "replan" /\ Done("needs_replan") /\ replans' = replans + 1
    BY <1>4 DEF Process
  <2>4. decision \in {"continue", "replan"} => limit = "none"
    BY DEF Route
  <2>5. phase = "process" /\ steps' = steps + 1
    BY <1>4 DEF Process
  <2> HIDE DEF limit, decision
  <2> QED  BY <2>2, <2>3, <2>4, <2>5 DEF Done, BudgetReasons
<1> QED  BY <1>1, <1>2, <1>3, <1>4 DEF Walk

-----------------------------------------------------------------------------

\* Where the strategy stands and what it has spent to get there.
StrategyInv ==
  /\ TypeOK /\ StrategyTypeOK
  /\ steps <= MaxSteps /\ replans <= MaxReplans
  /\ at \in {"start", "direct"} =>
       phase = "idle" /\ steps = 0 /\ replans = 0 /\ attempt = 0
  /\ at = "expand" => steps < MaxSteps /\ attempt = replans
  /\ at = "compose" =>
       /\ phase # "idle"
       /\ phase # "done" => steps < MaxSteps /\ attempt = replans + 1
       /\ phase = "done" /\ stop = "needs_replan" => steps < MaxSteps /\ attempt = replans
       /\ phase = "done" /\ stop # "needs_replan" => attempt = replans + 1
  /\ attempt <= replans + 1
  /\ NeedsReplanHasResults

\* A strategy starts with nothing spent.
LEMMA StrategyInitInv == StrategyInit => StrategyInv
<1> SUFFICES ASSUME StrategyInit PROVE StrategyInv
  OBVIOUS
<1>1. TypeOK
  BY TypeInit DEF StrategyInit
<1> QED
  BY <1>1 DEF StrategyInit, ComposeInit, StrategyInv, StrategyTypeOK, NeedsReplanHasResults

\* The direct act, with or without the fallback, stays within the budget.
LEMMA DirectInv ==
  ASSUME StrategyInv, DirectAct \/ DirectNoStep PROVE StrategyInv'
<1>1. CASE DirectAct
  <2>1. PICK c \in StepCosts :
          /\ cost' = cost + c /\ steps' = steps + 1
          /\ Ended("success") \/ FallBack(cost + c, steps + 1)
    BY <1>1 DEF DirectAct
  <2>2. /\ at = "direct"
        /\ UNCHANGED <<plan, status, output, fee, wave, phase, stop, count, replans, late, aborted, attempt>>
    BY <1>1 DEF DirectAct
  <2>3. steps = 0 /\ steps + 1 <= MaxSteps /\ replans = 0 /\ attempt = 0 /\ cost + c \in Nat
    BY <2>2 DEF StrategyInv, TypeOK
  <2>4. TypeOK'
    BY <2>1, <2>2, <2>3 DEF StrategyInv, TypeOK, Plan, plan
  <2>5. CASE at' = "expand" /\ UNCHANGED outcome
              /\ ShouldStop(cost + c, steps + 1, replans) = "none"
    <3>1. steps + 1 < MaxSteps
      BY <2>3, <2>5, ShouldStopLemma
    <3> QED  BY <2>1, <2>2, <2>3, <2>4, <2>5, <3>1
             DEF StrategyInv, StrategyTypeOK, NeedsReplanHasResults
  <2>6. CASE at' = "ended" /\ outcome' \in {"success", "failure"}
    BY <2>1, <2>2, <2>3, <2>4, <2>6
       DEF StrategyInv, StrategyTypeOK, NeedsReplanHasResults, StopReasons
  <2> QED  BY <2>1, <2>5, <2>6 DEF FallBack, Ended
<1>2. CASE DirectNoStep
  <2>1. at = "direct" /\ UNCHANGED <<vars, attempt>> /\ FallBack(cost, steps)
    BY <1>2 DEF DirectNoStep
  <2>2. TypeOK' /\ UNCHANGED <<steps, replans, phase>> /\ steps < MaxSteps
    BY <2>1 DEF vars, StrategyInv, TypeOK, Plan, plan, budget
  <2>3. \/ at' = "expand" /\ UNCHANGED outcome
        \/ at' = "ended" /\ outcome' = "failure"
    BY <2>1 DEF FallBack, Ended
  <2> QED  BY <2>1, <2>2, <2>3
           DEF StrategyInv, StrategyTypeOK, NeedsReplanHasResults, StopReasons
<1> QED  BY <1>1, <1>2

\* So does a step of the walk.
LEMMA ComposeInv ==
  ASSUME StrategyInv, ComposeStep PROVE StrategyInv'
<1>1. at = "compose" /\ Walk /\ UNCHANGED <<at, attempt, outcome>>
  BY DEF ComposeStep, strategy
<1>2. TypeOK' /\ TypeOK
  BY <1>1, TypeStep DEF Next, StrategyInv
<1>3. outcome' = "none" /\ StrategyTypeOK'
  BY <1>1 DEF StrategyInv, StrategyTypeOK
<1>4. phase # "done" /\ steps < MaxSteps /\ attempt = replans + 1 /\ replans <= MaxReplans
  BY <1>1, <1>2, WalkBudget DEF StrategyInv
<1>5. steps \in Nat /\ replans \in Nat
  BY <1>2 DEF TypeOK
<1> QED  BY <1>1, <1>2, <1>3, <1>4, <1>5, WalkBudget DEF StrategyInv, NeedsReplanHasResults

\* So does every step of the strategy.
LEMMA StrategyStepInv == StrategyInv /\ [StrategyNext]_svars => StrategyInv'
<1> SUFFICES ASSUME StrategyInv, [StrategyNext]_svars PROVE StrategyInv'
  OBVIOUS
<1>1. CASE Assess
  <2>1. UNCHANGED vars /\ at = "start" /\ at' \in {"direct", "expand"} /\ UNCHANGED <<attempt, outcome>>
    BY <1>1 DEF Assess
  <2>2. TypeOK' /\ UNCHANGED <<steps, replans, phase>>
    BY <2>1 DEF vars, StrategyInv, TypeOK, Plan, plan, budget
  <2> QED  BY <2>1, <2>2 DEF StrategyInv, StrategyTypeOK, NeedsReplanHasResults
<1>2. CASE DirectAct \/ DirectNoStep
  BY <1>2, DirectInv
<1>3. CASE Expand
  <2>1. /\ at = "expand" /\ at' = "compose" /\ attempt' = attempt + 1
        /\ UNCHANGED <<steps, replans, outcome>> /\ phase' = "walk"
    BY <1>3 DEF Expand, budget, NewPlan
  <2>2. TypeOK'
    BY <1>3, TypeNewPlan DEF Expand, StrategyInv
  <2> QED  BY <2>1, <2>2 DEF StrategyInv, StrategyTypeOK, NeedsReplanHasResults
<1>4. CASE ExpandNoStep
  <2>1. /\ UNCHANGED vars /\ at = "expand" /\ at' = "ended" /\ outcome' = "failure"
        /\ UNCHANGED attempt
    BY <1>4 DEF ExpandNoStep, Ended
  <2>2. TypeOK' /\ UNCHANGED <<steps, replans, phase>>
    BY <2>1 DEF vars, StrategyInv, TypeOK, Plan, plan, budget
  <2> QED  BY <2>1, <2>2 DEF StrategyInv, StrategyTypeOK, NeedsReplanHasResults, StopReasons
<1>5. CASE ComposeStep
  BY <1>5, ComposeInv
<1>6. CASE Return
  <2>1. /\ at = "compose" /\ phase = "done" /\ at' = "ended" /\ UNCHANGED vars
        /\ UNCHANGED attempt
        /\ outcome' = IF stop = "needs_replan" /\ replans >= MaxReplans THEN "max_replans" ELSE stop
        /\ stop # "needs_replan" \/ ~MayRetry
    BY <1>6 DEF Return, Ended
  <2>2. TypeOK' /\ UNCHANGED <<steps, replans, phase>> /\ replans \in Nat
    BY <2>1 DEF vars, StrategyInv, TypeOK, Plan, plan, budget
  <2>3. outcome' \in StopReasons /\ outcome' # "none"
    BY <2>1 DEF StrategyInv, TypeOK, StopReasons, BudgetReasons
  <2>4. Results' = Results
    BY <2>1 DEF Results, InStatus, Plan, vars, plan
  <2>5. outcome' = "needs_replan" => Results' # {}
    BY <2>1, <2>2, <2>4 DEF MayRetry
  <2> QED  BY <2>1, <2>2, <2>3, <2>5 DEF StrategyInv, StrategyTypeOK, NeedsReplanHasResults
<1>7. CASE Retry
  <2>1. /\ at = "compose" /\ phase = "done" /\ stop = "needs_replan" /\ at' = "expand"
        /\ UNCHANGED vars /\ UNCHANGED <<attempt, outcome>>
    BY <1>7 DEF Retry
  <2>2. TypeOK' /\ UNCHANGED <<steps, replans, phase>>
    BY <2>1 DEF vars, StrategyInv, TypeOK, Plan, plan, budget
  <2> QED  BY <2>1, <2>2 DEF StrategyInv, StrategyTypeOK, NeedsReplanHasResults
<1>8. CASE (Clock /\ UNCHANGED strategy) \/ UNCHANGED svars
  <2>1. UNCHANGED <<at, attempt, outcome, plan, status, phase, stop, steps, replans>>
    BY <1>8 DEF Clock, strategy, svars, vars, budget
  <2>2. TypeOK'
    BY <1>8, TypeStep DEF Next, svars, StrategyInv
  <2>3. Results' = Results
    BY <2>1 DEF Results, InStatus, Plan, plan
  <2> QED  BY <2>1, <2>2, <2>3 DEF StrategyInv, StrategyTypeOK, NeedsReplanHasResults
<1> QED  BY <1>1, <1>2, <1>3, <1>4, <1>5, <1>6, <1>7, <1>8 DEF StrategyNext, StrategyStep

\* However many plans are made and however they fail, the direct act and the walks of
\* all attempts charge at most max_steps steps, and replans stay within max_replans.
THEOREM AttemptsShareBudgetHolds == StrategySpec => []AttemptsShareBudget
<1>1. StrategyInv => AttemptsShareBudget
  BY DEF StrategyInv, AttemptsShareBudget
<1> QED  BY <1>1, StrategyInitInv, StrategyStepInv, PTL DEF StrategySpec

\* An attempt after the first follows a recorded replan.
THEOREM AttemptsBoundedHolds == StrategySpec => []AttemptsBounded
<1>1. StrategyInv => AttemptsBounded
  BY DEF StrategyInv, AttemptsBounded
<1> QED  BY <1>1, StrategyInitInv, StrategyStepInv, PTL DEF StrategySpec

\* A caller told NEEDS_REPLAN has partial results to synthesise from.
THEOREM NeedsReplanHasResultsHolds == StrategySpec => []NeedsReplanHasResults
<1>1. StrategyInv => NeedsReplanHasResults
  BY DEF StrategyInv
<1> QED  BY <1>1, StrategyInitInv, StrategyStepInv, PTL DEF StrategySpec

\* All attempts together stay within one budget of steps and replans.
THEOREM AttemptsWithinBudgetHolds == StrategySpec => []AttemptsWithinBudget
BY AttemptsShareBudgetHolds, AttemptsBoundedHolds, PTL DEF AttemptsWithinBudget

\* One budget for all attempts, and an honest NEEDS_REPLAN, for any limits and plan sizes
\* (decompose.py, adaptive.py).
THEOREM StrategySoundHolds == StrategySpec => []StrategySound
BY NeedsReplanHasResultsHolds, AttemptsWithinBudgetHolds, PTL DEF StrategySound

-----------------------------------------------------------------------------
(* AgentTools: sessions that calls hydrate, clear and read at once.          *)

ToolDoc == [id : DOMAIN Owner, tier : {"handle", "inline", "summary"}, bytes : Nat]
ToolMemory == [there : BOOLEAN, docs : Seq(ToolDoc), turns : Nat]
TurnNotes == [paused : BOOLEAN, budget : BOOLEAN, error : {"none", "surfacing", "other"},
              cost : Nat, summed : BOOLEAN]
Answered == [kind : {"none", "error", "result"}, of : SessionIds \cup {Nobody}, budget : BOOLEAN, paused : BOOLEAN,
             cost : Nat, docs : Seq(ToolDoc)]
ToolCall == [at : {"idle", "hydrate", "reading", "turn", "running", "memory", "done"}, req : Requests \cup {Nobody},
             sid : SessionIds \cup {Nobody}, scope : SessionIds \cup {Nobody}, memory : ToolMemory,
             todo : Seq(DOMAIN Owner), left : Nat, new : Seq(ToolDoc), kept : BOOLEAN, seen : Seq(ToolDoc),
             events : TurnNotes, reply : Answered]

\* The documents of session s: its own ones, each once; and a memory of s.
OwnDocs(docs, s) ==
  \A i, j \in DOMAIN docs : Owner[docs[i].id] = s /\ (docs[i].id = docs[j].id => i = j)
MemoryOf(m, s) == m \in ToolMemory /\ OwnDocs(m.docs, s) /\ (m.docs # <<>> => m.there)

AtWork(k) == k.at \notin {"idle", "done"}

\* What a call in hydration holds: its documents are in its copy of the memory, those it still
\* has to read are not, and what they took of the budget is gone.
Hydrating(k) ==
  /\ MemoryOf(k.memory, k.sid) /\ k.memory.there
  /\ Range(k.new) \subseteq Range(k.memory.docs)
  /\ k.left + Bytes(k.new) = SummaryMax
  /\ \A i, j \in DOMAIN k.todo : k.todo[i] = k.todo[j] => i = j
  /\ \A i \in DOMAIN k.todo : k.todo[i] \notin Hydrated(k.memory)
  /\ k.todo # <<>> \/ k.new # <<>> => k.req.ctx # Nobody

\* What holds of a call whatever the others do.
CallFine(k) ==
  /\ k \in ToolCall
  /\ AtWork(k) => k.sid # Nobody /\ k.reply.kind = "none"
  /\ k.at # "idle" /\ k.sid # Nobody =>
       k.req \in Requests /\ k.sid = Resolved(k.req) /\ k.scope = k.sid /\ k.reply.of \in {Nobody, k.sid}
  /\ k.at # "idle" => Told(k)
  /\ k.at \notin {"reading", "turn", "running"} => k.new = <<>>
  /\ k.left <= SummaryMax /\ Bytes(k.new) <= SummaryMax
  /\ k.at = "reading" => Hydrating(k)
  /\ k.at \in {"turn", "running"} /\ k.new # <<>> => k.req.ctx # Nobody
  /\ k.at = "running" => MemoryOf(k.memory, k.sid)

\* Alone in its session, the turn of a call finds what the call hydrated.
FindsNew(k, saved, over) ==
  k.kept /\ k.sid \notin over /\ k.new # <<>> =>
    /\ k.at = "turn" => Range(k.new) \subseteq Range(saved[k.sid].docs)
    /\ k.at = "running" => Range(k.new) \subseteq Range(k.seen)

ToolsInv ==
  /\ sessions \in [SessionIds -> ToolMemory] /\ DOMAIN call = ToolCalls /\ crossed \in SUBSET SessionIds
  /\ \A s \in SessionIds : MemoryOf(sessions[s], s)
  /\ \A c \in ToolCalls : CallFine(call[c]) /\ FindsNew(call[c], sessions, crossed)
  /\ \A c, d \in ToolCalls : c # d /\ AtWork(call[c]) /\ AtWork(call[d]) /\ call[c].sid = call[d].sid =>
       call[c].sid \in crossed

BytesEach(docs) == [i \in DOMAIN docs |-> docs[i].bytes]

LEMMA DocsTyped ==
  ASSUME NEW docs \in Seq(ToolDoc)
  PROVE  /\ Len(docs) \in Nat /\ DOMAIN docs = 1..Len(docs) /\ IsFiniteSet(DOMAIN docs)
         /\ \A i \in DOMAIN docs : docs[i] \in ToolDoc /\ docs[i].bytes \in Nat /\ docs[i].id \in DOMAIN Owner
                                   /\ BytesEach(docs)[i] = docs[i].bytes /\ BytesEach(docs)[i] \in Nat
<1>1. Len(docs) \in Nat /\ DOMAIN docs = 1..Len(docs)
      /\ \A i \in DOMAIN docs : docs[i] \in ToolDoc
  OBVIOUS
<1>2. IsFiniteSet(DOMAIN docs)
  BY <1>1, FS_Interval
<1>3. \A i \in DOMAIN docs : docs[i].bytes \in Nat /\ docs[i].id \in DOMAIN Owner
                             /\ BytesEach(docs)[i] = docs[i].bytes
  BY <1>1 DEF BytesEach, ToolDoc
<1> QED  BY <1>1, <1>2, <1>3

\* What was read is the sum of what each document took.
LEMMA BytesAre ==
  ASSUME NEW docs \in Seq(ToolDoc)
  PROVE  Bytes(docs) = SumOver(BytesEach(docs), DOMAIN docs) /\ Bytes(docs) \in Nat
<1> DEFINE U == DOMAIN docs
           w == BytesEach(docs)
           Same(h) == h = [s \in SUBSET U |->
             IF s = {} THEN 0 ELSE docs[NextOf(s)].bytes + h[s \ {NextOf(s)}]]
           h1 == CHOOSE f : Same(f)
<1>1. IsFiniteSet(U) /\ \A i \in U : w[i] \in Nat /\ w[i] = docs[i].bytes
  BY DocsTyped
<1>2. \A h : Same(h) <=> Adds(w, U, h)
  <2> SUFFICES ASSUME NEW h PROVE Same(h) <=> Adds(w, U, h)
    OBVIOUS
  <2>1. \A s \in SUBSET U :
          (IF s = {} THEN 0 ELSE docs[NextOf(s)].bytes + h[s \ {NextOf(s)}])
            = (IF s = {} THEN 0 ELSE w[NextOf(s)] + h[s \ {NextOf(s)}])
    <3> HIDE DEF U, w
    <3> QED  BY <1>1, NextIn
  <2> HIDE DEF U, w
  <2> QED  BY <2>1 DEF Adds
<1>3. PICK g : Adds(w, U, g) /\ SumOver(w, U) = g[U]
  BY <1>1, SumIs
<1>4. Adds(w, U, h1)
  <2> HIDE DEF Same, U, w
  <2>1. Same(h1)
    BY <1>2, <1>3 DEF h1
  <2> QED  BY <1>2, <2>1
<1>5. Bytes(docs) = h1[U]
  BY DEF Bytes, FoldSeq, FoldFunction, FoldFunctionOnSet, MapThenFoldSet, NextOf
<1>6. h1[U] = g[U] /\ g[U] \in Nat
  <2> HIDE DEF h1, U, w
  <2> QED  BY <1>1, <1>3, <1>4, SumsAgree, SumNat
<1> QED  BY <1>3, <1>5, <1>6

LEMMA BytesAppend ==
  ASSUME NEW docs \in Seq(ToolDoc), NEW doc \in ToolDoc
  PROVE  Bytes(Append(docs, doc)) = Bytes(docs) + doc.bytes
<1> DEFINE more == Append(docs, doc)
           U == DOMAIN docs
           m == Len(docs) + 1
           v == BytesEach(more)
           w == BytesEach(docs)
<1>1. more \in Seq(ToolDoc) /\ DOMAIN more = 1..m /\ U = 1..Len(docs) /\ Len(docs) \in Nat
      /\ more[m] = doc /\ \A i \in U : more[i] = docs[i]
  OBVIOUS
<1>2. DOMAIN more \ {m} = U /\ m \in DOMAIN more
  BY <1>1
<1> HIDE DEF more, U
<1>3. IsFiniteSet(DOMAIN more) /\ \A i \in DOMAIN more : v[i] = more[i].bytes /\ v[i] \in Nat
  BY <1>1, DocsTyped
<1>4. IsFiniteSet(U) /\ \A i \in U : w[i] = docs[i].bytes /\ w[i] \in Nat
  BY DocsTyped DEF U
<1> HIDE DEF v, w, m
<1>5. SumOver(v, DOMAIN more) = v[m] + SumOver(v, U)
  BY <1>2, <1>3, SumPlus
<1>6. SumOver(v, U) = SumOver(w, U)
  <2>1. \A i \in U : w[i] = v[i]
    BY <1>1, <1>2, <1>3, <1>4
  <2> QED  BY <1>4, <2>1, SumEqual
<1>7. Bytes(more) = SumOver(v, DOMAIN more) /\ Bytes(docs) = SumOver(w, U) /\ Bytes(docs) \in Nat
  BY <1>1, BytesAre DEF v, w, U
<1>8. v[m] = doc.bytes /\ doc.bytes \in Nat
  BY <1>1, <1>2, <1>3 DEF ToolDoc
<1> QED  BY <1>5, <1>6, <1>7, <1>8 DEF more

LEMMA BytesOfNone == Bytes(<<>>) = 0
<1>1. <<>> \in Seq(ToolDoc) /\ DOMAIN <<>> = {}
  OBVIOUS
<1> QED  BY <1>1, BytesAre, SumEmpty

\* The ids a memory does not hold yet, each once.
LEMMA FreshIdsAre ==
  ASSUME NEW memory, NEW refs \in Seq(DOMAIN Owner), \A i, j \in DOMAIN refs : refs[i] = refs[j] => i = j
  PROVE  LET ids == FreshIds(memory, refs) IN
         /\ ids \in Seq(DOMAIN Owner)
         /\ \A k \in DOMAIN ids : ids[k] \notin Hydrated(memory)
         /\ \A k, l \in DOMAIN ids : ids[k] = ids[l] => k = l
<1> DEFINE fresh == {i \in DOMAIN refs : refs[i] \notin Hydrated(memory)}
           R == {p \in Nat \X Nat : p[1] < p[2]}
           place(i) == 1 + Cardinality({j \in fresh : j < i})
           N == Cardinality(fresh)
           nth(k) == CHOOSE i \in fresh : place(i) = k
           ids == FreshIds(memory, refs)
<1>1. IsFiniteSet(fresh) /\ fresh \subseteq Nat
  <2>1. DOMAIN refs = 1..Len(refs) /\ Len(refs) \in Nat
    OBVIOUS
  <2>2. IsFiniteSet(1..Len(refs))
    BY <2>1, FS_Interval
  <2> QED  BY <2>1, <2>2, FS_Subset
<1>2. Orders(R, fresh)
  <2>1. \A i, j \in Nat : <<i, j>> \in R <=> i < j
    OBVIOUS
  <2> HIDE DEF R, fresh
  <2> QED  BY <1>1, <2>1 DEF Orders
<1>3. \A i \in fresh : place(i) = PlaceIn(fresh, R, i)
  <2> SUFFICES ASSUME NEW i \in fresh PROVE place(i) = PlaceIn(fresh, R, i)
    OBVIOUS
  <2>1. {j \in fresh : j < i} = Below(fresh, R, i)
    <3> HIDE DEF fresh
    <3>1. \A j \in fresh : j \in Nat /\ i \in Nat /\ (<<j, i>> \in R <=> j < i)
      BY <1>1
    <3> HIDE DEF R
    <3> QED  BY <3>1 DEF Below
  <2> HIDE DEF fresh, R
  <2> QED  BY <2>1 DEF PlaceIn
<1>4. \A k \in 1..N : \E i \in fresh : place(i) = k
  <2> HIDE DEF fresh, R
  <2>1. \A k \in 1..N : \E i \in fresh : PlaceIn(fresh, R, i) = k
    BY <1>1, <1>2, Placing
  <2> HIDE DEF place
  <2> QED  BY <1>3, <2>1
<1>5. N \in Nat
  <2> HIDE DEF fresh
  <2> QED  BY <1>1, FS_CardinalityType
<1>6. \A k \in 1..N : nth(k) \in fresh /\ place(nth(k)) = k
  <2> HIDE DEF fresh, place
  <2> QED  BY <1>4
<1>7. ids = [k \in 1..N |-> refs[nth(k)]]
  BY DEF FreshIds
<1>8. \A k \in 1..N : nth(k) \in DOMAIN refs /\ refs[nth(k)] \in DOMAIN Owner /\ refs[nth(k)] \notin Hydrated(memory)
  <2>1. \A k \in 1..N : nth(k) \in DOMAIN refs /\ refs[nth(k)] \notin Hydrated(memory)
    <3> HIDE DEF nth, place, N
    <3> QED  BY <1>6
  <2> HIDE DEF nth, place, N, fresh
  <2> QED  BY <2>1
<1>9. \A k, l \in 1..N : refs[nth(k)] = refs[nth(l)] => k = l
  <2> HIDE DEF nth, place, fresh
  <2> QED  BY <1>6, <1>8
<1> HIDE DEF nth, N, ids
<1>10. ids \in Seq(DOMAIN Owner) /\ DOMAIN ids = 1..N /\ \A k \in 1..N : ids[k] = refs[nth(k)]
  BY <1>5, <1>7, <1>8
<1>11. \A k \in DOMAIN ids : ids[k] \notin Hydrated(memory)
  BY <1>8, <1>10
<1>12. \A k, l \in DOMAIN ids : ids[k] = ids[l] => k = l
  BY <1>9, <1>10
<1> QED  BY <1>10, <1>11, <1>12 DEF ids

\* Documents that are each there once are as many as they are.
LEMMA OnceCounted ==
  ASSUME NEW m, NEW s, MemoryOf(m, s)
  PROVE  /\ \A d \in Range(m.docs) : Owner[d.id] = s
         /\ Cardinality(Hydrated(m)) = Len(m.docs)
<1> DEFINE docs == m.docs
           f == [i \in DOMAIN docs |-> docs[i].id]
<1>1. docs \in Seq(ToolDoc) /\ OwnDocs(docs, s)
  BY DEF MemoryOf, ToolMemory
<1> HIDE DEF docs
<1>2. \A d \in Range(docs) : Owner[d.id] = s
  BY <1>1 DEF Range, OwnDocs
<1>3. Hydrated(m) = {docs[i].id : i \in DOMAIN docs}
  BY DEF Hydrated, Range, docs
<1>4. Len(docs) \in Nat /\ DOMAIN docs = 1..Len(docs) /\ IsFiniteSet(1..Len(docs))
  BY <1>1, DocsTyped
<1>5. Cardinality(1..Len(docs)) = Len(docs)
  <2>1. ASSUME NEW z \in Nat PROVE Cardinality(1..z) = z
    BY FS_Interval
  <2> QED  BY <1>4, <2>1
<1>6. f \in Bijection(1..Len(docs), Hydrated(m))
  <2>1. f \in [1..Len(docs) -> Hydrated(m)]
    BY <1>3, <1>4
  <2>2. \A i, j \in 1..Len(docs) : f[i] = f[j] => i = j
    BY <1>1, <1>4 DEF OwnDocs
  <2>3. \A x \in Hydrated(m) : \E i \in 1..Len(docs) : f[i] = x
    BY <1>3, <1>4
  <2> HIDE DEF f
  <2> QED  BY <2>1, <2>2, <2>3 DEF Bijection, Injection, IsInjective, Surjection
<1>7. Cardinality(Hydrated(m)) = Len(docs)
  BY <1>4, <1>5, <1>6, FS_Bijection DEF ExistsBijection
<1> QED  BY <1>2, <1>7 DEF docs

\* One more document that was not there and is its own.
Grown(m, d) == [m EXCEPT !.docs = Append(@, d)]

LEMMA OwnAppend ==
  ASSUME NEW m, NEW s, MemoryOf(m, s), NEW d \in ToolDoc, Owner[d.id] = s, d.id \notin Hydrated(m), m.there,
         NEW grown, grown = Grown(m, d)
  PROVE  /\ MemoryOf(grown, s) /\ grown.there
         /\ Hydrated(grown) = Hydrated(m) \cup {d.id}
         /\ Range(grown.docs) = Range(m.docs) \cup {d}
<1> DEFINE docs == m.docs
           more == Append(docs, d)
           z == Len(docs) + 1
<1>1. m \in ToolMemory /\ docs \in Seq(ToolDoc) /\ OwnDocs(docs, s)
  BY DEF MemoryOf, ToolMemory
<1>2. grown \in ToolMemory /\ grown.docs = more /\ grown.there
  <2>1. PICK longer \in Seq(ToolDoc) : longer = more
    <3>1. docs \in Seq(ToolDoc)
      BY <1>1
    <3> HIDE DEF docs
    <3>2. more \in Seq(ToolDoc)
      BY <3>1
    <3> HIDE DEF more
    <3> QED  BY <3>2
  <2>2. grown = [m EXCEPT !.docs = longer]
    BY <2>1 DEF Grown
  <2> QED  BY <1>1, <2>1, <2>2 DEF ToolMemory
<1> HIDE DEF docs
<1>3. /\ Len(docs) \in Nat /\ DOMAIN docs = 1..Len(docs) /\ DOMAIN more = 1..z
      /\ more[z] = d /\ \A i \in DOMAIN docs : more[i] = docs[i]
  BY <1>1
<1> HIDE DEF more
<1>4. \A i \in DOMAIN more : i = z \/ i \in DOMAIN docs
  BY <1>3
<1>5. z \in DOMAIN more /\ \A i \in DOMAIN docs : i \in DOMAIN more
  BY <1>3
<1>6. \A i \in DOMAIN docs : docs[i].id # d.id
  BY DEF Hydrated, Range, docs
<1> HIDE DEF z
<1>7. OwnDocs(more, s)
  BY <1>1, <1>3, <1>4, <1>6 DEF OwnDocs
<1>8. Range(more) = Range(docs) \cup {d}
  BY <1>3, <1>4, <1>5 DEF Range
<1>9. Hydrated(grown) = Hydrated(m) \cup {d.id}
  BY <1>2, <1>8 DEF Hydrated, docs
<1> QED  BY <1>2, <1>7, <1>8, <1>9 DEF MemoryOf, docs

\* What one call does leaves the others as they were, when it only saves memories of its own
\* session and what it crosses is noted.
LEMMA CallSteps ==
  ASSUME ToolsInv, NEW c \in ToolCalls, NEW k, CallFine(k), Become(c, k),
         crossed' \in SUBSET SessionIds, crossed \subseteq crossed',
         \/ UNCHANGED sessions
         \/ AtWork(call[c]) /\ \E m : MemoryOf(m, call[c].sid) /\ Save(c, m),
         AtWork(k) => \/ AtWork(call[c]) /\ k.sid = call[c].sid
                      \/ Working(k.sid) # {} => k.sid \in crossed',
         FindsNew(k, sessions', crossed')
  PROVE  ToolsInv'
<1>1. DOMAIN call' = ToolCalls /\ call'[c] = k /\ \A d \in ToolCalls : d # c => call'[d] = call[d]
  BY DEF ToolsInv, Become
<1>2. \A d \in ToolCalls : CallFine(call[d]) /\ (AtWork(call[d]) => call[d].sid \in SessionIds)
  BY DEF ToolsInv, CallFine, ToolCall
<1>3. \/ sessions' = sessions
      \/ AtWork(call[c]) /\ call[c].sid \in SessionIds
           /\ \E m : MemoryOf(m, call[c].sid) /\ sessions' = [sessions EXCEPT ![call[c].sid] = m]
  BY <1>2 DEF Save
<1>4. /\ sessions' \in [SessionIds -> ToolMemory]
      /\ \A s \in SessionIds : MemoryOf(sessions'[s], s)
      /\ \A s \in SessionIds : sessions'[s] = sessions[s] \/ (AtWork(call[c]) /\ s = call[c].sid)
  <2>1. CASE sessions' = sessions
    BY <2>1 DEF ToolsInv
  <2>2. ASSUME NEW m, MemoryOf(m, call[c].sid), sessions' = [sessions EXCEPT ![call[c].sid] = m],
               AtWork(call[c]), call[c].sid \in SessionIds
        PROVE  <1>4!:
    <3>1. m \in ToolMemory /\ sessions \in [SessionIds -> ToolMemory]
          /\ \A s \in SessionIds : MemoryOf(sessions[s], s)
      BY <2>2 DEF ToolsInv, MemoryOf
    <3>2. sessions' \in [SessionIds -> ToolMemory] /\ sessions'[call[c].sid] = m
          /\ \A s \in SessionIds : s # call[c].sid => sessions'[s] = sessions[s]
      BY <2>2, <3>1
    <3> QED  BY <2>2, <3>1, <3>2
  <2> QED  BY <1>3, <2>1, <2>2
<1>5. \A d, e \in ToolCalls : d # e /\ AtWork(call[d]) /\ AtWork(call[e]) /\ call[d].sid = call[e].sid =>
        call[d].sid \in crossed
  BY DEF ToolsInv
<1>6. ASSUME NEW d \in ToolCalls PROVE FindsNew(call'[d], sessions', crossed')
  <2>1. CASE d = c
    BY <1>1, <2>1
  <2>2. CASE d # c
    <3>1. call'[d] = call[d] /\ FindsNew(call[d], sessions, crossed)
      BY <1>1, <2>2 DEF ToolsInv
    <3>2. call[d].at = "turn" => AtWork(call[d])
      BY DEF AtWork
    <3>3. call[d].at = "turn" /\ call[d].sid \notin crossed' => sessions'[call[d].sid] = sessions[call[d].sid]
      BY <1>2, <1>4, <1>5, <2>2, <3>2
    <3> QED  BY <3>1, <3>3 DEF FindsNew
  <2> QED  BY <2>1, <2>2
<1>7. ASSUME NEW d \in ToolCalls, d # c, AtWork(call[d]), AtWork(k), call[d].sid = k.sid
      PROVE  k.sid \in crossed'
  <2>1. CASE AtWork(call[c]) /\ k.sid = call[c].sid
    BY <1>5, <1>7, <2>1
  <2>2. CASE Working(k.sid) # {} => k.sid \in crossed'
    <3>1. d \in Working(k.sid)
      BY <1>7 DEF Working, AtWork
    <3> QED  BY <2>2, <3>1
  <2> QED  BY <1>7, <2>1, <2>2
<1>8. ASSUME NEW d \in ToolCalls, NEW e \in ToolCalls, d # e, AtWork(call'[d]), AtWork(call'[e]),
             call'[d].sid = call'[e].sid
      PROVE  call'[d].sid \in crossed'
  <2>1. CASE d # c /\ e # c
    <3>1. call'[d] = call[d] /\ call'[e] = call[e]
      BY <1>1, <2>1
    <3> QED  BY <1>5, <1>8, <3>1
  <2>2. CASE d = c
    <3>1. call'[d] = k /\ call'[e] = call[e] /\ e # c
      BY <1>1, <1>8, <2>2
    <3> QED  BY <1>7, <1>8, <3>1
  <2>3. CASE e = c
    <3>1. call'[e] = k /\ call'[d] = call[d] /\ d # c
      BY <1>1, <1>8, <2>3
    <3> QED  BY <1>7, <1>8, <3>1
  <2> QED  BY <2>1, <2>2, <2>3
<1>9. \A d \in ToolCalls : CallFine(call'[d])
  BY <1>1, <1>2
<1> QED  BY <1>1, <1>4, <1>6, <1>8, <1>9 DEF ToolsInv

LEMMA NoneTyped ==
  /\ NoMemory \in ToolMemory /\ Fresh \in ToolMemory /\ NoReply \in Answered /\ NoEvents \in TurnNotes
  /\ NotCalled \in ToolCall /\ NotCalled.at = "idle" /\ NotCalled.new = <<>> /\ NotCalled.left = 0
  /\ \A s : MemoryOf(NoMemory, s) /\ MemoryOf(Fresh, s) /\ Fresh.there
<1>1. <<>> \in Seq(ToolDoc) /\ <<>> \in Seq(DOMAIN Owner) /\ DOMAIN <<>> = {}
  OBVIOUS
<1>2. NoMemory \in ToolMemory /\ Fresh \in ToolMemory
  BY <1>1 DEF NoMemory, Fresh, ToolMemory
<1>3. NoReply \in Answered /\ NoEvents \in TurnNotes
  BY <1>1 DEF NoReply, NoEvents, Answered, TurnNotes
<1>4. NotCalled \in ToolCall /\ NotCalled.at = "idle" /\ NotCalled.new = <<>> /\ NotCalled.left = 0
  BY <1>1, <1>2, <1>3 DEF NotCalled, ToolCall
<1>5. \A s : MemoryOf(NoMemory, s) /\ MemoryOf(Fresh, s)
  BY <1>1, <1>2 DEF MemoryOf, OwnDocs, NoMemory, Fresh
<1> QED  BY <1>2, <1>3, <1>4, <1>5 DEF Fresh

LEMMA ToolsBegin == ToolsInit => ToolsInv
<1> SUFFICES ASSUME ToolsInit PROVE ToolsInv
  OBVIOUS
<1>1. CallFine(NotCalled)
  <2>1. 0 <= SummaryMax /\ Bytes(<<>>) = 0
    BY BytesOfNone, AgentToolsAssumption
  <2> QED  BY <2>1, NoneTyped DEF CallFine, AtWork
<1>2. \A c \in ToolCalls : call[c] = NotCalled
  BY DEF ToolsInit
<1>3. ~AtWork(NotCalled) /\ FindsNew(NotCalled, sessions, crossed)
  BY NoneTyped DEF AtWork, FindsNew
<1>4. \A s \in SessionIds : sessions[s] = NoMemory
  BY DEF ToolsInit
<1>5. sessions \in [SessionIds -> ToolMemory]
  BY NoneTyped DEF ToolsInit
<1>6. DOMAIN call = ToolCalls /\ crossed \in SUBSET SessionIds
  BY DEF ToolsInit
<1>7. \A s \in SessionIds : MemoryOf(sessions[s], s)
  BY <1>4, NoneTyped
<1> QED  BY <1>1, <1>2, <1>3, <1>5, <1>6, <1>7 DEF ToolsInv

\* A call that is answered.
LEMMA CallEnds ==
  ASSUME NEW b, CallFine(b), AtWork(b), NEW events \in TurnNotes, NEW reply \in Answered,
         reply.of \in {Nobody, b.sid},
         reply.kind = "result" /\ RunsAgent(b.req) =>
           /\ events.error # "surfacing" /\ reply.paused = events.paused
           /\ reply.budget <=> events.budget
                               \/ (b.req.cap # NoCap /\ events.summed /\ events.cost > b.req.cap),
         NEW k, k = Closed(b, events, reply)
  PROVE  CallFine(k) /\ ~AtWork(k) /\ k.new = <<>>
<1>1. b \in ToolCall /\ b.sid # Nobody /\ b.req \in Requests /\ b.sid = Resolved(b.req) /\ b.scope = b.sid
  BY DEF CallFine, AtWork
<1>2. NotCalled \in ToolCall /\ NotCalled.new = <<>> /\ NotCalled.left = 0
  BY NoneTyped
<1>3. /\ k \in ToolCall /\ k.at = "done" /\ k.req = b.req /\ k.sid = b.sid /\ k.scope = b.scope
      /\ k.events = events /\ k.reply = reply /\ k.new = <<>> /\ k.left = 0
  BY <1>1, <1>2 DEF Closed, ToolCall
<1>4. 0 <= SummaryMax /\ Bytes(<<>>) = 0
  BY BytesOfNone, AgentToolsAssumption
<1>5. Told(k)
  BY <1>3 DEF Told
<1> QED  BY <1>1, <1>3, <1>4, <1>5 DEF CallFine, AtWork

LEMMA RefusalIs ==
  Refusal \in Answered /\ Refusal.kind = "error" /\ Refusal.of = Nobody
BY NoneTyped DEF Refusal, Answered, NoReply

LEMMA ResultIs ==
  ASSUME NEW s \in SessionIds, NEW docs \in Seq(ToolDoc), NEW reply, reply = [Result(s) EXCEPT !.docs = docs]
  PROVE  reply \in Answered /\ reply.kind = "result" /\ reply.of = s
BY NoneTyped DEF Result, Answered, NoReply

LEMMA CallRefused ==
  ASSUME ToolsInv, NEW c \in ToolCalls, AtWork(call[c]), Refuse(c), UNCHANGED crossed,
         \/ UNCHANGED sessions
         \/ \E m : MemoryOf(m, call[c].sid) /\ Save(c, m)
  PROVE  ToolsInv'
<1>1. PICK b : b = call[c]
  OBVIOUS
<1>2. PICK k : k = Closed(b, b.events, Refusal)
  OBVIOUS
<1>3. CallFine(b) /\ AtWork(b) /\ b.events \in TurnNotes
  BY <1>1 DEF ToolsInv, CallFine, ToolCall
<1>4. CallFine(k) /\ ~AtWork(k) /\ k.new = <<>>
  BY <1>2, <1>3, RefusalIs, CallEnds
<1>5. Become(c, k)
  BY <1>1, <1>2 DEF Refuse
<1>6. FindsNew(k, sessions', crossed')
  BY <1>4 DEF FindsNew
<1>7. crossed' \in SUBSET SessionIds /\ crossed \subseteq crossed'
  BY DEF ToolsInv
<1> QED  BY <1>4, <1>5, <1>6, <1>7, CallSteps

\* What is known of a call at work, and of the memory it would load.
LEMMA WorkIs ==
  ASSUME ToolsInv, NEW c \in ToolCalls, AtWork(call[c]), NEW b, b = call[c]
  PROVE  /\ CallFine(b) /\ AtWork(b) /\ b \in ToolCall /\ b.sid \in SessionIds
         /\ b.req \in Requests /\ b.sid = Resolved(b.req) /\ b.scope = b.sid /\ b.reply.kind = "none"
         /\ Bytes(b.new) \in Nat /\ FindsNew(b, sessions, crossed)
         /\ MemoryOf(Stored(c), b.sid) /\ crossed \in SUBSET SessionIds
<1>1. CallFine(b) /\ AtWork(b) /\ FindsNew(b, sessions, crossed) /\ crossed \in SUBSET SessionIds
  BY DEF ToolsInv
<1>2. b \in ToolCall /\ b.sid \in SessionIds /\ b.req \in Requests /\ b.sid = Resolved(b.req)
      /\ b.scope = b.sid /\ b.reply.kind = "none"
  BY <1>1 DEF CallFine, AtWork, ToolCall
<1>3. Bytes(b.new) \in Nat
  <2>1. b.new \in Seq(ToolDoc)
    BY <1>2 DEF ToolCall
  <2> QED  BY <2>1, BytesAre
<1>4. MemoryOf(Stored(c), b.sid)
  <2>1. MemoryOf(sessions[b.sid], b.sid) /\ MemoryOf(NoMemory, b.sid)
    BY <1>2, NoneTyped DEF ToolsInv
  <2> QED  BY <2>1 DEF Stored
<1> QED  BY <1>1, <1>2, <1>3, <1>4

LEMMA ResolvedIs ==
  ASSUME NEW r \in Requests
  PROVE  /\ Resolved(r) \in SessionIds \cup {Nobody} /\ r.tool \in {"chat", "plan", "query", "search", "clear"}
         /\ r.refs \in Seq(DOMAIN Owner) /\ \A i, j \in DOMAIN r.refs : r.refs[i] = r.refs[j] => i = j
BY AgentToolsAssumption DEF Resolved, Invoked, CallerOwn, RunsAgent

LEMMA ArriveKeeps == ASSUME ToolsInv, NEW c \in ToolCalls, Arrive(c) PROVE ToolsInv'
<1>1. PICK r \in Requests :
        IF Resolved(r) = Nobody
        THEN Become(c, [NotCalled EXCEPT !.at = "done", !.req = r, !.reply = Refusal]) /\ UNCHANGED crossed
        ELSE /\ Become(c, [NotCalled EXCEPT !.at = FirstOf(r), !.req = r, !.sid = Resolved(r), !.scope = Scope(r)])
             /\ crossed' = IF Working(Resolved(r)) # {} THEN crossed \cup {Resolved(r)} ELSE crossed
  BY DEF Arrive
<1>2. UNCHANGED sessions /\ crossed \in SUBSET SessionIds
  BY DEF Arrive, ToolsInv
<1>3. 0 <= SummaryMax /\ Bytes(<<>>) = 0
  BY BytesOfNone, AgentToolsAssumption
<1>4. NotCalled \in ToolCall /\ NotCalled.new = <<>> /\ NotCalled.left = 0 /\ NotCalled.reply = NoReply
      /\ NotCalled.sid = Nobody
  BY NoneTyped DEF NotCalled
<1>5. CASE Resolved(r) = Nobody
  <2>1. PICK k : k = [NotCalled EXCEPT !.at = "done", !.req = r, !.reply = Refusal]
    OBVIOUS
  <2>2. k \in ToolCall /\ k.at = "done" /\ k.sid = Nobody /\ k.reply.kind = "error" /\ k.new = <<>> /\ k.left = 0
    BY <1>4, <2>1, RefusalIs DEF ToolCall
  <2>3. CallFine(k) /\ ~AtWork(k)
    BY <1>3, <2>2 DEF CallFine, AtWork, Told
  <2>4. FindsNew(k, sessions', crossed')
    BY <2>2 DEF FindsNew
  <2>5. Become(c, k) /\ crossed' = crossed
    BY <1>1, <1>5, <2>1
  <2> QED  BY <1>2, <2>3, <2>4, <2>5, CallSteps
<1>6. CASE Resolved(r) # Nobody
  <2>1. PICK k : k = [NotCalled EXCEPT !.at = FirstOf(r), !.req = r, !.sid = Resolved(r), !.scope = Scope(r)]
    OBVIOUS
  <2>2. Resolved(r) \in SessionIds /\ Scope(r) = Resolved(r) /\ FirstOf(r) \in {"hydrate", "turn", "memory"}
    BY <1>6, ResolvedIs DEF Scope, FirstOf
  <2>3. /\ k \in ToolCall /\ k.at \in {"hydrate", "turn", "memory"} /\ k.req = r /\ k.sid = Resolved(r)
        /\ k.scope = k.sid /\ k.reply = NoReply /\ k.new = <<>> /\ k.left = 0
    BY <1>4, <2>1, <2>2 DEF ToolCall
  <2>4. NoReply.kind = "none" /\ NoReply.of = Nobody
    BY DEF NoReply
  <2>5. CallFine(k)
    BY <1>3, <1>6, <2>3, <2>4 DEF CallFine, AtWork, Told
  <2>6. FindsNew(k, sessions', crossed')
    BY <2>3 DEF FindsNew
  <2>7. Become(c, k) /\ crossed' = IF Working(Resolved(r)) # {} THEN crossed \cup {Resolved(r)} ELSE crossed
    BY <1>1, <1>6, <2>1
  <2>8. crossed' \in SUBSET SessionIds /\ crossed \subseteq crossed'
    BY <1>2, <2>2, <2>7
  <2>9. Working(k.sid) # {} => k.sid \in crossed'
    BY <2>3, <2>7
  <2> QED  BY <1>2, <2>5, <2>6, <2>7, <2>8, <2>9, CallSteps
<1> QED  BY <1>5, <1>6

LEMMA BeginHydrationKeeps == ASSUME ToolsInv, NEW c \in ToolCalls, BeginHydration(c) PROVE ToolsInv'
<1>1. call[c].at = "hydrate" /\ AtWork(call[c]) /\ UNCHANGED <<sessions, crossed>>
  BY DEF BeginHydration, AtWork
<1>2. PICK b : b = call[c]
  OBVIOUS
<1>3. PICK memory : memory = IF Stored(c).there THEN Stored(c) ELSE Fresh
  OBVIOUS
<1>4. PICK ids : ids = IF b.req.ctx # Nobody THEN FreshIds(memory, b.req.refs) ELSE <<>>
  OBVIOUS
<1>5. PICK k : k = [b EXCEPT !.at = "reading", !.memory = memory, !.todo = ids, !.left = SummaryMax]
  OBVIOUS
<1>6. Become(c, k)
  BY <1>2, <1>3, <1>4, <1>5 DEF BeginHydration, Persistent
<1>7. /\ CallFine(b) /\ b \in ToolCall /\ b.req \in Requests /\ b.sid = Resolved(b.req) /\ b.scope = b.sid
      /\ b.sid \in SessionIds /\ b.reply.kind = "none" /\ crossed \in SUBSET SessionIds
      /\ MemoryOf(Stored(c), b.sid)
  BY <1>1, <1>2, WorkIs
<1>8. b.at = "hydrate" /\ b.new = <<>> /\ b.reply.of \in {Nobody, b.sid} /\ b.sid # Nobody
  BY <1>1, <1>2, <1>7 DEF CallFine, AtWork
<1>9. MemoryOf(memory, b.sid) /\ memory.there /\ memory \in ToolMemory
  <2>1. MemoryOf(Fresh, b.sid) /\ Fresh.there
    BY NoneTyped
  <2> QED  BY <1>3, <1>7, <2>1 DEF MemoryOf
<1>10. /\ ids \in Seq(DOMAIN Owner)
       /\ \A i \in DOMAIN ids : ids[i] \notin Hydrated(memory)
       /\ \A i, j \in DOMAIN ids : ids[i] = ids[j] => i = j
       /\ ids # <<>> => b.req.ctx # Nobody
  <2>1. CASE b.req.ctx # Nobody
    <3>1. ids = FreshIds(memory, b.req.refs)
      BY <1>4, <2>1
    <3>2. b.req.refs \in Seq(DOMAIN Owner) /\ \A i, j \in DOMAIN b.req.refs : b.req.refs[i] = b.req.refs[j] => i = j
      BY <1>7, ResolvedIs
    <3> QED  BY <2>1, <3>1, <3>2, FreshIdsAre
  <2>2. CASE b.req.ctx = Nobody
    <3>1. ids = <<>>
      BY <1>4, <2>2
    <3> QED  BY <3>1
  <2> QED  BY <2>1, <2>2
<1>11. SummaryMax \in Nat /\ Bytes(<<>>) = 0
  BY BytesOfNone, AgentToolsAssumption
<1>12. /\ k \in ToolCall /\ k.at = "reading" /\ k.req = b.req /\ k.sid = b.sid /\ k.scope = b.scope
       /\ k.reply = b.reply /\ k.new = <<>> /\ k.left = SummaryMax /\ k.memory = memory /\ k.todo = ids
  BY <1>5, <1>7, <1>8, <1>9, <1>10, <1>11 DEF ToolCall
<1>13. Hydrating(k)
  <2>1. Range(<<>>) = {}
    BY DEF Range
  <2> QED  BY <1>9, <1>10, <1>11, <1>12, <2>1 DEF Hydrating
<1>14. CallFine(k)
  BY <1>7, <1>8, <1>11, <1>12, <1>13 DEF CallFine, AtWork, Told
<1>15. FindsNew(k, sessions', crossed')
  BY <1>12 DEF FindsNew
<1> QED  BY <1>1, <1>2, <1>6, <1>7, <1>12, <1>14, <1>15, CallSteps

\* The rest of what a call still has to read.
LEMMA TailOf ==
  ASSUME NEW todo \in Seq(DOMAIN Owner), todo # <<>>, \A i, j \in DOMAIN todo : todo[i] = todo[j] => i = j
  PROVE  /\ Tail(todo) \in Seq(DOMAIN Owner)
         /\ \A i \in DOMAIN Tail(todo) : Tail(todo)[i] # Head(todo) /\ \E j \in DOMAIN todo : todo[j] = Tail(todo)[i]
         /\ \A i, j \in DOMAIN Tail(todo) : Tail(todo)[i] = Tail(todo)[j] => i = j
         /\ Head(todo) \in DOMAIN Owner /\ \E j \in DOMAIN todo : todo[j] = Head(todo)
<1>1. /\ Len(todo) \in Nat /\ Len(todo) > 0 /\ DOMAIN todo = 1..Len(todo)
      /\ Tail(todo) \in Seq(DOMAIN Owner) /\ DOMAIN Tail(todo) = 1..(Len(todo) - 1)
      /\ \A i \in DOMAIN Tail(todo) : Tail(todo)[i] = todo[i + 1]
      /\ Head(todo) = todo[1] /\ Head(todo) \in DOMAIN Owner
  OBVIOUS
<1>2. \A i \in DOMAIN Tail(todo) : i + 1 \in DOMAIN todo /\ i + 1 # 1 /\ i \in Nat
  BY <1>1
<1>3. 1 \in DOMAIN todo
  BY <1>1
<1> QED  BY <1>1, <1>2, <1>3

\* What is read of an artifact fits into what is left of the budget.
LEMMA DocFits ==
  ASSUME NEW a \in DOMAIN Owner, NEW left \in Nat, NEW readable \in BOOLEAN, NEW d, d = DocOf(a, left, readable)
  PROVE  d \in ToolDoc /\ d.id = a /\ d.bytes \in Nat /\ d.bytes <= left
<1>1. Size[a] \in Nat /\ InlineMax \in Nat
  BY AgentToolsAssumption
<1>2. Tier(a) \in {"handle", "inline", "summary"}
  BY DEF Tier
<1>3. PICK size \in Nat : size = Size[a]
  BY <1>1
<1>4. Least(size, Least(left, InlineMax)) \in Nat /\ Least(size, Least(left, InlineMax)) <= left
  BY <1>1 DEF Least
<1> QED  BY <1>2, <1>3, <1>4 DEF DocOf, Doc, ToolDoc

LEMMA ReadArtifactKeeps == ASSUME ToolsInv, NEW c \in ToolCalls, ReadArtifact(c) PROVE ToolsInv'
<1>1. PICK b : b = call[c]
  OBVIOUS
<1>2. PICK a : a = Head(b.todo)
  OBVIOUS
<1>3. b.at = "reading" /\ AtWork(call[c]) /\ b.todo # <<>> /\ b.left > 0 /\ UNCHANGED <<sessions, crossed>>
  BY <1>1 DEF ReadArtifact, AtWork
<1>4. \/ Owner[a] = b.scope /\ \E readable \in BOOLEAN : LET d == DocOf(a, b.left, readable) IN
           Become(c, [b EXCEPT !.todo = Tail(@), !.left = @ - d.bytes, !.new = Append(@, d),
                               !.memory.docs = Append(@, d)])
      \/ Become(c, [b EXCEPT !.todo = Tail(@)])
  BY <1>1, <1>2 DEF ReadArtifact
<1>5. /\ CallFine(b) /\ b \in ToolCall /\ b.req \in Requests /\ b.sid = Resolved(b.req) /\ b.scope = b.sid
      /\ b.sid \in SessionIds /\ b.reply.kind = "none" /\ crossed \in SUBSET SessionIds /\ Bytes(b.new) \in Nat
  BY <1>1, <1>3, WorkIs
<1>6. Hydrating(b) /\ b.reply.of \in {Nobody, b.sid} /\ b.sid # Nobody /\ b.left \in Nat /\ b.left <= SummaryMax
      /\ Bytes(b.new) <= SummaryMax
  BY <1>3, <1>5 DEF CallFine, AtWork, ToolCall
<1>7. /\ b.todo \in Seq(DOMAIN Owner) /\ b.new \in Seq(ToolDoc) /\ b.memory \in ToolMemory
      /\ b.memory.docs \in Seq(ToolDoc)
  BY <1>5 DEF ToolCall, ToolMemory
<1>8. /\ \A i, j \in DOMAIN b.todo : b.todo[i] = b.todo[j] => i = j
      /\ \A i \in DOMAIN b.todo : b.todo[i] \notin Hydrated(b.memory)
      /\ b.req.ctx # Nobody /\ MemoryOf(b.memory, b.sid) /\ b.memory.there
      /\ Range(b.new) \subseteq Range(b.memory.docs)
      /\ b.left + Bytes(b.new) = SummaryMax
  BY <1>3, <1>6 DEF Hydrating
<1>9. PICK rest : rest = Tail(b.todo)
  OBVIOUS
<1>10. /\ rest \in Seq(DOMAIN Owner)
       /\ \A i \in DOMAIN rest : rest[i] # a /\ rest[i] \notin Hydrated(b.memory)
       /\ \A i, j \in DOMAIN rest : rest[i] = rest[j] => i = j
       /\ a \in DOMAIN Owner /\ a \notin Hydrated(b.memory)
  <2>1. PICK todo : todo = b.todo
    OBVIOUS
  <2>2. todo \in Seq(DOMAIN Owner) /\ todo # <<>> /\ \A i, j \in DOMAIN todo : todo[i] = todo[j] => i = j
    BY <1>3, <1>7, <1>8, <2>1
  <2>3. /\ Tail(todo) \in Seq(DOMAIN Owner)
        /\ \A i \in DOMAIN Tail(todo) : Tail(todo)[i] # Head(todo) /\ \E j \in DOMAIN todo : todo[j] = Tail(todo)[i]
        /\ \A i, j \in DOMAIN Tail(todo) : Tail(todo)[i] = Tail(todo)[j] => i = j
        /\ Head(todo) \in DOMAIN Owner /\ \E j \in DOMAIN todo : todo[j] = Head(todo)
    BY <2>2, TailOf
  <2>4. rest = Tail(todo) /\ a = Head(todo) /\ \A i \in DOMAIN todo : todo[i] \notin Hydrated(b.memory)
    BY <1>2, <1>8, <1>9, <2>1
  <2> QED  BY <2>3, <2>4
<1>11. SummaryMax \in Nat
  BY AgentToolsAssumption
<1>12. CASE Become(c, [b EXCEPT !.todo = Tail(@)])
  <2>1. PICK k : k = [b EXCEPT !.todo = rest]
    OBVIOUS
  <2>2. /\ k \in ToolCall /\ k.at = b.at /\ k.req = b.req /\ k.sid = b.sid /\ k.scope = b.scope
        /\ k.reply = b.reply /\ k.new = b.new /\ k.left = b.left /\ k.memory = b.memory /\ k.todo = rest
    BY <1>5, <1>10, <2>1 DEF ToolCall
  <2>3. Hydrating(k)
    BY <1>8, <1>10, <2>2 DEF Hydrating
  <2>4. CallFine(k)
    BY <1>3, <1>5, <1>6, <2>2, <2>3 DEF CallFine, AtWork, Told
  <2>5. Become(c, k)
    BY <1>9, <1>12, <2>1
  <2>6. FindsNew(k, sessions', crossed')
    BY <1>3, <2>2 DEF FindsNew
  <2> QED  BY <1>1, <1>3, <1>5, <2>2, <2>4, <2>5, <2>6, CallSteps
<1>13. ASSUME Owner[a] = b.scope, NEW readable \in BOOLEAN, NEW d, d = DocOf(a, b.left, readable),
              Become(c, [b EXCEPT !.todo = Tail(@), !.left = @ - d.bytes, !.new = Append(@, d),
                                  !.memory.docs = Append(@, d)])
       PROVE  ToolsInv'
  <2>1. d \in ToolDoc /\ d.id = a /\ d.bytes \in Nat /\ d.bytes <= b.left
    BY <1>6, <1>10, <1>13, DocFits
  <2>2. PICK memory : memory = [b.memory EXCEPT !.docs = Append(@, d)]
    OBVIOUS
  <2>3. /\ MemoryOf(memory, b.sid) /\ memory.there
        /\ Hydrated(memory) = Hydrated(b.memory) \cup {a}
        /\ Range(memory.docs) = Range(b.memory.docs) \cup {d}
    <3>1. PICK m : m = b.memory
      OBVIOUS
    <3>2. MemoryOf(m, b.sid) /\ Owner[d.id] = b.sid /\ d.id \notin Hydrated(m) /\ m.there
      BY <1>5, <1>8, <1>10, <1>13, <2>1, <3>1
    <3>3. memory = Grown(m, d)
      BY <2>2, <3>1 DEF Grown
    <3>4. /\ MemoryOf(memory, b.sid) /\ memory.there
          /\ Hydrated(memory) = Hydrated(m) \cup {d.id}
          /\ Range(memory.docs) = Range(m.docs) \cup {d}
      BY <2>1, <3>2, <3>3, OwnAppend
    <3> QED  BY <2>1, <3>1, <3>4
  <2>4. PICK new : new = Append(b.new, d)
    OBVIOUS
  <2>5. new \in Seq(ToolDoc) /\ Range(new) = Range(b.new) \cup {d} /\ Bytes(new) = Bytes(b.new) + d.bytes
    <3>1. new \in Seq(ToolDoc) /\ Bytes(new) = Bytes(b.new) + d.bytes
      BY <1>7, <2>1, <2>4, BytesAppend
    <3>2. /\ Len(b.new) \in Nat /\ DOMAIN b.new = 1..Len(b.new) /\ DOMAIN new = 1..(Len(b.new) + 1)
          /\ new[Len(b.new) + 1] = d /\ \A i \in DOMAIN b.new : new[i] = b.new[i]
      BY <1>7, <2>1, <2>4
    <3>3. Range(new) = Range(b.new) \cup {d}
      <4>1. \A i \in DOMAIN new : i = Len(b.new) + 1 \/ i \in DOMAIN b.new
        BY <3>2
      <4>2. Len(b.new) + 1 \in DOMAIN new /\ \A i \in DOMAIN b.new : i \in DOMAIN new
        BY <3>2
      <4> QED  BY <3>2, <4>1, <4>2 DEF Range
    <3> QED  BY <3>1, <3>3
  <2>6. PICK left \in Nat : left = b.left - d.bytes
    BY <1>6, <2>1
  <2>7. left + Bytes(new) = SummaryMax /\ left <= SummaryMax /\ Bytes(new) <= SummaryMax
    BY <1>5, <1>6, <1>8, <1>11, <2>1, <2>5, <2>6
  <2>8. PICK k : k = [b EXCEPT !.todo = rest, !.left = left, !.new = new, !.memory = memory]
    OBVIOUS
  <2>9. /\ k \in ToolCall /\ k.at = b.at /\ k.req = b.req /\ k.sid = b.sid /\ k.scope = b.scope
        /\ k.reply = b.reply /\ k.new = new /\ k.left = left /\ k.memory = memory /\ k.todo = rest
    BY <1>5, <1>10, <2>3, <2>5, <2>8 DEF ToolCall, MemoryOf
  <2>10. Hydrating(k)
    BY <1>8, <1>10, <2>3, <2>5, <2>7, <2>9 DEF Hydrating
  <2>11. CallFine(k)
    BY <1>3, <1>5, <1>6, <2>7, <2>9, <2>10 DEF CallFine, AtWork, Told
  <2>12. Become(c, k)
    <3>1. [b EXCEPT !.todo = Tail(@), !.left = @ - d.bytes, !.new = Append(@, d), !.memory.docs = Append(@, d)] = k
      BY <1>5, <1>9, <2>2, <2>4, <2>6, <2>8 DEF ToolCall
    <3> QED  BY <1>13, <3>1
  <2>13. FindsNew(k, sessions', crossed')
    BY <1>3, <2>9 DEF FindsNew
  <2> QED  BY <1>1, <1>3, <1>5, <2>9, <2>11, <2>12, <2>13, CallSteps
<1> QED  BY <1>4, <1>12, <1>13

\* A call that has read leaves hydration for its turn.
GoingOn(b, m, kept) == [b EXCEPT !.at = "turn", !.memory = m, !.kept = kept]

LEMMA LeavesHydration ==
  ASSUME NEW b, CallFine(b), b.at \in {"hydrate", "reading"}, NEW kept \in BOOLEAN, NEW m \in ToolMemory,
         NEW k, k = GoingOn(b, m, kept)
  PROVE  CallFine(k) /\ k.at = "turn" /\ k.new = b.new /\ k.sid = b.sid /\ k.kept = kept
<1>1. /\ b \in ToolCall /\ b.sid # Nobody /\ b.req \in Requests /\ b.sid = Resolved(b.req) /\ b.scope = b.sid
      /\ b.reply.kind = "none" /\ b.reply.of \in {Nobody, b.sid} /\ b.left <= SummaryMax /\ Bytes(b.new) <= SummaryMax
  BY DEF CallFine, AtWork
<1>2. b.new # <<>> => b.req.ctx # Nobody
  BY DEF CallFine, Hydrating
<1>3. /\ k \in ToolCall /\ k.at = "turn" /\ k.req = b.req /\ k.sid = b.sid /\ k.scope = b.scope
      /\ k.reply = b.reply /\ k.new = b.new /\ k.left = b.left /\ k.kept = kept
  BY <1>1 DEF ToolCall, GoingOn
<1> QED  BY <1>1, <1>2, <1>3 DEF CallFine, AtWork, Told

LEMMA SaveHydrationKeeps == ASSUME ToolsInv, NEW c \in ToolCalls, SaveHydration(c) PROVE ToolsInv'
<1>1. PICK b : b = call[c]
  OBVIOUS
<1>2. /\ b.at = "reading" /\ AtWork(call[c]) /\ UNCHANGED crossed
      /\ IF b.new # <<>> THEN Save(c, b.memory) ELSE UNCHANGED sessions
  BY <1>1 DEF SaveHydration, AtWork
<1>3. CallFine(b) /\ b \in ToolCall /\ b.sid \in SessionIds /\ crossed \in SUBSET SessionIds
  BY <1>1, <1>2, WorkIs
<1>4. Hydrating(b)
  BY <1>2, <1>3 DEF CallFine
<1>5. PICK k : k = [b EXCEPT !.at = "turn", !.memory = NoMemory]
  OBVIOUS
<1>6. k = GoingOn(b, NoMemory, b.kept) /\ b.kept \in BOOLEAN
  BY <1>3, <1>5 DEF ToolCall, GoingOn
<1>7. CallFine(k) /\ k.at = "turn" /\ k.new = b.new /\ k.sid = b.sid
  <2>1. b.at \in {"hydrate", "reading"} /\ NoMemory \in ToolMemory
    BY <1>2, NoneTyped
  <2> QED  BY <1>3, <1>6, <2>1, LeavesHydration
<1>8. Become(c, k)
  BY <1>1, <1>5 DEF SaveHydration
<1>9. MemoryOf(b.memory, call[c].sid)
  BY <1>1, <1>4 DEF Hydrating
<1>10. FindsNew(k, sessions', crossed')
  <2>1. CASE b.new # <<>>
    <3>1. Persistent(c) /\ sessions' = [sessions EXCEPT ![b.sid] = b.memory]
      BY <1>1, <1>2, <1>4, <2>1 DEF Hydrating, Persistent, Save
    <3>2. sessions'[b.sid] = b.memory
      BY <1>3, <3>1 DEF ToolsInv
    <3> QED  BY <1>4, <1>7, <3>2 DEF FindsNew, Hydrating
  <2>2. CASE b.new = <<>>
    BY <1>7, <2>2 DEF FindsNew
  <2> QED  BY <2>1, <2>2
<1>11. UNCHANGED sessions \/ (AtWork(call[c]) /\ \E m : MemoryOf(m, call[c].sid) /\ Save(c, m))
  BY <1>2, <1>9
<1> QED  BY <1>1, <1>2, <1>3, <1>7, <1>8, <1>10, <1>11, CallSteps

LEMMA HydrationFailsKeeps == ASSUME ToolsInv, NEW c \in ToolCalls, HydrationFails(c) PROVE ToolsInv'
<1>1. PICK b : b = call[c]
  OBVIOUS
<1>2. /\ b.at \in {"hydrate", "reading"} /\ AtWork(call[c]) /\ UNCHANGED <<sessions, crossed>>
      /\ \/ b.at = "hydrate" /\ Become(c, [b EXCEPT !.at = "turn"])
         \/ Become(c, [b EXCEPT !.at = "turn", !.memory = NoMemory, !.kept = FALSE])
  BY <1>1 DEF HydrationFails, AtWork
<1>3. CallFine(b) /\ b \in ToolCall /\ b.sid \in SessionIds /\ crossed \in SUBSET SessionIds
  BY <1>1, <1>2, WorkIs
<1>4. PICK m \in ToolMemory, kept \in BOOLEAN :
        /\ Become(c, [b EXCEPT !.at = "turn", !.memory = m, !.kept = kept])
        /\ b.new = <<>> \/ kept = FALSE
  <2>1. CASE b.at = "hydrate" /\ Become(c, [b EXCEPT !.at = "turn"])
    <3>1. b.memory \in ToolMemory /\ b.kept \in BOOLEAN /\ b.new = <<>>
      BY <1>3, <2>1 DEF ToolCall, CallFine
    <3>2. [b EXCEPT !.at = "turn"] = [b EXCEPT !.at = "turn", !.memory = b.memory, !.kept = b.kept]
      BY <1>3 DEF ToolCall
    <3> QED  BY <2>1, <3>1, <3>2
  <2>2. CASE Become(c, [b EXCEPT !.at = "turn", !.memory = NoMemory, !.kept = FALSE])
    BY <2>2, NoneTyped
  <2> QED  BY <1>2, <2>1, <2>2
<1>5. PICK k : k = GoingOn(b, m, kept)
  OBVIOUS
<1>6. CallFine(k) /\ k.at = "turn" /\ k.new = b.new /\ k.sid = b.sid /\ k.kept = kept
  <2>1. b.at \in {"hydrate", "reading"} /\ CallFine(b)
    BY <1>2, <1>3
  <2> QED  BY <1>5, <2>1, LeavesHydration
<1>7. FindsNew(k, sessions', crossed')
  BY <1>4, <1>6 DEF FindsNew
<1>8. Become(c, k)
  BY <1>4, <1>5 DEF GoingOn
<1> QED  BY <1>1, <1>2, <1>3, <1>6, <1>7, <1>8, CallSteps

LEMMA BeginTurnKeeps == ASSUME ToolsInv, NEW c \in ToolCalls, BeginTurn(c) PROVE ToolsInv'
<1>1. PICK b : b = call[c]
  OBVIOUS
<1>2. PICK memory : memory = IF Stored(c).there THEN Stored(c) ELSE Fresh
  OBVIOUS
<1>3. PICK k : k = [b EXCEPT !.at = "running", !.memory = memory, !.seen = memory.docs]
  OBVIOUS
<1>4. b.at = "turn" /\ AtWork(call[c]) /\ UNCHANGED <<sessions, crossed>> /\ Become(c, k)
  BY <1>1, <1>2, <1>3 DEF BeginTurn, AtWork
<1>5. /\ CallFine(b) /\ b \in ToolCall /\ b.req \in Requests /\ b.sid = Resolved(b.req) /\ b.scope = b.sid
      /\ b.sid \in SessionIds /\ b.reply.kind = "none" /\ crossed \in SUBSET SessionIds
      /\ MemoryOf(Stored(c), b.sid) /\ FindsNew(b, sessions, crossed)
  BY <1>1, <1>4, WorkIs
<1>6. /\ b.reply.of \in {Nobody, b.sid} /\ b.sid # Nobody /\ b.left <= SummaryMax /\ Bytes(b.new) <= SummaryMax
      /\ b.new # <<>> => b.req.ctx # Nobody
  BY <1>4, <1>5 DEF CallFine, AtWork
<1>7. MemoryOf(memory, b.sid)
  BY <1>2, <1>5, NoneTyped
<1>8. memory \in ToolMemory /\ memory.docs \in Seq(ToolDoc)
  BY <1>7 DEF MemoryOf, ToolMemory
<1>9. /\ k \in ToolCall /\ k.at = "running" /\ k.req = b.req /\ k.sid = b.sid /\ k.scope = b.scope /\ k.kept = b.kept
      /\ k.reply = b.reply /\ k.new = b.new /\ k.left = b.left /\ k.memory = memory /\ k.seen = memory.docs
  BY <1>3, <1>5, <1>8 DEF ToolCall
<1>10. CallFine(k)
  BY <1>5, <1>6, <1>7, <1>9 DEF CallFine, AtWork, Told
<1>11. FindsNew(k, sessions', crossed')
  <2>1. SUFFICES ASSUME b.kept, b.sid \notin crossed, b.new # <<>> PROVE Range(b.new) \subseteq Range(memory.docs)
    BY <1>4, <1>9 DEF FindsNew
  <2>2. Stored(c) = sessions[b.sid]
    BY <1>1, <1>6, <2>1 DEF Stored, Persistent
  <2>3. Range(b.new) \subseteq Range(sessions[b.sid].docs)
    BY <1>4, <1>5, <2>1 DEF FindsNew
  <2>4. b.new \in Seq(ToolDoc) /\ Len(b.new) \in Nat /\ DOMAIN b.new = 1..Len(b.new) /\ Len(b.new) # 0
    <3>1. b.new \in Seq(ToolDoc)
      BY <1>5 DEF ToolCall
    <3> QED  BY <2>1, <3>1
  <2>5. b.new[1] \in Range(b.new)
    <3>1. 1 \in DOMAIN b.new
      BY <2>4
    <3> QED  BY <3>1 DEF Range
  <2>6. sessions[b.sid].docs # <<>>
    <3>1. DOMAIN <<>> = {}
      OBVIOUS
    <3> QED  BY <2>3, <2>5, <3>1 DEF Range
  <2>7. Stored(c).there
    BY <1>5, <2>2, <2>6 DEF MemoryOf
  <2>8. memory = sessions[b.sid]
    BY <1>2, <2>2, <2>7
  <2> QED  BY <2>3, <2>8
<1> QED  BY <1>1, <1>4, <1>5, <1>9, <1>10, <1>11, CallSteps

LEMMA EndTurnKeeps == ASSUME ToolsInv, NEW c \in ToolCalls, EndTurn(c) PROVE ToolsInv'
<1>1. PICK b : b = call[c]
  OBVIOUS
<1> DEFINE priced(e) == IF e.summed THEN e.cost ELSE 0
           told(e) == [Result(b.sid) EXCEPT !.paused = e.paused, !.cost = priced(e), !.docs = b.new,
                                            !.budget = e.budget \/ OverMaxCost(b.req.cap, priced(e))]
<1>2. PICK e \in TurnEvents : Become(c, Closed(b, e, IF Surfacing(e) THEN Refusal ELSE told(e)))
  BY <1>1 DEF EndTurn
<1>3. /\ b.at = "running" /\ AtWork(call[c]) /\ UNCHANGED crossed
      /\ Save(c, [b.memory EXCEPT !.turns = @ + 1])
  BY <1>1 DEF EndTurn, AtWork
<1>4. /\ CallFine(b) /\ AtWork(b) /\ b \in ToolCall /\ b.sid \in SessionIds /\ b.req \in Requests
      /\ crossed \in SUBSET SessionIds
  BY <1>1, <1>3, WorkIs
<1>5. PICK memory : memory = [b.memory EXCEPT !.turns = @ + 1]
  OBVIOUS
<1>6. MemoryOf(memory, b.sid)
  <2>1. MemoryOf(b.memory, b.sid)
    BY <1>3, <1>4 DEF CallFine
  <2>2. memory \in ToolMemory /\ memory.docs = b.memory.docs /\ memory.there = b.memory.there
    BY <1>5, <2>1 DEF MemoryOf, ToolMemory
  <2> QED  BY <2>1, <2>2 DEF MemoryOf
<1>7. /\ e.paused \in BOOLEAN /\ e.budget \in BOOLEAN /\ e.error \in {"none", "surfacing", "other"}
      /\ e.cost \in Nat /\ e.summed \in BOOLEAN /\ e \in TurnNotes
  BY AgentToolsAssumption DEF TurnEvents, TurnNotes
<1>8. b.new \in Seq(ToolDoc) /\ (b.req.cap \in Nat \/ b.req.cap = NoCap)
  BY <1>4, AgentToolsAssumption DEF ToolCall
<1>9. PICK price \in Nat : price = priced(e)
  BY <1>7
<1>10. PICK over : over = (e.budget \/ OverMaxCost(b.req.cap, price))
  OBVIOUS
<1>11. over \in BOOLEAN
  BY <1>7, <1>10 DEF OverMaxCost
<1>12. over <=> e.budget \/ (b.req.cap # NoCap /\ e.summed /\ e.cost > b.req.cap)
  <2>1. CASE e.summed
    BY <1>7, <1>9, <1>10, <2>1 DEF OverMaxCost
  <2>2. CASE ~e.summed
    <3>1. price = 0
      BY <1>9, <2>2
    <3>2. b.req.cap \in Nat => ~(0 > b.req.cap)
      OBVIOUS
    <3>3. OverMaxCost(b.req.cap, 0) = FALSE
      BY <1>8, <3>2 DEF OverMaxCost
    <3> QED  BY <1>7, <1>10, <2>2, <3>1, <3>3
  <2> QED  BY <1>7, <2>1, <2>2
<1>13. PICK reply : reply = IF Surfacing(e) THEN Refusal ELSE told(e)
  OBVIOUS
<1>14. /\ reply \in Answered /\ reply.of \in {Nobody, b.sid}
       /\ reply.kind = "result" => e.error # "surfacing" /\ reply.paused = e.paused /\ reply.budget = over
  <2>1. CASE Surfacing(e)
    BY <1>13, <2>1, RefusalIs
  <2>2. CASE ~Surfacing(e)
    <3>1. reply = [Result(b.sid) EXCEPT !.paused = e.paused, !.cost = price, !.docs = b.new, !.budget = over]
      BY <1>9, <1>10, <1>13, <2>2
    <3>2. Result(b.sid) \in Answered /\ Result(b.sid).kind = "result" /\ Result(b.sid).of = b.sid
      BY <1>4, NoneTyped DEF Result, Answered, NoReply
    <3>3. /\ reply \in Answered /\ reply.kind = "result" /\ reply.of = b.sid /\ reply.paused = e.paused
          /\ reply.budget = over
      BY <1>7, <1>8, <1>11, <3>1, <3>2 DEF Answered
    <3> QED  BY <2>2, <3>3 DEF Surfacing
  <2> QED  BY <2>1, <2>2
<1>15. PICK k : k = Closed(b, e, reply)
  OBVIOUS
<1>16. Become(c, k)
  BY <1>2, <1>13, <1>15
<1> HIDE DEF priced, told
<1>17. CallFine(k) /\ ~AtWork(k) /\ k.new = <<>>
  <2>1. reply.kind = "result" /\ RunsAgent(b.req) =>
          /\ e.error # "surfacing" /\ reply.paused = e.paused
          /\ reply.budget <=> e.budget \/ (b.req.cap # NoCap /\ e.summed /\ e.cost > b.req.cap)
    BY <1>12, <1>14
  <2> QED  BY <1>4, <1>7, <1>14, <1>15, <2>1, CallEnds
<1>18. FindsNew(k, sessions', crossed')
  BY <1>17 DEF FindsNew
<1>19. AtWork(call[c]) /\ \E m : MemoryOf(m, call[c].sid) /\ Save(c, m)
  BY <1>1, <1>3, <1>5, <1>6
<1> QED  BY <1>3, <1>4, <1>16, <1>17, <1>18, <1>19, CallSteps

LEMMA RunRaisesKeeps == ASSUME ToolsInv, NEW c \in ToolCalls, RunRaises(c) PROVE ToolsInv'
<1>1. AtWork(call[c]) /\ Refuse(c) /\ UNCHANGED sessions /\ UNCHANGED crossed
  BY DEF RunRaises, AtWork
<1> QED  BY <1>1, CallRefused

\* A memory tool that answers.
LEMMA CallTells ==
  ASSUME ToolsInv, NEW c \in ToolCalls, AtWork(call[c]), ~RunsAgent(call[c].req), UNCHANGED crossed,
         NEW docs \in Seq(ToolDoc),
         Become(c, Closed(call[c], call[c].events, [Result(call[c].sid) EXCEPT !.docs = docs])),
         \/ UNCHANGED sessions
         \/ \E m : MemoryOf(m, call[c].sid) /\ Save(c, m)
  PROVE  ToolsInv'
<1>1. PICK b : b = call[c]
  OBVIOUS
<1>2. PICK reply : reply = [Result(b.sid) EXCEPT !.docs = docs]
  OBVIOUS
<1>3. PICK k : k = Closed(b, b.events, reply)
  OBVIOUS
<1>4. /\ CallFine(b) /\ AtWork(b) /\ b \in ToolCall /\ b.sid \in SessionIds /\ crossed \in SUBSET SessionIds
  BY <1>1, WorkIs
<1>5. reply \in Answered /\ reply.of = b.sid
  BY <1>2, <1>4, NoneTyped DEF Result, Answered, NoReply
<1>6. b.events \in TurnNotes
  BY <1>4 DEF ToolCall
<1>7. CallFine(k) /\ ~AtWork(k) /\ k.new = <<>>
  <2>1. ~RunsAgent(b.req) /\ reply.of \in {Nobody, b.sid}
    BY <1>1, <1>5
  <2> QED  BY <1>3, <1>4, <1>5, <1>6, <2>1, CallEnds
<1>8. FindsNew(k, sessions', crossed')
  BY <1>7 DEF FindsNew
<1>9. Become(c, k)
  BY <1>1, <1>2, <1>3
<1> QED  BY <1>4, <1>7, <1>8, <1>9, CallSteps

LEMMA ReadMemoryKeeps == ASSUME ToolsInv, NEW c \in ToolCalls, ReadMemory(c) PROVE ToolsInv'
<1>1. AtWork(call[c]) /\ ~RunsAgent(call[c].req) /\ UNCHANGED sessions /\ UNCHANGED crossed
  BY DEF ReadMemory, AtWork, RunsAgent
<1>2. CASE Stored(c).there
  <2>1. PICK docs : docs = Stored(c).docs
    OBVIOUS
  <2>2. docs \in Seq(ToolDoc)
    <3>1. MemoryOf(Stored(c), call[c].sid)
      BY <1>1, WorkIs
    <3> QED  BY <2>1, <3>1 DEF MemoryOf, ToolMemory
  <2>3. Become(c, Closed(call[c], call[c].events, [Result(call[c].sid) EXCEPT !.docs = docs]))
    BY <1>2, <2>1 DEF ReadMemory
  <2> QED  BY <1>1, <2>2, <2>3, CallTells
<1>3. CASE ~Stored(c).there
  <2>1. Refuse(c)
    BY <1>3 DEF ReadMemory
  <2> QED  BY <1>1, <2>1, CallRefused
<1> QED  BY <1>2, <1>3

LEMMA ClearMemoryKeeps == ASSUME ToolsInv, NEW c \in ToolCalls, ClearMemory(c) PROVE ToolsInv'
<1>1. AtWork(call[c]) /\ ~RunsAgent(call[c].req) /\ UNCHANGED crossed /\ Save(c, NoMemory)
  BY DEF ClearMemory, AtWork, RunsAgent
<1>2. \E m : MemoryOf(m, call[c].sid) /\ Save(c, m)
  BY <1>1, NoneTyped
<1>3. CASE Refuse(c)
  BY <1>1, <1>2, <1>3, CallRefused
<1>4. CASE Become(c, Closed(call[c], call[c].events, Result(call[c].sid)))
  <2>1. PICK b : b = call[c]
    OBVIOUS
  <2>2. <<>> \in Seq(ToolDoc) /\ Result(b.sid) = [Result(b.sid) EXCEPT !.docs = <<>>]
    <3>1. PICK told : told = Result(b.sid)
      OBVIOUS
    <3>2. b.sid \in SessionIds
      BY <1>1, <2>1, WorkIs
    <3>3. told \in Answered /\ told.docs = <<>>
      BY <3>1, <3>2, NoneTyped DEF Result, Answered, NoReply
    <3>4. told = [told EXCEPT !.docs = <<>>]
      BY <3>3 DEF Answered
    <3> QED  BY <3>1, <3>4
  <2>3. Become(c, Closed(call[c], call[c].events, [Result(call[c].sid) EXCEPT !.docs = <<>>]))
    BY <1>4, <2>1, <2>2
  <2> QED  BY <1>1, <1>2, <2>2, <2>3, CallTells
<1> QED  BY <1>3, <1>4 DEF ClearMemory

LEMMA ToolsStep == ToolsInv /\ [ToolsNext]_toolVars => ToolsInv'
<1> SUFFICES ASSUME ToolsInv, [ToolsNext]_toolVars PROVE ToolsInv'
  OBVIOUS
<1>1. ASSUME NEW c \in ToolCalls, ToolStep(c) PROVE ToolsInv'
  BY <1>1, ArriveKeeps, BeginHydrationKeeps, ReadArtifactKeeps, SaveHydrationKeeps, HydrationFailsKeeps,
     BeginTurnKeeps, EndTurnKeeps, RunRaisesKeeps, ReadMemoryKeeps, ClearMemoryKeeps DEF ToolStep
<1>2. CASE UNCHANGED toolVars
  <2>1. sessions' = sessions /\ call' = call /\ crossed' = crossed
    BY <1>2 DEF toolVars
  <2> QED  BY <2>1 DEF ToolsInv
<1> QED  BY <1>1, <1>2 DEF ToolsNext

LEMMA ToolsInvSound == ToolsInv => ToolsSound
<1> SUFFICES ASSUME ToolsInv PROVE ToolsSound
  OBVIOUS
<1>1. ASSUME NEW c \in ToolCalls, NEW k, k = call[c], k.at # "idle", k.sid # Nobody
      PROVE  /\ Agrees(k) /\ Told(k) /\ k.left <= SummaryMax /\ Bytes(k.new) <= SummaryMax
             /\ k.at = "running" /\ k.kept /\ k.sid \notin crossed => Range(k.new) \subseteq Range(k.seen)
  <2>1. CallFine(k) /\ FindsNew(k, sessions, crossed)
    BY <1>1 DEF ToolsInv
  <2>2. k.req \in Requests /\ k.sid = Resolved(k.req) /\ k.scope = k.sid /\ k.reply.of \in {Nobody, k.sid}
    BY <1>1, <2>1 DEF CallFine
  <2>3. Agrees(k)
    BY <1>1, <2>2 DEF Agrees, Resolved, RunsAgent, CallerOwn
  <2>4. k.at = "running" /\ k.kept /\ k.sid \notin crossed => Range(k.new) \subseteq Range(k.seen)
    <3>1. Range(<<>>) = {}
      BY DEF Range
    <3> QED  BY <2>1, <3>1 DEF FindsNew
  <2> QED  BY <1>1, <2>1, <2>3, <2>4 DEF CallFine
<1>2. ASSUME NEW s \in SessionIds
      PROVE  /\ \A d \in Range(sessions[s].docs) : Owner[d.id] = s
             /\ Cardinality(Hydrated(sessions[s])) = Len(sessions[s].docs)
  <2>1. PICK m : m = sessions[s]
    OBVIOUS
  <2>2. MemoryOf(m, s)
    BY <2>1 DEF ToolsInv
  <2>3. /\ \A d \in Range(m.docs) : Owner[d.id] = s
        /\ Cardinality(Hydrated(m)) = Len(m.docs)
    BY <2>2, OnceCounted
  <2> QED  BY <2>1, <2>3
<1> QED  BY <1>1, <1>2 DEF ToolsSound

\* Every call of an MCP tool stays in one session, a memory tool in its caller's own, what a
\* reply says is what the turn left, and a session holds each artifact once and only its own
\* ones: for any calls, requests, artifacts, owners, sizes and limits.
THEOREM ToolsSoundHolds == ToolsSpec => []ToolsSound
<1>1. ToolsSpec => []ToolsInv
  BY ToolsBegin, ToolsStep, PTL DEF ToolsSpec
<1> QED  BY <1>1, ToolsInvSound, PTL
=============================================================================
