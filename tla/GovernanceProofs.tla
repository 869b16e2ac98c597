-------------------------- MODULE GovernanceProofs --------------------------
(***************************************************************************)
(* Proofs about what limits and records actions: the token buckets of the  *)
(* RateLimiter, the Actor, the plans of PlanExecutePlanner (ActionGate)    *)
(* and the audit log, the costs and the snapshots of Governance; about the *)
(* answers of RetrievalTools; and about the sections and the assemblies of *)
(* SessionMemory.                                                          *)
(***************************************************************************)
EXTENDS Governance, ActionGate, RetrievalTools, SessionMemory, FiniteSetTheorems, SequenceTheorems,
  WellFoundedInduction, TLAPS

-----------------------------------------------------------------------------
(***************************************************************************)
(* Numbers.                                                                *)
(***************************************************************************)

NatOrder == {p \in Nat \X Nat : p[1] < p[2]}

\* A set of naturals with a member has a least one.
LEMMA LeastNatural ==
  ASSUME NEW T, T \subseteq Nat, T # {}
  PROVE  \E m \in T : \A n \in T : m <= n
<1>1. IsWellFoundedOn(NatOrder, Nat) BY NatLessThanWellFounded DEF NatOrder, OpToRel
<1>2. PICK m \in T : \A n \in T : ~ (<<n, m>> \in NatOrder) BY <1>1, WFMin
<1>3. ASSUME NEW n \in T PROVE m <= n
  <2>1. <<n, m>> \in Nat \X Nat /\ <<n, m>>[1] = n /\ <<n, m>>[2] = m OBVIOUS
  <2>2. ~ (n < m) BY <1>2, <2>1 DEF NatOrder
  <2>3. QED BY <2>2
<1>4. QED BY <1>3

LEMMA MinOfNaturals ==
  ASSUME NEW T, T \subseteq Nat, T # {}
  PROVE  Min(T) \in T /\ \A n \in T : Min(T) <= n
BY LeastNatural DEF Min

\* A set of numbers up to a bound with a member has a greatest one.
LEMMA MaxOfNaturals ==
  ASSUME NEW N \in Nat, NEW T, T \subseteq 0..N, T # {}
  PROVE  Max(T) \in T /\ \A n \in T : n <= Max(T)
<1> DEFINE U == {n \in Nat : N - n \in T}
<1>1. U # {} /\ U \subseteq Nat
  <2>1. PICK x \in T : TRUE OBVIOUS
  <2>2. N - x \in U /\ N - (N - x) = x OBVIOUS
  <2>3. QED BY <2>2
<1>2. PICK m \in U : \A n \in U : m <= n BY <1>1, LeastNatural
<1>3. N - m \in T OBVIOUS
<1>4. ASSUME NEW x \in T PROVE x <= N - m
  <2>1. N - x \in U
    <3>1. N - (N - x) = x /\ N - x \in Nat OBVIOUS
    <3>2. QED BY <3>1
  <2>2. QED BY <1>2, <2>1
<1>5. QED BY <1>3, <1>4 DEF Max

\* Refill over two stretches of time.
LEMMA TwoStretches ==
  ASSUME NEW f \in Nat, NEW a \in Nat, NEW b \in Nat, NEW c \in Nat
  PROVE  f * (b - a) + f * (c - b) = f * (c - a)
OBVIOUS

LEMMA Product == ASSUME NEW f \in Nat, NEW a \in Nat PROVE f * a \in Nat
OBVIOUS
-----------------------------------------------------------------------------
(***************************************************************************)
(* The token buckets.                                                      *)
(***************************************************************************)

Patterns == {Globs[i] : i \in DOMAIN Globs} \cup (IF Limited THEN {Default} ELSE {})

CallRecords == [tool : Tools \cup {Unnamed}, at : Nat, granted : BOOLEAN]

GateTypeOK ==
  /\ now \in Nat
  /\ calls \in Seq(CallRecords)
  /\ \A p \in DOMAIN buckets : p \in Patterns /\ buckets[p].tokens \in Nat /\ buckets[p].last \in Nat

\* Call k took a token of pattern p.
Counted(k, p) == calls[k].granted /\ ~Unrated(calls[k].tool) /\ PatternOf(calls[k].tool) = p

TimesInOrder ==
  \A j \in DOMAIN calls : calls[j].at <= now /\ \A i \in DOMAIN calls : i <= j => calls[i].at <= calls[j].at

\* What a bucket holds is what the calls so far have left of it: from any call on, what was
\* granted and what is left are at most the capacity and the refill since, and from one
\* call on exactly that.
BucketInv ==
  /\ \A k \in DOMAIN calls, p \in Patterns : Counted(k, p) => p \in DOMAIN buckets /\ calls[k].at <= buckets[p].last
  /\ \A p \in DOMAIN buckets :
       /\ buckets[p].tokens <= Rate[p].capacity /\ buckets[p].last <= now
       /\ \A i \in DOMAIN calls : calls[i].at <= buckets[p].last =>
            GrantsOf(p, i, Len(calls)) + buckets[p].tokens <=
              Rate[p].capacity + Rate[p].refill * (buckets[p].last - calls[i].at)
       /\ \E i \in DOMAIN calls : calls[i].at <= buckets[p].last /\
            GrantsOf(p, i, Len(calls)) + buckets[p].tokens =
              Rate[p].capacity + Rate[p].refill * (buckets[p].last - calls[i].at)

\* The first part of GateSound: what a call was answered.
AnswersSound ==
  \A j \in DOMAIN calls :
    LET t == calls[j].tool  p == PatternOf(t) IN
      ~Unrated(t) =>
        IF calls[j].granted THEN \A i \in 1..j : GrantsOf(p, i, j) <= Allowance(p, i, j)
        ELSE \E i \in 1..j : GrantsOf(p, i, j) + 1 > Allowance(p, i, j)

GateInv == GateTypeOK /\ TimesInOrder /\ BucketInv /\ AnswersSound

LEMMA PatternRated ==
  ASSUME NEW tool, ~Unrated(tool)
  PROVE  PatternOf(tool) \in Patterns
<1> DEFINE hits == {i \in DOMAIN Globs : Globs[i] \in Matches[tool]}
<1>1. CASE hits = {} BY <1>1 DEF PatternOf, Unrated, Patterns
<1>2. CASE hits # {}
  <2>1. DOMAIN Globs \subseteq Nat BY GateAssumption
  <2>2. Min(hits) \in hits BY <1>2, <2>1, MinOfNaturals
  <2>3. PatternOf(tool) = Globs[Min(hits)] BY <1>2 DEF PatternOf
  <2>4. QED BY <2>2, <2>3 DEF Patterns
<1>3. QED BY <1>1, <1>2

LEMMA RateType == ASSUME NEW p \in Patterns PROVE Rate[p].capacity \in Nat /\ Rate[p].refill \in Nat
BY GateAssumption DEF Patterns

LEMMA GrantsNat == ASSUME NEW p, NEW i \in Int, NEW j \in Int PROVE GrantsOf(p, i, j) \in Nat
<1>1. IsFiniteSet(i..j) BY FS_Interval
<1>2. {k \in i..j : calls[k].granted /\ ~Unrated(calls[k].tool) /\ PatternOf(calls[k].tool) = p} \subseteq i..j
  OBVIOUS
<1>3. QED BY <1>1, <1>2, FS_Subset, FS_CardinalityType DEF GrantsOf

\* Without a grant in a stretch there are none.
LEMMA GrantsNone ==
  ASSUME NEW p, NEW i \in Nat, NEW j \in Nat, \A k \in i..j : ~Counted(k, p)
  PROVE  GrantsOf(p, i, j) = 0
<1>1. {k \in i..j : calls[k].granted /\ ~Unrated(calls[k].tool) /\ PatternOf(calls[k].tool) = p} = {}
  BY DEF Counted
<1>2. QED BY <1>1, FS_EmptySet DEF GrantsOf

\* One more call adds at most its own grant to a stretch.
LEMMA GrantsMore ==
  ASSUME GateTypeOK, NEW c \in CallRecords, calls' = Append(calls, c), NEW p
  PROVE  LET n == Len(calls)
             one == IF c.granted /\ ~Unrated(c.tool) /\ PatternOf(c.tool) = p THEN 1 ELSE 0
         IN /\ \A i \in Nat \ {0}, j \in 0..n : GrantsOf(p, i, j)' = GrantsOf(p, i, j)
            /\ \A j : j = n + 1 => /\ \A i \in 1..n : GrantsOf(p, i, j)' = GrantsOf(p, i, n) + one
                                   /\ GrantsOf(p, j, j)' = one
<1> DEFINE n == Len(calls)
           C(k) == calls[k].granted /\ ~Unrated(calls[k].tool) /\ PatternOf(calls[k].tool) = p
           D(k) == calls'[k].granted /\ ~Unrated(calls'[k].tool) /\ PatternOf(calls'[k].tool) = p
           new == c.granted /\ ~Unrated(c.tool) /\ PatternOf(c.tool) = p
<1>1. n \in Nat /\ calls'[n + 1] = c /\ \A k \in 1..n : calls'[k] = calls[k] BY DEF GateTypeOK
<1>2. ASSUME NEW i \in Nat \ {0}, NEW j \in 0..n PROVE {k \in i..j : D(k)} = {k \in i..j : C(k)}
  BY <1>1
<1>3. ASSUME NEW i \in 1..n
      PROVE  Cardinality({k \in i..(n + 1) : D(k)}) = Cardinality({k \in i..n : C(k)}) + (IF new THEN 1 ELSE 0)
  <2>1. IsFiniteSet({k \in i..n : C(k)}) /\ n + 1 \notin {k \in i..n : C(k)}
    <3>1. IsFiniteSet(i..n) /\ {k \in i..n : C(k)} \subseteq i..n BY <1>1, FS_Interval
    <3>2. QED BY <3>1, <1>1, FS_Subset
  <2>2. CASE new
    <3>1. {k \in i..(n + 1) : D(k)} = {k \in i..n : C(k)} \cup {n + 1} BY <1>1, <2>2
    <3>2. QED BY <2>1, <2>2, <3>1, FS_AddElement, FS_CardinalityType
  <2>3. CASE ~new
    <3>1. {k \in i..(n + 1) : D(k)} = {k \in i..n : C(k)} BY <1>1, <2>3
    <3>2. Cardinality({k \in i..n : C(k)}) \in Nat BY <2>1, FS_CardinalityType
    <3>3. Cardinality({k \in i..(n + 1) : D(k)}) = Cardinality({k \in i..n : C(k)}) BY ONLY <3>1
    <3> HIDE DEF C, D, new
    <3>4. QED BY <2>3, <3>2, <3>3
  <2>4. QED BY <2>2, <2>3
<1>4. Cardinality({k \in (n + 1)..(n + 1) : D(k)}) = IF new THEN 1 ELSE 0
  <2>1. CASE new
    <3>1. {k \in (n + 1)..(n + 1) : D(k)} = {n + 1} BY <1>1, <2>1
    <3>2. QED BY <2>1, <3>1, FS_Singleton
  <2>2. CASE ~new
    <3>1. {k \in (n + 1)..(n + 1) : D(k)} = {} BY <1>1, <2>2
    <3>2. QED BY <2>2, <3>1, FS_EmptySet
  <2>3. QED BY <2>1, <2>2
<1>5. \A i \in Nat \ {0}, j \in 0..n : GrantsOf(p, i, j)' = GrantsOf(p, i, j) BY <1>2 DEF GrantsOf
<1>6. ASSUME NEW j, j = n + 1 
      PROVE  /\ \A i \in 1..n : GrantsOf(p, i, j)' = GrantsOf(p, i, n) + (IF new THEN 1 ELSE 0)
             /\ GrantsOf(p, j, j)' = (IF new THEN 1 ELSE 0)
  <2>1. ASSUME NEW i \in 1..n PROVE GrantsOf(p, i, j)' = GrantsOf(p, i, n) + (IF new THEN 1 ELSE 0)
    BY <1>3, <1>6 DEF GrantsOf
  <2>2. GrantsOf(p, j, j)' = (IF new THEN 1 ELSE 0) BY <1>4, <1>6 DEF GrantsOf
  <2>3. QED BY <2>1, <2>2
<1>7. QED BY <1>5, <1>6

\* A bucket that is filled up holds its capacity, or what it held and the refill.
LEMMA FillEffect ==
  ASSUME GateTypeOK, BucketInv, NEW p \in Patterns
  PROVE  /\ Filled(p) \in Nat /\ Filled(p) <= Rate[p].capacity
         /\ Bucket(p).tokens \in Nat /\ Bucket(p).tokens <= Rate[p].capacity
         /\ Bucket(p).last \in Nat /\ Bucket(p).last <= now
         /\ Filled(p) <= Bucket(p).tokens + Rate[p].refill * (now - Bucket(p).last)
         /\ \/ Filled(p) = Rate[p].capacity
            \/ Filled(p) = Bucket(p).tokens + Rate[p].refill * (now - Bucket(p).last)
<1>1. Rate[p].capacity \in Nat /\ Rate[p].refill \in Nat BY RateType
<1>2. /\ Bucket(p).tokens \in Nat /\ Bucket(p).tokens <= Rate[p].capacity
      /\ Bucket(p).last \in Nat /\ Bucket(p).last <= now
  BY <1>1 DEF Bucket, GateTypeOK, BucketInv
<1>3. now - Bucket(p).last \in Nat /\ now \in Nat BY <1>2 DEF GateTypeOK
<1>4. Rate[p].refill * (now - Bucket(p).last) \in Nat BY <1>1, <1>3, Product
<1>5. (now - Bucket(p).last) * Rate[p].refill = Rate[p].refill * (now - Bucket(p).last) BY <1>1, <1>3
<1> DEFINE more == Rate[p].refill * (now - Bucket(p).last)
           both == {Rate[p].capacity, Bucket(p).tokens + more}
<1>6. Filled(p) = Min(both) BY <1>5 DEF Filled
<1> HIDE DEF more
<1>7. more \in Nat BY <1>4 DEF more
<1>8. both \subseteq Nat /\ both # {} BY <1>1, <1>2, <1>7
<1>9. Filled(p) \in both /\ \A m \in both : Filled(p) <= m BY <1>6, <1>8, MinOfNaturals
<1>10. QED BY <1>1, <1>2, <1>7, <1>8, <1>9 DEF more

\* What BucketInv says of a bucket still holds when it is filled up, or made.
LEMMA FillBound ==
  ASSUME GateInv, NEW p \in Patterns
  PROVE  /\ \A i \in DOMAIN calls :
              GrantsOf(p, i, Len(calls)) + Filled(p) <= Rate[p].capacity + Rate[p].refill * (now - calls[i].at)
         /\ \/ Filled(p) = Rate[p].capacity
            \/ \E i \in DOMAIN calls :
                 GrantsOf(p, i, Len(calls)) + Filled(p) = Rate[p].capacity + Rate[p].refill * (now - calls[i].at)
<1> DEFINE n == Len(calls)
           C == Rate[p].capacity
           F == Rate[p].refill
           B == Bucket(p).tokens
           L == Bucket(p).last
<1>1. C \in Nat /\ F \in Nat BY RateType
<1>2. /\ Filled(p) \in Nat /\ Filled(p) <= C /\ B \in Nat /\ L \in Nat /\ L <= now
      /\ Filled(p) <= B + F * (now - L) /\ (Filled(p) = C \/ Filled(p) = B + F * (now - L))
  BY FillEffect DEF GateInv
<1>3. /\ now \in Nat /\ n \in Nat /\ DOMAIN calls = 1..n
      /\ \A i \in DOMAIN calls : calls[i].at \in Nat /\ calls[i].at <= now /\ i \in Nat
  <2>1. now \in Nat /\ calls \in Seq(CallRecords) BY DEF GateInv, GateTypeOK
  <2>2. n \in Nat /\ DOMAIN calls = 1..n BY <2>1
  <2>3. \A i \in DOMAIN calls : calls[i] \in CallRecords /\ i \in Nat BY <2>1, <2>2
  <2>4. \A i \in DOMAIN calls : calls[i].at \in Nat BY <2>3 DEF CallRecords
  <2>5. QED BY <2>1, <2>2, <2>3, <2>4 DEF GateInv, TimesInOrder
<1>4. ASSUME NEW i \in DOMAIN calls PROVE GrantsOf(p, i, n) \in Nat /\ F * (now - calls[i].at) \in Nat
  <2>1. now - calls[i].at \in Nat BY <1>3
  <2>2. F * (now - calls[i].at) \in Nat BY <2>1, <1>1, Product
  <2>3. QED BY <2>2, <1>3, GrantsNat
<1>5. ASSUME NEW i \in DOMAIN calls, \A k \in i..n : ~Counted(k, p)
      PROVE  GrantsOf(p, i, n) + Filled(p) <= C + F * (now - calls[i].at)
  <2>1. GrantsOf(p, i, n) = 0 BY <1>3, <1>5, GrantsNone
  <2> HIDE DEF C, F
  <2>2. QED BY <1>1, <1>2, <1>4, <2>1
<1>6. ASSUME NEW i \in DOMAIN calls, calls[i].at <= L
      PROVE  F * (L - calls[i].at) + F * (now - L) = F * (now - calls[i].at)
             /\ F * (L - calls[i].at) \in Nat /\ F * (now - L) \in Nat
  <2> DEFINE a == calls[i].at
  <2>1. a \in Nat /\ a <= L BY <1>3, <1>6
  <2> HIDE DEF a, F, L
  <2>2. F * (L - a) + F * (now - L) = F * (now - a) BY <1>1, <1>2, <1>3, <2>1, TwoStretches
  <2>3. L - a \in Nat /\ now - L \in Nat BY <1>2, <1>3, <2>1
  <2>4. QED BY <1>1, <2>2, <2>3, Product DEF a
<1>7. CASE p \in DOMAIN buckets
  <2>1. B = buckets[p].tokens /\ L = buckets[p].last BY <1>7 DEF Bucket
  <2>2. ASSUME NEW i \in DOMAIN calls
        PROVE  GrantsOf(p, i, n) + Filled(p) <= C + F * (now - calls[i].at)
    <3>1. CASE calls[i].at <= L
      <4>1. GrantsOf(p, i, n) + B <= C + F * (L - calls[i].at)
        BY <1>7, <2>1, <3>1 DEF GateInv, BucketInv
      <4> DEFINE late == F * (now - L)
                 whole == F * (now - calls[i].at)
                 early == F * (L - calls[i].at)
      <4>2. early + late = whole /\ early \in Nat /\ late \in Nat /\ Filled(p) <= B + late
        BY <1>2, <3>1, <1>6
      <4>3. GrantsOf(p, i, n) + B <= C + early BY <4>1
      <4> HIDE DEF C, F, B, L, n, late, whole, early
      <4>4. GrantsOf(p, i, n) + Filled(p) <= C + whole BY <4>2, <4>3, <1>1, <1>2, <1>4
      <4>5. QED BY <4>4 DEF whole
    <3>2. CASE ~ (calls[i].at <= L)
      <4>1. ASSUME NEW k \in i..n, Counted(k, p) PROVE FALSE
        <5>1. k \in DOMAIN calls /\ i <= k BY <1>3
        <5>2. calls[k].at <= L BY <4>1, <5>1, <2>1 DEF GateInv, BucketInv
        <5>3. calls[i].at <= calls[k].at BY <5>1 DEF GateInv, TimesInOrder
        <5>4. QED BY <5>1, <5>2, <5>3, <3>2, <1>2, <1>3
      <4>2. QED BY <4>1, <1>5
    <3>3. QED BY <3>1, <3>2
  <2>3. ASSUME Filled(p) = B + F * (now - L)
        PROVE  \E i \in DOMAIN calls : GrantsOf(p, i, n) + Filled(p) = C + F * (now - calls[i].at)
    <3>1. PICK i \in DOMAIN calls : calls[i].at <= L /\ GrantsOf(p, i, n) + B = C + F * (L - calls[i].at)
      BY <1>7, <2>1 DEF GateInv, BucketInv
    <3>2. GrantsOf(p, i, n) + Filled(p) = C + F * (now - calls[i].at)
      <4> DEFINE late == F * (now - L)
                 whole == F * (now - calls[i].at)
                 early == F * (L - calls[i].at)
      <4>1. early + late = whole /\ early \in Nat /\ late \in Nat /\ Filled(p) = B + late
        BY <2>3, <3>1, <1>6
      <4>2. GrantsOf(p, i, n) + B = C + early BY <3>1
      <4> HIDE DEF C, F, B, L, n, late, whole, early
      <4>3. GrantsOf(p, i, n) + Filled(p) = C + whole BY <4>1, <4>2, <1>1, <1>2, <1>4
      <4>4. QED BY <4>3 DEF whole
    <3>3. QED BY <3>2
  <2>4. QED BY <1>2, <2>2, <2>3
<1>8. CASE p \notin DOMAIN buckets
  <2>1. \A k \in DOMAIN calls : ~Counted(k, p) BY <1>8 DEF GateInv, BucketInv
  <2>2. \A i \in DOMAIN calls : \A k \in i..n : ~Counted(k, p) BY <2>1, <1>3
  <2>3. Bucket(p) = [tokens |-> C, last |-> now] BY <1>8 DEF Bucket
  <2>4. B = C /\ L = now BY <2>3
  <2>5. F * (now - now) = 0 BY <1>1, <1>3
  <2>6. Filled(p) = C BY <2>4, <2>5, <1>1, <1>2
  <2>7. QED BY <2>2, <2>6, <1>5
<1>9. QED BY <1>7, <1>8

LEMMA GateStarts == GateInit => GateInv
<1> SUFFICES ASSUME GateInit PROVE GateInv OBVIOUS
<1> USE DEF GateInit
<1>1. DOMAIN calls = {} /\ DOMAIN buckets = {} OBVIOUS
<1>2. GateTypeOK BY <1>1 DEF GateTypeOK
<1>3. TimesInOrder BY <1>1 DEF TimesInOrder
<1>4. BucketInv BY <1>1 DEF BucketInv
<1>5. AnswersSound BY <1>1 DEF AnswersSound
<1>6. QED BY <1>2, <1>3, <1>4, <1>5 DEF GateInv

LEMMA TickKeeps == ASSUME GateInv, Tick PROVE GateInv'
<1> USE DEF Tick
<1>1. GateTypeOK' BY DEF GateInv, GateTypeOK
<1>2. TimesInOrder'
  <2>1. \A j \in DOMAIN calls : calls[j] \in CallRecords BY DEF GateInv, GateTypeOK
  <2>2. \A j \in DOMAIN calls : calls[j].at \in Nat BY <2>1 DEF CallRecords
  <2>3. QED BY <2>2 DEF GateInv, TimesInOrder, GateTypeOK
<1>3. BucketInv'
  <2>1. \A p \in DOMAIN buckets : buckets[p].last <= now' BY DEF GateInv, GateTypeOK, BucketInv
  <2>2. QED BY <2>1 DEF GateInv, BucketInv, GrantsOf, Counted
<1>4. AnswersSound' BY DEF GateInv, AnswersSound, GrantsOf, Allowance
<1>5. QED BY <1>1, <1>2, <1>3, <1>4 DEF GateInv

LEMMA IdleKeeps == ASSUME GateInv, UNCHANGED <<now, buckets, calls>> PROVE GateInv'
<1>1. GateTypeOK' BY DEF GateInv, GateTypeOK
<1>2. TimesInOrder' BY DEF GateInv, TimesInOrder
<1>3. BucketInv' BY DEF GateInv, BucketInv, GrantsOf, Counted
<1>4. AnswersSound' BY DEF GateInv, AnswersSound, GrantsOf, Allowance
<1>5. QED BY <1>1, <1>2, <1>3, <1>4 DEF GateInv

\* The calls after one more: what it takes from a bucket is what a stretch gains.
LEMMA CallKeeps ==
  ASSUME GateInv, CallStart
  PROVE  GateInv'
<1>1. PICK tool \in Tools \cup {Unnamed} :
        /\ IF Unrated(tool)
           THEN /\ calls' = Append(calls, [tool |-> tool, at |-> now, granted |-> TRUE])
                /\ UNCHANGED buckets
           ELSE LET p == PatternOf(tool)  have == Filled(p) IN
                  /\ calls' = Append(calls, [tool |-> tool, at |-> now, granted |-> have >= 1])
                  /\ buckets' = [q \in DOMAIN buckets \cup {p} |->
                                   IF q = p THEN [tokens |-> IF have >= 1 THEN have - 1 ELSE have, last |-> now]
                                   ELSE buckets[q]]
        /\ UNCHANGED <<now, plans>>
  BY DEF CallStart
<1> DEFINE pat == PatternOf(tool)
           have == Filled(pat)
           rated == ~Unrated(tool)
           fits == rated => have >= 1
           c == [tool |-> tool, at |-> now, granted |-> fits]
           n == Len(calls)
<1>2. calls' = Append(calls, c) /\ c \in CallRecords
  <2>1. now \in Nat BY DEF GateInv, GateTypeOK
  <2>2. fits \in BOOLEAN OBVIOUS
  <2>3. c \in CallRecords
    <3> HIDE DEF fits
    <3>1. QED BY <2>1, <2>2 DEF CallRecords
  <2>4. calls' = Append(calls, c)
    <3>1. CASE rated BY <1>1, <3>1
    <3>2. CASE ~rated
      <4>1. fits = TRUE BY <3>2
      <4> HIDE DEF fits
      <4>2. QED BY <1>1, <3>2, <4>1
    <3>3. QED BY <3>1, <3>2
  <2>5. QED BY <2>3, <2>4
<1>3. /\ n \in Nat /\ DOMAIN calls = 1..n /\ DOMAIN calls' = 1..(n + 1) /\ Len(calls') = n + 1
      /\ calls'[n + 1] = c /\ \A k \in 1..n : calls'[k] = calls[k]
      /\ now \in Nat /\ now' = now
  <2>1. calls \in Seq(CallRecords) BY DEF GateInv, GateTypeOK
  <2> HIDE DEF c
  <2>2. QED BY <1>1, <1>2, <2>1 DEF GateInv, GateTypeOK
<1>4. \A i \in 1..n : calls[i].at \in Nat /\ calls[i].at <= now
  <2>1. \A i \in 1..n : calls[i] \in CallRecords BY <1>3 DEF GateInv, GateTypeOK
  <2>2. QED BY <1>3, <2>1 DEF GateInv, TimesInOrder, CallRecords
<1>5. c.at = now /\ c.tool = tool OBVIOUS
<1>6. PICK m : m = n + 1 OBVIOUS
<1>7. m \in Nat /\ m \notin 1..n /\ 1..m = (1..n) \cup {m} BY <1>3, <1>6
<1>8. ASSUME NEW q
      PROVE  /\ \A i \in 1..n, j \in 1..n : GrantsOf(q, i, j)' = GrantsOf(q, i, j)
             /\ (c.granted /\ rated /\ pat = q) =>
                  /\ \A i \in 1..n : GrantsOf(q, i, m)' = GrantsOf(q, i, n) + 1
                  /\ GrantsOf(q, m, m)' = 1
             /\ ~(c.granted /\ rated /\ pat = q) =>
                  /\ \A i \in 1..n : GrantsOf(q, i, m)' = GrantsOf(q, i, n)
                  /\ GrantsOf(q, m, m)' = 0
             /\ \A i \in 1..n : GrantsOf(q, i, n) \in Nat
  <2> DEFINE one == IF c.granted /\ ~Unrated(c.tool) /\ PatternOf(c.tool) = q THEN 1 ELSE 0
  <2>1. /\ \A i \in Nat \ {0}, j \in 0..n : GrantsOf(q, i, j)' = GrantsOf(q, i, j)
        /\ \A j : j = n + 1 => /\ \A i \in 1..n : GrantsOf(q, i, j)' = GrantsOf(q, i, n) + one
                               /\ GrantsOf(q, j, j)' = one
    <3>1. GateTypeOK BY DEF GateInv
    <3> HIDE DEF c
    <3>2. QED BY <1>2, <3>1, GrantsMore
  <2>2. \A i \in 1..n : GrantsOf(q, i, n) \in Nat BY <1>3, GrantsNat
  <2>3. \A i \in 1..n, j \in 1..n : GrantsOf(q, i, j)' = GrantsOf(q, i, j) BY <2>1, <1>3
  <2>4. (\A i \in 1..n : GrantsOf(q, i, m)' = GrantsOf(q, i, n) + one) /\ GrantsOf(q, m, m)' = one
    BY <2>1, <1>6
  <2>5. (c.granted /\ rated /\ pat = q => one = 1) /\ (~(c.granted /\ rated /\ pat = q) => one = 0)
    <3> HIDE DEF c
    <3>1. QED BY <1>5
  <2> HIDE DEF one, pat, n
  <2>6. QED BY <2>2, <2>3, <2>4, <2>5
<1>9. rated => /\ buckets' = [q \in DOMAIN buckets \cup {pat} |->
                                IF q = pat THEN [tokens |-> IF have >= 1 THEN have - 1 ELSE have, last |-> now]
                                ELSE buckets[q]]
               /\ (c.granted <=> have >= 1)
  BY <1>1
<1>10. ~rated => buckets' = buckets BY <1>1
<1>11. ASSUME rated
       PROVE  /\ pat \in Patterns /\ have \in Nat /\ have <= Rate[pat].capacity
              /\ \A i \in 1..n : GrantsOf(pat, i, n) + have <= Rate[pat].capacity + Rate[pat].refill * (now - calls[i].at)
              /\ \/ have = Rate[pat].capacity
                 \/ \E i \in 1..n : GrantsOf(pat, i, n) + have = Rate[pat].capacity + Rate[pat].refill * (now - calls[i].at)
              /\ pat \in DOMAIN buckets => buckets[pat].last <= now
  <2>1. pat \in Patterns BY <1>11, PatternRated
  <2>2. have \in Nat /\ have <= Rate[pat].capacity BY <2>1, FillEffect DEF GateInv
  <2>3. pat \in DOMAIN buckets => buckets[pat].last <= now BY DEF GateInv, BucketInv
  <2> HIDE DEF have, pat
  <2>4. QED BY <2>1, <2>2, <2>3, <1>3, FillBound DEF have
<1>12. ASSUME NEW q \in DOMAIN buckets, ~(rated /\ pat = q)
       PROVE  q \in DOMAIN buckets' /\ buckets'[q] = buckets[q]
  BY <1>9, <1>10, <1>12
<1>13. ASSUME rated
       PROVE  /\ pat \in DOMAIN buckets' /\ buckets'[pat].last = now
              /\ (have >= 1 => buckets'[pat].tokens = have - 1) /\ (~(have >= 1) => buckets'[pat].tokens = have)
  BY <1>9, <1>13
<1>14. ASSUME NEW q \in DOMAIN buckets'
       PROVE  (q \in DOMAIN buckets /\ ~(rated /\ pat = q)) \/ (rated /\ pat = q)
  <2> HIDE DEF rated, pat, have
  <2>1. CASE rated BY <2>1, <1>9, <1>14
  <2>2. CASE ~rated BY <2>2, <1>10, <1>14
  <2>3. QED BY <2>1, <2>2
<1>15. ASSUME NEW q \in DOMAIN buckets
       PROVE  /\ q \in Patterns /\ Rate[q].capacity \in Nat /\ Rate[q].refill \in Nat
              /\ buckets[q].tokens \in Nat /\ buckets[q].last \in Nat
              /\ buckets[q].tokens <= Rate[q].capacity /\ buckets[q].last <= now
              /\ \A i \in 1..n : calls[i].at <= buckets[q].last =>
                   GrantsOf(q, i, n) + buckets[q].tokens <= Rate[q].capacity + Rate[q].refill * (buckets[q].last - calls[i].at)
              /\ \E i \in 1..n : calls[i].at <= buckets[q].last /\
                   GrantsOf(q, i, n) + buckets[q].tokens = Rate[q].capacity + Rate[q].refill * (buckets[q].last - calls[i].at)
  <2>1. q \in Patterns /\ buckets[q].tokens \in Nat /\ buckets[q].last \in Nat BY DEF GateInv, GateTypeOK
  <2>2. QED BY <2>1, <1>3, RateType DEF GateInv, BucketInv
<1> HIDE DEF c, rated, have, pat, n
<1>16. GateTypeOK'
  <2>1. calls' \in Seq(CallRecords) BY <1>2 DEF GateInv, GateTypeOK
  <2>2. ASSUME NEW q \in DOMAIN buckets' PROVE q \in Patterns /\ buckets'[q].tokens \in Nat /\ buckets'[q].last \in Nat
    <3>1. CASE q \in DOMAIN buckets /\ ~(rated /\ pat = q) BY <3>1, <1>12, <1>15
    <3>2. CASE rated /\ pat = q BY <3>2, <1>3, <1>11, <1>13
    <3>3. QED BY <1>14, <3>1, <3>2
  <2>3. QED BY <1>3, <2>1, <2>2 DEF GateTypeOK
<1>17. TimesInOrder'
  <2>1. \A j \in 1..m : calls'[j].at \in Nat /\ calls'[j].at <= now BY <1>3, <1>4, <1>5, <1>6, <1>7
  <2>2. ASSUME NEW j \in 1..m, NEW i \in 1..m, i <= j PROVE calls'[i].at <= calls'[j].at
    <3>1. CASE j = m BY <2>1, <3>1, <1>3, <1>5, <1>6
    <3>2. CASE j # m
      <4>1. i \in 1..n /\ j \in 1..n BY <2>2, <3>2, <1>3, <1>6
      <4>2. QED BY <4>1, <2>2, <1>3 DEF GateInv, TimesInOrder
    <3>3. QED BY <3>1, <3>2
  <2>3. QED BY <2>1, <2>2, <1>3, <1>6 DEF TimesInOrder
<1>18. ASSUME NEW k \in DOMAIN calls', NEW q \in Patterns, Counted(k, q)'
       PROVE  q \in DOMAIN buckets' /\ calls'[k].at <= buckets'[q].last
  <2>1. CASE k \in 1..n
    <3>1. Counted(k, q) BY <2>1, <1>3, <1>18 DEF Counted
    <3>2. q \in DOMAIN buckets /\ calls[k].at <= buckets[q].last BY <2>1, <3>1, <1>3 DEF GateInv, BucketInv
    <3>3. CASE rated /\ pat = q BY <2>1, <3>3, <1>3, <1>4, <1>13
    <3>4. CASE ~(rated /\ pat = q) BY <2>1, <3>2, <3>4, <1>3, <1>12
    <3>5. QED BY <3>3, <3>4
  <2>2. CASE k \notin 1..n
    <3>1. calls'[k] = c BY <2>2, <1>3, <1>18
    <3>2. rated /\ pat = q BY <3>1, <1>18, <1>5 DEF Counted, rated, pat
    <3>3. QED BY <3>1, <3>2, <1>3, <1>5, <1>13
  <2>3. QED BY <2>1, <2>2
<1>19. ASSUME NEW q \in DOMAIN buckets, ~(rated /\ pat = q)
       PROVE  /\ \A i \in 1..m : calls'[i].at <= buckets'[q].last =>
                   GrantsOf(q, i, m)' + buckets'[q].tokens <= Rate[q].capacity + Rate[q].refill * (buckets'[q].last - calls'[i].at)
              /\ \E i \in 1..m : calls'[i].at <= buckets'[q].last /\
                   GrantsOf(q, i, m)' + buckets'[q].tokens = Rate[q].capacity + Rate[q].refill * (buckets'[q].last - calls'[i].at)
  <2>1. /\ \A i \in 1..n : GrantsOf(q, i, m)' = GrantsOf(q, i, n)
        /\ GrantsOf(q, m, m)' = 0
    BY <1>8, <1>19
  <2>2. buckets'[q] = buckets[q] BY <1>12, <1>19
  <2>3. ASSUME NEW i \in 1..m, calls'[i].at <= buckets'[q].last
        PROVE  GrantsOf(q, i, m)' + buckets'[q].tokens <= Rate[q].capacity + Rate[q].refill * (buckets'[q].last - calls'[i].at)
    <3>1. CASE i \in 1..n BY <3>1, <2>1, <2>2, <2>3, <1>3, <1>15
    <3>2. CASE i = m
      <4>1. calls'[i].at = now BY <3>2, <1>3, <1>5, <1>6
      <4>2. buckets[q].last = now BY <4>1, <2>2, <2>3, <1>3, <1>15
      <4>3. Rate[q].refill * (now - now) = 0 BY <1>3, <1>15
      <4>4. QED BY <4>1, <4>2, <4>3, <3>2, <2>1, <2>2, <1>15
    <3>3. QED BY <3>1, <3>2, <1>7
  <2>4. PICK i \in 1..n : calls[i].at <= buckets[q].last /\
                   GrantsOf(q, i, n) + buckets[q].tokens = Rate[q].capacity + Rate[q].refill * (buckets[q].last - calls[i].at)
    BY <1>15
  <2>5. calls'[i] = calls[i] /\ i \in 1..m BY <1>3, <1>7
  <2>6. QED BY <2>1, <2>2, <2>3, <2>4, <2>5
<1>20. ASSUME rated
       PROVE  /\ buckets'[pat].tokens \in Nat /\ buckets'[pat].tokens <= Rate[pat].capacity
              /\ \A i \in 1..m :
                   GrantsOf(pat, i, m)' + buckets'[pat].tokens <= Rate[pat].capacity + Rate[pat].refill * (now - calls'[i].at)
              /\ \E i \in 1..m : calls'[i].at <= now /\
                   GrantsOf(pat, i, m)' + buckets'[pat].tokens = Rate[pat].capacity + Rate[pat].refill * (now - calls'[i].at)
  <2>1. Rate[pat].capacity \in Nat /\ Rate[pat].refill \in Nat BY <1>11, <1>20, RateType
  <2>2. buckets'[pat].tokens \in Nat /\ buckets'[pat].tokens <= Rate[pat].capacity BY <2>1, <1>11, <1>13, <1>20
  <2>3. ASSUME NEW i \in 1..n
        PROVE  GrantsOf(pat, i, m)' + buckets'[pat].tokens = GrantsOf(pat, i, n) + have
    <3>1. GrantsOf(pat, i, n) \in Nat /\ have \in Nat BY <1>8, <1>11, <1>20
    <3>2. CASE have >= 1
      <4>1. GrantsOf(pat, i, m)' = GrantsOf(pat, i, n) + 1 BY <3>2, <1>8, <1>9, <1>20
      <4>2. buckets'[pat].tokens = have - 1 BY <3>2, <1>13, <1>20
      <4>3. QED BY <3>1, <4>1, <4>2
    <3>3. CASE ~(have >= 1)
      <4>1. GrantsOf(pat, i, m)' = GrantsOf(pat, i, n) BY <3>3, <1>8, <1>9, <1>20
      <4>2. buckets'[pat].tokens = have BY <3>3, <1>13, <1>20
      <4>3. QED BY <3>1, <4>1, <4>2
    <3>4. QED BY <3>2, <3>3
  <2>4. GrantsOf(pat, m, m)' + buckets'[pat].tokens = have
    BY <1>8, <1>9, <1>11, <1>13, <1>20
  <2>5. calls'[m].at = now /\ Rate[pat].refill * (now - now) = 0 BY <2>1, <1>3, <1>5, <1>6
  <2>6. ASSUME NEW i \in 1..m
        PROVE  GrantsOf(pat, i, m)' + buckets'[pat].tokens <= Rate[pat].capacity + Rate[pat].refill * (now - calls'[i].at)
    <3>1. CASE i \in 1..n BY <3>1, <2>3, <1>3, <1>11, <1>20
    <3>2. CASE i = m BY <3>2, <2>1, <2>4, <2>5, <1>11, <1>20
    <3>3. QED BY <3>1, <3>2, <1>7
  <2>7. CASE have = Rate[pat].capacity BY <2>1, <2>2, <2>4, <2>5, <2>6, <2>7, <1>3, <1>7
  <2>8. CASE \E i \in 1..n : GrantsOf(pat, i, n) + have = Rate[pat].capacity + Rate[pat].refill * (now - calls[i].at)
    <3>1. PICK i \in 1..n : GrantsOf(pat, i, n) + have = Rate[pat].capacity + Rate[pat].refill * (now - calls[i].at)
      BY <2>8
    <3>2. calls'[i].at = calls[i].at /\ calls[i].at <= now /\ i \in 1..m BY <1>3, <1>4, <1>7
    <3>3. GrantsOf(pat, i, m)' + buckets'[pat].tokens = Rate[pat].capacity + Rate[pat].refill * (now - calls'[i].at)
      BY <2>3, <3>1, <3>2
    <3>4. QED BY <2>2, <2>6, <3>2, <3>3
  <2>9. QED BY <1>11, <1>20, <2>7, <2>8
<1>21. BucketInv'
  <2>1. ASSUME NEW q \in DOMAIN buckets'
        PROVE  /\ buckets'[q].tokens <= Rate[q].capacity /\ buckets'[q].last <= now
               /\ \A i \in 1..m : calls'[i].at <= buckets'[q].last =>
                    GrantsOf(q, i, m)' + buckets'[q].tokens <= Rate[q].capacity + Rate[q].refill * (buckets'[q].last - calls'[i].at)
               /\ \E i \in 1..m : calls'[i].at <= buckets'[q].last /\
                    GrantsOf(q, i, m)' + buckets'[q].tokens = Rate[q].capacity + Rate[q].refill * (buckets'[q].last - calls'[i].at)
    <3>1. CASE q \in DOMAIN buckets /\ ~(rated /\ pat = q) BY <3>1, <1>12, <1>15, <1>19
    <3>2. CASE rated /\ pat = q BY <3>2, <1>3, <1>13, <1>20
    <3>3. QED BY <1>14, <3>1, <3>2
  <2>2. DOMAIN calls' = 1..m /\ Len(calls') = m /\ now' = now BY <1>3, <1>6
  <2>3. QED BY <2>1, <2>2, <1>18 DEF BucketInv
<1>22. AnswersSound'
  <2>1. ASSUME NEW j \in 1..n, ~Unrated(calls'[j].tool), NEW p, p = PatternOf(calls'[j].tool)
        PROVE  IF calls'[j].granted THEN \A i \in 1..j : GrantsOf(p, i, j)' <= Allowance(p, i, j)'
               ELSE \E i \in 1..j : GrantsOf(p, i, j)' + 1 > Allowance(p, i, j)'
    <3>1. calls'[j] = calls[j] BY <1>3
    <3>2. \A i \in 1..j : GrantsOf(p, i, j)' = GrantsOf(p, i, j) /\ Allowance(p, i, j)' = Allowance(p, i, j)
      <4>1. \A i \in 1..j : i \in 1..n BY <1>3
      <4>2. QED BY <4>1, <3>1, <1>3, <1>8 DEF Allowance
    <3>3. IF calls[j].granted THEN \A i \in 1..j : GrantsOf(p, i, j) <= Allowance(p, i, j)
          ELSE \E i \in 1..j : GrantsOf(p, i, j) + 1 > Allowance(p, i, j)
      BY <2>1, <3>1, <1>3 DEF GateInv, AnswersSound
    <3>4. QED BY <3>1, <3>2, <3>3
  <2>2. ASSUME ~Unrated(c.tool)
        PROVE  IF c.granted THEN \A i \in 1..m : GrantsOf(pat, i, m)' <= Allowance(pat, i, m)'
               ELSE \E i \in 1..m : GrantsOf(pat, i, m)' + 1 > Allowance(pat, i, m)'
    <3>1. rated BY <2>2, <1>5 DEF rated
    <3>2. calls'[m].at = now BY <1>3, <1>5, <1>6
    <3>3. \A i \in 1..m : Allowance(pat, i, m)' = Rate[pat].capacity + Rate[pat].refill * (now - calls'[i].at)
      BY <3>2 DEF Allowance
    <3>4. ASSUME NEW i \in 1..m PROVE GrantsOf(pat, i, m)' \in Nat
      <4>1. CASE i \in 1..n
        <5>1. GrantsOf(pat, i, n) \in Nat /\ GrantsOf(pat, i, n) + 1 \in Nat BY <4>1, <1>8
        <5>2. GrantsOf(pat, i, m)' = GrantsOf(pat, i, n) \/ GrantsOf(pat, i, m)' = GrantsOf(pat, i, n) + 1
          BY <4>1, <1>8
        <5>3. QED BY <5>1, <5>2
      <4>2. CASE i = m
        <5>1. GrantsOf(pat, m, m)' = 0 \/ GrantsOf(pat, m, m)' = 1 BY <1>8
        <5>2. QED BY <4>2, <5>1
      <4>3. QED BY <4>1, <4>2, <1>7
    <3>5. CASE c.granted
      <4>1. ASSUME NEW i \in 1..m PROVE GrantsOf(pat, i, m)' <= Allowance(pat, i, m)'
        <5> DEFINE most == Rate[pat].capacity + Rate[pat].refill * (now - calls'[i].at)
        <5>1. calls'[i].at \in Nat BY <1>3, <1>4, <1>5, <1>6, <1>7
        <5>2. now - calls'[i].at \in Int /\ Rate[pat].capacity \in Nat /\ Rate[pat].refill \in Nat
          BY <5>1, <3>1, <1>3, <1>11, RateType
        <5>3. most \in Int BY <5>2
        <5>4. GrantsOf(pat, i, m)' + buckets'[pat].tokens <= most /\ buckets'[pat].tokens \in Nat
          BY <3>1, <1>20
        <5> HIDE DEF most
        <5>5. GrantsOf(pat, i, m)' <= most BY <5>3, <5>4, <3>4
        <5>6. QED BY <5>5, <3>3 DEF most
      <4>2. QED BY <4>1, <3>5
    <3>6. CASE ~c.granted
      <4>1. buckets'[pat].tokens = 0 BY <3>1, <3>6, <1>9, <1>11, <1>13
      <4>2. QED BY <3>1, <3>3, <3>4, <3>6, <4>1, <1>20
    <3>7. QED BY <3>5, <3>6
  <2>3. ASSUME NEW j \in 1..m, ~Unrated(calls'[j].tool), NEW p, p = PatternOf(calls'[j].tool)
        PROVE  IF calls'[j].granted THEN \A i \in 1..j : GrantsOf(p, i, j)' <= Allowance(p, i, j)'
               ELSE \E i \in 1..j : GrantsOf(p, i, j)' + 1 > Allowance(p, i, j)'
    <3>1. CASE j \in 1..n BY <3>1, <2>1, <2>3
    <3>2. CASE j = m
      <4>1. calls'[j] = c /\ p = pat BY <3>2, <2>3, <1>3, <1>5, <1>6 DEF pat
      <4>2. QED BY <3>2, <4>1, <2>2, <2>3
    <3>3. QED BY <3>1, <3>2, <1>7
  <2>4. DOMAIN calls' = 1..m BY <1>3, <1>6
  <2>5. QED BY <2>3, <2>4 DEF AnswersSound
<1>23. QED BY <1>16, <1>17, <1>21, <1>22 DEF GateInv

-----------------------------------------------------------------------------
(***************************************************************************)
(* The Actor.                                                              *)
(***************************************************************************)

ActionPlans == [tool : Tools, tier : Tiers, approval : BOOLEAN]

PlanAnswers == Dispatched \cup {"permission_denied", "approval_pending", "not_configured"}

\* What holds of a dispatched plan.
Permitted(p) ==
  /\ Decision[p.tool] \notin {"deny", "ask"} /\ p.tier # "irreversible"
  /\ p.tier = "externally_visible" /\ p.approval => Decision[p.tool] = "allow"

\* The second part of GateSound.
PlansHeld ==
  /\ plans \in Seq([plan : ActionPlans, outcome : PlanAnswers])
  /\ \A k \in DOMAIN plans :
       plans[k].outcome \in Dispatched =>
         Permitted(plans[k].plan)

LEMMA OutcomesType == ASSUME NEW p \in ActionPlans PROVE Outcomes(p) \subseteq PlanAnswers
BY DEF Outcomes, PlanAnswers, Dispatched

LEMMA DispatchedIsPermitted ==
  ASSUME NEW p \in ActionPlans, NEW outcome \in Outcomes(p), outcome \in Dispatched
  PROVE  Permitted(p)
<1>1. ClassifyPlan(p) \notin {"deny", "approval_required"} BY DEF Outcomes, Dispatched
<1>2. Decision[p.tool] \in {"allow", "ask", "deny", "none"} /\ p.approval \in BOOLEAN
  BY GateAssumption DEF ActionPlans
<1>3. QED BY <1>1, <1>2 DEF ClassifyPlan, RequiredFor, Permitted

LEMMA ForwardKeeps == ASSUME PlansHeld, Forward PROVE PlansHeld'
<1>0. PICK p \in ActionPlans : \E outcome \in Outcomes(p) :
        plans' = Append(plans, [plan |-> p, outcome |-> outcome])
  <2>1. PICK tool \in Tools, tier \in Tiers, approval \in BOOLEAN :
          \E outcome \in Outcomes([tool |-> tool, tier |-> tier, approval |-> approval]) :
            plans' = Append(plans, [plan |-> [tool |-> tool, tier |-> tier, approval |-> approval],
                                    outcome |-> outcome])
    BY DEF Forward
  <2>2. [tool |-> tool, tier |-> tier, approval |-> approval] \in ActionPlans BY DEF ActionPlans
  <2>3. QED BY <2>1, <2>2
<1>1. PICK outcome \in Outcomes(p) : plans' = Append(plans, [plan |-> p, outcome |-> outcome]) BY <1>0
<1>2. outcome \in PlanAnswers /\ (outcome \in Dispatched => Permitted(p)) BY OutcomesType, DispatchedIsPermitted
<1>3. plans' \in Seq([plan : ActionPlans, outcome : PlanAnswers]) BY <1>1, <1>2 DEF PlansHeld
<1>4. ASSUME NEW k \in DOMAIN plans', plans'[k].outcome \in Dispatched PROVE Permitted(plans'[k].plan)
  <2>1. CASE k \in DOMAIN plans
    <3>1. plans'[k] = plans[k] BY <2>1, <1>1 DEF PlansHeld
    <3>2. QED BY <2>1, <3>1, <1>4 DEF PlansHeld
  <2>2. CASE k \notin DOMAIN plans
    <3>1. plans'[k] = [plan |-> p, outcome |-> outcome] BY <2>2, <1>1, <1>4 DEF PlansHeld
    <3>2. plans'[k].plan = p /\ outcome \in Dispatched BY <3>1, <1>4
    <3>3. QED BY <3>2, <1>2
  <2>3. QED BY <2>1, <2>2
<1>5. QED BY <1>3, <1>4 DEF PlansHeld

\* Over any stretch of calls no more are granted than the capacity of the pattern and its
\* refill, none is refused that would have stayed within it, and no plan is dispatched of a
\* tool a rule denies or asks about, nor an irreversible one, nor one that others see without
\* a rule or a waiver (RateLimiter, Actor.classify_plan).
THEOREM GateSoundHolds == GateSpec => []GateSound
<1>1. GateInit => GateInv /\ PlansHeld
  <2>1. GateInit => PlansHeld BY DEF GateInit, PlansHeld
  <2>2. QED BY <2>1, GateStarts
<1>2. (GateInv /\ PlansHeld) /\ [GateNext]_gateVars => (GateInv /\ PlansHeld)'
  <2> SUFFICES ASSUME GateInv, PlansHeld, [GateNext]_gateVars PROVE GateInv' /\ PlansHeld' OBVIOUS
  <2>1. CASE CallStart
    <3>1. plans' = plans BY <2>1 DEF CallStart
    <3>2. QED BY <2>1, <3>1, CallKeeps DEF PlansHeld
  <2>2. CASE Tick
    <3>1. plans' = plans BY <2>2 DEF Tick
    <3>2. QED BY <2>2, <3>1, TickKeeps DEF PlansHeld
  <2>3. CASE Forward
    <3>1. UNCHANGED <<now, buckets, calls>> BY <2>3 DEF Forward
    <3>2. QED BY <2>3, <3>1, ForwardKeeps, IdleKeeps
  <2>4. CASE UNCHANGED gateVars
    <3>1. UNCHANGED <<now, buckets, calls>> /\ plans' = plans BY <2>4 DEF gateVars
    <3>2. QED BY <3>1, IdleKeeps DEF PlansHeld
  <2>5. QED BY <2>1, <2>2, <2>3, <2>4 DEF GateNext
<1>3. GateInv /\ PlansHeld => GateSound BY DEF GateInv, AnswersSound, PlansHeld, Permitted, GateSound
<1>4. QED BY <1>1, <1>2, <1>3, PTL DEF GateSpec

-----------------------------------------------------------------------------
(***************************************************************************)
(* PlanExecutePlanner: what its records tell, whichever steps raise.        *)
(***************************************************************************)

AllKinds == Kinds \cup {"perceive", "act", "respond"}

StepRecords == [step : Nat, kind : AllKinds, output : Seq(Nat), skipped : BOOLEAN]

Execs == [at : {"idle", "running", "done"}, next : Nat, prior : Seq(Nat), executed : Nat, skipped : Nat,
          records : Seq(StepRecords), text : Seq(Nat), raised : SUBSET Nat]

Steps(e) == {r.step : r \in ToSet(e.records)}

\* After the first n steps: each was recorded once, in order, or raised; prior tells what
\* was found, and an answer what was found before it.
Recorded(e, n) ==
  /\ \A i, j \in DOMAIN e.records : i < j => e.records[i].step < e.records[j].step
  /\ Steps(e) \cap e.raised = {} /\ Steps(e) \cup e.raised = 1..n
  /\ Tells(e.prior, FoundBy(e), n + 1)
  /\ \A i \in DOMAIN e.records :
       e.records[i].kind = "respond" =>
         ~e.records[i].skipped /\ Tells(e.records[i].output, FoundBy(e), e.records[i].step)

PlanTypeOK ==
  /\ plan \in Seq(AllKinds)
  /\ exec \in Execs
  /\ acts \in Seq(PlanAnswers \ Dispatched)

PlanInv ==
  /\ PlanTypeOK
  /\ exec.executed + exec.skipped = Len(exec.records)
  /\ exec.at = "idle" => Recorded(exec, 0)
  /\ exec.at = "running" => exec.next \in 1..LastStep /\ Recorded(exec, exec.next - 1)
  /\ exec.at = "done" =>
       \E k \in 0..LastStep : Recorded(exec, k) /\ (k = LastStep \/ k \in exec.raised) /\ exec.text = TextOf(exec)

LEMMA StepsBound ==
  ASSUME NEW steps \in Seq(AllKinds)
  PROVE  LET last == Min({MaxSteps, Len(steps)})
         IN last \in Nat /\ last <= Len(steps) /\ (steps # <<>> => last >= 1)
<1>1. Len(steps) \in Nat /\ (steps # <<>> => Len(steps) >= 1) OBVIOUS
<1>2. {MaxSteps, Len(steps)} \subseteq Nat BY <1>1, PlanAssumption
<1> DEFINE last == Min({MaxSteps, Len(steps)})
<1>3. last \in {MaxSteps, Len(steps)} /\ \A n \in {MaxSteps, Len(steps)} : last <= n
  BY <1>2, MinOfNaturals
<1> HIDE DEF last
<1>4. last \in Nat /\ last <= Len(steps) /\ (steps # <<>> => last >= 1) BY <1>1, <1>2, <1>3, PlanAssumption
<1>5. QED BY <1>4 DEF last

LEMMA LastStepBound ==
  ASSUME plan \in Seq(AllKinds)
  PROVE  LastStep \in Nat /\ LastStep <= Len(plan) /\ (plan # <<>> => LastStep >= 1)
BY StepsBound DEF LastStep

LEMMA JoinedSet ==
  ASSUME NEW A, NEW s \in Seq(A), NEW t \in Seq(A)
  PROVE  s \o t \in Seq(A) /\ ToSet(s \o t) = ToSet(s) \cup ToSet(t)
<1>1. s \o t \in Seq(A) /\ Len(s \o t) = Len(s) + Len(t) /\ DOMAIN (s \o t) = 1..(Len(s) + Len(t)) OBVIOUS
<1>2. \A i \in DOMAIN s : i \in DOMAIN (s \o t) /\ (s \o t)[i] = s[i] OBVIOUS
<1>3. \A i \in DOMAIN t : Len(s) + i \in DOMAIN (s \o t) /\ (s \o t)[Len(s) + i] = t[i] OBVIOUS
<1>4. ASSUME NEW i \in DOMAIN (s \o t) PROVE (s \o t)[i] \in ToSet(s) \cup ToSet(t)
  <2>1. CASE i \in DOMAIN s BY <2>1, <1>2 DEF ToSet
  <2>2. CASE i \notin DOMAIN s
    <3>1. i - Len(s) \in DOMAIN t /\ Len(s) + (i - Len(s)) = i BY <2>2, <1>1
    <3>2. QED BY <3>1, <1>3 DEF ToSet
  <2>3. QED BY <2>1, <2>2
<1>5. ToSet(s \o t) \subseteq ToSet(s) \cup ToSet(t) BY <1>4 DEF ToSet
<1>6. ToSet(s) \cup ToSet(t) \subseteq ToSet(s \o t) BY <1>2, <1>3 DEF ToSet
<1>7. QED BY <1>1, <1>5, <1>6

\* A text tells no less for what is found no earlier than the step it is asked at.
LEMMA TellsMore ==
  ASSUME NEW text \in Seq(Nat), NEW found, NEW more, NEW before \in Nat,
         Tells(text, found, before), found \subseteq more, more \subseteq Nat,
         \A i \in more \ found : i >= before
  PROVE  Tells(text, more, before)
<1>1. \A k \in DOMAIN text : text[k] \in ToSet(text) /\ text[k] \in Nat /\ text[k] < before
  <2>1. \A k \in DOMAIN text : text[k] \in ToSet(text) /\ text[k] \in Nat BY DEF ToSet
  <2>2. ToSet(text) \subseteq 0..(before - 1) BY DEF Tells
  <2>3. QED BY <2>1, <2>2
<1>2. ASSUME NEW k \in DOMAIN text, NEW i \in more, i < text[k] PROVE \E j \in 1..(k - 1) : text[j] = i
  <2>1. i \in found BY <1>1, <1>2
  <2>2. QED BY <2>1, <1>2 DEF Tells
<1>3. {i \in more : i < before} \subseteq ToSet(text)
  <2>1. ASSUME NEW i \in more, i < before PROVE i \in found
    <3>1. i \in Nat /\ ~(i >= before) BY <2>1
    <3>2. QED BY <2>1, <3>1
  <2>2. {i \in found : i < before} \subseteq ToSet(text) BY DEF Tells
  <2>3. QED BY <2>1, <2>2
<1>4. QED BY <1>2, <1>3 DEF Tells

\* What step m adds to a text that tells all that was found before it.
LEMMA TellsJoined ==
  ASSUME NEW text \in Seq(Nat), NEW found \in SUBSET Nat, NEW m \in Nat, Tells(text, found, m),
         NEW added \in Seq(Nat), NEW more \in SUBSET Nat, found \subseteq more, more \subseteq found \cup {m},
         ToSet(added) \subseteq 0..m, ToSet(added) \ {0} \subseteq more,
         m \in more => m \in ToSet(text) \cup ToSet(added)
  PROVE  Tells(text \o added, more, m + 1)
<1> DEFINE all == text \o added
<1>1. all \in Seq(Nat) /\ ToSet(all) = ToSet(text) \cup ToSet(added) BY JoinedSet
<1>2. /\ Len(text) \in Nat /\ DOMAIN text = 1..Len(text) /\ DOMAIN all = 1..(Len(text) + Len(added))
      /\ \A k \in 1..Len(text) : all[k] = text[k]
  OBVIOUS
<1>3. /\ ToSet(text) \subseteq 0..(m - 1) /\ ToSet(text) \ {0} \subseteq found
      /\ {i \in found : i < m} \subseteq ToSet(text)
      /\ \A k \in DOMAIN text, i \in found : i < text[k] => \E j \in 1..(k - 1) : text[j] = i
  BY DEF Tells
<1> HIDE DEF all
<1>4. ToSet(all) \subseteq 0..m /\ ToSet(all) \ {0} \subseteq more BY <1>1, <1>3
<1>5. ASSUME NEW i \in more, i < m + 1 PROVE i \in ToSet(all)
  <2>1. CASE i = m BY <2>1, <1>1, <1>5
  <2>2. CASE i # m
    <3>1. i \in found /\ i < m BY <2>2, <1>5
    <3>2. QED BY <3>1, <1>1, <1>3
  <2>3. QED BY <2>1, <2>2
<1>6. ASSUME NEW k \in DOMAIN all, NEW i \in more, i < all[k] PROVE \E j \in 1..(k - 1) : all[j] = i
  <2>1. all[k] \in Nat /\ all[k] <= m
    <3>1. all[k] \in ToSet(all) BY DEF ToSet
    <3>2. QED BY <3>1, <1>4
  <2>2. i \in found /\ i < m BY <2>1, <1>6
  <2>3. CASE k \in 1..Len(text)
    <3>1. PICK j \in 1..(k - 1) : text[j] = i BY <2>2, <2>3, <1>2, <1>3, <1>6
    <3>2. j \in 1..Len(text) BY <2>3, <1>2
    <3>3. QED BY <3>1, <3>2, <1>2
  <2>4. CASE k \notin 1..Len(text)
    <3>1. i \in ToSet(text) BY <2>2, <1>3
    <3>2. PICK j \in 1..Len(text) : text[j] = i BY <3>1, <1>2 DEF ToSet
    <3>3. k \in Nat /\ k > Len(text) BY <2>4, <1>2
    <3>4. j \in 1..(k - 1) BY <3>3, <1>2
    <3>5. QED BY <3>2, <3>4, <1>2
  <2>5. QED BY <2>3, <2>4
<1>7. ToSet(all) \subseteq 0..((m + 1) - 1) BY <1>4
<1>8. Tells(all, more, m + 1) BY <1>4, <1>5, <1>6, <1>7 DEF Tells
<1>9. QED BY <1>8 DEF all

LEMMA StepsType ==
  ASSUME NEW e, e.records \in Seq(StepRecords)
  PROVE  Steps(e) \subseteq Nat /\ FoundBy(e) \subseteq Steps(e)
<1>1. ASSUME NEW r \in ToSet(e.records) PROVE r.step \in Nat
  <2>1. PICK i \in DOMAIN e.records : r = e.records[i] BY <1>1 DEF ToSet
  <2>2. r \in StepRecords BY <2>1
  <2>3. QED BY <2>2 DEF StepRecords
<1>2. Steps(e) \subseteq Nat BY <1>1 DEF Steps
<1>3. FoundBy(e) \subseteq Steps(e) BY DEF Steps, FoundBy
<1>4. QED BY <1>2, <1>3

\* One more record, of step n + 1.
LEMMA RecordedMore ==
  ASSUME NEW n \in Nat, NEW e, NEW d,
         e.records \in Seq(StepRecords), e.prior \in Seq(Nat), e.raised \subseteq Nat, Recorded(e, n),
         NEW r \in StepRecords, r.step = n + 1,
         d.records = Append(e.records, r), d.prior = e.prior \o r.output, d.raised = e.raised,
         r.kind # "respond" => r.output = <<>> \/ (r.output = <<n + 1>> /\ r.kind \in {"perceive", "act"}),
         r.kind = "respond" => ~r.skipped /\ Tells(r.output, FoundBy(e), n + 1)
  PROVE  Recorded(d, n + 1)
<1> DEFINE l == Len(e.records)
<1>1. /\ l \in Nat /\ DOMAIN e.records = 1..l /\ DOMAIN d.records = 1..(l + 1)
      /\ d.records[l + 1] = r /\ \A i \in 1..l : d.records[i] = e.records[i]
  OBVIOUS
<1>2. ToSet(d.records) = ToSet(e.records) \cup {r}
  <2>1. ASSUME NEW x \in ToSet(d.records) PROVE x \in ToSet(e.records) \cup {r}
    <3>1. PICK i \in 1..(l + 1) : x = d.records[i] BY <1>1 DEF ToSet
    <3>2. CASE i = l + 1 BY <3>1, <3>2, <1>1
    <3>3. CASE i # l + 1
      <4>1. i \in 1..l BY <3>3, <1>1
      <4>2. QED BY <4>1, <3>1, <1>1 DEF ToSet
    <3>4. QED BY <3>2, <3>3
  <2>2. ToSet(e.records) \subseteq ToSet(d.records) BY <1>1 DEF ToSet
  <2>3. r \in ToSet(d.records) BY <1>1 DEF ToSet
  <2>4. QED BY <2>1, <2>2, <2>3
<1>3. Steps(d) = Steps(e) \cup {n + 1} BY <1>2 DEF Steps
<1>4. Steps(e) \subseteq 1..n /\ e.raised \subseteq 1..n /\ FoundBy(e) \subseteq 1..n
  BY StepsType DEF Recorded
<1>5. FoundBy(d) = FoundBy(e) \cup (IF r.kind \in {"perceive", "act"} /\ r.output # <<>> THEN {n + 1} ELSE {})
  BY <1>2 DEF FoundBy
<1>6. FoundBy(d) \subseteq Nat /\ FoundBy(e) \subseteq FoundBy(d) /\ FoundBy(d) \subseteq FoundBy(e) \cup {n + 1}
      /\ FoundBy(e) \in SUBSET Nat /\ \A i \in FoundBy(d) \ FoundBy(e) : i >= n + 1
  BY <1>4, <1>5
<1>7. r.output \in Seq(Nat) /\ n + 1 \in Nat BY DEF StepRecords
<1>8. ASSUME NEW i \in DOMAIN d.records, NEW j \in DOMAIN d.records, i < j
      PROVE  d.records[i].step < d.records[j].step
  <2>1. i \in 1..l /\ d.records[i] = e.records[i] BY <1>1, <1>8
  <2>2. CASE j \in 1..l
    <3>1. d.records[j] = e.records[j] BY <2>2, <1>1
    <3>2. QED BY <2>1, <2>2, <3>1, <1>1, <1>8 DEF Recorded
  <2>3. CASE j = l + 1
    <3>1. d.records[j].step = n + 1 BY <2>3, <1>1
    <3>2. e.records[i].step \in Steps(e) BY <2>1, <1>1 DEF Steps, ToSet
    <3>3. QED BY <2>1, <3>1, <3>2, <1>4
  <2>4. j \in 1..l \/ j = l + 1 BY <1>1, <1>8
  <2> HIDE DEF l
  <2>5. QED BY <2>2, <2>3, <2>4
<1>9. Steps(d) \cap d.raised = {} /\ Steps(d) \cup d.raised = 1..(n + 1)
  <2>1. Steps(e) \cap e.raised = {} /\ Steps(e) \cup e.raised = 1..n BY DEF Recorded
  <2>2. 1..(n + 1) = 1..n \cup {n + 1} /\ n + 1 \notin 1..n OBVIOUS
  <2>3. QED BY <2>1, <2>2, <1>3, <1>4
<1>10. Tells(d.prior, FoundBy(d), (n + 1) + 1)
  <2>1. Tells(e.prior, FoundBy(e), n + 1) BY DEF Recorded
  <2>2. /\ ToSet(r.output) \subseteq 0..(n + 1) /\ ToSet(r.output) \ {0} \subseteq FoundBy(d)
        /\ n + 1 \in FoundBy(d) => n + 1 \in ToSet(e.prior) \cup ToSet(r.output)
    <3>1. CASE r.kind = "respond"
      <4>1. FoundBy(d) = FoundBy(e) BY <3>1, <1>5
      <4>2. ToSet(r.output) \subseteq 0..((n + 1) - 1) /\ ToSet(r.output) \ {0} \subseteq FoundBy(e) BY <3>1 DEF Tells
      <4>3. n + 1 \notin FoundBy(e) BY <1>4
      <4>4. QED BY <4>1, <4>2, <4>3
    <3>2. CASE r.kind # "respond" /\ r.output = <<>>
      <4>1. ToSet(r.output) = {} BY <3>2 DEF ToSet
      <4>2. n + 1 \notin FoundBy(d) BY <3>2, <1>4, <1>5
      <4>3. QED BY <4>1, <4>2
    <3>3. CASE r.output = <<n + 1>> /\ r.kind \in {"perceive", "act"}
      <4>1. ToSet(r.output) = {n + 1} BY <3>3 DEF ToSet
      <4>2. r.output # <<>> BY <3>3
      <4>3. n + 1 \in FoundBy(d) BY <3>3, <4>2, <1>5
      <4>4. QED BY <4>1, <4>3
    <3>4. QED BY <3>1, <3>2, <3>3
  <2>3. QED BY <2>1, <2>2, <1>6, <1>7, TellsJoined
<1>11. ASSUME NEW i \in DOMAIN d.records, d.records[i].kind = "respond"
       PROVE  ~d.records[i].skipped /\ Tells(d.records[i].output, FoundBy(d), d.records[i].step)
  <2>1. CASE i \in 1..l
    <3>1. d.records[i] = e.records[i] /\ e.records[i] \in StepRecords BY <2>1, <1>1
    <3>2. ~e.records[i].skipped /\ Tells(e.records[i].output, FoundBy(e), e.records[i].step)
      BY <2>1, <3>1, <1>1, <1>11 DEF Recorded
    <3>3. e.records[i].step \in Steps(e) BY <2>1, <1>1 DEF Steps, ToSet
    <3>4. e.records[i].output \in Seq(Nat) /\ e.records[i].step \in Nat BY <3>1 DEF StepRecords
    <3>5. \A x \in FoundBy(d) \ FoundBy(e) : x >= e.records[i].step BY <3>3, <1>4, <1>6
    <3>6. QED BY <3>1, <3>2, <3>4, <3>5, <1>6, TellsMore
  <2>2. CASE i = l + 1
    <3>1. d.records[i] = r BY <2>2, <1>1
    <3>2. FoundBy(d) = FoundBy(e) BY <3>1, <1>5, <1>11
    <3>3. QED BY <3>1, <3>2, <1>11
  <2>3. i \in 1..l \/ i = l + 1 BY <1>1, <1>11
  <2> HIDE DEF l
  <2>4. QED BY <2>1, <2>2, <2>3
<1>12. QED BY <1>8, <1>9, <1>10, <1>11 DEF Recorded

\* Step n + 1 raised.
LEMMA RecordedRaised ==
  ASSUME NEW n \in Nat, NEW e, NEW d, e.records \in Seq(StepRecords), e.prior \in Seq(Nat), Recorded(e, n),
         d.records = e.records, d.prior = e.prior, d.raised = e.raised \cup {n + 1}
  PROVE  Recorded(d, n + 1)
<1>1. Steps(d) = Steps(e) /\ FoundBy(d) = FoundBy(e) BY DEF Steps, FoundBy
<1>2. Steps(e) \cap e.raised = {} /\ Steps(e) \cup e.raised = 1..n BY DEF Recorded
<1>3. Steps(d) \cap d.raised = {} /\ Steps(d) \cup d.raised = 1..(n + 1)
  <2>1. 1..(n + 1) = 1..n \cup {n + 1} /\ n + 1 \notin 1..n OBVIOUS
  <2>2. QED BY <2>1, <1>1, <1>2
<1>4. FoundBy(e) \subseteq 1..n BY <1>2, StepsType
<1>5. Tells(d.prior, FoundBy(d), (n + 1) + 1)
  <2>1. Tells(e.prior, FoundBy(e), n + 1) BY DEF Recorded
  <2>2. <<>> \in Seq(Nat) /\ ToSet(<<>>) = {} BY DEF ToSet
  <2>3. FoundBy(e) \in SUBSET Nat /\ n + 1 \notin FoundBy(e) /\ n + 1 \in Nat BY <1>4
  <2>4. Tells(e.prior \o <<>>, FoundBy(e), (n + 1) + 1) BY <2>1, <2>2, <2>3, TellsJoined
  <2>5. e.prior \o <<>> = e.prior OBVIOUS
  <2>6. QED BY <2>4, <2>5, <1>1
<1>6. QED BY <1>1, <1>3, <1>5 DEF Recorded

LEMMA TextType ==
  ASSUME NEW e, e.records \in Seq(StepRecords), e.prior \in Seq(Nat)
  PROVE  TextOf(e) \in Seq(Nat)
<1> DEFINE found == {i \in DOMAIN e.records : e.records[i].kind = "respond" /\ ~e.records[i].skipped}
<1>1. CASE found = {} BY <1>1 DEF TextOf
<1>2. CASE found # {}
  <2>1. Len(e.records) \in Nat /\ found \subseteq 0..Len(e.records) OBVIOUS
  <2>2. Max(found) \in found BY <1>2, <2>1, MaxOfNaturals
  <2>3. PICK m : m = Max(found) /\ m \in DOMAIN e.records BY <2>2
  <2> HIDE DEF found
  <2>4. e.records[m] \in StepRecords BY <2>3
  <2> USE DEF found
  <2>5. TextOf(e) = e.records[m].output BY <1>2, <2>3 DEF TextOf
  <2>6. QED BY <2>4, <2>5 DEF StepRecords
<1>3. QED BY <1>1, <1>2

\* The end of a step whose outcome is d: exec with a record more, or a raise.
LEMMA AdvanceKeeps ==
  ASSUME PlanInv, exec.at = "running",
         NEW d \in Execs, d.at = "running", d.next = exec.next, d.executed + d.skipped = Len(d.records),
         Recorded(d, exec.next),
         \/ Advance(d)
         \/ exec' = [d EXCEPT !.at = "done", !.text = TextOf(d)] /\ exec.next \in d.raised,
         plan' = plan, acts' \in Seq(PlanAnswers \ Dispatched)
  PROVE  PlanInv'
<1>1. LastStep \in Nat /\ LastStep <= Len(plan) /\ LastStep' = LastStep
  <2>1. LastStep' = LastStep BY DEF LastStep
  <2>2. QED BY <2>1, LastStepBound DEF PlanInv, PlanTypeOK
<1>2. exec.next \in 1..LastStep /\ exec.next \in Nat BY <1>1 DEF PlanInv
<1>3. CASE exec' = [d EXCEPT !.at = "done", !.text = TextOf(d)] /\ (exec.next = LastStep \/ exec.next \in d.raised)
  <2>1. TextOf(d) \in Seq(Nat) BY TextType DEF Execs
  <2>2. /\ exec'.at = "done" /\ exec'.records = d.records /\ exec'.prior = d.prior /\ exec'.text = TextOf(d)
        /\ exec'.executed = d.executed /\ exec'.skipped = d.skipped /\ exec'.raised = d.raised
    BY <1>3 DEF Execs
  <2>3. PlanTypeOK' BY <1>3, <2>1 DEF PlanInv, PlanTypeOK, Execs
  <2>4. \A e : e = exec' => TextOf(e) = TextOf(d) BY <2>2 DEF TextOf
  <2>5. \A e : e = exec' => Recorded(e, exec.next) BY <2>2 DEF Recorded, Steps, FoundBy
  <2>6. PICK k : k = exec.next OBVIOUS
  <2>7. k \in 0..LastStep /\ (k = LastStep \/ k \in d.raised) BY <2>6, <1>1, <1>2, <1>3
  <2>8. Recorded(exec, k)' /\ TextOf(exec)' = TextOf(d) BY <2>4, <2>5, <2>6 DEF Recorded, TextOf, Steps, FoundBy
  <2>9. QED BY <2>2, <2>3, <2>7, <2>8, <1>1 DEF PlanInv
<1>4. CASE Advance(d) /\ exec.next # LastStep
  <2>1. exec' = [d EXCEPT !.next = @ + 1] BY <1>4 DEF Advance
  <2>2. /\ exec'.at = "running" /\ exec'.records = d.records /\ exec'.prior = d.prior /\ exec'.next = exec.next + 1
        /\ exec'.executed = d.executed /\ exec'.skipped = d.skipped /\ exec'.raised = d.raised
    BY <2>1 DEF Execs
  <2>3. PlanTypeOK'
    <3>1. d.next + 1 \in Nat BY <1>2
    <3>2. \A x \in Nat : [d EXCEPT !.next = x] \in Execs BY DEF Execs
    <3>3. exec' \in Execs BY <2>1, <3>1, <3>2
    <3>4. QED BY <3>3 DEF PlanInv, PlanTypeOK
  <2>4. \A e : e = exec' => Recorded(e, exec.next) BY <2>2 DEF Recorded, Steps, FoundBy
  <2>5. exec'.next \in 1..LastStep /\ exec'.next - 1 = exec.next BY <2>2, <1>1, <1>2, <1>4
  <2>6. Recorded(exec, exec.next - 1)' BY <2>4, <2>5 DEF Recorded, Steps, FoundBy
  <2>7. QED BY <2>2, <2>3, <2>5, <2>6, <1>1 DEF PlanInv
<1>5. Advance(d) /\ exec.next = LastStep => exec' = [d EXCEPT !.at = "done", !.text = TextOf(d)] BY DEF Advance
<1>6. QED BY <1>3, <1>4, <1>5

LEMMA FailKeeps ==
  ASSUME PlanInv, exec.at = "running", Fail, plan' = plan, acts' \in Seq(PlanAnswers \ Dispatched)
  PROVE  PlanInv'
<1> DEFINE d == [exec EXCEPT !.raised = @ \cup {exec.next}]
<1>1. /\ exec \in Execs /\ exec.next \in Nat /\ exec.next \in 1..LastStep /\ LastStep \in Nat
      /\ exec.executed + exec.skipped = Len(exec.records) /\ Recorded(exec, exec.next - 1)
  BY LastStepBound DEF PlanInv, PlanTypeOK, Execs
<1>2. /\ d \in Execs /\ d.at = "running" /\ d.next = exec.next /\ d.prior = exec.prior /\ d.records = exec.records
      /\ d.executed = exec.executed /\ d.skipped = exec.skipped /\ d.raised = exec.raised \cup {exec.next}
  BY <1>1 DEF Execs
<1>3. exec' = [d EXCEPT !.at = "done", !.text = TextOf(d)] \/ Advance(d) BY DEF Fail
<1> HIDE DEF d
<1>4. PICK n \in Nat : n = exec.next - 1 /\ n + 1 = exec.next BY <1>1
<1>5. exec.records \in Seq(StepRecords) /\ exec.prior \in Seq(Nat) BY <1>1 DEF Execs
<1>6. Recorded(d, n + 1) BY <1>1, <1>2, <1>4, <1>5, RecordedRaised
<1>7. Recorded(d, exec.next) BY <1>4, <1>6
<1>8. exec.next \in d.raised BY <1>2
<1>9. d.executed + d.skipped = Len(d.records) BY <1>1, <1>2
<1>10. QED BY <1>2, <1>3, <1>7, <1>8, <1>9, AdvanceKeeps

\* A step that is recorded: its output is what it found, or an answer.
LEMMA RecordKeeps ==
  ASSUME PlanInv, exec.at = "running", NEW r \in StepRecords, r.step = exec.next,
         NEW d \in Execs, d.at = "running", d.next = exec.next, d.records = Append(exec.records, r),
         d.prior = exec.prior \o r.output, d.raised = exec.raised,
         d.executed + d.skipped = exec.executed + exec.skipped + 1,
         Advance(d), plan' = plan, acts' \in Seq(PlanAnswers \ Dispatched),
         r.kind # "respond" => r.output = <<>> \/ (r.output = <<exec.next>> /\ r.kind \in {"perceive", "act"}),
         r.kind = "respond" => ~r.skipped /\ Tells(r.output, FoundBy(exec), exec.next)
  PROVE  PlanInv'
<1>1. /\ exec.next \in Nat /\ exec.prior \in Seq(Nat) /\ exec.raised \subseteq Nat
      /\ exec.records \in Seq(StepRecords) /\ exec.next \in 1..LastStep /\ LastStep \in Nat
      /\ exec.executed + exec.skipped = Len(exec.records) /\ Recorded(exec, exec.next - 1)
  BY LastStepBound DEF PlanInv, PlanTypeOK, Execs
<1>2. PICK n \in Nat : n = exec.next - 1 /\ n + 1 = exec.next BY <1>1
<1>3. Recorded(exec, n) BY <1>1, <1>2
<1>4. /\ r.kind # "respond" => r.output = <<>> \/ (r.output = <<n + 1>> /\ r.kind \in {"perceive", "act"})
      /\ r.kind = "respond" => ~r.skipped /\ Tells(r.output, FoundBy(exec), n + 1)
      /\ r.step = n + 1
  BY <1>2
<1>5. Recorded(d, n + 1) BY <1>1, <1>3, <1>4, RecordedMore
<1>6. Len(d.records) = Len(exec.records) + 1 BY <1>1
<1>7. d.executed + d.skipped = Len(d.records) BY <1>1, <1>6
<1>8. Recorded(d, exec.next) BY <1>2, <1>5
<1>9. QED BY <1>7, <1>8, AdvanceKeeps

LEMMA SucceedKeeps ==
  ASSUME PlanInv, NEW kind, Running(kind), NEW output \in Seq(Nat), Succeed(kind, output), plan' = plan,
         acts' \in Seq(PlanAnswers \ Dispatched), kind \in {"perceive", "act", "respond"},
         kind # "respond" => output \in StepOutputs,
         kind = "respond" => Tells(output, FoundBy(exec), exec.next)
  PROVE  PlanInv'
<1> DEFINE r == Record(kind, output, FALSE)
           d == [exec EXCEPT !.executed = @ + 1, !.prior = @ \o output, !.records = Append(@, r)]
<1>1. exec \in Execs /\ exec.at = "running" /\ exec.next \in Nat BY DEF PlanInv, PlanTypeOK, Running, Execs
<1>2. r \in StepRecords /\ r.step = exec.next /\ r.kind = kind /\ r.output = output /\ ~r.skipped
  BY <1>1 DEF Record, StepRecords, AllKinds
<1> HIDE DEF r
<1>3. /\ d.at = "running" /\ d.next = exec.next /\ d.prior = exec.prior \o output /\ d.raised = exec.raised
      /\ d.executed = exec.executed + 1 /\ d.skipped = exec.skipped /\ d.records = Append(exec.records, r)
  BY <1>1 DEF Execs
<1>4. d \in Execs
  <2>1. exec.executed + 1 \in Nat /\ exec.prior \o output \in Seq(Nat) /\ Append(exec.records, r) \in Seq(StepRecords)
    BY <1>1, <1>2 DEF Execs
  <2>2. \A a \in Nat, p \in Seq(Nat), t \in Seq(StepRecords) :
          [exec EXCEPT !.executed = a, !.prior = p, !.records = t] \in Execs
    BY <1>1 DEF Execs
  <2>3. d = [exec EXCEPT !.executed = exec.executed + 1, !.prior = exec.prior \o output,
                         !.records = Append(exec.records, r)]
    OBVIOUS
  <2> HIDE DEF d
  <2>4. QED BY <2>1, <2>2, <2>3
<1>5. Advance(d) BY DEF Succeed, r
<1>6. exec.executed + 1 + exec.skipped = exec.executed + exec.skipped + 1 BY <1>1 DEF Execs
<1> HIDE DEF d
<1>7. d.executed + d.skipped = exec.executed + exec.skipped + 1 BY <1>3, <1>6
<1>8. r.kind # "respond" => r.output = <<>> \/ (r.output = <<exec.next>> /\ r.kind \in {"perceive", "act"})
  BY <1>2 DEF StepOutputs
<1>9. QED BY <1>1, <1>2, <1>3, <1>4, <1>5, <1>7, <1>8, RecordKeeps

LEMMA SkipKeeps ==
  ASSUME PlanInv, NEW kind, Running(kind), Skip(kind), plan' = plan,
         acts' \in Seq(PlanAnswers \ Dispatched), kind \in AllKinds \ {"respond"}
  PROVE  PlanInv'
<1> DEFINE r == Record(kind, <<>>, TRUE)
           d == [exec EXCEPT !.skipped = @ + 1, !.records = Append(@, r)]
<1>1. exec \in Execs /\ exec.at = "running" /\ exec.next \in Nat BY DEF PlanInv, PlanTypeOK, Running, Execs
<1>2. r \in StepRecords /\ r.step = exec.next /\ r.kind = kind /\ r.output = <<>>
  <2>1. <<>> \in Seq(Nat) OBVIOUS
  <2>2. QED BY <2>1, <1>1 DEF Record, StepRecords
<1> HIDE DEF r
<1>3. /\ d.at = "running" /\ d.next = exec.next /\ d.prior = exec.prior /\ d.raised = exec.raised
      /\ d.executed = exec.executed /\ d.skipped = exec.skipped + 1 /\ d.records = Append(exec.records, r)
  BY <1>1 DEF Execs
<1>4. d \in Execs
  <2>1. exec.skipped + 1 \in Nat /\ Append(exec.records, r) \in Seq(StepRecords)
    BY <1>1, <1>2 DEF Execs
  <2>2. \A a \in Nat, t \in Seq(StepRecords) : [exec EXCEPT !.skipped = a, !.records = t] \in Execs
    BY <1>1 DEF Execs
  <2>3. d = [exec EXCEPT !.skipped = exec.skipped + 1, !.records = Append(exec.records, r)]
    OBVIOUS
  <2> HIDE DEF d
  <2>4. QED BY <2>1, <2>2, <2>3
<1>5. Advance(d) BY DEF Skip, r
<1>6. exec.executed + (exec.skipped + 1) = exec.executed + exec.skipped + 1 /\ exec.prior \o <<>> = exec.prior
  BY <1>1 DEF Execs
<1> HIDE DEF d
<1>7. d.executed + d.skipped = exec.executed + exec.skipped + 1 /\ d.prior = exec.prior \o r.output
  BY <1>2, <1>3, <1>6
<1>8. r.kind # "respond" BY <1>2
<1>9. QED BY <1>1, <1>2, <1>3, <1>4, <1>5, <1>7, <1>8, RecordKeeps

\* Before the first step nothing is recorded.
LEMMA RecordedNone ==
  ASSUME NEW e, e.records = <<>>, e.prior = <<>>, e.raised = {}
  PROVE  Recorded(e, 0)
<1>1. ToSet(e.records) = {} /\ ToSet(e.prior) = {} /\ DOMAIN e.records = {} /\ DOMAIN e.prior = {} BY DEF ToSet
<1>2. Steps(e) = {} /\ FoundBy(e) = {} BY <1>1 DEF Steps, FoundBy
<1>3. Tells(e.prior, FoundBy(e), 0 + 1) BY <1>1, <1>2 DEF Tells
<1>4. QED BY <1>1, <1>2, <1>3 DEF Recorded

LEMMA ExecuteKeeps == ASSUME PlanInv, Execute PROVE PlanInv'
<1>1. plan' \in Seq(AllKinds)
  <2>1. CASE \E intent \in Intents : plan' = HeuristicSteps(intent)
    <3>1. PICK intent \in Intents : plan' = HeuristicSteps(intent) BY <2>1
    <3>2. /\ <<"perceive", "respond">> \in Seq(AllKinds) /\ <<"act", "respond">> \in Seq(AllKinds)
          /\ <<"perceive", "act", "respond">> \in Seq(AllKinds) /\ <<"respond">> \in Seq(AllKinds)
      BY DEF AllKinds
    <3>3. QED BY <3>1, <3>2 DEF HeuristicSteps
  <2>2. CASE \E n \in 0..MaxLength : plan' \in [1..n -> Kinds]
    <3>1. PICK n \in 0..MaxLength : plan' \in [1..n -> Kinds] BY <2>2
    <3>2. n \in Nat BY PlanAssumption
    <3>3. plan' \in [1..n -> AllKinds] BY <3>1 DEF AllKinds
    <3>4. QED BY <3>2, <3>3
  <2>3. QED BY <2>1, <2>2 DEF Execute
<1>2. /\ exec'.at = (IF plan' = <<>> THEN "done" ELSE "running") /\ exec'.next = 1 /\ exec'.prior = <<>>
      /\ exec'.executed = 0 /\ exec'.skipped = 0 /\ exec'.records = <<>> /\ exec'.text = <<>>
      /\ exec'.raised = {} /\ acts' = <<>>
  BY DEF Execute, Idle
<1>3. PlanTypeOK'
  <2>1. exec' \in Execs
    <3>1. <<>> \in Seq(Nat) /\ <<>> \in Seq(StepRecords) OBVIOUS
    <3>2. Idle \in Execs BY <3>1 DEF Idle, Execs
    <3>3. \A a \in {"done", "running"} : [Idle EXCEPT !.at = a] \in Execs BY <3>2 DEF Execs
    <3>4. QED BY <3>3 DEF Execute
  <2>2. QED BY <1>1, <1>2, <2>1 DEF PlanTypeOK
<1>4. LastStep' \in Nat /\ (plan' # <<>> => LastStep' >= 1) /\ (plan' = <<>> => LastStep' = 0)
  <2>1. LastStep' = Min({MaxSteps, Len(plan')}) BY DEF LastStep
  <2>2. Len(plan') \in Nat /\ (plan' = <<>> => Len(plan') = 0) BY <1>1
  <2>3. QED BY <1>1, <2>1, <2>2, StepsBound
<1>5. \A e : e = exec' => Recorded(e, 0) BY <1>2, RecordedNone
<1>6. Recorded(exec, 0)' BY <1>5 DEF Recorded, Steps, FoundBy
<1>7. TextOf(exec)' = <<>> BY <1>2 DEF TextOf
<1>8. CASE plan' = <<>>
  <2>1. LastStep' = 0 /\ 0 \in 0..LastStep' BY <1>4, <1>8
  <2>2. QED BY <1>2, <1>3, <1>6, <1>7, <1>8, <2>1 DEF PlanInv
<1>9. CASE plan' # <<>>
  <2>1. exec'.next \in 1..LastStep' /\ exec'.next - 1 = 0 BY <1>2, <1>4, <1>9
  <2>2. Recorded(exec, exec.next - 1)' BY <1>6, <2>1 DEF Recorded, Steps, FoundBy
  <2>3. QED BY <1>2, <1>3, <1>9, <2>1, <2>2 DEF PlanInv
<1>10. QED BY <1>8, <1>9

\* An act of a plan is held or refused, or there is no callback: its tier is irreversible.
LEMMA ActsHeld == ASSUME NEW tool \in Tools PROVE Outcomes(ActionOf(tool)) \subseteq PlanAnswers \ Dispatched
<1>1. ActionOf(tool) \in ActionPlans /\ ActionOf(tool).tier = "irreversible" BY DEF ActionOf, ActionPlans, Tiers
<1>2. QED BY <1>1, OutcomesType, DispatchedIsPermitted DEF Permitted

LEMMA PlanStep == ASSUME PlanInv, [PlanNext]_planVars PROVE PlanInv'
<1>1. plan \in Seq(AllKinds) /\ acts \in Seq(PlanAnswers \ Dispatched) /\ exec.prior \in Seq(Nat) /\ exec.next \in Nat
  BY DEF PlanInv, PlanTypeOK, Execs
<1>2. exec.at = "running" => exec.next \in 1..Len(plan) /\ Recorded(exec, exec.next - 1)
  BY <1>1, LastStepBound DEF PlanInv
<1>3. \A output \in StepOutputs : output \in Seq(Nat)
  <2>1. PICK n \in Nat : n = exec.next BY <1>1
  <2>2. <<>> \in Seq(Nat) /\ <<n>> \in Seq(Nat) OBVIOUS
  <2>3. QED BY <2>1, <2>2 DEF StepOutputs
<1>4. CASE Execute BY <1>4, ExecuteKeeps
<1>5. CASE Perceive
  <2>1. Running("perceive") /\ plan' = plan /\ acts' = acts /\ exec.at = "running" BY <1>5 DEF Perceive, Running
  <2>2. (\E output \in StepOutputs : Succeed("perceive", output)) \/ Fail \/ Skip("perceive") BY <1>5 DEF Perceive
  <2>3. CASE \E output \in StepOutputs : Succeed("perceive", output)
    <3>1. PICK output \in StepOutputs : Succeed("perceive", output) BY <2>3
    <3>2. QED BY <2>1, <3>1, <1>1, <1>3, SucceedKeeps
  <2>4. QED BY <2>1, <2>2, <2>3, <1>1, FailKeeps, SkipKeeps DEF AllKinds
<1>6. CASE Act
  <2>1. Running("act") /\ plan' = plan /\ exec.at = "running" BY <1>6 DEF Act, Running
  <2>2. CASE \E tool \in Tools : \E outcome \in Outcomes(ActionOf(tool)) :
               /\ acts' = Append(acts, outcome)
               /\ IF outcome = "raised" THEN Fail ELSE \E output \in StepOutputs : Succeed("act", output)
    <3>0. PICK tool \in Tools : \E outcome \in Outcomes(ActionOf(tool)) :
               /\ acts' = Append(acts, outcome)
               /\ IF outcome = "raised" THEN Fail ELSE \E output \in StepOutputs : Succeed("act", output)
      BY <2>2
    <3>1. PICK outcome \in Outcomes(ActionOf(tool)) :
               /\ acts' = Append(acts, outcome)
               /\ IF outcome = "raised" THEN Fail ELSE \E output \in StepOutputs : Succeed("act", output)
      BY <3>0
    <3>2. outcome \in PlanAnswers \ Dispatched BY ActsHeld
    <3>3. acts' \in Seq(PlanAnswers \ Dispatched) BY <1>1, <3>1, <3>2
    <3>4. outcome # "raised" BY <3>2 DEF Dispatched
    <3>5. PICK output \in StepOutputs : Succeed("act", output) BY <3>1, <3>4
    <3>6. QED BY <2>1, <3>3, <3>5, <1>3, SucceedKeeps
  <2>3. CASE Skip("act") /\ acts' = acts BY <2>1, <2>3, <1>1, SkipKeeps DEF AllKinds
  <2>4. QED BY <1>6, <2>2, <2>3 DEF Act
<1>7. CASE Respond
  <2>1. Running("respond") /\ plan' = plan /\ acts' = acts /\ exec.at = "running" BY <1>7 DEF Respond, Running
  <2>2. PICK n \in Nat : n = exec.next - 1 /\ n + 1 = exec.next BY <1>1, <1>2, <2>1
  <2>3. Tells(exec.prior, FoundBy(exec), exec.next) BY <1>2, <2>1, <2>2 DEF Recorded
  <2>4. CASE exec.prior # <<>>
    <3>1. Succeed("respond", exec.prior) BY <1>7, <2>4 DEF Respond
    <3>2. QED BY <2>1, <2>3, <3>1, <1>1, SucceedKeeps
  <2>5. CASE exec.prior = <<>>
    <3>1. PICK said \in {<<>>, <<0>>} : Succeed("respond", said) BY <1>7, <2>5 DEF Respond
    <3>2. said \in Seq(Nat)
      <4>1. <<>> \in Seq(Nat) /\ <<0>> \in Seq(Nat) OBVIOUS
      <4>2. QED BY <3>1, <4>1
    <3>3. {i \in FoundBy(exec) : i < exec.next} = {}
      <4>1. ToSet(exec.prior) = {} BY <2>5 DEF ToSet
      <4>2. QED BY <4>1, <2>3 DEF Tells
    <3>4. ToSet(said) \subseteq {0} /\ \A k \in DOMAIN said : said[k] = 0 BY <3>1 DEF ToSet
    <3>5. FoundBy(exec) \subseteq Nat
      <4>1. exec.records \in Seq(StepRecords) BY DEF PlanInv, PlanTypeOK, Execs
      <4>2. QED BY <4>1, StepsType
    <3>6. Tells(said, FoundBy(exec), exec.next)
      <4>1. ToSet(said) \subseteq 0..(exec.next - 1) BY <3>4, <2>2
      <4>2. ASSUME NEW k \in DOMAIN said, NEW i \in FoundBy(exec), i < said[k] PROVE FALSE
        <5>1. i < 0 /\ i \in Nat BY <3>4, <3>5, <4>2
        <5>2. QED BY <5>1
      <4>3. ToSet(said) \ {0} = {} BY <3>4
      <4>4. QED BY <3>3, <4>1, <4>2, <4>3 DEF Tells
    <3>7. QED BY <2>1, <3>1, <3>2, <3>6, <1>1, SucceedKeeps
  <2>6. QED BY <2>4, <2>5
<1>8. CASE UnknownStep
  <2>1. exec.at = "running" /\ plan[exec.next] \notin {"perceive", "act", "respond"} /\ Skip(plan[exec.next])
        /\ plan' = plan /\ acts' = acts
    BY <1>8 DEF UnknownStep
  <2>2. plan[exec.next] \in AllKinds \ {"respond"} /\ Running(plan[exec.next]) BY <1>1, <1>2, <2>1 DEF Running
  <2>3. QED BY <2>1, <2>2, <1>1, SkipKeeps
<1>9. CASE UNCHANGED planVars
  <2>1. plan' = plan /\ exec' = exec /\ acts' = acts BY <1>9 DEF planVars
  <2>2. QED BY <2>1 DEF PlanInv, PlanTypeOK, LastStep, Recorded, TextOf, Steps, FoundBy
<1>10. QED BY <1>4, <1>5, <1>6, <1>7, <1>8, <1>9 DEF PlanNext

\* The text of a finished plan is its last answer's, or what was found.
LEMMA TextTells ==
  ASSUME NEW k \in Nat, exec \in Execs, LastStep \in Nat, k <= LastStep, Recorded(exec, k), exec.text = TextOf(exec)
  PROVE  Tells(exec.text, FoundBy(exec), AnswerStep(exec))
<1> DEFINE at == {i \in DOMAIN exec.records : exec.records[i].kind = "respond" /\ ~exec.records[i].skipped}
           answers == {r.step : r \in {r \in ToSet(exec.records) : r.kind = "respond"}}
<1>1. exec.records \in Seq(StepRecords) /\ exec.prior \in Seq(Nat) /\ Len(exec.records) \in Nat BY DEF Execs
<1>2. Steps(exec) \subseteq 1..k /\ FoundBy(exec) \subseteq 1..k /\ answers \subseteq Steps(exec)
  BY <1>1, StepsType DEF Recorded, Steps
<1>3. answers = {exec.records[i].step : i \in at}
  <2>1. at = {i \in DOMAIN exec.records : exec.records[i].kind = "respond"} BY DEF Recorded
  <2>2. QED BY <2>1 DEF ToSet
<1>4. CASE at = {}
  <2>1. exec.text = exec.prior /\ AnswerStep(exec) = LastStep + 1 BY <1>3, <1>4 DEF TextOf, AnswerStep
  <2>2. Tells(exec.prior, FoundBy(exec), k + 1) BY DEF Recorded
  <2>3. /\ ToSet(exec.prior) \subseteq 0..((LastStep + 1) - 1)
        /\ {i \in FoundBy(exec) : i < LastStep + 1} = {i \in FoundBy(exec) : i < k + 1}
    <3>1. ToSet(exec.prior) \subseteq 0..((k + 1) - 1) BY <2>2 DEF Tells
    <3>2. QED BY <3>1, <1>2
  <2>4. QED BY <2>1, <2>2, <2>3 DEF Tells
<1>5. CASE at # {}
  <2>1. at \subseteq 0..Len(exec.records) BY <1>1
  <2>2. PICK m : m = Max(at) /\ m \in at /\ \A i \in at : i <= m BY <1>1, <1>5, <2>1, MaxOfNaturals
  <2>3. exec.text = exec.records[m].output BY <1>5, <2>2 DEF TextOf
  <2>4. exec.records[m].step \in answers BY <2>2, <1>3
  <2>5. ASSUME NEW s \in answers PROVE s <= exec.records[m].step
    <3>1. PICK i \in at : s = exec.records[i].step BY <1>3
    <3>2. i \in DOMAIN exec.records /\ m \in DOMAIN exec.records /\ i <= m BY <2>2, <3>1
    <3>3. exec.records[i] \in StepRecords /\ exec.records[m] \in StepRecords BY <1>1, <3>2
    <3>4. CASE i = m BY <3>1, <3>3, <3>4 DEF StepRecords
    <3>5. CASE i # m
      <4>1. i \in Nat /\ m \in Nat /\ i < m BY <3>2, <3>5, <1>1
      <4>2. exec.records[i].step < exec.records[m].step BY <4>1, <3>2 DEF Recorded
      <4>3. QED BY <3>1, <3>3, <4>2 DEF StepRecords
    <3>6. QED BY <3>4, <3>5
  <2>6. PICK s : s = exec.records[m].step OBVIOUS
  <2>7. Max(answers) \in answers /\ \A t \in answers : t <= Max(answers)
    <3>1. answers \subseteq 0..k /\ answers # {} BY <1>2, <2>4
    <3>2. QED BY <3>1, MaxOfNaturals
  <2>8. Max(answers) = s
    <3>1. Max(answers) <= s /\ s <= Max(answers) BY <2>4, <2>5, <2>6, <2>7
    <3>2. s \in Nat /\ Max(answers) \in Nat
      <4>1. answers \subseteq Nat BY <1>2
      <4> HIDE DEF answers
      <4>2. QED BY <4>1, <2>4, <2>6, <2>7
    <3>3. PICK a \in Nat : a = Max(answers) BY <3>2
    <3>4. a <= s /\ s <= a BY <3>1, <3>3
    <3> HIDE DEF answers
    <3>5. a = s BY <3>2, <3>4
    <3>6. QED BY <3>3, <3>5
  <2>9. AnswerStep(exec) = s BY <2>4, <2>8 DEF AnswerStep
  <2>10. Tells(exec.records[m].output, FoundBy(exec), s) BY <2>2, <2>6 DEF Recorded
  <2>11. QED BY <2>3, <2>9, <2>10
<1>6. QED BY <1>4, <1>5

LEMMA PlanHolds == ASSUME PlanInv PROVE PlanSound
<1>1. /\ exec \in Execs /\ acts \in Seq(PlanAnswers \ Dispatched) /\ exec.next \in Nat
      /\ exec.at \in {"idle", "running", "done"} /\ LastStep \in Nat /\ exec.executed + exec.skipped = Len(exec.records)
  BY LastStepBound DEF PlanInv, PlanTypeOK, Execs
<1>2. ToSet(acts) \cap Dispatched = {} BY <1>1 DEF ToSet
<1>3. PICK k \in Nat : Recorded(exec, k)
        /\ (exec.at = "done" => k <= LastStep /\ (k = LastStep \/ k \in exec.raised) /\ exec.text = TextOf(exec))
  <2>1. CASE exec.at = "idle" BY <2>1 DEF PlanInv
  <2>2. CASE exec.at = "running"
    <3>1. exec.next - 1 \in Nat /\ Recorded(exec, exec.next - 1) BY <2>2, <1>1 DEF PlanInv
    <3>2. QED BY <2>2, <3>1
  <2>3. CASE exec.at = "done"
    <3>1. PICK n \in 0..LastStep : Recorded(exec, n) /\ (n = LastStep \/ n \in exec.raised) /\ exec.text = TextOf(exec)
      BY <2>3 DEF PlanInv
    <3>2. n \in Nat /\ n <= LastStep BY <1>1
    <3>3. QED BY <3>1, <3>2
  <2>4. QED BY <1>1, <2>1, <2>2, <2>3
<1>4. /\ \A i, j \in DOMAIN exec.records : i < j => exec.records[i].step < exec.records[j].step
      /\ Steps(exec) \cap exec.raised = {} /\ Steps(exec) \cup exec.raised = 1..k
  BY <1>3 DEF Recorded
<1>5. ASSUME exec.at = "done"
      PROVE  /\ \E n \in 0..LastStep : Steps(exec) \cup exec.raised = 1..n /\ (n = LastStep \/ n \in exec.raised)
             /\ Tells(exec.text, FoundBy(exec), AnswerStep(exec))
  <2>1. k \in 0..LastStep BY <1>1, <1>3, <1>5
  <2>2. Tells(exec.text, FoundBy(exec), AnswerStep(exec)) BY <1>1, <1>3, <1>5, TextTells
  <2>3. QED BY <1>3, <1>4, <1>5, <2>1, <2>2
<1>6. QED BY <1>1, <1>2, <1>4, <1>5 DEF PlanSound, Steps

\* No act of a plan is dispatched, whatever the rules say of its tool; every step up to the
\* end is recorded once and in order or raised; and the result tells, in order, what was found
\* before the last answer and nothing found after it (_dispatch_act with Actor.classify_plan,
\* _dispatch_respond, _build_plan_result).
THEOREM PlanSoundHolds == PlanSpec => []PlanSound
<1>1. PlanInit => PlanInv
  <2> SUFFICES ASSUME PlanInit PROVE PlanInv OBVIOUS
  <2>1. plan = <<>> /\ exec = Idle /\ acts = <<>> BY DEF PlanInit
  <2>2. exec \in Execs BY <2>1 DEF Idle, Execs
  <2>3. PlanTypeOK BY <2>1, <2>2 DEF PlanTypeOK
  <2>4. exec.at = "idle" /\ exec.records = <<>> /\ exec.prior = <<>> /\ exec.raised = {}
        /\ exec.executed = 0 /\ exec.skipped = 0
    BY <2>1 DEF Idle
  <2>5. QED BY <2>3, <2>4, RecordedNone DEF PlanInv
<1>2. PlanInv /\ [PlanNext]_planVars => PlanInv' BY PlanStep
<1>3. PlanInv => PlanSound BY PlanHolds
<1>4. QED BY <1>1, <1>2, <1>3, PTL DEF PlanSpec

-----------------------------------------------------------------------------
(***************************************************************************)
(* The audit log, and what is kept of a run.                               *)
(***************************************************************************)

Lines == Runs \X Nat

Ordered(s) == \A i, j \in DOMAIN s : i < j /\ s[i][1] = s[j][1] => s[i][2] < s[j][2]

\* No line of s comes at or after this one of its run.
Before(s, line) == \A x \in ToSet(s) : x[1] = line[1] => x[2] < line[2]

\* Every line of s was to be kept.
Kept(s, lines) == \A x \in ToSet(s) : x \in ToSet(lines[x[1]])

\* A copy of the log that is in order, of lines to be kept, all of them emitted.
Sound(s, lines, next) ==
  /\ s \in Seq(Lines) /\ Ordered(s) /\ Kept(s, lines)
  /\ \A x \in ToSet(s) : x[2] < next[x[1]]

AppendsType == [line : Lines \cup {NoLine}, read : BOOLEAN, existing : Seq(Lines)]

LogInv ==
  /\ sequence \in [Runs -> Nat] /\ appends \in [Runs -> AppendsType] /\ expected \in [Runs -> Seq(Lines)]
  /\ Sound(log, expected, sequence)
  /\ \A r \in Runs :
       /\ Sound(appends[r].existing, expected, sequence)
       /\ appends[r].line = NoLine => ~appends[r].read /\ appends[r].existing = <<>>
       /\ appends[r].line # NoLine =>
            /\ appends[r].line[1] = r /\ appends[r].line[2] < sequence[r] /\ appends[r].line \in ToSet(expected[r])
            /\ Before(log, appends[r].line) /\ \A q \in Runs : Before(appends[q].existing, appends[r].line)
       /\ ~disturbed =>
            /\ appends[r].read => appends[r].existing = log /\ \A q \in Runs \ {r} : ~appends[q].read
            /\ ToSet(expected[r]) \subseteq ToSet(log) \cup {appends[r].line}

LEMMA AppendedSet ==
  ASSUME NEW S, NEW s \in Seq(S), NEW x \in S
  PROVE  Append(s, x) \in Seq(S) /\ ToSet(Append(s, x)) = ToSet(s) \cup {x}
<1>1. /\ Append(s, x) \in Seq(S) /\ DOMAIN Append(s, x) = DOMAIN s \cup {Len(s) + 1}
      /\ Append(s, x)[Len(s) + 1] = x /\ \A i \in DOMAIN s : Append(s, x)[i] = s[i]
  OBVIOUS
<1>2. QED BY <1>1 DEF ToSet

LEMMA AppendedSound ==
  ASSUME NEW s, NEW lines, NEW next, Sound(s, lines, next), NEW x \in Lines,
         Before(s, x), x \in ToSet(lines[x[1]]), x[2] < next[x[1]]
  PROVE  Sound(Append(s, x), lines, next)
<1>1. s \in Seq(Lines) BY DEF Sound
<1>2. Append(s, x) \in Seq(Lines) /\ ToSet(Append(s, x)) = ToSet(s) \cup {x} BY <1>1, AppendedSet
<1>3. /\ DOMAIN Append(s, x) = DOMAIN s \cup {Len(s) + 1} /\ Len(s) \in Nat
      /\ Append(s, x)[Len(s) + 1] = x /\ \A i \in DOMAIN s : Append(s, x)[i] = s[i] /\ i \in 1..Len(s)
  BY <1>1
<1>4. Ordered(Append(s, x))
  <2>1. ASSUME NEW i \in DOMAIN Append(s, x), NEW j \in DOMAIN Append(s, x), i < j,
               Append(s, x)[i][1] = Append(s, x)[j][1]
        PROVE  Append(s, x)[i][2] < Append(s, x)[j][2]
    <3>1. i \in DOMAIN s BY <2>1, <1>3
    <3>2. CASE j \in DOMAIN s BY <2>1, <3>1, <3>2, <1>3 DEF Sound, Ordered
    <3>3. CASE j \notin DOMAIN s
      <4>1. Append(s, x)[j] = x /\ Append(s, x)[i] = s[i] BY <3>1, <3>3, <1>3
      <4>2. s[i] \in ToSet(s) BY <3>1 DEF ToSet
      <4>3. QED BY <2>1, <4>1, <4>2 DEF Before
    <3>4. QED BY <3>2, <3>3
  <2>2. QED BY <2>1 DEF Ordered
<1>5. QED BY <1>2, <1>4 DEF Sound, Kept

\* More lines to keep and later numbers leave a copy sound.
LEMMA SoundLater ==
  ASSUME NEW s, NEW lines, NEW next, NEW more, NEW after, Sound(s, lines, next),
         \A r \in Runs : ToSet(lines[r]) \subseteq ToSet(more[r]) /\ next[r] \in Nat /\ after[r] \in Nat /\ next[r] <= after[r]
  PROVE  Sound(s, more, after)
<1>1. \A x \in ToSet(s) : x \in Lines BY DEF Sound, ToSet
<1>2. \A x \in ToSet(s) : x[1] \in Runs /\ x[2] \in Nat BY <1>1 DEF Lines
<1>3. \A x \in ToSet(s) : x \in ToSet(more[x[1]]) BY <1>2 DEF Sound, Kept
<1>4. \A x \in ToSet(s) : x[2] < after[x[1]] BY <1>2 DEF Sound
<1>5. QED BY <1>3, <1>4 DEF Sound, Kept

LEMMA EmitLogged ==
  ASSUME LogInv, NEW r \in Runs, NEW kind, Emit(r, kind)
  PROVE  LogInv'
<1> DEFINE line == <<r, sequence[r]>>
<1>1. /\ appends[r] = NoAppend /\ sequence' = [sequence EXCEPT ![r] = @ + 1] /\ log' = log /\ disturbed' = disturbed
  BY DEF Emit
<1>2. sequence[r] \in Nat /\ line \in Lines /\ sequence' \in [Runs -> Nat] BY <1>1 DEF LogInv, Lines
<1>3. \A q \in Runs : sequence[q] \in Nat /\ sequence'[q] \in Nat /\ sequence[q] <= sequence'[q] BY <1>1, <1>2 DEF LogInv
<1>4. sequence'[r] = sequence[r] + 1 BY <1>1 DEF LogInv
<1>5. \/ appends' = appends /\ expected' = expected
      \/ appends' = [appends EXCEPT ![r].line = line] /\ expected' = [expected EXCEPT ![r] = Append(@, line)]
  BY DEF Emit
<1>0. line[1] = r /\ line[2] = sequence[r] OBVIOUS
<1> HIDE DEF line
<1>6. ASSUME NEW s, Sound(s, expected, sequence) PROVE Before(s, line)
  <2>1. \A x \in ToSet(s) : x[2] < sequence[x[1]] BY <1>6 DEF Sound
  <2>2. QED BY <2>1, <1>0 DEF Before
<1>7. ToSet(expected[r]) \subseteq Lines BY DEF LogInv, ToSet
<1>8. CASE appends' = appends /\ expected' = expected
  <2>1. \A s : Sound(s, expected, sequence) => Sound(s, expected', sequence') BY <1>3, <1>8, SoundLater
  <2>2. ASSUME NEW q \in Runs, appends[q].line # NoLine PROVE appends[q].line[2] < sequence'[q]
    <3>1. appends[q].line \in Lines BY <2>2 DEF LogInv, AppendsType
    <3>2. appends[q].line[2] \in Nat BY <3>1 DEF Lines
    <3>3. QED BY <2>2, <3>2, <1>3 DEF LogInv
  <2>3. QED BY <2>1, <2>2, <1>1, <1>2, <1>8 DEF LogInv
<1>9. CASE appends' = [appends EXCEPT ![r].line = line] /\ expected' = [expected EXCEPT ![r] = Append(@, line)]
  <2>1. expected[r] \in Seq(Lines) BY DEF LogInv
  <2>2. /\ expected'[r] = Append(expected[r], line) /\ \A q \in Runs \ {r} : expected'[q] = expected[q]
        /\ expected'[r] \in Seq(Lines) /\ ToSet(expected'[r]) = ToSet(expected[r]) \cup {line}
    BY <1>2, <1>9, <2>1, AppendedSet DEF LogInv
  <2>3. \A q \in Runs : ToSet(expected[q]) \subseteq ToSet(expected'[q]) BY <2>2
  <2>4. \A s : Sound(s, expected, sequence) => Sound(s, expected', sequence') BY <1>3, <2>3, SoundLater
  <2>5. /\ appends'[r].line = line /\ appends'[r].read = FALSE /\ appends'[r].existing = <<>>
        /\ \A q \in Runs \ {r} : appends'[q] = appends[q]
        /\ \A q \in Runs : appends'[q].read = appends[q].read /\ appends'[q].existing = appends[q].existing
    <3>1. appends \in [Runs -> AppendsType] /\ appends[r] \in AppendsType BY DEF LogInv
    <3>2. appends' = [appends EXCEPT ![r] = [appends[r] EXCEPT !.line = line]] BY <1>9
    <3>3. appends'[r] = [appends[r] EXCEPT !.line = line] /\ \A q \in Runs \ {r} : appends'[q] = appends[q]
      BY <3>1, <3>2
    <3>4. appends'[r].line = line /\ appends'[r].read = appends[r].read /\ appends'[r].existing = appends[r].existing
      BY <3>1, <3>3 DEF AppendsType
    <3>5. appends[r].read = FALSE /\ appends[r].existing = <<>> BY <1>1 DEF NoAppend
    <3>6. QED BY <3>3, <3>4, <3>5
  <2>6. appends' \in [Runs -> AppendsType]
    <3>1. appends[r] \in AppendsType /\ appends \in [Runs -> AppendsType] BY DEF LogInv
    <3>2. [appends[r] EXCEPT !.line = line] \in AppendsType BY <1>2, <3>1 DEF AppendsType
    <3>3. QED BY <1>9, <3>1, <3>2
  <2>7. expected' \in [Runs -> Seq(Lines)] BY <1>9, <2>2 DEF LogInv
  <2>8. line # NoLine BY <1>2, GovernanceAssumption DEF Lines
  <2>9. ASSUME NEW q \in Runs, appends'[q].line # NoLine
        PROVE  /\ appends'[q].line[1] = q /\ appends'[q].line[2] < sequence'[q] /\ appends'[q].line \in ToSet(expected'[q])
               /\ Before(log, appends'[q].line) /\ \A p \in Runs : Before(appends'[p].existing, appends'[q].line)
    <3>1. CASE q = r
      <4>1. Before(log, line) /\ \A p \in Runs : Before(appends[p].existing, line) BY <1>6 DEF LogInv
      <4>2. line[1] = r /\ line[2] < sequence'[r] /\ line \in ToSet(expected'[r]) BY <1>0, <1>2, <1>4, <2>2
      <4>3. QED BY <3>1, <4>1, <4>2, <2>5
    <3>2. CASE q # r
      <4>1. appends'[q] = appends[q] /\ expected'[q] = expected[q] BY <3>2, <2>2, <2>5
      <4>2. sequence'[q] = sequence[q] BY <3>2, <1>1 DEF LogInv
      <4>3. QED BY <4>1, <4>2, <2>5, <2>9 DEF LogInv
    <3>3. QED BY <3>1, <3>2
  <2>10. ASSUME NEW q \in Runs, ~disturbed
         PROVE  /\ appends'[q].read => appends'[q].existing = log /\ \A p \in Runs \ {q} : ~appends'[p].read
                /\ ToSet(expected'[q]) \subseteq ToSet(log) \cup {appends'[q].line}
    <3>1. appends'[q].read => appends'[q].existing = log /\ \A p \in Runs \ {q} : ~appends'[p].read
      BY <2>5, <2>10 DEF LogInv
    <3>2. CASE q = r
      <4>1. ToSet(expected[r]) \subseteq ToSet(log) \cup {NoLine} BY <1>1, <2>10 DEF LogInv, NoAppend
      <4>2. NoLine \notin Lines BY GovernanceAssumption DEF Lines
      <4>3. QED BY <3>1, <3>2, <4>1, <4>2, <1>7, <2>2, <2>5
    <3>3. CASE q # r
      <4>1. ToSet(expected[q]) \subseteq ToSet(log) \cup {appends[q].line} BY <2>10 DEF LogInv
      <4>2. QED BY <3>1, <3>3, <4>1, <2>2, <2>5
    <3>4. QED BY <3>2, <3>3
  <2>11. ASSUME NEW q \in Runs
         PROVE  /\ Sound(appends'[q].existing, expected', sequence')
                /\ appends'[q].line = NoLine => ~appends'[q].read /\ appends'[q].existing = <<>>
    <3>1. Sound(appends'[q].existing, expected', sequence') BY <2>4, <2>5 DEF LogInv
    <3>2. appends'[q].line = NoLine => ~appends'[q].read /\ appends'[q].existing = <<>>
      BY <2>5, <2>8 DEF LogInv
    <3>3. QED BY <3>1, <3>2
  <2>12. Sound(log, expected', sequence') BY <2>4 DEF LogInv
  <2>13. QED BY <1>1, <1>2, <2>6, <2>7, <2>9, <2>10, <2>11, <2>12 DEF LogInv
<1>10. QED BY <1>5, <1>8, <1>9

LEMMA ReadLogged ==
  ASSUME LogInv, NEW r \in Runs, ReadLog(r)
  PROVE  LogInv'
<1>1. PICK failed \in BOOLEAN :
        /\ appends' = [appends EXCEPT ![r].read = TRUE, ![r].existing = IF failed THEN <<>> ELSE log]
        /\ disturbed' = (disturbed \/ failed \/ \E q \in Runs \ {r} : appends[q].read)
  BY DEF ReadLog
<1>2. /\ appends[r].line # NoLine /\ ~appends[r].read /\ log' = log /\ sequence' = sequence /\ expected' = expected
  BY DEF ReadLog
<1> DEFINE copy == IF failed THEN <<>> ELSE log
<1>3. Sound(<<>>, expected, sequence) /\ \A x : Before(<<>>, x) BY DEF Sound, Ordered, Kept, Before, ToSet
<1>4. Sound(copy, expected, sequence) BY <1>3 DEF LogInv
<1>5. copy \in Seq(Lines) BY <1>4 DEF Sound
<1>6. \A q \in Runs : appends[q].line # NoLine => Before(copy, appends[q].line) BY <1>3 DEF LogInv
<1>7. ~failed => copy = log OBVIOUS
<1>8. appends' = [appends EXCEPT ![r] = [appends[r] EXCEPT !.read = TRUE, !.existing = copy]] BY <1>1
<1> HIDE DEF copy
<1>9. appends \in [Runs -> AppendsType] /\ appends[r] \in AppendsType BY DEF LogInv
<1>10. [appends[r] EXCEPT !.read = TRUE, !.existing = copy] \in AppendsType BY <1>5, <1>9 DEF AppendsType
<1>11. appends' \in [Runs -> AppendsType] BY <1>8, <1>9, <1>10
<1>12. /\ appends'[r].line = appends[r].line /\ appends'[r].read = TRUE /\ appends'[r].existing = copy
       /\ \A q \in Runs \ {r} : appends'[q] = appends[q]
  <2>1. appends'[r] = [appends[r] EXCEPT !.read = TRUE, !.existing = copy] /\ \A q \in Runs \ {r} : appends'[q] = appends[q]
    BY <1>8, <1>9
  <2>2. QED BY <2>1, <1>9 DEF AppendsType
<1>13. ASSUME NEW q \in Runs
       PROVE  /\ Sound(appends'[q].existing, expected, sequence)
              /\ appends'[q].line = NoLine => ~appends'[q].read /\ appends'[q].existing = <<>>
              /\ appends'[q].line # NoLine =>
                   /\ appends'[q].line[1] = q /\ appends'[q].line[2] < sequence[q] /\ appends'[q].line \in ToSet(expected[q])
                   /\ Before(log, appends'[q].line) /\ \A p \in Runs : Before(appends'[p].existing, appends'[q].line)
  <2>1. appends'[q].line = appends[q].line BY <1>12
  <2>2. ASSUME appends[q].line # NoLine, NEW p \in Runs PROVE Before(appends'[p].existing, appends[q].line)
    <3>1. CASE p = r BY <2>2, <3>1, <1>6, <1>12
    <3>2. CASE p # r BY <2>2, <3>2, <1>12 DEF LogInv
    <3>3. QED BY <3>1, <3>2
  <2>3. Sound(appends'[q].existing, expected, sequence) BY <1>4, <1>12 DEF LogInv
  <2>4. appends'[q].line = NoLine => ~appends'[q].read /\ appends'[q].existing = <<>>
    <3>1. CASE q = r BY <3>1, <2>1, <1>2
    <3>2. CASE q # r BY <3>2, <1>12 DEF LogInv
    <3>3. QED BY <3>1, <3>2
  <2>5. QED BY <2>1, <2>2, <2>3, <2>4 DEF LogInv
<1>14. ASSUME NEW q \in Runs, ~disturbed'
       PROVE  /\ appends'[q].read => appends'[q].existing = log /\ \A p \in Runs \ {q} : ~appends'[p].read
              /\ ToSet(expected[q]) \subseteq ToSet(log) \cup {appends'[q].line}
  <2>1. ~disturbed /\ ~failed /\ \A p \in Runs \ {r} : ~appends[p].read BY <1>1, <1>14
  <2>2. appends'[q].line = appends[q].line BY <1>12
  <2>3. \A p \in Runs \ {r} : ~appends'[p].read BY <2>1, <1>12
  <2>4. appends'[q].read => appends'[q].existing = log /\ \A p \in Runs \ {q} : ~appends'[p].read
    BY <2>1, <2>3, <1>7, <1>12
  <2>5. QED BY <2>1, <2>2, <2>4 DEF LogInv
<1>15. QED BY <1>2, <1>11, <1>13, <1>14 DEF LogInv

LEMMA WriteLogged ==
  ASSUME LogInv, NEW r \in Runs, WriteLog(r)
  PROVE  LogInv'
<1> DEFINE line == appends[r].line
           copy == appends[r].existing
<1>1. /\ appends[r].read /\ sequence' = sequence /\ expected' = expected /\ appends' = [appends EXCEPT ![r] = NoAppend]
      /\ \/ log' = Append(copy, line) /\ disturbed' = disturbed
         \/ disturbed' = TRUE /\ log' = log
  BY DEF WriteLog, Appended
<1>2. appends \in [Runs -> AppendsType] /\ NoAppend \in AppendsType BY DEF LogInv, NoAppend, AppendsType
<1>3. /\ line # NoLine /\ line[1] = r /\ line[2] < sequence[r] /\ line \in ToSet(expected[r])
      /\ Before(copy, line) /\ Sound(copy, expected, sequence)
  BY <1>1 DEF LogInv
<1>4. line \in Lines BY <1>2, <1>3 DEF AppendsType
<1>5. appends'[r] = NoAppend /\ (\A q \in Runs \ {r} : appends'[q] = appends[q]) /\ appends' \in [Runs -> AppendsType]
  BY <1>1, <1>2
<1>6. NoAppend.line = NoLine /\ NoAppend.read = FALSE /\ NoAppend.existing = <<>> BY DEF NoAppend
<1>7. Sound(<<>>, expected, sequence) /\ \A x : Before(<<>>, x) BY DEF Sound, Ordered, Kept, Before, ToSet
<1> HIDE DEF line, copy
<1>8. Sound(Append(copy, line), expected, sequence) BY <1>3, <1>4, AppendedSound
<1>9. copy \in Seq(Lines) /\ ToSet(Append(copy, line)) = ToSet(copy) \cup {line} BY <1>3, <1>4, AppendedSet DEF Sound
<1>10. Sound(log', expected, sequence) BY <1>1, <1>8 DEF LogInv
<1>11. ASSUME NEW q \in Runs, q # r, appends[q].line # NoLine PROVE Before(log', appends[q].line)
  <2>1. appends[q].line[1] = q /\ Before(log, appends[q].line) /\ Before(copy, appends[q].line)
    BY <1>11 DEF LogInv, copy
  <2>2. Before(Append(copy, line), appends[q].line) BY <2>1, <1>3, <1>9, <1>11 DEF Before
  <2>3. QED BY <2>1, <2>2, <1>1
<1>12. ASSUME NEW q \in Runs
       PROVE  /\ Sound(appends'[q].existing, expected, sequence)
              /\ appends'[q].line = NoLine => ~appends'[q].read /\ appends'[q].existing = <<>>
              /\ appends'[q].line # NoLine =>
                   /\ appends'[q].line[1] = q /\ appends'[q].line[2] < sequence[q] /\ appends'[q].line \in ToSet(expected[q])
                   /\ Before(log', appends'[q].line) /\ \A p \in Runs : Before(appends'[p].existing, appends'[q].line)
  <2>1. CASE q = r BY <2>1, <1>5, <1>6, <1>7
  <2>2. CASE q # r
    <3>1. appends'[q] = appends[q] BY <2>2, <1>5
    <3>2. ASSUME appends[q].line # NoLine, NEW p \in Runs PROVE Before(appends'[p].existing, appends[q].line)
      <4>1. CASE p = r BY <4>1, <1>5, <1>6, <1>7
      <4>2. CASE p # r BY <4>2, <3>2, <1>5 DEF LogInv
      <4>3. QED BY <4>1, <4>2
    <3>3. QED BY <2>2, <3>1, <3>2, <1>11 DEF LogInv
  <2>3. QED BY <2>1, <2>2
<1>13. ASSUME NEW q \in Runs, ~disturbed'
       PROVE  /\ appends'[q].read => appends'[q].existing = log' /\ \A p \in Runs \ {q} : ~appends'[p].read
              /\ ToSet(expected[q]) \subseteq ToSet(log') \cup {appends'[q].line}
  <2>1. ~disturbed /\ log' = Append(copy, line) BY <1>1, <1>13
  <2>2. copy = log /\ \A p \in Runs \ {r} : ~appends[p].read BY <2>1, <1>1 DEF LogInv, copy
  <2>3. \A p \in Runs : ~appends'[p].read BY <2>2, <1>5, <1>6
  <2>4. ToSet(log') = ToSet(log) \cup {line} BY <2>1, <2>2, <1>9
  <2>5. ToSet(expected[q]) \subseteq ToSet(log) \cup {appends[q].line} BY <2>1 DEF LogInv
  <2>6. ToSet(expected[q]) \subseteq ToSet(log') \cup {appends'[q].line}
    <3>1. CASE q = r BY <3>1, <2>4, <2>5 DEF line
    <3>2. CASE q # r BY <3>2, <2>4, <2>5, <1>5
    <3>3. QED BY <3>1, <3>2
  <2>7. QED BY <2>3, <2>6
<1>14. QED BY <1>1, <1>5, <1>10, <1>12, <1>13 DEF LogInv

\* A number an override takes, and a step that leaves the log alone.
LEMMA NumberTaken ==
  ASSUME LogInv, UNCHANGED <<log, appends, expected, disturbed>>,
         sequence' \in [Runs -> Nat], \A q \in Runs : sequence[q] <= sequence'[q]
  PROVE  LogInv'
<1>1. \A q \in Runs : sequence[q] \in Nat /\ sequence'[q] \in Nat /\ sequence[q] <= sequence'[q] BY DEF LogInv
<1>2. \A s : Sound(s, expected, sequence) => Sound(s, expected, sequence') BY <1>1, SoundLater
<1>3. ASSUME NEW q \in Runs, appends[q].line # NoLine PROVE appends[q].line[2] < sequence'[q]
  <2>1. appends[q].line \in Lines BY <1>3 DEF LogInv, AppendsType
  <2>2. appends[q].line[2] \in Nat BY <2>1 DEF Lines
  <2>3. QED BY <1>3, <2>2, <1>1 DEF LogInv
<1>4. QED BY <1>2, <1>3 DEF LogInv

-----------------------------------------------------------------------------
\* The turns and what is captured of them.
Outputs == {"none", "answer", "error"}

Turns == [events : Seq(Lines), budget : [cap : Caps, spent : Nat], cost : Nat, working : Nat,
          output : Outputs, finished : BOOLEAN]

Snapshots == [run : Runs, events : Seq(Lines), cost : Nat, spent : Nat, output : Outputs, working : Nat]

Begins(s, t) == Len(s) <= Len(t) /\ \A i \in 1..Len(s) : s[i] = t[i]

\* A snapshot is of one moment of its turn.
OfMoment(s, of) ==
  s # NoSnapshot =>
    /\ s \in Snapshots /\ Begins(s.events, of[s.run].events) /\ s.cost = s.spent
    /\ s.output # "none" => s.output = of[s.run].output /\ s.events = of[s.run].events

TurnInv ==
  /\ turns \in [Runs -> Turns] /\ charged \in [Runs -> Nat]
  /\ \A r \in Runs :
       /\ turns[r].cost = turns[r].budget.spent /\ turns[r].cost = charged[r]
       /\ turns[r].output # "none" => turns[r].finished
  /\ OfMoment(snapshot, turns) /\ OfMoment(stored, turns)

\* What a turn u may be after a turn t: a finished one keeps its events and its output.
Later(t, u) ==
  /\ t.events \in Seq(Lines) /\ u.events \in Seq(Lines) /\ Begins(t.events, u.events)
  /\ t.finished => u.events = t.events /\ u.output = t.output

LEMMA MomentKept ==
  ASSUME TurnInv, NEW of, \A r \in Runs : Later(turns[r], of[r]), NEW s, OfMoment(s, turns)
  PROVE  OfMoment(s, of)
<1> SUFFICES ASSUME s # NoSnapshot
             PROVE  /\ Begins(s.events, of[s.run].events)
                    /\ s.output # "none" => s.output = of[s.run].output /\ s.events = of[s.run].events
  BY DEF OfMoment
<1>1. s.run \in Runs /\ s.events \in Seq(Lines) BY DEF OfMoment, Snapshots
<1>2. Later(turns[s.run], of[s.run]) BY <1>1
<1>3. Begins(s.events, of[s.run].events)
  <2> DEFINE a == s.events  b == turns[s.run].events  c == of[s.run].events
  <2>1. a \in Seq(Lines) /\ b \in Seq(Lines) /\ c \in Seq(Lines) BY <1>1, <1>2 DEF Later
  <2>2. Begins(a, b) /\ Begins(b, c) BY <1>2 DEF OfMoment, Later
  <2> HIDE DEF a, b, c
  <2>3. Begins(a, c) BY <2>1, <2>2 DEF Begins
  <2>4. QED BY <2>3 DEF a, c
<1>4. ASSUME s.output # "none" PROVE s.output = of[s.run].output /\ s.events = of[s.run].events
  <2>1. s.output = turns[s.run].output /\ s.events = turns[s.run].events BY <1>4 DEF OfMoment
  <2>2. turns[s.run].finished BY <2>1, <1>1, <1>4 DEF TurnInv
  <2>3. QED BY <2>1, <2>2, <1>2 DEF Later
<1>5. QED BY <1>3, <1>4

LEMMA SameTurn == ASSUME NEW t \in Turns PROVE Later(t, t)
BY DEF Later, Turns, Begins

\* One turn u of run r in place of what it was.
LEMMA TurnKeeps ==
  ASSUME TurnInv, NEW r \in Runs, NEW u \in Turns, turns' = [turns EXCEPT ![r] = u],
         NEW sum \in Nat, charged' = [charged EXCEPT ![r] = sum],
         u.cost = u.budget.spent, u.cost = sum, u.output # "none" => u.finished, Later(turns[r], u),
         snapshot' = snapshot, stored' = stored
  PROVE  TurnInv'
<1>1. turns' \in [Runs -> Turns] /\ charged' \in [Runs -> Nat] BY DEF TurnInv
<1>2. turns'[r] = u /\ charged'[r] = sum /\ \A q \in Runs \ {r} : turns'[q] = turns[q] /\ charged'[q] = charged[q]
  BY DEF TurnInv
<1>3. \A q \in Runs : Later(turns[q], turns'[q])
  <2>1. \A q \in Runs : turns[q] \in Turns BY DEF TurnInv
  <2>2. QED BY <1>2, <2>1, SameTurn
<1>4. OfMoment(snapshot, turns') /\ OfMoment(stored, turns') BY <1>3, MomentKept DEF TurnInv
<1>5. ASSUME NEW q \in Runs
      PROVE  /\ turns'[q].cost = turns'[q].budget.spent /\ turns'[q].cost = charged'[q]
             /\ turns'[q].output # "none" => turns'[q].finished
  <2>1. CASE q = r BY <2>1, <1>2
  <2>2. CASE q # r BY <2>2, <1>2 DEF TurnInv
  <2>3. QED BY <2>1, <2>2
<1>6. QED BY <1>1, <1>4, <1>5 DEF TurnInv

LEMMA TurnStep == ASSUME TurnInv, LogInv, [GovNext]_govVars PROVE TurnInv'
<1>1. turns \in [Runs -> Turns] /\ charged \in [Runs -> Nat] /\ \A r \in Runs : turns[r] \in Turns /\ charged[r] \in Nat
  BY DEF TurnInv
<1>2. \A r \in Runs : charged = [charged EXCEPT ![r] = charged[r]] BY <1>1
<1>3. CASE UNCHANGED <<turns, charged, snapshot, stored>> BY <1>3 DEF TurnInv
<1>4. ASSUME NEW r \in Runs, NEW kind, Emit(r, kind) PROVE TurnInv'
  <2> DEFINE line == <<r, sequence[r]>>
             u == [turns[r] EXCEPT !.events = Append(@, line)]
  <2>1. /\ ~turns[r].finished /\ turns' = [turns EXCEPT ![r].events = Append(@, line)]
        /\ charged' = charged /\ snapshot' = snapshot /\ stored' = stored
    BY <1>4 DEF Emit
  <2>2. line \in Lines BY DEF LogInv, Lines
  <2>3. turns' = [turns EXCEPT ![r] = u] BY <1>1, <2>1
  <2> HIDE DEF line
  <2>4. turns[r].events \in Seq(Lines) /\ Append(turns[r].events, line) \in Seq(Lines) BY <1>1, <2>2 DEF Turns
  <2>5. /\ u \in Turns /\ u.events = Append(turns[r].events, line) /\ u.cost = turns[r].cost /\ u.budget = turns[r].budget
        /\ u.output = turns[r].output /\ u.finished = turns[r].finished
    BY <1>1, <2>4 DEF Turns
  <2>6. Begins(turns[r].events, Append(turns[r].events, line)) BY <2>2, <2>4 DEF Begins
  <2> HIDE DEF u
  <2>7. Later(turns[r], u) BY <2>1, <2>4, <2>5, <2>6 DEF Later
  <2>8. u.cost = u.budget.spent /\ u.cost = charged[r] /\ (u.output # "none" => u.finished) BY <2>5 DEF TurnInv
  <2>9. QED BY <1>1, <1>2, <2>1, <2>3, <2>5, <2>7, <2>8, TurnKeeps
<1>5. ASSUME NEW r \in Runs, NEW amount \in Amounts, Spend(r, amount) \/ WriteCost(r, amount) PROVE TurnInv'
  <2>1. amount \in Nat /\ turns[r].budget.spent \in Nat /\ turns[r].budget.spent = charged[r]
    BY <1>1, GovernanceAssumption DEF TurnInv, Turns
  <2>2. PICK sum \in Nat : /\ charged' = [charged EXCEPT ![r] = sum]
                           /\ \/ turns' = [turns EXCEPT ![r].budget.spent = sum, ![r].cost = sum]
                              \/ turns' = [turns EXCEPT ![r].cost = sum, ![r].budget.spent = sum]
    <3>1. CASE Spend(r, amount)
      <4> DEFINE total == turns[r].budget.spent + amount
      <4>1. total \in Nat /\ total = charged[r] + amount BY <2>1
      <4>2. charged' = [charged EXCEPT ![r] = total] BY <3>1, <4>1 DEF Spend
      <4>3. turns' = [turns EXCEPT ![r].budget.spent = total, ![r].cost = total] BY <3>1 DEF Spend
      <4> HIDE DEF total
      <4>4. QED BY <4>1, <4>2, <4>3
    <3>2. CASE WriteCost(r, amount) BY <2>1, <3>2 DEF WriteCost
    <3>3. QED BY <1>5, <3>1, <3>2
  <2>3. sum \in Nat OBVIOUS
  <2> DEFINE u == [turns[r] EXCEPT !.budget = [@ EXCEPT !.spent = sum], !.cost = sum]
  <2>4. turns' = [turns EXCEPT ![r] = u] BY <1>1, <2>2 DEF Turns
  <2>5. snapshot' = snapshot /\ stored' = stored BY <1>5 DEF Spend, WriteCost
  <2>6. /\ u \in Turns /\ u.events = turns[r].events /\ u.cost = sum /\ u.budget.spent = sum
        /\ u.output = turns[r].output /\ u.finished = turns[r].finished
    BY <1>1, <2>3 DEF Turns
  <2> HIDE DEF u
  <2>7. Later(turns[r], u)
    <3>1. Later(turns[r], turns[r]) BY <1>1, SameTurn
    <3>2. QED BY <3>1, <2>6 DEF Later
  <2>8. u.output # "none" => u.finished BY <2>6 DEF TurnInv
  <2>9. QED BY <2>2, <2>3, <2>4, <2>5, <2>6, <2>7, <2>8, TurnKeeps
<1>6. ASSUME NEW r \in Runs, Work(r) PROVE TurnInv'
  <2> DEFINE u == [turns[r] EXCEPT !.working = @ + 1]
  <2>1. turns' = [turns EXCEPT ![r] = u] BY <1>1, <1>6 DEF Work
  <2>2. charged' = charged /\ snapshot' = snapshot /\ stored' = stored BY <1>6 DEF Work
  <2>3. /\ u \in Turns /\ u.events = turns[r].events /\ u.cost = turns[r].cost /\ u.budget = turns[r].budget
        /\ u.output = turns[r].output /\ u.finished = turns[r].finished
    <3>1. turns[r].working + 1 \in Nat BY <1>1 DEF Turns
    <3>2. \A n \in Nat : [turns[r] EXCEPT !.working = n] \in Turns BY <1>1 DEF Turns
    <3>3. u \in Turns BY <3>1, <3>2
    <3>4. QED BY <1>1, <3>3 DEF Turns
  <2> HIDE DEF u
  <2>4. Later(turns[r], u)
    <3>1. Later(turns[r], turns[r]) BY <1>1, SameTurn
    <3>2. QED BY <3>1, <2>3 DEF Later
  <2>5. u.cost = u.budget.spent /\ u.cost = charged[r] /\ (u.output # "none" => u.finished) BY <2>3 DEF TurnInv
  <2>6. QED BY <1>1, <1>2, <2>1, <2>2, <2>3, <2>4, <2>5, TurnKeeps
<1>7. ASSUME NEW r \in Runs, NEW output \in {"answer", "error"}, Finalize(r, output) PROVE TurnInv'
  <2> DEFINE u == [turns[r] EXCEPT !.output = output, !.finished = TRUE]
  <2>1. turns' = [turns EXCEPT ![r] = u] /\ ~turns[r].finished BY <1>1, <1>7 DEF Finalize
  <2>2. charged' = charged /\ snapshot' = snapshot /\ stored' = stored BY <1>7 DEF Finalize
  <2>3. /\ u \in Turns /\ u.events = turns[r].events /\ u.cost = turns[r].cost /\ u.budget = turns[r].budget
        /\ u.finished
    BY <1>1 DEF Turns, Outputs
  <2> HIDE DEF u
  <2>4. Later(turns[r], u)
    <3>1. Later(turns[r], turns[r]) BY <1>1, SameTurn
    <3>2. QED BY <3>1, <2>1, <2>3 DEF Later
  <2>5. u.cost = u.budget.spent /\ u.cost = charged[r] /\ (u.output # "none" => u.finished) BY <2>3 DEF TurnInv
  <2>6. QED BY <1>1, <1>2, <2>1, <2>2, <2>3, <2>4, <2>5, TurnKeeps
<1>8. ASSUME NEW r \in Runs, Capture(r) PROVE TurnInv'
  <2>1. turns' = turns /\ charged' = charged /\ stored' = NoSnapshot BY <1>8 DEF Capture
  <2>2. snapshot' = [run |-> r, events |-> turns[r].events, cost |-> turns[r].cost, spent |-> turns[r].budget.spent,
                     output |-> turns[r].output, working |-> turns[r].working]
    BY <1>8 DEF Capture
  <2>3. snapshot' \in Snapshots BY <1>1, <2>2 DEF Snapshots, Turns
  <2>4. turns[r].events \in Seq(Lines) BY <1>1 DEF Turns
  <2>5. Begins(turns[r].events, turns[r].events) BY <2>4 DEF Begins
  <2>6. OfMoment(snapshot', turns) BY <2>2, <2>3, <2>5 DEF OfMoment, TurnInv
  <2>7. OfMoment(stored', turns) BY <2>1 DEF OfMoment
  <2>8. QED BY <2>1, <2>6, <2>7 DEF TurnInv
<1>9. CASE Save
  <2>1. /\ turns' = turns /\ charged' = charged /\ snapshot' = snapshot /\ snapshot # NoSnapshot
        /\ stored' = [snapshot EXCEPT !.working = turns[snapshot.run].working]
    BY <1>9 DEF Save
  <2>2. snapshot \in Snapshots /\ OfMoment(snapshot, turns) BY <2>1 DEF TurnInv, OfMoment
  <2>3. turns[snapshot.run].working \in Nat BY <1>1, <2>2 DEF Snapshots, Turns
  <2>4. /\ stored' \in Snapshots /\ stored'.run = snapshot.run /\ stored'.events = snapshot.events
        /\ stored'.cost = snapshot.cost /\ stored'.spent = snapshot.spent /\ stored'.output = snapshot.output
    BY <2>1, <2>2, <2>3 DEF Snapshots
  <2>5. OfMoment(stored', turns) BY <2>1, <2>2, <2>4 DEF OfMoment
  <2>6. QED BY <2>1, <2>5 DEF TurnInv
<1>10. ASSUME NEW r \in Runs, ReadLog(r) \/ WriteLog(r) PROVE TurnInv' BY <1>3, <1>10 DEF ReadLog, WriteLog
<1>11. ASSUME NEW r \in Runs, NEW admin, Override(r, admin) PROVE TurnInv' BY <1>3, <1>11 DEF Override
<1>12. ASSUME NEW admin, Rejected(admin) PROVE TurnInv' BY <1>3, <1>12 DEF Rejected
<1>13. CASE UNCHANGED govVars BY <1>3, <1>13 DEF govVars
<1>14. QED BY <1>4, <1>5, <1>6, <1>7, <1>8, <1>9, <1>10, <1>11, <1>12, <1>13 DEF GovNext

LEMMA LogStep == ASSUME LogInv, [GovNext]_govVars PROVE LogInv'
<1>1. CASE UNCHANGED <<log, sequence, appends, expected, disturbed>>
  <2>1. \A q \in Runs : sequence[q] \in Nat /\ sequence[q] <= sequence'[q] BY <1>1 DEF LogInv
  <2>2. sequence' \in [Runs -> Nat] BY <1>1 DEF LogInv
  <2>3. QED BY <1>1, <2>1, <2>2, NumberTaken
<1>2. ASSUME NEW r \in Runs, NEW admin, Override(r, admin) PROVE LogInv'
  <2>1. sequence' = [sequence EXCEPT ![r] = @ + 1] /\ UNCHANGED <<log, appends, expected, disturbed>>
    BY <1>2 DEF Override
  <2>2. sequence \in [Runs -> Nat] BY DEF LogInv
  <2>3. sequence' \in [Runs -> Nat] /\ \A q \in Runs : sequence[q] <= sequence'[q] BY <2>1, <2>2
  <2>4. QED BY <2>1, <2>3, NumberTaken
<1>3. ASSUME NEW r \in Runs, NEW kind, Emit(r, kind) PROVE LogInv' BY <1>3, EmitLogged
<1>4. ASSUME NEW r \in Runs, ReadLog(r) PROVE LogInv' BY <1>4, ReadLogged
<1>5. ASSUME NEW r \in Runs, WriteLog(r) PROVE LogInv' BY <1>5, WriteLogged
<1>6. ASSUME NEW r \in Runs, Work(r) \/ Capture(r) PROVE LogInv' BY <1>1, <1>6 DEF Work, Capture
<1>7. ASSUME NEW admin, Rejected(admin) PROVE LogInv' BY <1>1, <1>7 DEF Rejected
<1>8. ASSUME NEW r \in Runs, NEW amount, Spend(r, amount) \/ WriteCost(r, amount) PROVE LogInv'
  BY <1>1, <1>8 DEF Spend, WriteCost
<1>9. ASSUME NEW r \in Runs, NEW output, Finalize(r, output) PROVE LogInv' BY <1>1, <1>9 DEF Finalize
<1>10. CASE Save BY <1>1, <1>10 DEF Save
<1>11. CASE UNCHANGED govVars BY <1>1, <1>11 DEF govVars
<1>12. QED BY <1>2, <1>3, <1>4, <1>5, <1>6, <1>7, <1>8, <1>9, <1>10, <1>11 DEF GovNext

LEMMA GovStarts == GovInit => LogInv /\ TurnInv
<1> SUFFICES ASSUME GovInit PROVE LogInv /\ TurnInv OBVIOUS
<1>1. Sound(<<>>, expected, sequence) /\ (\A x : Before(<<>>, x)) /\ ToSet(<<>>) = {} /\ <<>> \in Seq(Lines)
  BY DEF Sound, Ordered, Kept, Before, ToSet
<1>2. NoAppend \in AppendsType /\ NoAppend.line = NoLine /\ NoAppend.read = FALSE /\ NoAppend.existing = <<>>
  BY <1>1 DEF NoAppend, AppendsType
<1>3. LogInv BY <1>1, <1>2 DEF GovInit, LogInv
<1>4. PICK cap \in Caps, spent \in StartSpends : turns = [r \in Runs |-> NewTurn(cap, spent)] BY DEF GovInit
<1>5. /\ NewTurn(cap, spent) \in Turns /\ NewTurn(cap, spent).cost = 0 /\ NewTurn(cap, spent).budget.spent = 0
      /\ NewTurn(cap, spent).output = "none"
  BY <1>1 DEF NewTurn, Turns, Outputs
<1>6. OfMoment(snapshot, turns) /\ OfMoment(stored, turns) BY DEF GovInit, OfMoment
<1>7. charged = [r \in Runs |-> 0] BY DEF GovInit
<1> HIDE DEF GovInit
<1>8. TurnInv BY <1>4, <1>5, <1>6, <1>7 DEF TurnInv
<1>9. QED BY <1>3, <1>8

LEMMA GovHolds == ASSUME LogInv, TurnInv PROVE GovernanceSound
<1>1. Ordered(log) /\ log \in Seq(Lines) /\ Kept(log, expected) BY DEF LogInv, Sound
<1>2. \A i, j \in DOMAIN log : i < j /\ log[i][1] = log[j][1] => log[i][2] < log[j][2] BY <1>1 DEF Ordered
<1>3. \A i \in DOMAIN log : log[i] \in ToSet(expected[log[i][1]]) BY <1>1 DEF Kept, ToSet
<1>4. \A r \in Runs :
        /\ ~disturbed => ToSet(expected[r]) \subseteq ToSet(log) \cup {appends[r].line}
        /\ turns[r].cost = turns[r].budget.spent /\ turns[r].cost = charged[r]
  BY DEF LogInv, TurnInv
<1>5. ASSUME stored # NoSnapshot
      PROVE  /\ IsPrefix(stored.events, turns[stored.run].events) /\ stored.cost = stored.spent
             /\ stored.output # "none" => stored.output = turns[stored.run].output /\ stored.events = turns[stored.run].events
  <2>1. OfMoment(stored, turns) /\ stored \in Snapshots BY <1>5 DEF TurnInv, OfMoment
  <2>2. stored.events \in Seq(Lines) /\ turns[stored.run].events \in Seq(Lines) BY <2>1 DEF TurnInv, Snapshots, Turns
  <2>3. Begins(stored.events, turns[stored.run].events) BY <1>5, <2>1 DEF OfMoment
  <2> DEFINE s == stored.events  t == turns[stored.run].events
  <2>4. IsPrefix(s, t)
    <3>1. s \in Seq(Lines) /\ t \in Seq(Lines) /\ Begins(s, t) BY <2>2, <2>3
    <3> HIDE DEF s, t
    <3>2. Len(s) <= Len(t) /\ Len(s) \in Nat BY <3>1 DEF Begins
    <3>3. SubSeq(s, 1, Len(s)) = SubSeq(t, 1, Len(s)) BY <3>1, <3>2 DEF Begins
    <3>4. QED BY <3>2, <3>3 DEF IsPrefix
  <2>5. QED BY <1>5, <2>1, <2>4 DEF OfMoment
<1>6. QED BY <1>2, <1>3, <1>4, <1>5 DEF GovernanceSound

\* However appends overlap and fail, the log never has a line twice, one that was not to be
\* kept, or two of a run out of order, and while none does it has every line; the cost of a
\* turn is its budget's and what was charged; a saved snapshot is of one moment of its turn
\* (JSONLAuditLogger._append_line, TurnInvocation.__setattr__, from_invocation).
THEOREM GovernanceSoundHolds == GovSpec => []GovernanceSound
<1>1. GovInit => LogInv /\ TurnInv BY GovStarts
<1>2. (LogInv /\ TurnInv) /\ [GovNext]_govVars => (LogInv /\ TurnInv)' BY LogStep, TurnStep
<1>3. LogInv /\ TurnInv => GovernanceSound BY GovHolds
<1>4. QED BY <1>1, <1>2, <1>3, PTL DEF GovSpec

-----------------------------------------------------------------------------
(* What is proved of RetrievalTools, for any calls, contexts and corpora. *)

\* What a call keeps, and what its answer says.
CallFields == {"step", "tool", "ctx", "hits", "answer"}
AnswerFields == {"kind", "from", "rows", "count", "cut", "flag", "asked", "at"}
CorpusSlots == [at : Addresses, of : DOMAIN Corpora]
IndexEntries == [searcher : DOMAIN Corpora, meta : DOMAIN Corpora]

\* Two contexts never share a corpus object; a cached index lists the passages it searches,
\* and is that of the corpus at its address unless the address was given away since.
IndexesSound ==
  /\ slot \in [Contexts -> CorpusSlots \cup {NoCorpus}]
  /\ index \in [Addresses -> IndexEntries \cup {NoCorpus}]
  /\ \A x, y \in Contexts :
       slot[x] # NoCorpus /\ slot[y] # NoCorpus /\ slot[x].at = slot[y].at => x = y
  /\ \A a \in Addresses : index[a] # NoCorpus => index[a].searcher = index[a].meta
  /\ \A x \in Contexts :
       slot[x] # NoCorpus /\ index[slot[x].at] # NoCorpus =>
         slot[x].at \in reused \/ index[slot[x].at].searcher = slot[x].of

\* Rows that may be shown: as many as were asked for, each once and, of a corpus, a passage.
RowsSound(rows, from) ==
  /\ Len(rows) \in Nat /\ DOMAIN rows = 1..Len(rows) /\ Len(rows) <= SearchMax
  /\ IsInjective(rows)
  /\ from # "memory" => \A row \in Range(rows) : Whole(row)

\* Where the rows of an answer are from.
OriginSound(a, addresses) == a.at = NoCorpus \/ a.at \in addresses \/ a.from = a.asked

\* What an answer of a tool may say.
AnswerSound(tool, a, addresses) ==
  /\ a.from # "memory" => \A row \in Range(a.rows) : Whole(row)
  /\ IsInjective(a.rows) /\ Len(a.rows) <= SearchMax
  /\ OriginSound(a, addresses)
  /\ tool = "rerank" /\ a.flag => a.count >= RerankMin
  /\ tool = "info" => ~a.cut
  /\ a.kind = "error" => a.rows = <<>> /\ a.from = NoCorpus

\* A call, by how far it is: what is being reranked is worth it.
RetrievalCallSound(k, addresses) ==
  /\ DOMAIN k = CallFields
  /\ k.step \in {"asked", "model", "reranking"} => k.ctx \in Contexts
  /\ k.step = "done" => AnswerSound(k.tool, k.answer, addresses)
  /\ k.step = "reranking" =>
       /\ DOMAIN k.answer = AnswerFields \ {"cut"} /\ k.answer.kind = "result"
       /\ k.answer.flag = FALSE
       /\ RowsSound(k.hits, k.answer.from) /\ OriginSound(k.answer, addresses)
       /\ Len(k.hits) >= RerankMin

RetrievalInv ==
  /\ IndexesSound
  /\ retrieval = [c \in RetrievalCalls |-> retrieval[c]]
  /\ \A c \in RetrievalCalls : RetrievalCallSound(retrieval[c], reused)

-----------------------------------------------------------------------------
\* The smaller of two numbers.
LEMMA SmallerLemma ==
  ASSUME NEW m \in Nat, NEW n \in Nat
  PROVE  /\ Smaller(m, n) \in Nat /\ Smaller(m, n) <= m /\ Smaller(m, n) <= n
         /\ Smaller(m, n) = m \/ Smaller(m, n) = n
         /\ m <= n => Smaller(m, n) = m
<1>1. \E x \in {m, n} : \A y \in {m, n} : x =< y
  <2>1. CASE m <= n
    BY <2>1
  <2>2. CASE n <= m
    BY <2>2
  <2> QED BY <2>1, <2>2
<1>2. Min({m, n}) \in {m, n} /\ \A y \in {m, n} : Min({m, n}) =< y
  BY <1>1 DEF Min
<1> QED BY <1>2 DEF Smaller

\* A search reports ranks of passages, each once and no more than it was asked for.
LEMMA RankingsLemma ==
  ASSUME NEW n \in Nat, NEW k \in Nat, NEW r \in Rankings(n, k)
  PROVE  /\ Len(r) \in Nat /\ DOMAIN r = 1..Len(r) /\ Len(r) <= k /\ Len(r) <= n
         /\ \A j \in DOMAIN r : r[j] \in 1..n
         /\ IsInjective(r)
<1>1. r \in SeqOf(1..n, Smaller(n, k)) /\ IsInjective(r)
  BY DEF Rankings
<1>2. PICK m \in 0..Smaller(n, k) : r \in [1..m -> 1..n]
  BY <1>1 DEF SeqOf
<1>3. Smaller(n, k) \in Nat /\ Smaller(n, k) <= n /\ Smaller(n, k) <= k
  BY SmallerLemma
<1>4. m \in Nat /\ m <= n /\ m <= k
  BY <1>2, <1>3
<1>5. r \in Seq(1..n)
  BY <1>2, <1>4, SeqDef
<1>6. Len(r) = m
  BY <1>2, <1>4, <1>5, LenProperties
<1> QED BY <1>1, <1>2, <1>4, <1>6

\* The rows of distinct ranks in a list of distinct rows.
LEMMA RankedRows ==
  ASSUME NEW list, NEW n \in Nat, DOMAIN list = 1..n, IsInjective(list),
         NEW k \in Nat, k <= SearchMax, NEW r \in Rankings(n, k), NEW from,
         from # "memory" => \A i \in 1..n : Whole(list[i])
  PROVE  /\ RowsSound([j \in DOMAIN r |-> list[r[j]]], from)
         /\ Len([j \in DOMAIN r |-> list[r[j]]]) = Len(r)
<1> DEFINE rows == [j \in DOMAIN r |-> list[r[j]]]
<1>1. /\ Len(r) \in Nat /\ DOMAIN r = 1..Len(r) /\ Len(r) <= k
      /\ \A j \in DOMAIN r : r[j] \in 1..n
      /\ IsInjective(r)
  BY RankingsLemma
<1>2. rows \in Seq(Range(rows)) /\ Len(rows) = Len(r)
  <2>1. rows \in [1..Len(r) -> Range(rows)]
    BY <1>1 DEF Range
  <2>2. rows \in Seq(Range(rows))
    <3> HIDE DEF rows
    <3> QED BY <1>1, <2>1, SeqDef
  <2>3. Len(rows) \in Nat /\ DOMAIN rows = 1..Len(rows)
    <3> HIDE DEF rows
    <3> QED BY <2>2, LenProperties
  <2>4. DOMAIN rows = 1..Len(r)
    BY <1>1
  <2> HIDE DEF rows
  <2>5. 1..Len(rows) = 1..Len(r)
    BY <2>3, <2>4
  <2>6. Len(rows) = Len(r)
    <3>1. PICK a \in Nat, b \in Nat : a = Len(rows) /\ b = Len(r)
      BY <1>1, <2>3, Zenon
    <3>2. 1..a = 1..b
      BY <2>5, <3>1
    <3>3. a <= b /\ b <= a
      BY <3>2
    <3> QED BY <3>1, <3>3
  <2> QED BY <2>2, <2>6
<1>3. IsInjective(rows)
  BY <1>1 DEF IsInjective
<1>4. from # "memory" => \A row \in Range(rows) : Whole(row)
  BY <1>1 DEF Range
<1>5. Len(rows) <= SearchMax
  BY <1>1, <1>2, RetrievalAssumption
<1>6. DOMAIN rows = 1..Len(rows)
  BY <1>1, <1>2
<1> HIDE DEF rows
<1>7. RowsSound(rows, from) /\ Len(rows) = Len(r)
  BY <1>1, <1>2, <1>3, <1>4, <1>5, <1>6 DEF RowsSound
<1> QED BY <1>7 DEF rows

\* The first rows of sound rows are sound.
LEMMA FormattedLemma ==
  ASSUME NEW rows, NEW from, RowsSound(rows, from)
  PROVE  RowsSound(Formatted(rows), from)
<1> DEFINE m == Smaller(Len(rows), FormatMax)
<1>1. m \in Nat /\ m <= Len(rows) /\ Len(rows) \in Nat /\ DOMAIN rows = 1..Len(rows)
  BY SmallerLemma, RetrievalAssumption DEF RowsSound
<1> HIDE DEF m
<1>2. \A i \in 1..m : rows[i] \in Range(rows)
  BY <1>1 DEF Range
<1>3. 1 \in Int /\ m \in Int
  BY <1>1
<1>4. /\ SubSeq(rows, 1, m) \in Seq(Range(rows))
      /\ Len(SubSeq(rows, 1, m)) = IF 1 <= m THEN m - 1 + 1 ELSE 0
      /\ \A i \in 1..(m - 1 + 1) : SubSeq(rows, 1, m)[i] = rows[1 + i - 1]
  BY <1>2, <1>3, SubSeqProperties
<1> DEFINE f == SubSeq(rows, 1, m)
<1>5. f \in Seq(Range(rows)) /\ Len(f) = m /\ \A i \in 1..m : f[i] = rows[i]
  BY <1>1, <1>4
<1> HIDE DEF f
<1>6. DOMAIN f = 1..m
  BY <1>5, LenProperties
<1>7. IsInjective(f)
  BY <1>1, <1>5, <1>6 DEF IsInjective, RowsSound
<1>8. Range(f) \subseteq Range(rows)
  BY <1>1, <1>5, <1>6 DEF Range
<1>9. Len(f) <= SearchMax
  BY <1>1, <1>5, RetrievalAssumption DEF RowsSound
<1>10. RowsSound(f, from)
  BY <1>1, <1>5, <1>6, <1>7, <1>8, <1>9 DEF RowsSound
<1> QED BY <1>10 DEF Formatted, f, m

\* What a search may find, and the index it leaves.
LEMMA FoundLemma ==
  ASSUME RetrievalInv, NEW c \in RetrievalCalls, retrieval[c].ctx \in Contexts,
         NEW found \in Found(c, SearchMax)
  PROVE  /\ RowsSound(found.rows, found.from)
         /\ OriginSound(found, reused)
<1>1. SearchMax \in Nat /\ SearchMax <= SearchMax
  BY RetrievalAssumption
<1>2. CASE HasCorpus(c)
  <2> DEFINE s == slot[retrieval[c].ctx]
             entry == SearcherOf(s)
             n == entry.searcher
  <2>1. s # NoCorpus /\ s \in CorpusSlots
    BY <1>2 DEF HasCorpus, RetrievalInv, IndexesSound
  <2>2. s.at \in Addresses /\ s.of \in DOMAIN Corpora
    BY <2>1 DEF CorpusSlots
  <2>3. /\ n \in DOMAIN Corpora /\ entry.meta = n
        /\ s.at \in reused \/ n = s.of
    <3>1. CASE index[s.at] # NoCorpus
      <4>1. index[s.at] \in IndexEntries /\ entry = index[s.at]
        BY <2>2, <3>1 DEF RetrievalInv, IndexesSound, SearcherOf
      <4> QED BY <2>1, <2>2, <3>1, <4>1 DEF IndexEntries, RetrievalInv, IndexesSound
    <3>2. CASE index[s.at] = NoCorpus
      BY <2>2, <3>2 DEF SearcherOf
    <3> QED BY <3>1, <3>2
  <2>4. PICK r \in Rankings(Len(Corpora[n]), SearchMax) :
          found = [rows |-> [j \in DOMAIN r |-> Row(entry, r[j])], from |-> n,
                   asked |-> s.of, at |-> s.at]
    BY <1>2 DEF Found, FromCorpus
  <2> DEFINE list == Corpora[n]
  <2>5. /\ Len(list) \in Nat /\ DOMAIN list = 1..Len(list) /\ IsInjective(list)
        /\ \A i \in DOMAIN list : list[i] = [text |-> list[i].text, uri |-> list[i].uri]
    BY <2>3, RetrievalAssumption, Zenon DEF IsInjective
  <2>6. \A i \in 1..Len(list) : Whole(list[i])
    BY <2>3, <2>5, Zenon DEF Whole, Range
  <2>7. \A j \in DOMAIN r : r[j] \in 1..Len(list)
    BY <1>1, <2>5, RankingsLemma, Zenon
  <2>8. found.rows = [j \in DOMAIN r |-> list[r[j]]]
    <3>1. \A j \in DOMAIN r : Row(entry, r[j]) = list[r[j]]
      BY <2>3, <2>5, <2>7, Zenon DEF Row
    <3> QED BY <2>4, <3>1
  <2>9. RowsSound(found.rows, found.from)
    <3>1. found.from = n
      BY <2>4
    <3>2. /\ Len(list) \in Nat /\ DOMAIN list = 1..Len(list) /\ IsInjective(list)
          /\ n # "memory" => \A i \in 1..Len(list) : Whole(list[i])
      BY <2>5, <2>6, Zenon
    <3>3. r \in Rankings(Len(list), SearchMax)
      BY <2>4
    <3> HIDE DEF list, n
    <3>4. RowsSound([j \in DOMAIN r |-> list[r[j]]], n)
      BY <1>1, <3>2, <3>3, RankedRows, Zenon
    <3> QED BY <2>8, <3>1, <3>4
  <2> QED BY <2>3, <2>4, <2>9 DEF OriginSound
<1>3. CASE ~HasCorpus(c)
  <2>1. PICK r \in Rankings(Len(MemoryDocs), SearchMax) :
          found = [rows |-> [j \in DOMAIN r |-> MemoryRow(r[j])], from |-> "memory",
                   asked |-> "memory", at |-> NoCorpus]
    BY <1>3 DEF Found, FromMemory
  <2>2. /\ Len(MemoryDocs) \in Nat /\ DOMAIN MemoryDocs = 1..Len(MemoryDocs)
        /\ IsInjective(MemoryDocs)
    BY RetrievalAssumption
  <2>3. found.rows = [j \in DOMAIN r |-> MemoryDocs[r[j]]] /\ found.from = "memory"
    BY <2>1 DEF MemoryRow
  <2>4. RowsSound(found.rows, found.from)
    BY <1>1, <2>1, <2>2, <2>3, RankedRows
  <2> QED BY <2>1, <2>4 DEF OriginSound
<1> QED BY <1>2, <1>3

LEMMA SearchedSound ==
  ASSUME RetrievalInv, NEW c \in RetrievalCalls, retrieval[c].ctx \in Contexts,
         Searched(c), UNCHANGED <<slot, reused>>
  PROVE  IndexesSound'
<1>1. CASE HasCorpus(c)
  <2> DEFINE s == slot[retrieval[c].ctx]
             entry == SearcherOf(s)
  <2>1. s # NoCorpus /\ s \in CorpusSlots
    BY <1>1 DEF HasCorpus, RetrievalInv, IndexesSound
  <2>2. s.at \in Addresses /\ s.of \in DOMAIN Corpora
    BY <2>1 DEF CorpusSlots
  <2>3. index' = [index EXCEPT ![s.at] = entry]
    BY <1>1 DEF Searched, Remember
  <2>4. CASE index[s.at] # NoCorpus
    <3>1. entry = index[s.at]
      BY <2>4 DEF SearcherOf
    <3>2. index' = index
      BY <2>3, <3>1 DEF RetrievalInv, IndexesSound
    <3> QED BY <3>2 DEF RetrievalInv, IndexesSound
  <2>5. CASE index[s.at] = NoCorpus
    <3>1. entry = [searcher |-> s.of, meta |-> s.of]
      BY <2>5 DEF SearcherOf
    <3>2. entry \in IndexEntries /\ entry.searcher = s.of /\ entry.meta = s.of
      BY <2>2, <3>1 DEF IndexEntries
    <3> HIDE DEF entry
    <3>3. index' \in [Addresses -> IndexEntries \cup {NoCorpus}]
      BY <2>3, <3>2 DEF RetrievalInv, IndexesSound
    <3>4. \A a \in Addresses : index'[a] = IF a = s.at THEN entry ELSE index[a]
      BY <2>3 DEF RetrievalInv, IndexesSound
    <3>5. \A a \in Addresses : index'[a] # NoCorpus => index'[a].searcher = index'[a].meta
      BY <3>2, <3>4 DEF RetrievalInv, IndexesSound
    <3>6. ASSUME NEW x \in Contexts, slot[x] # NoCorpus, index'[slot[x].at] # NoCorpus
          PROVE  slot[x].at \in reused \/ index'[slot[x].at].searcher = slot[x].of
      <4>1. slot[x] \in CorpusSlots /\ slot[x].at \in Addresses
        BY <3>6 DEF RetrievalInv, IndexesSound, CorpusSlots
      <4>2. CASE slot[x].at = s.at
        <5>1. x = retrieval[c].ctx
          BY <2>1, <3>6, <4>2 DEF RetrievalInv, IndexesSound
        <5> QED BY <5>1, <4>1, <4>2, <3>2, <3>4
      <4>3. CASE slot[x].at # s.at
        BY <3>4, <3>6, <4>1, <4>3 DEF RetrievalInv, IndexesSound
      <4> QED BY <4>2, <4>3
    <3> QED BY <3>3, <3>5, <3>6 DEF RetrievalInv, IndexesSound
  <2> QED BY <2>4, <2>5
<1>2. CASE ~HasCorpus(c)
  BY <1>2 DEF Searched, RetrievalInv, IndexesSound
<1> QED BY <1>1, <1>2

\* A call that is given a sound state, whatever the others are at.
LEMMA CallGiven ==
  ASSUME RetrievalInv, NEW c \in RetrievalCalls, NEW k,
         retrieval' = [retrieval EXCEPT ![c] = k], RetrievalCallSound(k, reused),
         IndexesSound', reused' = reused
  PROVE  RetrievalInv'
<1>1. retrieval' = [d \in RetrievalCalls |-> IF d = c THEN k ELSE retrieval[d]]
  BY DEF RetrievalInv
<1>2. retrieval' = [d \in RetrievalCalls |-> retrieval'[d]]
  BY <1>1
<1>3. ASSUME NEW d \in RetrievalCalls PROVE RetrievalCallSound(retrieval'[d], reused')
  <2>1. CASE d = c
    BY <1>1, <2>1
  <2>2. CASE d # c
    BY <1>1, <2>2 DEF RetrievalInv
  <2> QED BY <2>1, <2>2
<1> QED BY <1>2, <1>3 DEF RetrievalInv

\* What Over does.
LEMMA OverLemma ==
  ASSUME NEW changes, NEW record
  PROVE  /\ DOMAIN Over(changes, record) = DOMAIN record
         /\ \A f \in DOMAIN record :
              Over(changes, record)[f] = IF f \in DOMAIN changes THEN changes[f] ELSE record[f]
BY DEF Over

LEMMA AnsweredSound ==
  ASSUME RetrievalInv, NEW c \in RetrievalCalls, NEW changes, Answered(c, changes),
         AnswerSound(retrieval[c].tool, Over(changes, NoAnswer), reused),
         IndexesSound', reused' = reused
  PROVE  RetrievalInv'
<1> DEFINE changed == [step |-> "done", hits |-> <<>>, answer |-> Over(changes, NoAnswer)]
           k == Over(changed, retrieval[c])
<1>1. DOMAIN retrieval[c] = CallFields
  BY DEF RetrievalInv, RetrievalCallSound
<1>2. DOMAIN changed = {"step", "hits", "answer"} /\ changed.step = "done"
      /\ changed.answer = Over(changes, NoAnswer)
  OBVIOUS
<1>3. retrieval' = [retrieval EXCEPT ![c] = k]
  BY DEF Answered, Given
<1> HIDE DEF changed
<1>4. /\ DOMAIN k = CallFields /\ k.step = "done" /\ k.tool = retrieval[c].tool
      /\ k.answer = Over(changes, NoAnswer)
  BY <1>1, <1>2, OverLemma DEF CallFields
<1> HIDE DEF k
<1>5. RetrievalCallSound(k, reused)
  BY <1>4 DEF RetrievalCallSound
<1> QED BY <1>3, <1>5, CallGiven

\* The answer that shows rows of a search.
LEMMA ResultAnswer ==
  ASSUME NEW found, NEW rows, NEW flag, NEW tool, tool \notin {"rerank", "info"} \/ flag = FALSE,
         tool # "info",
         RowsSound(rows, found.from), OriginSound(found, reused)
  PROVE  AnswerSound(tool, Over(Result(found, rows, flag), NoAnswer), reused)
<1> DEFINE a == Over(Result(found, rows, flag), NoAnswer)
<1>1. /\ a.kind = "result" /\ a.from = found.from /\ a.asked = found.asked /\ a.at = found.at
      /\ a.rows = rows /\ a.flag = flag
  BY DEF Over, Result, NoAnswer
<1> HIDE DEF a
<1>2. AnswerSound(tool, a, reused)
  BY <1>1 DEF AnswerSound, RowsSound, OriginSound
<1> QED BY <1>2 DEF a

\* An error says nothing, and an answer without rows nothing of a corpus.
LEMMA BareAnswer ==
  ASSUME NEW changes, NEW tool, DOMAIN changes \subseteq {"kind", "flag", "count"},
         tool \notin {"rerank", "info"} \/ "flag" \notin DOMAIN changes
  PROVE  AnswerSound(tool, Over(changes, NoAnswer), reused)
<1> DEFINE a == Over(changes, NoAnswer)
<1>1. DOMAIN NoAnswer = AnswerFields
  BY DEF NoAnswer, AnswerFields
<1>2. /\ a.from = NoCorpus /\ a.rows = <<>> /\ a.cut = FALSE /\ a.at = NoCorpus
      /\ "flag" \notin DOMAIN changes => a.flag = FALSE
  <2>1. \A f \in AnswerFields : a[f] = IF f \in DOMAIN changes THEN changes[f] ELSE NoAnswer[f]
    BY <1>1, OverLemma
  <2>2. /\ NoAnswer.from = NoCorpus /\ NoAnswer.rows = <<>> /\ NoAnswer.cut = FALSE
        /\ NoAnswer.at = NoCorpus /\ NoAnswer.flag = FALSE
    BY DEF NoAnswer
  <2>3. {"from", "rows", "cut", "at"} \cap DOMAIN changes = {}
    OBVIOUS
  <2> HIDE DEF a
  <2> QED BY <2>1, <2>2, <2>3 DEF AnswerFields
<1> HIDE DEF a
<1>3. IsInjective(<<>>) /\ Len(<<>>) = 0 /\ Range(<<>>) = {}
  BY DEF IsInjective, Range
<1>4. Len(a.rows) <= SearchMax
  BY <1>2, <1>3, RetrievalAssumption
<1>5. AnswerSound(tool, a, reused)
  BY <1>2, <1>3, <1>4 DEF AnswerSound, OriginSound
<1> QED BY <1>5 DEF a

LEMMA BindSound ==
  ASSUME RetrievalInv, NEW x \in Contexts, Bind(x) PROVE RetrievalInv'
<1>1. PICK a \in Addresses, n \in DOMAIN Corpora :
        /\ \A y \in Contexts : slot[y] # NoCorpus => slot[y].at # a
        /\ slot' = [slot EXCEPT ![x] = [at |-> a, of |-> n]]
        /\ reused' = IF index[a] = NoCorpus THEN reused ELSE reused \cup {a}
        /\ UNCHANGED <<index, retrieval>>
  BY DEF Bind
<1> DEFINE s == [at |-> a, of |-> n]
<1>2. s \in CorpusSlots /\ s.at = a /\ s.of = n
  BY DEF CorpusSlots
<1> HIDE DEF s
<1>3. slot' \in [Contexts -> CorpusSlots \cup {NoCorpus}]
      /\ \A y \in Contexts : slot'[y] = IF y = x THEN s ELSE slot[y]
  BY <1>1, <1>2 DEF RetrievalInv, IndexesSound, s
<1>4. reused \subseteq reused'
  BY <1>1
<1>5. ASSUME NEW y \in Contexts, NEW z \in Contexts,
             slot'[y] # NoCorpus, slot'[z] # NoCorpus, slot'[y].at = slot'[z].at
      PROVE  y = z
  BY <1>1, <1>2, <1>3, <1>5 DEF RetrievalInv, IndexesSound
<1>6. ASSUME NEW y \in Contexts, slot'[y] # NoCorpus, index'[slot'[y].at] # NoCorpus
      PROVE  slot'[y].at \in reused' \/ index'[slot'[y].at].searcher = slot'[y].of
  <2>1. CASE y = x
    BY <1>1, <1>2, <1>3, <1>6, <2>1
  <2>2. CASE y # x
    BY <1>1, <1>3, <1>4, <1>6, <2>2 DEF RetrievalInv, IndexesSound
  <2> QED BY <2>1, <2>2
<1>7. IndexesSound'
  BY <1>1, <1>3, <1>5, <1>6 DEF RetrievalInv, IndexesSound
<1>8. \A c \in RetrievalCalls : RetrievalCallSound(retrieval[c], reused')
  BY <1>4 DEF RetrievalInv, RetrievalCallSound, AnswerSound, OriginSound
<1> QED BY <1>1, <1>7, <1>8 DEF RetrievalInv

LEMMA IndexesStand ==
  ASSUME RetrievalInv, UNCHANGED <<slot, index, reused>> PROVE IndexesSound'
BY DEF RetrievalInv, IndexesSound

LEMMA AskSound ==
  ASSUME RetrievalInv, NEW c \in RetrievalCalls, Ask(c) PROVE RetrievalInv'
<1>1. IndexesSound' /\ reused' = reused
  BY IndexesStand DEF Ask
<1>2. PICK t \in {"bm25", "synonyms", "hyde", "evaluate", "rerank", "info", "manifest", "answer"},
           x \in Contexts :
        \/ retrieval' = [retrieval EXCEPT ![c] = [NoCall EXCEPT !.step = "asked", !.tool = t, !.ctx = x]]
        \/ /\ t \notin {"info", "manifest"}
           /\ retrieval' = [retrieval EXCEPT ![c] =
                [NoCall EXCEPT !.step = "done", !.tool = t, !.ctx = x,
                               !.answer = [NoAnswer EXCEPT !.kind = "error"]]]
  BY Zenon DEF Ask
<1>3. CASE retrieval' = [retrieval EXCEPT ![c] =
             [NoCall EXCEPT !.step = "asked", !.tool = t, !.ctx = x]]
  <2> DEFINE k == [NoCall EXCEPT !.step = "asked", !.tool = t, !.ctx = x]
  <2>1. DOMAIN k = CallFields /\ k.step = "asked" /\ k.ctx = x
    BY DEF NoCall, CallFields
  <2> HIDE DEF k
  <2>2. RetrievalCallSound(k, reused)
    BY <2>1 DEF RetrievalCallSound
  <2> QED BY <1>1, <1>3, <2>2, CallGiven DEF k
<1>4. CASE /\ t \notin {"info", "manifest"}
           /\ retrieval' = [retrieval EXCEPT ![c] =
                [NoCall EXCEPT !.step = "done", !.tool = t, !.ctx = x,
                               !.answer = [NoAnswer EXCEPT !.kind = "error"]]]
  <2> DEFINE bare == [kind |-> "error"]
             a == [NoAnswer EXCEPT !.kind = "error"]
             k == [NoCall EXCEPT !.step = "done", !.tool = t, !.ctx = x, !.answer = a]
  <2>1. DOMAIN bare = {"kind"} /\ DOMAIN bare \subseteq {"kind", "flag", "count"}
        /\ "flag" \notin DOMAIN bare
    OBVIOUS
  <2>2. a = Over(bare, NoAnswer)
    BY DEF Over, NoAnswer
  <2> HIDE DEF bare, a
  <2>3. AnswerSound(t, a, reused)
    BY <2>1, <2>2, BareAnswer
  <2>4. DOMAIN k = CallFields /\ k.step = "done" /\ k.tool = t /\ k.answer = a
    BY DEF NoCall, CallFields
  <2>5. retrieval' = [retrieval EXCEPT ![c] = k]
    BY <1>4 DEF a
  <2> HIDE DEF k
  <2>6. RetrievalCallSound(k, reused)
    BY <2>3, <2>4 DEF RetrievalCallSound
  <2> QED BY <1>1, <2>5, <2>6, CallGiven
<1> QED BY <1>2, <1>3, <1>4

LEMMA FailsSound ==
  ASSUME RetrievalInv, NEW c \in RetrievalCalls, Fails(c), UNCHANGED <<slot, index, reused>>
  PROVE  RetrievalInv'
<1> DEFINE bare == [kind |-> "error"]
<1>1. DOMAIN bare \subseteq {"kind", "flag", "count"} /\ "flag" \notin DOMAIN bare
  OBVIOUS
<1>2. Answered(c, bare)
  BY DEF Fails
<1> HIDE DEF bare
<1>3. AnswerSound(retrieval[c].tool, Over(bare, NoAnswer), reused)
  BY <1>1, BareAnswer
<1> QED BY <1>2, <1>3, IndexesStand, AnsweredSound

\* A search of a tool that shows what it found.
LEMMA SearchSound ==
  ASSUME RetrievalInv, NEW c \in RetrievalCalls, retrieval[c].ctx \in Contexts,
         NEW found \in Found(c, SearchMax), NEW rows, NEW flag,
         rows = found.rows \/ rows = Formatted(found.rows),
         Answered(c, Result(found, rows, flag)), Searched(c), UNCHANGED <<slot, reused>>,
         retrieval[c].tool # "info", retrieval[c].tool # "rerank" \/ flag = FALSE
  PROVE  RetrievalInv'
<1>1. RowsSound(found.rows, found.from) /\ OriginSound(found, reused)
  BY FoundLemma
<1>2. RowsSound(rows, found.from)
  BY <1>1, FormattedLemma
<1>3. AnswerSound(retrieval[c].tool, Over(Result(found, rows, flag), NoAnswer), reused)
  BY <1>1, <1>2, ResultAnswer
<1> QED BY <1>3, SearchedSound, AnsweredSound

LEMMA BM25Sound ==
  ASSUME RetrievalInv, NEW c \in RetrievalCalls, BM25(c) PROVE RetrievalInv'
<1>1. retrieval[c].tool = "bm25" /\ retrieval[c].step = "asked"
  BY DEF BM25, At
<1>2. retrieval[c].ctx \in Contexts
  BY <1>1 DEF RetrievalInv, RetrievalCallSound
<1>3. ASSUME NEW found \in Found(c, SearchMax), NEW weak \in BOOLEAN,
             Answered(c, Result(found, Shown(found), SuggestsExpansion(Len(found.rows), weak))),
             Searched(c)
      PROVE  RetrievalInv'
  <2>1. Shown(found) = found.rows \/ Shown(found) = Formatted(found.rows)
    BY DEF Shown
  <2>2. UNCHANGED <<slot, reused>>
    BY DEF BM25
  <2> QED BY <1>1, <1>2, <1>3, <2>1, <2>2, SearchSound
<1>4. CASE NoMemoryOf(c) /\ Fails(c) /\ UNCHANGED index
  BY <1>4, FailsSound DEF BM25
<1> QED BY <1>3, <1>4 DEF BM25

LEMMA SynonymsSound ==
  ASSUME RetrievalInv, NEW c \in RetrievalCalls, Synonyms(c) PROVE RetrievalInv'
<1>1. /\ retrieval[c].tool = "synonyms" /\ retrieval[c].step = "asked"
      /\ UNCHANGED <<slot, reused>>
  BY DEF Synonyms, At
<1>2. retrieval[c].ctx \in Contexts
  BY <1>1 DEF RetrievalInv, RetrievalCallSound
<1>3. ASSUME NEW found \in Found(c, SearchMax),
             Answered(c, Result(found, Shown(found), TRUE)), Searched(c)
      PROVE  RetrievalInv'
  <2>1. Shown(found) = found.rows \/ Shown(found) = Formatted(found.rows)
    BY DEF Shown
  <2> QED BY <1>1, <1>2, <1>3, <2>1, SearchSound
<1>4. CASE Answered(c, [kind |-> "result"]) /\ UNCHANGED index
  <2> DEFINE bare == [kind |-> "result"]
  <2>1. DOMAIN bare \subseteq {"kind", "flag", "count"} /\ "flag" \notin DOMAIN bare
        /\ Answered(c, bare)
    BY <1>4
  <2> HIDE DEF bare
  <2>2. AnswerSound(retrieval[c].tool, Over(bare, NoAnswer), reused)
    BY <2>1, BareAnswer
  <2> QED BY <1>1, <1>4, <2>1, <2>2, IndexesStand, AnsweredSound
<1>5. CASE Fails(c) /\ UNCHANGED index
  BY <1>1, <1>5, FailsSound
<1> QED BY <1>3, <1>4, <1>5 DEF Synonyms

LEMMA HyDESound ==
  ASSUME RetrievalInv, NEW c \in RetrievalCalls, HyDE(c) PROVE RetrievalInv'
<1>1. /\ retrieval[c].tool = "hyde" /\ retrieval[c].step = "model"
      /\ UNCHANGED <<slot, reused>>
  BY DEF HyDE, At
<1>2. retrieval[c].ctx \in Contexts
  BY <1>1 DEF RetrievalInv, RetrievalCallSound
<1>3. ASSUME NEW found \in Found(c, SearchMax),
             Answered(c, Result(found, Shown(found), TRUE)), Searched(c)
      PROVE  RetrievalInv'
  <2>1. Shown(found) = found.rows \/ Shown(found) = Formatted(found.rows)
    BY DEF Shown
  <2> QED BY <1>1, <1>2, <1>3, <2>1, SearchSound
<1>4. CASE Fails(c) /\ UNCHANGED index
  BY <1>1, <1>4, FailsSound
<1> QED BY <1>3, <1>4 DEF HyDE

LEMMA CallModelSound ==
  ASSUME RetrievalInv, NEW c \in RetrievalCalls, CallModel(c) PROVE RetrievalInv'
<1> DEFINE changed == [step |-> "model"]
           k == Over(changed, retrieval[c])
<1>1. retrieval' = [retrieval EXCEPT ![c] = k] /\ UNCHANGED <<slot, index, reused>>
  BY DEF CallModel, Given
<1>2. DOMAIN retrieval[c] = CallFields /\ retrieval[c].ctx \in Contexts
  BY DEF RetrievalInv, RetrievalCallSound, CallModel
<1>3. DOMAIN changed = {"step"} /\ changed.step = "model"
  OBVIOUS
<1> HIDE DEF changed
<1>4. DOMAIN k = CallFields /\ k.step = "model" /\ k.ctx \in Contexts
  BY <1>2, <1>3, OverLemma DEF CallFields
<1> HIDE DEF k
<1>5. RetrievalCallSound(k, reused)
  BY <1>4 DEF RetrievalCallSound
<1> QED BY <1>1, <1>5, IndexesStand, CallGiven

\* A tool that shows no rows.
LEMMA BareSound ==
  ASSUME RetrievalInv, NEW c \in RetrievalCalls, NEW changes,
         DOMAIN changes \subseteq {"kind", "flag", "count"},
         retrieval[c].tool \notin {"rerank", "info"},
         Answered(c, changes), UNCHANGED <<slot, index, reused>>
  PROVE  RetrievalInv'
<1>1. AnswerSound(retrieval[c].tool, Over(changes, NoAnswer), reused)
  BY BareAnswer
<1> QED BY <1>1, IndexesStand, AnsweredSound

LEMMA EvaluateSound ==
  ASSUME RetrievalInv, NEW c \in RetrievalCalls, Evaluate(c) PROVE RetrievalInv'
<1>1. PICK gaps \in Gaps(1) :
        Answered(c, [kind |-> "result", flag |-> gaps = 0, count |-> gaps])
  BY DEF Evaluate
<1> DEFINE changes == [kind |-> "result", flag |-> gaps = 0, count |-> gaps]
<1>2. DOMAIN changes \subseteq {"kind", "flag", "count"} /\ Answered(c, changes)
  BY <1>1
<1> HIDE DEF changes
<1> QED BY <1>2, BareSound DEF Evaluate, At

LEMMA GroundedAnswerSound ==
  ASSUME RetrievalInv, NEW c \in RetrievalCalls, GroundedAnswer(c) PROVE RetrievalInv'
<1>1. ASSUME NEW answered \in BOOLEAN, Answered(c, [kind |-> "result", flag |-> answered])
      PROVE  RetrievalInv'
  <2> DEFINE changes == [kind |-> "result", flag |-> answered]
  <2>1. DOMAIN changes \subseteq {"kind", "flag", "count"} /\ Answered(c, changes)
    BY <1>1
  <2> HIDE DEF changes
  <2> QED BY <2>1, BareSound DEF GroundedAnswer, At
<1>2. CASE Fails(c)
  BY <1>2, FailsSound DEF GroundedAnswer
<1> QED BY <1>1, <1>2 DEF GroundedAnswer

LEMMA CandidatesSound ==
  ASSUME RetrievalInv, NEW c \in RetrievalCalls, Candidates(c) PROVE RetrievalInv'
<1>1. /\ retrieval[c].tool = "rerank" /\ retrieval[c].step = "asked"
      /\ UNCHANGED <<slot, reused>>
  BY DEF Candidates, At
<1>2. retrieval[c].ctx \in Contexts /\ DOMAIN retrieval[c] = CallFields
  BY <1>1 DEF RetrievalInv, RetrievalCallSound
<1>3. ASSUME NEW found \in Found(c, SearchMax), Searched(c),
             Answered(c, Result(found, Formatted(found.rows), FALSE))
      PROVE  RetrievalInv'
  BY <1>1, <1>2, <1>3, SearchSound
<1>4. ASSUME NEW found \in Found(c, SearchMax), Searched(c),
             ~(Len(found.rows) < RerankMin),
             Given(c, [step |-> "reranking", hits |-> found.rows,
                       answer |-> Result(found, found.rows, FALSE)])
      PROVE  RetrievalInv'
  <2> DEFINE a == Result(found, found.rows, FALSE)
             changed == [step |-> "reranking", hits |-> found.rows, answer |-> a]
             k == Over(changed, retrieval[c])
  <2>1. RowsSound(found.rows, found.from) /\ OriginSound(found, reused)
    BY <1>2, FoundLemma
  <2>2. Len(found.rows) >= RerankMin
    BY <1>4, <2>1, RetrievalAssumption DEF RowsSound
  <2>3. /\ DOMAIN a = {"kind", "from", "asked", "at", "rows", "count", "flag"}
        /\ a.kind = "result" /\ a.from = found.from /\ a.asked = found.asked /\ a.at = found.at
        /\ a.flag = FALSE
    BY DEF Result
  <2>4. retrieval' = [retrieval EXCEPT ![c] = k]
    BY <1>4 DEF Given
  <2> HIDE DEF a
  <2>5. DOMAIN changed = {"step", "hits", "answer"} /\ changed.step = "reranking"
        /\ changed.hits = found.rows /\ changed.answer = a
    OBVIOUS
  <2> HIDE DEF changed
  <2>6. DOMAIN k = CallFields /\ k.step = "reranking" /\ k.ctx \in Contexts
        /\ k.hits = found.rows /\ k.answer = a
    <3>1. /\ DOMAIN k = DOMAIN retrieval[c]
          /\ \A f \in DOMAIN retrieval[c] :
               k[f] = IF f \in DOMAIN changed THEN changed[f] ELSE retrieval[c][f]
      BY OverLemma
    <3> HIDE DEF k
    <3>2. DOMAIN k = CallFields /\ k.step = "reranking" /\ k.hits = found.rows /\ k.answer = a
      BY <1>2, <2>5, <3>1 DEF CallFields
    <3>3. k.ctx = retrieval[c].ctx
      BY <1>2, <2>5, <3>1 DEF CallFields
    <3> QED BY <1>2, <3>2, <3>3
  <2> HIDE DEF k
  <2>7. RetrievalCallSound(k, reused)
    BY <2>1, <2>2, <2>3, <2>6 DEF RetrievalCallSound, OriginSound, AnswerFields
  <2>8. IndexesSound'
    BY <1>1, <1>2, <1>4, SearchedSound
  <2> QED BY <1>1, <2>4, <2>7, <2>8, CallGiven
<1>5. CASE NoMemoryOf(c) /\ Fails(c) /\ UNCHANGED index
  BY <1>1, <1>5, FailsSound
<1> QED BY <1>3, <1>4, <1>5 DEF Candidates

LEMMA RerankSound ==
  ASSUME RetrievalInv, NEW c \in RetrievalCalls, Rerank(c) PROVE RetrievalInv'
<1> DEFINE k == retrieval[c]
<1>1. /\ k.tool = "rerank" /\ k.step = "reranking" /\ UNCHANGED <<slot, index, reused>>
  BY DEF Rerank, At
<1>2. /\ k.answer.kind = "result"
      /\ RowsSound(k.hits, k.answer.from) /\ OriginSound(k.answer, reused)
      /\ Len(k.hits) >= RerankMin
  BY <1>1 DEF RetrievalInv, RetrievalCallSound
<1>3. /\ Len(k.hits) \in Nat /\ DOMAIN k.hits = 1..Len(k.hits) /\ Len(k.hits) <= SearchMax
      /\ IsInjective(k.hits) /\ SearchMax \in Nat /\ FormatMax \in Nat /\ RerankMin \in Nat
      /\ SearchMax <= SearchMax
      /\ k.answer.from # "memory" => \A i \in 1..Len(k.hits) : Whole(k.hits[i])
  BY <1>2, RetrievalAssumption DEF RowsSound, Range
<1>4. ASSUME NEW a, Answered(c, a), DOMAIN a = AnswerFields \ {"cut"},
             a.kind = "result", a.from = k.answer.from, a.asked = k.answer.asked, a.at = k.answer.at,
             RowsSound(a.rows, a.from), a.flag => a.count >= RerankMin
      PROVE  RetrievalInv'
  <2> DEFINE b == Over(a, NoAnswer)
  <2>1. DOMAIN NoAnswer = AnswerFields
    BY DEF NoAnswer, AnswerFields
  <2>2. /\ b.kind = a.kind /\ b.from = a.from /\ b.asked = a.asked /\ b.at = a.at /\ b.rows = a.rows
        /\ b.flag = a.flag /\ b.count = a.count
    BY <1>4, <2>1, OverLemma DEF AnswerFields
  <2> HIDE DEF b
  <2>3. AnswerSound(k.tool, b, reused)
    BY <1>1, <1>2, <1>4, <2>2 DEF AnswerSound, RowsSound, OriginSound
  <2> QED BY <1>1, <1>4, <2>3, IndexesStand, AnsweredSound DEF b
<1>5. DOMAIN k.answer = AnswerFields \ {"cut"}
  BY <1>1 DEF RetrievalInv, RetrievalCallSound
<1>6. ASSUME NEW r \in Rankings(Len(k.hits), SearchMax), Len(r) = Smaller(Len(k.hits), SearchMax),
             Answered(c, [k.answer EXCEPT !.rows = [j \in DOMAIN r |-> k.hits[r[j]]],
                                          !.count = Len(r), !.flag = TRUE])
      PROVE  RetrievalInv'
  <2> DEFINE rows == [j \in DOMAIN r |-> k.hits[r[j]]]
             a == [k.answer EXCEPT !.rows = rows, !.count = Len(r), !.flag = TRUE]
             list == k.hits
             from == k.answer.from
  <2>1. Len(r) = Len(k.hits)
    BY <1>3, <1>6, SmallerLemma
  <2>2. RowsSound(rows, from)
    <3>1. /\ Len(list) \in Nat /\ DOMAIN list = 1..Len(list) /\ IsInjective(list)
          /\ SearchMax \in Nat /\ SearchMax <= SearchMax
          /\ r \in Rankings(Len(list), SearchMax)
          /\ from # "memory" => \A i \in 1..Len(list) : Whole(list[i])
      BY <1>3, <1>6
    <3> HIDE DEF list, from
    <3>2. RowsSound([j \in DOMAIN r |-> list[r[j]]], from)
      BY <3>1, RankedRows, Zenon
    <3> QED BY <3>2 DEF list, from
  <2> HIDE DEF rows
  <2>3. /\ DOMAIN a = AnswerFields \ {"cut"} /\ a.kind = "result" /\ a.from = from
        /\ a.asked = k.answer.asked /\ a.at = k.answer.at /\ a.rows = rows /\ a.count = Len(r)
    BY <1>2, <1>5 DEF AnswerFields
  <2>4. Answered(c, a)
    BY <1>6 DEF rows
  <2>5. a.count >= RerankMin
    BY <1>2, <2>1, <2>3
  <2> HIDE DEF a
  <2> QED BY <1>4, <2>2, <2>3, <2>4, <2>5
<1>7. CASE Answered(c, [k.answer EXCEPT !.rows = Formatted(k.hits),
                                        !.count = Smaller(Len(k.hits), FormatMax)])
  <2> DEFINE rows == Formatted(k.hits)
             n == Smaller(Len(k.hits), FormatMax)
             a == [k.answer EXCEPT !.rows = rows, !.count = n]
  <2>1. RowsSound(rows, k.answer.from)
    BY <1>2, FormattedLemma
  <2>2. k.answer.flag = FALSE
    BY <1>1 DEF RetrievalInv, RetrievalCallSound
  <2> HIDE DEF rows, n
  <2>3. /\ DOMAIN a = AnswerFields \ {"cut"} /\ a.kind = "result" /\ a.from = k.answer.from
        /\ a.asked = k.answer.asked /\ a.at = k.answer.at /\ a.rows = rows /\ a.flag = FALSE
    BY <1>2, <1>5, <2>2 DEF AnswerFields
  <2>4. Answered(c, a)
    BY <1>7 DEF rows, n
  <2> HIDE DEF a
  <2> QED BY <1>4, <2>1, <2>3, <2>4
<1> QED BY <1>6, <1>7, Zenon DEF Rerank

\* A list of passages has finitely many documents.
LEMMA FiniteUris ==
  ASSUME NEW list, Len(list) \in Nat, DOMAIN list = 1..Len(list)
  PROVE  IsFiniteSet(Uris(list))
<1> DEFINE n == Len(list)
           f == [i \in 1..n |-> list[i].uri]
<1>1. f \in Surjection(1..n, Uris(list))
  BY DEF Uris, Range, Surjection
<1>2. IsFiniteSet(1..n)
  <2>1. 1 \in Int /\ n \in Int
    OBVIOUS
  <2> HIDE DEF n
  <2> QED BY <2>1, FS_Interval
<1> QED BY <1>1, <1>2, FS_Surjection

LEMMA DescribeSound ==
  ASSUME RetrievalInv, NEW c \in RetrievalCalls, Describe(c) PROVE RetrievalInv'
<1> DEFINE n == Cardinality(Uris(Passages(c)))
           about == IF HasCorpus(c) THEN slot[retrieval[c].ctx].of ELSE "memory"
           told(count) == [kind |-> "result", from |-> about, asked |-> about, count |-> count,
                           cut |-> count < n]
<1>1. UNCHANGED <<slot, index, reused>>
  BY DEF Describe
<1>2. ASSUME NEW count, Answered(c, told(count)),
             retrieval[c].tool = "info" => count = n, retrieval[c].tool # "rerank",
             n \in Nat
      PROVE  RetrievalInv'
  <2> DEFINE a == Over(told(count), NoAnswer)
  <2>1. DOMAIN NoAnswer = AnswerFields
    BY DEF NoAnswer, AnswerFields
  <2>2. /\ DOMAIN told(count) = {"kind", "from", "asked", "count", "cut"}
        /\ told(count).kind = "result" /\ told(count).from = about /\ told(count).asked = about
        /\ retrieval[c].tool = "info" => ~told(count).cut
    <3>1. retrieval[c].tool = "info" => ~(count < n)
      BY <1>2
    <3>2. told(count).cut = (count < n)
      OBVIOUS
    <3>3. retrieval[c].tool = "info" => ~told(count).cut
      BY <3>1, <3>2, Zenon
    <3> QED BY <3>3
  <2>3. NoAnswer.rows = <<>>
    BY DEF NoAnswer
  <2>4. /\ a.kind = "result" /\ a.from = about /\ a.asked = about /\ a.rows = <<>>
        /\ retrieval[c].tool = "info" => ~a.cut
    BY <2>1, <2>2, <2>3, OverLemma DEF AnswerFields
  <2> HIDE DEF a
  <2>5. IsInjective(<<>>) /\ Len(<<>>) = 0 /\ Range(<<>>) = {}
    BY DEF IsInjective, Range
  <2>6. AnswerSound(retrieval[c].tool, a, reused)
    BY <1>2, <2>4, <2>5, RetrievalAssumption DEF AnswerSound, OriginSound
  <2> QED BY <1>1, <1>2, <2>6, IndexesStand, AnsweredSound DEF a
<1>3. n \in Nat
  <2>1. retrieval[c].ctx \in Contexts
    BY DEF Describe, RetrievalInv, RetrievalCallSound
  <2>2. Len(Passages(c)) \in Nat /\ DOMAIN Passages(c) = 1..Len(Passages(c))
    <3>1. CASE HasCorpus(c)
      <4>1. slot[retrieval[c].ctx].of \in DOMAIN Corpora
        BY <2>1, <3>1 DEF HasCorpus, RetrievalInv, IndexesSound, CorpusSlots
      <4> QED BY <3>1, <4>1, RetrievalAssumption DEF Passages
    <3>2. CASE ~HasCorpus(c)
      BY <3>2, RetrievalAssumption DEF Passages
    <3> QED BY <3>1, <3>2
  <2>3. IsFiniteSet(Uris(Passages(c)))
    BY <2>2, FiniteUris
  <2> QED BY <2>3, FS_CardinalityType
<1>4. CASE Fails(c)
  BY <1>1, <1>4, FailsSound
<1> QED BY <1>2, <1>3, <1>4 DEF Describe

LEMMA RetrievalInvSound ==
  ASSUME RetrievalInv PROVE RetrievalSound
<1>1. ASSUME NEW c \in RetrievalCalls, retrieval[c].step = "done"
      PROVE  AnswerSound(retrieval[c].tool, retrieval[c].answer, reused)
  BY <1>1 DEF RetrievalInv, RetrievalCallSound
<1> QED BY <1>1 DEF RetrievalSound, AnswerSound, OriginSound

\* Whatever corpora come and go at whatever addresses while calls wait, a row that is cited is
\* one passage, rows are distinct and no more than asked for, and an answer is from the corpus
\* of its context unless an index had been cached for an earlier object at its address
\* (_get_corpus_searcher, RerankTool and the other tools of tools/retrieval.py).
THEOREM RetrievalSoundHolds == RetrievalSpec => []RetrievalSound
<1>1. RetrievalInit => RetrievalInv
  <2>1. SUFFICES ASSUME RetrievalInit PROVE RetrievalInv
    OBVIOUS
  <2>2. IndexesSound
    BY <2>1 DEF RetrievalInit, IndexesSound
  <2>3. DOMAIN NoCall = CallFields /\ NoCall.step = "idle"
    BY DEF NoCall, CallFields
  <2>4. RetrievalCallSound(NoCall, reused)
    BY <2>3 DEF RetrievalCallSound
  <2>5. retrieval = [c \in RetrievalCalls |-> NoCall]
    BY <2>1 DEF RetrievalInit
  <2> QED BY <2>2, <2>4, <2>5 DEF RetrievalInv
<1>2. RetrievalInv /\ [RetrievalNext]_retrievalVars => RetrievalInv'
  <2>1. ASSUME RetrievalInv, NEW x \in Contexts, Bind(x) PROVE RetrievalInv'
    BY <2>1, BindSound
  <2>2. ASSUME RetrievalInv, NEW c \in RetrievalCalls, RetrievalStep(c) PROVE RetrievalInv'
    BY <2>2, AskSound, BM25Sound, SynonymsSound, CallModelSound, HyDESound, EvaluateSound,
       GroundedAnswerSound, CandidatesSound, RerankSound, DescribeSound DEF RetrievalStep
  <2>3. ASSUME RetrievalInv, UNCHANGED retrievalVars PROVE RetrievalInv'
    BY <2>3 DEF retrievalVars, RetrievalInv, IndexesSound
  <2> QED BY <2>1, <2>2, <2>3 DEF RetrievalNext
<1>3. RetrievalInv => RetrievalSound
  BY RetrievalInvSound
<1> QED BY <1>1, <1>2, <1>3, PTL DEF RetrievalSpec

-----------------------------------------------------------------------------
(***************************************************************************)
(* The session memory: what its sections hold, what adds evict and what an *)
(* assembly is made of.                                                    *)
(***************************************************************************)

\* The sum of w over S, the partial sums that it is put together from, and which member is next.
SumOver(w, S) == MapThenSumSet(LAMBDA x : w[x], S)
NextOf(s) == CHOOSE x \in s : TRUE
Adds(w, S, h) == h = [s \in SUBSET S |-> IF s = {} THEN 0 ELSE w[NextOf(s)] + h[s \ {NextOf(s)}]]
SumsExist(w, S) == \E h : Adds(w, S, h) /\ h \in [SUBSET S -> Nat]

\* The next member is a member.
LEMMA NextIn == \A s : s # {} => NextOf(s) \in s
BY DEF NextOf

\* A set without one of its members.
LEMMA LessOne ==
  ASSUME NEW s, IsFiniteSet(s), NEW x \in s
  PROVE  IsFiniteSet(s \ {x}) /\ Cardinality(s) \in Nat /\ Cardinality(s) > 0
         /\ Cardinality(s \ {x}) = Cardinality(s) - 1
<1>1. IsFiniteSet(s \ {x}) /\ Cardinality(s \ {x}) = Cardinality(s) - 1
  BY FS_RemoveElement
<1>2. Cardinality(s) \in Nat /\ Cardinality(s \ {x}) \in Nat
  BY <1>1, FS_CardinalityType
<1> QED  BY <1>1, <1>2

\* The partial sums of a finite set exist: a table of them up to any size can be carried
\* one size further.
LEMMA PartialSums ==
  ASSUME NEW w, NEW S, IsFiniteSet(S), \A x \in S : w[x] \in Nat
  PROVE  SumsExist(w, S)
<1> DEFINE Small(m) == {s \in SUBSET S : Cardinality(s) <= m}
           Right(m, h) == /\ h \in [Small(m) -> Nat]
                          /\ \A s \in Small(m) :
                               h[s] = IF s = {} THEN 0 ELSE w[NextOf(s)] + h[s \ {NextOf(s)}]
           N == Cardinality(S)
           T == {m \in 0..N : ~ \E h : Right(m, h)}
<1>1. N \in Nat /\ \A s \in SUBSET S : IsFiniteSet(s) /\ Cardinality(s) \in 0..N
  BY FS_CardinalityType, FS_Subset
<1>2. ASSUME T # {} PROVE FALSE
  <2>1. T \subseteq Nat
    OBVIOUS
  <2> HIDE DEF Right
  <2>2. PICK m \in T : \A k \in T : m <= k
    BY <1>2, <2>1, LeastNatural
  <2>3. m \in 0..N /\ ~ \E h : Right(m, h)
    OBVIOUS
  <2>4. m # 0
    <3>1. ASSUME NEW s \in Small(0) PROVE s = {}
      BY <1>1, FS_EmptySet
    <3>2. {} \in Small(0)
      BY FS_EmptySet
    <3>3. Right(0, [s \in Small(0) |-> 0])
      BY <3>1, <3>2 DEF Right
    <3> QED BY <2>3, <3>3
  <2>5. m - 1 \in 0..N /\ m - 1 \notin T
    BY <1>1, <2>2, <2>3, <2>4
  <2>6. PICK h : Right(m - 1, h)
    BY <2>5
  <2>7. ASSUME NEW s \in Small(m), s # {}
        PROVE  s \ {NextOf(s)} \in Small(m - 1) /\ NextOf(s) \in S
    <3>1. NextOf(s) \in s /\ IsFiniteSet(s)
      BY <1>1, <2>7, NextIn
    <3>2. Cardinality(s \ {NextOf(s)}) = Cardinality(s) - 1 /\ Cardinality(s) \in Nat
      BY <3>1, LessOne
    <3> QED BY <2>3, <3>1, <3>2
  <2> DEFINE g == [s \in Small(m) |-> IF s = {} THEN 0 ELSE w[NextOf(s)] + h[s \ {NextOf(s)}]]
  <2>8. \A s \in Small(m - 1) : s \in Small(m)
    BY <1>1, <2>3
  <2>9. g \in [Small(m) -> Nat]
    <3>1. ASSUME NEW s \in Small(m), s # {} PROVE w[NextOf(s)] + h[s \ {NextOf(s)}] \in Nat
      BY <2>6, <2>7, <3>1 DEF Right
    <3> HIDE DEF Small
    <3> QED BY <3>1
  <2>10. \A s \in Small(m - 1) : g[s] = h[s]
    <3> HIDE DEF Small
    <3> QED BY <2>6, <2>8 DEF Right
  <2>11. \A s \in Small(m) : g[s] = IF s = {} THEN 0 ELSE w[NextOf(s)] + g[s \ {NextOf(s)}]
    <3> HIDE DEF Small
    <3> QED BY <2>7, <2>10
  <2>12. Right(m, g)
    <3> HIDE DEF Small, g
    <3> QED BY <2>9, <2>11 DEF Right
  <2> QED  BY <2>3, <2>12
<1>3. N \in 0..N /\ N \notin T
  <2> HIDE DEF T
  <2> QED  BY <1>1, <1>2
<1>4. PICK h : Right(N, h)
  BY <1>3
<1>5. Small(N) = SUBSET S
  BY <1>1
<1>6. Adds(w, S, h)
  <2> HIDE DEF Small
  <2>1. h = [s \in SUBSET S |-> h[s]]
    BY <1>4, <1>5
  <2> QED  BY <1>4, <1>5, <2>1 DEF Adds
<1> QED  BY <1>4, <1>5, <1>6 DEF SumsExist

\* The fold takes such a table, and the sum is its last entry.
LEMMA SumIs ==
  ASSUME NEW w, NEW S, IsFiniteSet(S), \A x \in S : w[x] \in Nat
  PROVE  \E h : Adds(w, S, h) /\ SumOver(w, S) = h[S]
<1>1. PICK g : Adds(w, S, g)
  BY PartialSums DEF SumsExist
<1> DEFINE h == CHOOSE f : Adds(w, S, f)
<1>2. Adds(w, S, h)
  BY <1>1
<1>3. SumOver(w, S) = h[S]
  BY DEF SumOver, MapThenSumSet, MapThenFoldSet, Adds, NextOf
<1> QED  BY <1>2, <1>3

\* Partial sums of two sums agree wherever both are defined.
LEMMA SumsAgree ==
  ASSUME NEW w, NEW S, NEW h, Adds(w, S, h), NEW v, NEW T, NEW g, Adds(v, T, g),
         NEW R, R \subseteq S, R \subseteq T, IsFiniteSet(R), \A x \in R : w[x] = v[x]
  PROVE  h[R] = g[R]
<1> DEFINE Bad == {k \in 0..Cardinality(R) : \E s \in SUBSET R : Cardinality(s) = k /\ h[s] # g[s]}
<1>1. ASSUME Bad # {} PROVE FALSE
  <2>1. Bad \subseteq Nat
    OBVIOUS
  <2>2. PICK m \in Bad : \A k \in Bad : m <= k
    BY <1>1, <2>1, LeastNatural
  <2>3. PICK s \in SUBSET R : Cardinality(s) = m /\ h[s] # g[s]
    BY <2>2
  <2>4. IsFiniteSet(s) /\ s \in SUBSET S /\ s \in SUBSET T
    BY FS_Subset
  <2>5. s # {}
    BY <2>3, <2>4 DEF Adds
  <2> DEFINE x == NextOf(s)
             r == s \ {x}
  <2>6. x \in s
    BY <2>5, NextIn
  <2>7. h[s] = w[x] + h[r] /\ g[s] = v[x] + g[r]
    BY <2>4, <2>5 DEF Adds
  <2>8. w[x] = v[x]
    BY <2>6
  <2>9. r \in SUBSET R /\ Cardinality(r) = m - 1 /\ m \in 0..Cardinality(R) /\ m > 0
    BY <2>3, <2>4, <2>6, LessOne
  <2>10. m - 1 \notin Bad /\ m - 1 \in 0..Cardinality(R)
    <3>1. Cardinality(R) \in Nat
      BY FS_CardinalityType
    <3>2. m - 1 \in 0..Cardinality(R) /\ ~ (m <= m - 1)
      BY <2>9, <3>1
    <3> HIDE DEF Bad
    <3> QED BY <2>2, <3>2
  <2>11. h[r] = g[r]
    BY <2>9, <2>10
  <2> QED  BY <2>3, <2>7, <2>8, <2>11
<1>2. Cardinality(R) \in Nat
  BY FS_CardinalityType
<1>3. Cardinality(R) \in 0..Cardinality(R) /\ Cardinality(R) \notin Bad
  <2> HIDE DEF Bad
  <2> QED  BY <1>1, <1>2
<1> QED  BY <1>3

\* A sum of naturals is a natural.
LEMMA SumNat ==
  ASSUME NEW w, NEW S, IsFiniteSet(S), \A x \in S : w[x] \in Nat
  PROVE  SumOver(w, S) \in Nat
<1>1. PICK h : Adds(w, S, h) /\ SumOver(w, S) = h[S]
  BY SumIs
<1>2. PICK g : Adds(w, S, g) /\ g \in [SUBSET S -> Nat]
  BY PartialSums DEF SumsExist
<1>3. h[S] = g[S]
  BY <1>1, <1>2, SumsAgree
<1> QED  BY <1>1, <1>2, <1>3

\* It depends on the summands only.
LEMMA SumEqual ==
  ASSUME NEW w, NEW v, NEW S, IsFiniteSet(S), \A x \in S : w[x] \in Nat /\ w[x] = v[x]
  PROVE  SumOver(w, S) = SumOver(v, S)
<1>1. PICK h : Adds(w, S, h) /\ SumOver(w, S) = h[S]
  BY SumIs
<1>2. PICK g : Adds(v, S, g) /\ SumOver(v, S) = g[S]
  BY SumIs
<1> QED  BY <1>1, <1>2, SumsAgree

\* Nothing sums to nothing.
LEMMA SumEmpty == \A w : SumOver(w, {}) = 0
<1>1. SUFFICES ASSUME NEW w PROVE SumOver(w, {}) = 0
  OBVIOUS
<1>2. PICK h : Adds(w, {}, h) /\ SumOver(w, {}) = h[{}]
  BY SumIs, FS_EmptySet
<1> QED  BY <1>2 DEF Adds

\* The sum, taken at the next member.
LEMMA SumNext ==
  ASSUME NEW w, NEW S, IsFiniteSet(S), \A x \in S : w[x] \in Nat, S # {}
  PROVE  SumOver(w, S) = w[NextOf(S)] + SumOver(w, S \ {NextOf(S)})
<1> DEFINE R == S \ {NextOf(S)}
<1>1. PICK h : Adds(w, S, h) /\ SumOver(w, S) = h[S]
  BY SumIs
<1>2. IsFiniteSet(R) /\ R \subseteq S
  BY FS_Subset
<1>3. PICK g : Adds(w, R, g) /\ SumOver(w, R) = g[R]
  BY <1>2, SumIs
<1>4. h[R] = g[R]
  BY <1>1, <1>2, <1>3, SumsAgree
<1>5. h[S] = w[NextOf(S)] + h[R]
  BY <1>1 DEF Adds
<1> QED  BY <1>1, <1>3, <1>4, <1>5

\* The sum, taken at any member: the order of the summands does not matter.
LEMMA SumPlus ==
  ASSUME NEW w, NEW S, IsFiniteSet(S), \A x \in S : w[x] \in Nat, NEW y \in S
  PROVE  SumOver(w, S) = w[y] + SumOver(w, S \ {y})
<1> DEFINE Holds(s, x) == SumOver(w, s) = w[x] + SumOver(w, s \ {x})
           Bad == {k \in 0..Cardinality(S) : \E s \in SUBSET S : Cardinality(s) = k /\ \E x \in s : ~Holds(s, x)}
<1>1. ASSUME Bad # {} PROVE FALSE
  <2>1. Bad \subseteq Nat
    OBVIOUS
  <2>2. PICK m \in Bad : \A k \in Bad : m <= k
    BY <1>1, <2>1, LeastNatural
  <2>3. PICK s \in SUBSET S : Cardinality(s) = m /\ \E x \in s : ~Holds(s, x)
    BY <2>2
  <2>4. PICK x \in s : ~Holds(s, x)
    BY <2>3
  <2> DEFINE c == NextOf(s)
  <2>5. IsFiniteSet(s) /\ s # {} /\ c \in s
    BY NextIn, FS_Subset
  <2>6. SumOver(w, s) = w[c] + SumOver(w, s \ {c})
    BY <2>5, SumNext
  <2>7. x # c
    BY <2>4, <2>6
  <2>8. ASSUME NEW y1 \in s, NEW z \in s, y1 # z
        PROVE  SumOver(w, s \ {y1}) = w[z] + SumOver(w, (s \ {y1}) \ {z})
    <3> DEFINE r == s \ {y1}
    <3>1. r \in SUBSET S /\ z \in r /\ Cardinality(r) = m - 1 /\ m \in 0..Cardinality(S) /\ m > 0
      BY <2>3, <2>5, <2>8, LessOne
    <3>2. m - 1 \in 0..Cardinality(S) /\ ~ (m <= m - 1)
      BY <3>1, FS_CardinalityType
    <3>3. m - 1 \notin Bad
      <4> HIDE DEF Bad
      <4> QED BY <2>2, <3>2
    <3>4. Holds(r, z)
      <4> HIDE DEF r, Holds
      <4> QED BY <3>1, <3>2, <3>3
    <3> QED BY <3>4
  <2>9. (s \ {c}) \ {x} = (s \ {x}) \ {c}
    OBVIOUS
  <2>10. IsFiniteSet((s \ {c}) \ {x}) /\ \A z \in (s \ {c}) \ {x} : w[z] \in Nat
    BY <2>5, FS_Subset
  <2> DEFINE rest == SumOver(w, (s \ {c}) \ {x})
  <2>11. rest \in Nat
    BY <2>10, SumNat
  <2>12. SumOver(w, s \ {c}) = w[x] + rest /\ SumOver(w, s \ {x}) = w[c] + rest
    <3> HIDE DEF c
    <3> QED BY <2>5, <2>7, <2>8, <2>9
  <2>13. w[x] \in Nat /\ w[c] \in Nat
    BY <2>5
  <2>14. SumOver(w, s) = w[x] + SumOver(w, s \ {x})
    <3> HIDE DEF c, rest
    <3> QED BY <2>6, <2>11, <2>12, <2>13
  <2> QED  BY <2>4, <2>14
<1>2. Cardinality(S) \in 0..Cardinality(S) /\ Cardinality(S) \notin Bad
  <2>1. Cardinality(S) \in Nat
    BY FS_CardinalityType
  <2> HIDE DEF Bad
  <2> QED  BY <1>1, <2>1
<1>3. Holds(S, y)
  <2> HIDE DEF Holds
  <2> QED  BY <1>2
<1> QED  BY <1>3

\* Where a member of a finite set stands in a strict total order of its members.
Below(S, R, i) == {j \in S : <<j, i>> \in R}
PlaceIn(S, R, i) == 1 + Cardinality(Below(S, R, i))
Orders(R, S) ==
  /\ \A i \in S : <<i, i>> \notin R
  /\ \A i, j \in S : i # j => <<i, j>> \in R \/ <<j, i>> \in R
  /\ \A i, j, k \in S : <<i, j>> \in R /\ <<j, k>> \in R => <<i, k>> \in R

\* Every place from the first to the last is taken, and what comes before stands before.
LEMMA Placing ==
  ASSUME NEW S, IsFiniteSet(S), NEW R, Orders(R, S)
  PROVE  /\ \A i \in S : PlaceIn(S, R, i) \in 1..Cardinality(S)
         /\ \A i, j \in S : <<i, j>> \in R <=> PlaceIn(S, R, i) < PlaceIn(S, R, j)
         /\ \A k \in 1..Cardinality(S) : \E i \in S : PlaceIn(S, R, i) = k
<1> DEFINE N == Cardinality(S)
<1>1. ASSUME NEW i \in S
      PROVE  /\ IsFiniteSet(Below(S, R, i)) /\ Cardinality(Below(S, R, i)) \in Nat
             /\ PlaceIn(S, R, i) \in 1..N
  <2> DEFINE B == Below(S, R, i)
  <2>1. B \in SUBSET (S \ {i})
    BY DEF Below, Orders
  <2>2. IsFiniteSet(S \ {i}) /\ Cardinality(S \ {i}) = N - 1 /\ N \in Nat
    BY FS_RemoveElement, FS_CardinalityType
  <2> HIDE DEF B
  <2>3. IsFiniteSet(B) /\ Cardinality(B) <= N - 1
    BY <2>1, <2>2, FS_Subset
  <2>4. Cardinality(B) \in Nat
    BY <2>3, FS_CardinalityType
  <2>5. 1 + Cardinality(B) \in 1..N
    BY <2>2, <2>3, <2>4
  <2> QED  BY <2>3, <2>4, <2>5 DEF PlaceIn, B
<1>2. ASSUME NEW i \in S, NEW j \in S, <<i, j>> \in R
      PROVE  PlaceIn(S, R, i) < PlaceIn(S, R, j)
  <2> DEFINE B == Below(S, R, i)
             C == Below(S, R, j)
  <2>1. B \cup {i} \in SUBSET C /\ i \notin B
    BY <1>2 DEF Below, Orders
  <2>2. IsFiniteSet(B) /\ IsFiniteSet(C) /\ Cardinality(B) \in Nat /\ Cardinality(C) \in Nat
    BY <1>1
  <2>3. PlaceIn(S, R, i) = 1 + Cardinality(B) /\ PlaceIn(S, R, j) = 1 + Cardinality(C)
    BY DEF PlaceIn
  <2> HIDE DEF B, C
  <2>4. Cardinality(B \cup {i}) = Cardinality(B) + 1
    BY <2>1, <2>2, FS_AddElement
  <2>5. Cardinality(B \cup {i}) <= Cardinality(C)
    BY <2>1, <2>2, FS_Subset
  <2> QED  BY <2>2, <2>3, <2>4, <2>5
<1>3. \A i \in S : PlaceIn(S, R, i) \in Nat
  BY <1>1, FS_CardinalityType
<1>4. \A i, j \in S : <<i, j>> \in R <=> PlaceIn(S, R, i) < PlaceIn(S, R, j)
  <2> SUFFICES ASSUME NEW i \in S, NEW j \in S
               PROVE  <<i, j>> \in R <=> PlaceIn(S, R, i) < PlaceIn(S, R, j)
    OBVIOUS
  <2>1. CASE <<i, j>> \in R
    BY <1>2, <2>1
  <2>2. CASE <<j, i>> \in R /\ <<i, j>> \notin R
    BY <1>2, <1>3, <2>2
  <2>3. CASE i = j /\ <<i, j>> \notin R
    BY <1>3, <2>3
  <2> QED  BY <2>1, <2>2, <2>3 DEF Orders
<1>5. \A k \in 1..N : \E i \in S : PlaceIn(S, R, i) = k
  <2> DEFINE f == [i \in S |-> PlaceIn(S, R, i)]
  <2>1. f \in [S -> 1..N]
    BY <1>1
  <2>2. \A i, j \in S : f[i] = f[j] => i = j
    BY <1>3, <1>4 DEF Orders
  <2>3. f \in Injection(S, 1..N)
    <3> HIDE DEF f
    <3> QED  BY <2>1, <2>2 DEF Injection, IsInjective
  <2>4. IsFiniteSet(1..N) /\ Cardinality(1..N) = N
    BY FS_CardinalityType, FS_Interval
  <2>5. f \in Surjection(S, 1..N)
    <3> HIDE DEF f
    <3> QED  BY <2>3, <2>4, FS_Injection
  <2>6. \A k \in 1..N : \E i \in S : f[i] = k
    <3> HIDE DEF f
    <3> QED  BY <2>5 DEF Surjection
  <2> QED  BY <2>6
<1> QED  BY <1>1, <1>4, <1>5

-----------------------------------------------------------------------------
(***************************************************************************)
(* The sections of the session memory (SessionMemory).                     *)
(***************************************************************************)

\* Items and the handle of a corpus.
AnyItems == [id : Nat, size : Nat, priority : Int]

LEMMA ItemsTyped == Items \subseteq AnyItems /\ Handle \in AnyItems
<1>1. UNION Range(Sizes) \subseteq Nat
  BY SessionMemoryAssumption DEF Range
<1>2. 1..MaxItems \subseteq Nat /\ Weights \cup {0} \subseteq Int /\ HandleSize \in Nat
  BY SessionMemoryAssumption
<1>3. Items \subseteq AnyItems
  <2> HIDE DEF Types
  <2> QED  BY <1>1, <1>2 DEF Items, AnyItems
<1>4. Handle \in AnyItems
  BY <1>2 DEF Handle, AnyItems
<1> QED  BY <1>3, <1>4

\* Running counts of tokens along a sequence of items.
Upto(s, m, P) ==
  /\ P \in [0..m -> Nat] /\ P[0] = 0
  /\ \A k \in 1..m : P[k] = P[k - 1] + s[k].size
Counts(s, P) == Upto(s, Len(s), P)

LEMMA CountsExist ==
  ASSUME NEW s \in Seq(AnyItems)
  PROVE  \E P : Counts(s, P)
<1> DEFINE T == {m \in 0..Len(s) : ~ \E P : Upto(s, m, P)}
<1>0. Len(s) \in Nat /\ \A k \in 1..Len(s) : s[k].size \in Nat
  <2>1. \A k \in 1..Len(s) : s[k] \in AnyItems
    OBVIOUS
  <2> QED  BY <2>1 DEF AnyItems
<1>1. ASSUME T # {} PROVE FALSE
  <2>1. T \subseteq Nat
    OBVIOUS
  <2>2. PICK m \in T : \A k \in T : m <= k
    BY <1>1, <2>1, LeastNatural
  <2>3. m \in 0..Len(s) /\ ~ \E P : Upto(s, m, P)
    OBVIOUS
  <2>4. m # 0
    <3>1. Upto(s, 0, [k \in 0..0 |-> 0])
      BY DEF Upto
    <3> QED  BY <2>3, <3>1
  <2>5. m - 1 \in 0..Len(s) /\ ~ (m <= m - 1)
    BY <1>0, <2>3, <2>4
  <2>6. PICK P : Upto(s, m - 1, P)
    <3> HIDE DEF T
    <3>1. m - 1 \notin T
      BY <2>2, <2>5
    <3> QED  BY <2>5, <3>1 DEF T
  <2> DEFINE Q == [k \in 0..m |-> IF k = m THEN P[m - 1] + s[m].size ELSE P[k]]
  <2>7. m \in Nat /\ m > 0 /\ s[m].size \in Nat /\ P \in [0..(m - 1) -> Nat]
    BY <1>0, <2>3, <2>4, <2>6 DEF Upto
  <2>8. Q \in [0..m -> Nat] /\ Q[0] = 0
    BY <2>6, <2>7 DEF Upto
  <2>9. ASSUME NEW k \in 1..m PROVE Q[k] = Q[k - 1] + s[k].size
    <3>1. CASE k = m
      BY <2>7, <3>1
    <3>2. CASE k # m
      <4>1. k \in 1..(m - 1) /\ k \in 0..m /\ k - 1 \in 0..m /\ k - 1 # m
        BY <2>7, <3>2
      <4> QED  BY <2>6, <3>2, <4>1 DEF Upto
    <3> QED  BY <3>1, <3>2
  <2>10. Upto(s, m, Q)
    <3> HIDE DEF Q
    <3> QED  BY <2>8, <2>9 DEF Upto
  <2> QED  BY <2>3, <2>10
<1>2. Len(s) \in 0..Len(s) /\ Len(s) \notin T
  <2> HIDE DEF T
  <2> QED  BY <1>0, <1>1
<1> QED  BY <1>2 DEF Counts

\* Two counts agree as far as the sizes do.
LEMMA CountsAgree ==
  ASSUME NEW s, NEW t, NEW a \in Nat, NEW b \in Nat, NEW P, NEW Q, Upto(s, a, P), Upto(t, b, Q),
         NEW m \in Nat, m <= a, m <= b, \A k \in 1..m : s[k].size = t[k].size
  PROVE  P[m] = Q[m]
<1> DEFINE T == {k \in 0..m : P[k] # Q[k]}
<1>1. ASSUME T # {} PROVE FALSE
  <2>1. T \subseteq Nat
    OBVIOUS
  <2>2. PICK l \in T : \A k \in T : l <= k
    BY <1>1, <2>1, LeastNatural
  <2>3. l \in 0..m /\ P[l] # Q[l]
    OBVIOUS
  <2>4. l # 0
    BY <2>3 DEF Upto
  <2>5. l - 1 \in 0..m /\ ~ (l <= l - 1) /\ l \in 1..m /\ l \in 1..a /\ l \in 1..b
    BY <2>3, <2>4
  <2>6. P[l - 1] = Q[l - 1]
    BY <2>2, <2>5
  <2>7. P[l] = P[l - 1] + s[l].size /\ Q[l] = Q[l - 1] + t[l].size /\ s[l].size = t[l].size
    <3> HIDE DEF T
    <3> QED  BY <2>5 DEF Upto
  <2> QED  BY <2>3, <2>6, <2>7
<1> QED  BY <1>1

\* The tokens of a sequence are the last of its counts.
LEMMA TokensAre ==
  ASSUME NEW s \in Seq(AnyItems), NEW P, Counts(s, P)
  PROVE  Tokens(s) = P[Len(s)] /\ Tokens(s) \in Nat
<1> DEFINE Same(h) == h = [k \in 0..Len(s) |-> IF k = 0 THEN 0 ELSE h[k - 1] + s[k].size]
           h1 == CHOOSE h : Same(h)
<1>0. Len(s) \in Nat
  OBVIOUS
<1>1. Same(P)
  <2>1. P \in [0..Len(s) -> Nat] /\ \A k \in 0..Len(s) : P[k] = IF k = 0 THEN 0 ELSE P[k - 1] + s[k].size
    BY <1>0 DEF Counts, Upto
  <2> QED  BY <2>1
<1>2. Same(h1)
  <2> HIDE DEF Same
  <2> QED  BY <1>1
<1>3. Tokens(s) = h1[Len(s)]
  BY DEF Tokens
<1> HIDE DEF h1
<1>4. h1[0] = 0 /\ \A k \in 1..Len(s) : h1[k] = h1[k - 1] + s[k].size
  BY <1>0, <1>2
<1>5. \A k \in 0..Len(s) : h1[k] = P[k]
  <2> DEFINE T == {k \in 0..Len(s) : h1[k] # P[k]}
  <2>1. ASSUME T # {} PROVE FALSE
    <3>1. T \subseteq Nat
      BY <1>0
    <3>2. PICK l \in T : \A k \in T : l <= k
      BY <2>1, <3>1, LeastNatural
    <3>3. l # 0
      BY <1>4 DEF Counts, Upto
    <3>4. l - 1 \in 0..Len(s) /\ ~ (l <= l - 1) /\ l \in 1..Len(s)
      BY <1>0, <3>3
    <3>5. h1[l - 1] = P[l - 1]
      BY <3>2, <3>4
    <3>6. h1[l] = P[l]
      <4> HIDE DEF T, Same
      <4> QED  BY <1>4, <3>4, <3>5 DEF Counts, Upto
    <3> QED  BY <3>6
  <2> QED  BY <2>1
<1>6. P[Len(s)] \in Nat
  BY <1>0 DEF Counts, Upto
<1> QED  BY <1>0, <1>3, <1>5, <1>6

LEMMA NoTokens == Tokens(<<>>) = 0
<1>1. <<>> \in Seq(AnyItems) /\ Len(<<>>) = 0
  OBVIOUS
<1>2. PICK P : Counts(<<>>, P)
  BY <1>1, CountsExist
<1>3. Tokens(<<>>) = P[0]
  BY <1>1, <1>2, TokensAre
<1> QED  BY <1>2, <1>3 DEF Counts, Upto

LEMMA TokensNat == \A s \in Seq(AnyItems) : Tokens(s) \in Nat
BY CountsExist, TokensAre

\* Tokens add up.
LEMMA TokensConcat ==
  ASSUME NEW s \in Seq(AnyItems), NEW t \in Seq(AnyItems)
  PROVE  Tokens(s \o t) = Tokens(s) + Tokens(t)
<1> DEFINE both == s \o t
           m == Len(s)
           l == Len(t)
<1>1. /\ both \in Seq(AnyItems) /\ Len(both) = m + l /\ m \in Nat /\ l \in Nat
      /\ \A i \in 1..(m + l) : both[i] = IF i <= m THEN s[i] ELSE t[i - m]
  BY ConcatProperties
<1>2. PICK P : Counts(s, P)
  BY CountsExist
<1>3. PICK R : Counts(t, R)
  BY CountsExist
<1> DEFINE Q == [k \in 0..(m + l) |-> IF k <= m THEN P[k] ELSE P[m] + R[k - m]]
<1> HIDE DEF both, m, l
<1>4. Upto(s, m, P) /\ Upto(t, l, R) /\ Tokens(s) = P[m] /\ Tokens(t) = R[l]
  BY <1>2, <1>3, TokensAre DEF Counts, m, l
<1>5. /\ P \in [0..m -> Nat] /\ P[0] = 0 /\ \A k \in 1..m : P[k] = P[k - 1] + s[k].size
      /\ R \in [0..l -> Nat] /\ R[0] = 0 /\ \A k \in 1..l : R[k] = R[k - 1] + t[k].size
  BY <1>4 DEF Upto
<1>6. Q \in [0..(m + l) -> Nat] /\ Q[0] = 0
  <2>1. ASSUME NEW k \in 0..(m + l) PROVE (IF k <= m THEN P[k] ELSE P[m] + R[k - m]) \in Nat
    <3>1. CASE k <= m
      BY <1>1, <1>5, <3>1
    <3>2. CASE ~ (k <= m)
      <4>1. k - m \in 0..l /\ m \in 0..m
        BY <1>1, <3>2
      <4> QED  BY <1>5, <3>2, <4>1
    <3> QED  BY <3>1, <3>2
  <2> QED  BY <1>1, <1>5, <2>1
<1>7. ASSUME NEW k \in 1..(m + l) PROVE Q[k] = Q[k - 1] + both[k].size
  <2>1. CASE k <= m
    <3>1. k \in 1..m /\ k - 1 <= m /\ k - 1 \in 0..(m + l) /\ k \in 0..(m + l)
      BY <1>1, <2>1
    <3>2. both[k] = s[k]
      BY <1>1, <2>1
    <3> QED  BY <1>5, <2>1, <3>1, <3>2
  <2>2. CASE k = m + 1
    <3>0. k <= m + l /\ l >= 1
      BY <1>1, <2>2
    <3>1. k - 1 <= m /\ ~ (k <= m) /\ k - m = 1 /\ k - 1 = m /\ 1 \in 1..l /\ k \in 0..(m + l) /\ k - 1 \in 0..(m + l)
      BY <1>1, <2>2, <3>0
    <3>2. Q[k] = P[m] + R[1] /\ Q[k - 1] = P[m] /\ both[k] = t[1]
      BY <1>1, <3>1
    <3>3. R[1] = R[0] + t[1].size /\ R[1] \in Nat /\ R[0] = 0
      <4>1. 1 - 1 = 0 /\ 1 \in 0..l
        BY <1>1, <3>0
      <4>2. R[1] = R[1 - 1] + t[1].size
        BY <1>5, <3>1
      <4> QED  BY <1>5, <4>1, <4>2
    <3>4. t[1].size \in Nat
      <4>1. t[1] \in AnyItems
        BY <3>1 DEF l
      <4> QED  BY <4>1 DEF AnyItems
    <3> QED  BY <3>2, <3>3, <3>4
  <2>3. CASE k > m + 1
    <3>1. /\ ~ (k <= m) /\ ~ (k - 1 <= m) /\ k - m \in 1..l /\ (k - 1) - m = (k - m) - 1
          /\ k \in 0..(m + l) /\ k - 1 \in 0..(m + l)
      BY <1>1, <2>3
    <3>2. Q[k] = P[m] + R[k - m] /\ Q[k - 1] = P[m] + R[(k - m) - 1] /\ both[k] = t[k - m]
      BY <1>1, <3>1
    <3>3. R[k - m] = R[(k - m) - 1] + t[k - m].size
      BY <1>5, <3>1
    <3>4. P[m] \in Nat /\ R[(k - m) - 1] \in Nat /\ t[k - m].size \in Nat
      <4>1. (k - m) - 1 \in 0..l /\ m \in 0..m
        BY <1>1, <3>1
      <4>2. t[k - m] \in AnyItems
        BY <3>1 DEF l
      <4> QED  BY <1>5, <4>1, <4>2 DEF AnyItems
    <3> QED  BY <3>2, <3>3, <3>4
  <2> QED  BY <1>1, <2>1, <2>2, <2>3
<1>8. Counts(both, Q)
  <2> HIDE DEF Q
  <2> QED  BY <1>1, <1>6, <1>7 DEF Counts, Upto
<1>9. Tokens(both) = Q[m + l]
  <2> HIDE DEF Q
  <2> QED  BY <1>1, <1>8, TokensAre
<1>10. Q[m + l] = P[m] + R[l]
  <2>1. CASE l = 0
    <3>1. Q[m + l] = P[m] /\ P[m] \in Nat
      BY <1>1, <1>5, <2>1
    <3> QED  BY <1>5, <2>1, <3>1
  <2>2. CASE l # 0
    BY <1>1, <2>2
  <2> QED  BY <2>1, <2>2
<1> QED  BY <1>4, <1>9, <1>10 DEF both

\* One item.
LEMMA TokensOfOne == \A x \in AnyItems : Tokens(<<x>>) = x.size
<1> SUFFICES ASSUME NEW x \in AnyItems PROVE Tokens(<<x>>) = x.size
  OBVIOUS
<1>1. <<x>> \in Seq(AnyItems) /\ Len(<<x>>) = 1 /\ <<x>>[1] = x
  OBVIOUS
<1>2. x.size \in Nat
  BY DEF AnyItems
<1> DEFINE P == [k \in 0..1 |-> IF k = 0 THEN 0 ELSE x.size]
<1>3. Upto(<<x>>, 1, P)
  <2>1. P \in [0..1 -> Nat] /\ P[0] = 0 /\ P[1] = x.size
    BY <1>2
  <2>2. \A k \in 1..1 : k = 1 /\ k - 1 = 0
    OBVIOUS
  <2> HIDE DEF P
  <2> QED  BY <1>1, <1>2, <2>1, <2>2 DEF Upto
<1>4. Tokens(<<x>>) = P[1]
  <2> HIDE DEF P
  <2> QED  BY <1>1, <1>3, TokensAre DEF Counts
<1> QED  BY <1>4

LEMMA TokensAppend ==
  ASSUME NEW s \in Seq(AnyItems), NEW x \in AnyItems
  PROVE  Tokens(Append(s, x)) = Tokens(s) + x.size
<1>1. Append(s, x) = s \o <<x>> /\ <<x>> \in Seq(AnyItems)
  BY AppendIsConcat
<1>2. Tokens(s \o <<x>>) = Tokens(s) + Tokens(<<x>>)
  BY <1>1, TokensConcat
<1> QED  BY <1>1, <1>2, TokensOfOne

\* A sequence in two parts.
LEMMA TokensCut ==
  ASSUME NEW s \in Seq(AnyItems), NEW m \in 0..Len(s)
  PROVE  /\ SubSeq(s, 1, m) \in Seq(AnyItems) /\ SubSeq(s, m + 1, Len(s)) \in Seq(AnyItems)
         /\ Tokens(SubSeq(s, 1, m)) + Tokens(SubSeq(s, m + 1, Len(s))) = Tokens(s)
         /\ Tokens(SubSeq(s, 1, m)) \in Nat /\ Tokens(SubSeq(s, m + 1, Len(s))) \in Nat
<1>0. Len(s) \in Nat /\ m \in Nat
  OBVIOUS
<1>1. SubSeq(s, 1, m) \in Seq(AnyItems) /\ SubSeq(s, m + 1, Len(s)) \in Seq(AnyItems)
  OBVIOUS
<1>2. SubSeq(s, 1, m) \o SubSeq(s, m + 1, Len(s)) = s
  <2>1. 1 \in 1..(Len(s) + 1) /\ m \in (1 - 1)..Len(s) /\ Len(s) \in m..Len(s)
    BY <1>0
  <2>2. SubSeq(s, 1, m) \o SubSeq(s, m + 1, Len(s)) = SubSeq(s, 1, Len(s))
    BY <2>1, ConcatAdjacentSubSeq
  <2> QED  BY <2>2, SubSeqFull
<1> QED  BY <1>1, <1>2, TokensConcat, TokensNat

\* What is left without the item in place k.
LEMMA RemovedAt ==
  ASSUME NEW S, NEW s \in Seq(S), NEW k \in DOMAIN s
  PROVE  /\ RemoveAt(s, k) \in Seq(S) /\ Len(RemoveAt(s, k)) = Len(s) - 1
         /\ \A j \in 1..(Len(s) - 1) : RemoveAt(s, k)[j] = IF j < k THEN s[j] ELSE s[j + 1]
<1> DEFINE a == SubSeq(s, 1, k - 1)
           b == SubSeq(s, k + 1, Len(s))
<1>1. k \in 1..Len(s) /\ Len(s) \in Nat
  OBVIOUS
<1>2. a \in Seq(S) /\ Len(a) = k - 1 /\ \A i \in 1..(k - 1) : a[i] = s[i]
  BY <1>1, SubSeqProperties
<1>3. b \in Seq(S) /\ Len(b) = Len(s) - k /\ \A i \in 1..(Len(s) - k) : b[i] = s[k + i]
  <2>1. \A i \in (k + 1)..Len(s) : s[i] \in S
    BY <1>1
  <2>2. /\ b \in Seq(S) /\ Len(b) = IF k + 1 <= Len(s) THEN Len(s) - (k + 1) + 1 ELSE 0
        /\ \A i \in 1..(Len(s) - (k + 1) + 1) : b[i] = s[(k + 1) + i - 1]
    BY <1>1, <2>1, SubSeqProperties
  <2>3. Len(s) - (k + 1) + 1 = Len(s) - k
    BY <1>1
  <2>4. \A i \in 1..(Len(s) - k) : (k + 1) + i - 1 = k + i
    BY <1>1
  <2> HIDE DEF b
  <2> QED  BY <1>1, <2>2, <2>3, <2>4
<1>4. RemoveAt(s, k) = a \o b
  BY DEF RemoveAt
<1> HIDE DEF a, b
<1>5. /\ a \o b \in Seq(S) /\ Len(a \o b) = Len(a) + Len(b)
      /\ \A i \in 1..(Len(a) + Len(b)) : (a \o b)[i] = IF i <= Len(a) THEN a[i] ELSE b[i - Len(a)]
  BY <1>2, <1>3, ConcatProperties
<1>6. Len(a) + Len(b) = Len(s) - 1
  BY <1>1, <1>2, <1>3
<1>7. ASSUME NEW j \in 1..(Len(s) - 1) PROVE (a \o b)[j] = IF j < k THEN s[j] ELSE s[j + 1]
  <2>1. CASE j < k
    <3>1. j <= k - 1 /\ j \in 1..(k - 1)
      BY <1>1, <2>1
    <3> QED  BY <1>2, <1>5, <1>6, <2>1, <3>1
  <2>2. CASE ~ (j < k)
    <3>1. ~ (j <= k - 1) /\ j - (k - 1) \in 1..(Len(s) - k) /\ k + (j - (k - 1)) = j + 1
      BY <1>1, <2>2
    <3> QED  BY <1>2, <1>3, <1>5, <1>6, <2>2, <3>1
  <2> QED  BY <2>1, <2>2
<1> QED  BY <1>4, <1>5, <1>6, <1>7

LEMMA TokensRemoved ==
  ASSUME NEW s \in Seq(AnyItems), NEW k \in DOMAIN s
  PROVE  Tokens(RemoveAt(s, k)) = Tokens(s) - s[k].size /\ s[k].size \in Nat
<1> DEFINE a == SubSeq(s, 1, k - 1)
           b == SubSeq(s, k + 1, Len(s))
           c == SubSeq(s, 1, k)
<1>1. k \in 1..Len(s) /\ Len(s) \in Nat /\ k \in 0..Len(s) /\ k - 1 \in 0..Len(s) /\ s[k] \in AnyItems
  OBVIOUS
<1>2. a \in Seq(AnyItems) /\ b \in Seq(AnyItems) /\ Tokens(c) + Tokens(b) = Tokens(s)
      /\ Tokens(b) \in Nat /\ Tokens(a) \in Nat
  BY <1>1, TokensCut
<1>3. c = a \o <<s[k]>>
  <2>1. 1 \in 1..Len(s) /\ k \in 1..Len(s)
    BY <1>1
  <2> QED  BY <2>1, SubSeqRecursiveSecond
<1>4. <<s[k]>> \in Seq(AnyItems) /\ Tokens(<<s[k]>>) = s[k].size /\ s[k].size \in Nat
  BY <1>1, TokensOfOne DEF AnyItems
<1>5. Tokens(c) = Tokens(a) + s[k].size
  <2> HIDE DEF a, c
  <2> QED  BY <1>2, <1>3, <1>4, TokensConcat
<1>6. Tokens(RemoveAt(s, k)) = Tokens(a) + Tokens(b)
  <2>1. RemoveAt(s, k) = a \o b
    BY DEF RemoveAt
  <2> HIDE DEF a, b
  <2> QED  BY <1>2, <2>1, TokensConcat
<1> HIDE DEF a, b, c
<1> QED  BY <1>2, <1>4, <1>5, <1>6

\* A section as its operations leave it: ids in the order of arrival and up to m, the count
\* that of the items, and what it tracks about its own items and of the reads up to r.
Increasing(s) == \A i, j \in DOMAIN s : i < j => s[i].id < s[j].id

IsSection(q) ==
  /\ q = [items |-> q.items, tokens |-> q.tokens, uses |-> q.uses, last |-> q.last]
  /\ q.items \in Seq(Items)
  /\ q.uses \in [DOMAIN q.uses -> Nat] /\ q.last \in [DOMAIN q.last -> Nat]

HeldSection(q, m, r) ==
  /\ IsSection(q)
  /\ q.tokens = Tokens(q.items)
  /\ Increasing(q.items) /\ \A i \in DOMAIN q.items : q.items[i].id <= m
  /\ DOMAIN q.uses \cup DOMAIN q.last \subseteq Ids(q.items)
  /\ \A i \in DOMAIN q.uses : q.uses[i] \in 1..r
  /\ \A i \in DOMAIN q.last : q.last[i] \in 1..r

\* x is what the policy gives up sooner than k.
NoDearer(policy, q, x, k) ==
  CASE policy = "fifo" -> x.id < k.id
    [] policy = "lifo" -> x.id > k.id
    [] policy = "lru" -> Tracked(q.last, x.id) <= Tracked(q.last, k.id)
    [] policy = "lfu" -> Tracked(q.uses, x.id) <= Tracked(q.uses, k.id)
    [] policy = "priority" -> x.priority <= k.priority
    [] OTHER -> FALSE

\* e is q without some of its items, those worth least to the policy.
Thinner(policy, q, e) ==
  /\ Range(e.items) \subseteq Range(q.items)
  /\ \A i \in Ids(e.items) : /\ Tracked(e.uses, i) = Tracked(q.uses, i)
                             /\ Tracked(e.last, i) = Tracked(q.last, i)
  /\ \A x \in Range(q.items) \ Range(e.items), k \in Range(e.items) : NoDearer(policy, q, x, k)
  /\ policy \in {"none", "refuse"} => e = q

Evicting == Policies \ {"none", "refuse"}

\* One of n numbers is the least.
LEMMA LeastPlace ==
  ASSUME NEW m \in Nat, m > 0, NEW f, \A k \in 1..m : f[k] \in Int
  PROVE  \E k \in 1..m : \A j \in 1..m : f[k] <= f[j]
<1> DEFINE Has(l) == \E k \in 1..l : \A j \in 1..l : f[k] <= f[j]
           T == {l \in 1..m : ~Has(l)}
<1>1. ASSUME T # {} PROVE FALSE
  <2>1. T \subseteq Nat
    OBVIOUS
  <2>2. PICK l \in T : \A k \in T : l <= k
    BY <1>1, <2>1, LeastNatural
  <2>3. l \in 1..m /\ ~Has(l)
    OBVIOUS
  <2>4. l # 1
    <3>1. Has(1)
      <4>1. \A j \in 1..1 : j = 1
        OBVIOUS
      <4>2. 1 \in 1..1 /\ f[1] \in Int
        OBVIOUS
      <4>3. \A j \in 1..1 : f[1] <= f[j]
        BY <4>1, <4>2
      <4> QED  BY <4>2, <4>3
    <3> HIDE DEF Has
    <3> QED  BY <2>3, <3>1
  <2>5. l - 1 \in 1..m /\ ~ (l <= l - 1)
    BY <2>3, <2>4
  <2>6. Has(l - 1)
    <3> HIDE DEF Has, T
    <3>1. l - 1 \notin T
      BY <2>2, <2>5
    <3> QED  BY <2>5, <3>1 DEF T
  <2>7. PICK k \in 1..(l - 1) : \A j \in 1..(l - 1) : f[k] <= f[j]
    BY <2>6
  <2>8. f[k] \in Int /\ f[l] \in Int /\ k \in 1..l /\ l \in 1..l /\ \A j \in 1..l : j \in 1..(l - 1) \/ j = l
    BY <2>3, <2>7
  <2>9. CASE f[k] <= f[l]
    <3>1. \A j \in 1..l : f[k] <= f[j]
      BY <2>7, <2>8, <2>9
    <3> QED  BY <2>3, <2>8, <3>1
  <2>10. CASE ~ (f[k] <= f[l])
    <3>1. ASSUME NEW j \in 1..l PROVE f[l] <= f[j]
      <4>1. CASE j = l
        BY <2>8, <4>1
      <4>2. CASE j \in 1..(l - 1)
        <5>1. f[k] <= f[j] /\ f[j] \in Int
          BY <2>3, <2>7, <4>2
        <5> QED  BY <2>8, <2>10, <5>1
      <4> QED  BY <2>8, <4>1, <4>2
    <3> QED  BY <2>3, <2>8, <3>1
  <2> QED  BY <2>9, <2>10
<1>2. m \in 1..m /\ m \notin T
  <2> HIDE DEF T
  <2> QED  BY <1>1
<1> QED  BY <1>2

\* The items of a section, and what it tracks of them.
LEMMA ItemOf ==
  ASSUME NEW q, IsSection(q), NEW k \in DOMAIN q.items
  PROVE  /\ q.items[k] \in Items /\ q.items[k] \in Range(q.items) /\ q.items[k].id \in Ids(q.items)
         /\ q.items[k].id \in Nat /\ q.items[k].id \in 1..MaxItems
         /\ q.items[k].size \in Nat /\ q.items[k].priority \in Int
<1>1. q.items[k] \in Items
  BY DEF IsSection
<1>2. q.items[k] \in AnyItems
  BY <1>1, ItemsTyped
<1>3. q.items[k].id \in 1..MaxItems
  BY <1>1 DEF Items
<1> QED  BY <1>1, <1>2, <1>3 DEF AnyItems, Range, Ids

LEMMA TrackedNat ==
  ASSUME NEW q, IsSection(q), NEW i
  PROVE  Tracked(q.uses, i) \in Nat /\ Tracked(q.last, i) \in Nat
BY DEF IsSection, Tracked

\* Two items of a section are told apart by their ids.
LEMMA IdsApart ==
  ASSUME NEW q, IsSection(q), Increasing(q.items),
         NEW x \in Range(q.items), NEW y \in Range(q.items), x.id = y.id
  PROVE  x = y
<1>1. PICK i \in DOMAIN q.items : x = q.items[i]
  BY DEF Range
<1>2. PICK j \in DOMAIN q.items : y = q.items[j]
  BY DEF Range
<1>3. i \in Nat /\ j \in Nat /\ x.id \in Nat /\ y.id \in Nat
  <2>1. DOMAIN q.items = 1..Len(q.items)
    BY DEF IsSection
  <2> QED  BY <1>1, <1>2, <2>1, ItemOf
<1>4. ~ (i < j) /\ ~ (j < i)
  BY <1>1, <1>2, <1>3 DEF Increasing
<1> QED  BY <1>1, <1>2, <1>3, <1>4

\* What a policy gives up first is in the section, and worth no more than the rest of it.
LEMMA VictimIs ==
  ASSUME NEW q, IsSection(q), Increasing(q.items), q.items # <<>>, NEW policy \in Evicting
  PROVE  /\ Victim(policy, q) \in DOMAIN q.items
         /\ \A j \in DOMAIN q.items : j # Victim(policy, q) =>
              NoDearer(policy, q, q.items[Victim(policy, q)], q.items[j])
<1> DEFINE s == q.items
           v == Victim(policy, q)
           N == Len(s)
<1>1. DOMAIN s = 1..N /\ N \in Nat /\ N > 0
  <2>1. s \in Seq(Items) /\ s # <<>>
    BY DEF IsSection
  <2> HIDE DEF s
  <2> QED  BY <2>1
<1>2. \A j \in 1..N : s[j].id \in Nat
  BY <1>1, ItemOf
<1>3. CASE policy = "fifo"
  <2>1. v = 1
    BY <1>3 DEF Victim
  <2>2. \A j \in DOMAIN s : j # 1 => 1 < j
    BY <1>1
  <2>3. \A j \in DOMAIN s : j # 1 => s[1].id < s[j].id
    BY <1>1, <2>2 DEF Increasing
  <2> HIDE DEF s, v
  <2> QED  BY <1>1, <1>3, <2>1, <2>3 DEF NoDearer, s, v
<1>4. CASE policy = "lifo"
  <2>1. v = N
    BY <1>4 DEF Victim
  <2>2. \A j \in DOMAIN s : j # N => j < N
    BY <1>1
  <2>3. \A j \in DOMAIN s : j # N => s[j].id < s[N].id
    BY <1>1, <2>2 DEF Increasing
  <2>4. \A j \in DOMAIN s : j # N => s[N].id > s[j].id
    <3> HIDE DEF s, N
    <3> QED  BY <1>1, <1>2, <2>3
  <2> HIDE DEF s, v, N
  <2> QED  BY <1>1, <1>4, <2>1, <2>4 DEF NoDearer, s, v
<1>5. CASE policy \in {"lru", "lfu", "priority"}
  <2> DEFINE w == [k \in 1..N |-> Worth(policy, q, s[k])]
             T == {k \in DOMAIN s : \A j \in DOMAIN s : Worth(policy, q, s[k]) <= Worth(policy, q, s[j])}
  <2>1. v = Min(T)
    BY <1>5 DEF Victim
  <2>2. ASSUME NEW k \in 1..N PROVE w[k] \in Int
    <3>1. s[k].priority \in Int /\ Tracked(q.uses, s[k].id) \in Nat /\ Tracked(q.last, s[k].id) \in Nat
      BY <1>1, ItemOf, TrackedNat
    <3>2. Worth(policy, q, s[k]) \in Int
      BY <1>5, <3>1 DEF Worth
    <3> QED  BY <3>2
  <2>3. PICK k \in 1..N : \A j \in 1..N : w[k] <= w[j]
    <3> HIDE DEF w, N
    <3> QED  BY <1>1, <2>2, LeastPlace
  <2>4. k \in T
    <3> HIDE DEF N, s
    <3> QED  BY <1>1, <2>3
  <2>5. T \subseteq Nat /\ T # {}
    <3> HIDE DEF s, N
    <3>1. T \subseteq DOMAIN s
      OBVIOUS
    <3> HIDE DEF T
    <3> QED  BY <1>1, <2>4, <3>1
  <2>6. v \in T
    <3> HIDE DEF T, v
    <3> QED  BY <2>1, <2>5, MinOfNaturals
  <2>7. v \in DOMAIN s /\ \A j \in DOMAIN s : Worth(policy, q, s[v]) <= Worth(policy, q, s[j])
    <3> HIDE DEF v, s
    <3> QED  BY <2>6
  <2>8. \A j \in DOMAIN s : NoDearer(policy, q, s[v], s[j])
    <3> HIDE DEF v, s
    <3>1. policy = "lru" \/ policy = "lfu" \/ policy = "priority"
      BY <1>5
    <3> QED  BY <2>7, <3>1 DEF Worth, NoDearer
  <2> QED  BY <2>7, <2>8
<1>6. policy = "fifo" \/ policy = "lifo" \/ policy \in {"lru", "lfu", "priority"}
  BY DEF Evicting, Policies
<1> QED  BY <1>3, <1>4, <1>5, <1>6

\* What remains of the items when one is removed.
LEMMA RemovedRange ==
  ASSUME NEW q, IsSection(q), Increasing(q.items), NEW k \in DOMAIN q.items
  PROVE  LET s == RemoveAt(q.items, k) IN
         /\ s \in Seq(Items) /\ Len(s) = Len(q.items) - 1 /\ Len(q.items) \in Nat
         /\ Increasing(s)
         /\ Range(s) = Range(q.items) \ {q.items[k]}
         /\ \A i \in DOMAIN s : s[i] \in Range(q.items)
<1> DEFINE s == q.items
           u == RemoveAt(s, k)
           N == Len(s)
<1>1. s \in Seq(Items) /\ DOMAIN s = 1..N /\ N \in Nat /\ k \in 1..N
  BY DEF IsSection
<1>2. /\ u \in Seq(Items) /\ Len(u) = N - 1 /\ DOMAIN u = 1..(N - 1)
      /\ \A j \in 1..(N - 1) : u[j] = IF j < k THEN s[j] ELSE s[j + 1]
  <2>1. u \in Seq(Items) /\ Len(u) = N - 1 /\ \A j \in 1..(N - 1) : u[j] = IF j < k THEN s[j] ELSE s[j + 1]
    BY <1>1, RemovedAt
  <2> HIDE DEF u
  <2> QED  BY <2>1
<1>3. \A i, j \in DOMAIN s : i < j => s[i].id < s[j].id
  BY DEF Increasing
<1>4. \A j \in 1..N : s[j].id \in Nat
  BY <1>1, ItemOf
<1> HIDE DEF s, u, N
<1>5. ASSUME NEW i \in 1..(N - 1), NEW j \in 1..(N - 1), i < j PROVE u[i].id < u[j].id
  <2> DEFINE a == IF i < k THEN i ELSE i + 1
             b == IF j < k THEN j ELSE j + 1
  <2>1. a \in 1..N /\ b \in 1..N /\ a < b
    BY <1>1, <1>5
  <2>2. u[i] = s[a] /\ u[j] = s[b]
    BY <1>2
  <2> HIDE DEF a, b
  <2> QED  BY <1>1, <1>3, <2>1, <2>2
<1>6. Increasing(u)
  BY <1>2, <1>5 DEF Increasing
<1>7. ASSUME NEW j \in 1..(N - 1) PROVE u[j] \in Range(s) \ {s[k]}
  <2> DEFINE b == IF j < k THEN j ELSE j + 1
  <2>1. b \in 1..N /\ b # k /\ u[j] = s[b]
    BY <1>1, <1>2
  <2> HIDE DEF b
  <2>2. s[b].id # s[k].id
    <3>1. b < k \/ k < b
      BY <1>1, <2>1
    <3>2. s[b].id < s[k].id \/ s[k].id < s[b].id
      BY <1>1, <1>3, <2>1, <3>1
    <3> QED  BY <1>1, <1>4, <2>1, <3>2
  <2> QED  BY <1>1, <2>1, <2>2 DEF Range
<1>8. ASSUME NEW x \in Range(s) \ {s[k]} PROVE x \in Range(u)
  <2>1. PICK b \in 1..N : x = s[b]
    BY <1>1 DEF Range
  <2>2. b # k
    BY <2>1
  <2> DEFINE j == IF b < k THEN b ELSE b - 1
  <2>3. j \in 1..(N - 1) /\ (IF j < k THEN j ELSE j + 1) = b
    BY <1>1, <2>2
  <2> HIDE DEF j
  <2>4. u[j] = x
    BY <1>2, <2>1, <2>3
  <2> QED  BY <1>2, <2>3, <2>4 DEF Range
<1>9. Range(u) = Range(s) \ {s[k]}
  <2>1. Range(u) \subseteq Range(s) \ {s[k]}
    BY <1>2, <1>7 DEF Range
  <2> QED  BY <1>8, <2>1
<1> QED  BY <1>1, <1>2, <1>6, <1>7, <1>9 DEF s, u, N

LEMMA ThinnerSame ==
  ASSUME NEW q, NEW policy PROVE Thinner(policy, q, q)
BY DEF Thinner

\* One item is given up.
LEMMA EvictOneSound ==
  ASSUME NEW q, NEW m, NEW r, HeldSection(q, m, r), NEW policy \in Policies
  PROVE  LET e == EvictOne(policy, q) IN
         /\ HeldSection(e, m, r) /\ Thinner(policy, q, e)
         /\ policy \in Evicting /\ q.items # <<>> =>
              /\ Len(e.items) = Len(q.items) - 1
              /\ \E x \in Range(q.items) \ Range(e.items) : e.tokens = q.tokens - x.size
         /\ policy \notin Evicting \/ q.items = <<>> => e = q
<1> DEFINE e == EvictOne(policy, q)
<1>1. CASE policy \notin Evicting \/ q.items = <<>>
  <2>1. e = q
    BY <1>1 DEF EvictOne, Evicting
  <2> HIDE DEF e
  <2> QED  BY <1>1, <2>1, ThinnerSame DEF e
<1>2. CASE policy \in Evicting /\ q.items # <<>>
  <2>1. IsSection(q) /\ Increasing(q.items)
    BY DEF HeldSection
  <2> DEFINE v == Victim(policy, q)
             item == q.items[v]
             u == RemoveAt(q.items, v)
  <2>2. /\ v \in DOMAIN q.items
        /\ \A j \in DOMAIN q.items : j # v => NoDearer(policy, q, item, q.items[j])
    BY <1>2, <2>1, VictimIs
  <2>3. e = [items |-> u, tokens |-> q.tokens - item.size, uses |-> Without(q.uses, item.id),
             last |-> Without(q.last, item.id)]
    BY <1>2 DEF EvictOne, Evicting
  <2> HIDE DEF v, e
  <2>4. /\ u \in Seq(Items) /\ Len(u) = Len(q.items) - 1 /\ Increasing(u)
        /\ Range(u) = Range(q.items) \ {item} /\ \A i \in DOMAIN u : u[i] \in Range(q.items)
    BY <2>1, <2>2, RemovedRange
  <2>5. item \in Range(q.items) /\ item.size \in Nat
    BY <2>1, <2>2, ItemOf
  <2>6. Tokens(u) = Tokens(q.items) - item.size
    <3>1. q.items \in Seq(AnyItems)
      BY <2>1, ItemsTyped DEF IsSection
    <3> QED  BY <2>2, <3>1, TokensRemoved
  <2> HIDE DEF u, item
  <2>7. e.items = u /\ e.tokens = q.tokens - item.size
        /\ e.uses = Without(q.uses, item.id) /\ e.last = Without(q.last, item.id)
    BY <2>3
  <2>8. /\ DOMAIN e.uses = DOMAIN q.uses \ {item.id} /\ DOMAIN e.last = DOMAIN q.last \ {item.id}
        /\ \A i \in DOMAIN e.uses : e.uses[i] = q.uses[i]
        /\ \A i \in DOMAIN e.last : e.last[i] = q.last[i]
        /\ e.uses = [i \in DOMAIN e.uses |-> e.uses[i]] /\ e.last = [i \in DOMAIN e.last |-> e.last[i]]
    BY <2>7 DEF Without
  <2>9. \A i \in Ids(u) : i # item.id
    <3> SUFFICES ASSUME NEW x \in Range(u) PROVE x.id # item.id
      BY DEF Ids
    <3> QED  BY <2>1, <2>4, <2>5, IdsApart
  <2>10. \A i \in Ids(q.items) : i # item.id => i \in Ids(u)
    BY <2>4 DEF Ids
  <2>11. IsSection(e)
    <3>1. e.uses \in [DOMAIN e.uses -> Nat] /\ e.last \in [DOMAIN e.last -> Nat]
      <4>1. \A i \in DOMAIN q.uses : q.uses[i] \in Nat
        BY <2>1 DEF IsSection
      <4>2. \A i \in DOMAIN q.last : q.last[i] \in Nat
        BY <2>1 DEF IsSection
      <4> QED  BY <2>8, <4>1, <4>2
    <3>2. e = [items |-> e.items, tokens |-> e.tokens, uses |-> e.uses, last |-> e.last]
      BY <2>3, <2>7
    <3> QED  BY <2>4, <2>7, <3>1, <3>2 DEF IsSection
  <2>12. HeldSection(e, m, r)
    <3>1. e.tokens = Tokens(e.items)
      BY <2>6, <2>7 DEF HeldSection
    <3>2. \A i \in DOMAIN u : u[i].id <= m
      <4>1. \A x \in Range(q.items) : x.id <= m
        BY DEF HeldSection, Range
      <4> QED  BY <2>4, <4>1
    <3>3. DOMAIN e.uses \cup DOMAIN e.last \subseteq Ids(e.items)
      BY <2>7, <2>8, <2>10 DEF HeldSection
    <3>4. /\ \A i \in DOMAIN e.uses : e.uses[i] \in 1..r
          /\ \A i \in DOMAIN e.last : e.last[i] \in 1..r
      BY <2>8 DEF HeldSection
    <3> QED  BY <2>4, <2>7, <2>11, <3>1, <3>2, <3>3, <3>4 DEF HeldSection
  <2>13. Thinner(policy, q, e)
    <3>1. \A i \in Ids(u) : Tracked(e.uses, i) = Tracked(q.uses, i) /\ Tracked(e.last, i) = Tracked(q.last, i)
      BY <2>8, <2>9 DEF Tracked
    <3>2. \A x \in Range(q.items) \ Range(u), k \in Range(u) : NoDearer(policy, q, x, k)
      <4> SUFFICES ASSUME NEW k \in Range(u) PROVE NoDearer(policy, q, item, k)
        BY <2>4
      <4>1. k \in Range(q.items) /\ k # item
        BY <2>4
      <4>2. PICK j \in DOMAIN q.items : k = q.items[j]
        BY <4>1 DEF Range
      <4>3. j # v
        BY <4>1, <4>2 DEF item
      <4> QED  BY <2>2, <4>2, <4>3 DEF item
    <3> QED  BY <1>2, <2>4, <2>7, <3>1, <3>2 DEF Thinner, Evicting
  <2>14. item \in Range(q.items) \ Range(e.items)
    BY <2>4, <2>5, <2>7
  <2>15. Len(e.items) = Len(q.items) - 1
    BY <2>4, <2>7
  <2> QED  BY <1>2, <2>7, <2>12, <2>13, <2>14, <2>15 DEF e
<1> QED  BY <1>1, <1>2

\* What is worth least of what remains was worth no more before.
LEMMA ThinnerOn ==
  ASSUME NEW q, NEW e, NEW f, NEW policy, Thinner(policy, q, e), Thinner(policy, e, f)
  PROVE  Thinner(policy, q, f)
<1>1. Range(f.items) \subseteq Range(e.items) /\ Range(e.items) \subseteq Range(q.items)
  BY DEF Thinner
<1>2. \A i \in Ids(f.items) : i \in Ids(e.items)
  BY <1>1 DEF Ids
<1>3. \A i \in Ids(f.items) : Tracked(f.uses, i) = Tracked(q.uses, i) /\ Tracked(f.last, i) = Tracked(q.last, i)
  BY <1>2 DEF Thinner
<1>4. ASSUME NEW x \in Range(q.items) \ Range(f.items), NEW k \in Range(f.items)
      PROVE  NoDearer(policy, q, x, k)
  <2>1. CASE x \notin Range(e.items)
    BY <1>1, <2>1 DEF Thinner
  <2>2. CASE x \in Range(e.items)
    <3>1. NoDearer(policy, e, x, k)
      BY <2>2 DEF Thinner
    <3>2. x.id \in Ids(e.items) /\ k.id \in Ids(e.items)
      BY <1>1, <2>2 DEF Ids
    <3>3. /\ Tracked(e.uses, x.id) = Tracked(q.uses, x.id) /\ Tracked(e.last, x.id) = Tracked(q.last, x.id)
          /\ Tracked(e.uses, k.id) = Tracked(q.uses, k.id) /\ Tracked(e.last, k.id) = Tracked(q.last, k.id)
      BY <3>2 DEF Thinner
    <3> QED  BY <3>1, <3>3 DEF NoDearer
  <2> QED  BY <2>1, <2>2
<1>5. policy \in {"none", "refuse"} => f = q
  BY DEF Thinner
<1> QED  BY <1>1, <1>3, <1>4, <1>5 DEF Thinner

\* One eviction after another.
Evictions(policy, q, m, h) == h = [k \in 0..m |-> IF k = 0 THEN q ELSE EvictOne(policy, h[k - 1])]

LEMMA EvictionsExist ==
  ASSUME NEW q, NEW policy, NEW m \in Nat
  PROVE  \E h : Evictions(policy, q, m, h)
<1> DEFINE T == {l \in 0..m : ~ \E h : Evictions(policy, q, l, h)}
<1>1. ASSUME T # {} PROVE FALSE
  <2>1. T \subseteq Nat
    OBVIOUS
  <2>2. PICK l \in T : \A k \in T : l <= k
    BY <1>1, <2>1, LeastNatural
  <2>3. l \in 0..m /\ ~ \E h : Evictions(policy, q, l, h)
    OBVIOUS
  <2>4. l # 0
    <3>1. Evictions(policy, q, 0, [k \in 0..0 |-> q])
      BY DEF Evictions
    <3> QED  BY <2>3, <3>1
  <2>5. l - 1 \in 0..m /\ ~ (l <= l - 1) /\ l \in Nat /\ l > 0
    BY <2>3, <2>4
  <2>6. PICK h : Evictions(policy, q, l - 1, h)
    <3> HIDE DEF T
    <3>1. l - 1 \notin T
      BY <2>2, <2>5
    <3> QED  BY <2>5, <3>1 DEF T
  <2>7. \A k \in 0..(l - 1) : h[k] = IF k = 0 THEN q ELSE EvictOne(policy, h[k - 1])
    BY <2>6 DEF Evictions
  <2> DEFINE g == [k \in 0..l |-> IF k = l THEN EvictOne(policy, h[l - 1]) ELSE h[k]]
  <2>8. \A k \in 0..l : g[k] = IF k = 0 THEN q ELSE EvictOne(policy, g[k - 1])
    <3> SUFFICES ASSUME NEW k \in 0..l PROVE g[k] = IF k = 0 THEN q ELSE EvictOne(policy, g[k - 1])
      OBVIOUS
    <3>1. CASE k = 0
      BY <2>5, <2>7, <3>1
    <3>2. CASE k # 0
      <4>1. k - 1 \in 0..l /\ k - 1 # l /\ (k = l \/ k \in 0..(l - 1))
        BY <2>5, <3>2
      <4>2. g[k - 1] = h[k - 1]
        BY <4>1
      <4> QED  BY <2>7, <3>2, <4>1, <4>2
    <3> QED  BY <3>1, <3>2
  <2>9. g = [k \in 0..l |-> g[k]]
    OBVIOUS
  <2>10. Evictions(policy, q, l, g)
    <3> HIDE DEF g
    <3> QED  BY <2>8, <2>9 DEF Evictions
  <2> QED  BY <2>3, <2>10
<1>2. m \in 0..m /\ m \notin T
  <2> HIDE DEF T
  <2> QED  BY <1>1
<1> QED  BY <1>2

LEMMA EvictionsSound ==
  ASSUME NEW q, NEW m, NEW r, HeldSection(q, m, r), NEW policy \in Policies,
         NEW N \in Nat, N = Len(q.items), NEW h, Evictions(policy, q, N, h)
  PROVE  \A k \in 0..N :
           /\ HeldSection(h[k], m, r) /\ Thinner(policy, q, h[k])
           /\ policy \in Evicting => Len(h[k].items) = N - k
           /\ policy \notin Evicting => h[k] = q
<1> DEFINE Fine(k) == /\ HeldSection(h[k], m, r) /\ Thinner(policy, q, h[k])
                      /\ policy \in Evicting => Len(h[k].items) = N - k
                      /\ policy \notin Evicting => h[k] = q
           T == {k \in 0..N : ~Fine(k)}
<1>0. \A k \in 0..N : h[k] = IF k = 0 THEN q ELSE EvictOne(policy, h[k - 1])
  BY DEF Evictions
<1>1. ASSUME T # {} PROVE FALSE
  <2>1. T \subseteq Nat
    OBVIOUS
  <2>2. PICK l \in T : \A k \in T : l <= k
    BY <1>1, <2>1, LeastNatural
  <2>3. l \in 0..N /\ ~Fine(l)
    OBVIOUS
  <2>4. l # 0
    <3>1. h[0] = q
      BY <1>0
    <3>2. Fine(0)
      BY <3>1, ThinnerSame
    <3> HIDE DEF Fine
    <3> QED  BY <2>3, <3>2
  <2>5. l - 1 \in 0..N /\ ~ (l <= l - 1) /\ l \in 1..N
    BY <2>3, <2>4
  <2>6. Fine(l - 1)
    <3> HIDE DEF T, Fine
    <3>1. l - 1 \notin T
      BY <2>2, <2>5
    <3> QED  BY <2>5, <3>1 DEF T
  <2>7. h[l] = EvictOne(policy, h[l - 1])
    BY <1>0, <2>3, <2>4
  <2>8. PICK a : a = h[l - 1]
    OBVIOUS
  <2>9. PICK b : b = h[l]
    OBVIOUS
  <2>10. HeldSection(a, m, r) /\ Thinner(policy, q, a) /\ b = EvictOne(policy, a)
         /\ (policy \in Evicting => Len(a.items) = N - (l - 1)) /\ (policy \notin Evicting => a = q)
    BY <2>6, <2>7, <2>8, <2>9
  <2>11. /\ HeldSection(b, m, r) /\ Thinner(policy, a, b)
         /\ (policy \in Evicting /\ a.items # <<>> => Len(b.items) = Len(a.items) - 1)
         /\ (policy \notin Evicting => b = a)
    BY <2>10, EvictOneSound
  <2>12. Thinner(policy, q, b)
    BY <2>10, <2>11, ThinnerOn
  <2>13. policy \in Evicting => Len(b.items) = N - l
    <3> SUFFICES ASSUME policy \in Evicting PROVE Len(b.items) = N - l
      OBVIOUS
    <3>1. Len(a.items) = N - (l - 1)
      BY <2>10
    <3>2. N - (l - 1) > 0 /\ (N - (l - 1)) - 1 = N - l
      BY <2>5
    <3>3. a.items # <<>>
      BY <3>1, <3>2
    <3> QED  BY <2>11, <3>1, <3>2, <3>3
  <2>14. Fine(l)
    BY <2>9, <2>10, <2>11, <2>12, <2>13
  <2> HIDE DEF Fine
  <2> QED  BY <2>3, <2>14
<1> HIDE DEF Fine
<1>2. \A k \in 0..N : Fine(k)
  BY <1>1
<1> QED  BY <1>2 DEF Fine

\* The count of a section is a number, and it is zero when the section is empty.
LEMMA CountNat ==
  ASSUME NEW q, NEW m, NEW r, HeldSection(q, m, r)
  PROVE  /\ q.tokens \in Nat /\ q.items \in Seq(AnyItems) /\ Len(q.items) \in Nat
         /\ q.items = <<>> => q.tokens = 0
<1>1. q.items \in Seq(AnyItems) /\ q.tokens = Tokens(q.items)
  BY ItemsTyped DEF HeldSection, IsSection
<1> QED  BY <1>1, TokensNat, NoTokens

\* One after another until enough is freed: what goes is worth least, all goes when that is not
\* enough, and the last that goes is needed.
LEMMA EvictTokensSound ==
  ASSUME NEW q, NEW m, NEW r, HeldSection(q, m, r), NEW policy \in Policies,
         NEW needed \in Nat, needed > 0
  PROVE  LET e == EvictTokens(policy, q, needed) IN
         /\ HeldSection(e, m, r) /\ Thinner(policy, q, e) /\ Len(e.items) <= Len(q.items)
         /\ policy \in Evicting =>
              \/ q.tokens - e.tokens < needed /\ e.items = <<>>
              \/ /\ q.tokens - e.tokens >= needed
                 /\ \E x \in Range(q.items) \ Range(e.items) : q.tokens - (e.tokens + x.size) < needed
         /\ policy \notin Evicting => e = q
<1> DEFINE N == Len(q.items)
           h == CHOOSE f : Evictions(policy, q, N, f)
           enough == {k \in DOMAIN h : q.tokens - h[k].tokens >= needed}
           e == EvictTokens(policy, q, needed)
<1>1. N \in Nat /\ q.tokens \in Nat
  BY CountNat
<1>2. Evictions(policy, q, N, h)
  <2> HIDE DEF N
  <2> QED  BY <1>1, EvictionsExist
<1>3. e = IF enough = {} THEN h[N] ELSE h[Min(enough)]
  BY DEF EvictTokens, Evictions
<1> HIDE DEF e, h
<1>4. DOMAIN h = 0..N /\ \A k \in 0..N : h[k] = IF k = 0 THEN q ELSE EvictOne(policy, h[k - 1])
  BY <1>2 DEF Evictions
<1>5. \A k \in 0..N : /\ HeldSection(h[k], m, r) /\ Thinner(policy, q, h[k])
                      /\ policy \in Evicting => Len(h[k].items) = N - k
                      /\ policy \notin Evicting => h[k] = q
  BY <1>1, <1>2, EvictionsSound
<1> HIDE DEF N
<1>6. CASE enough = {}
  <2>1. N \in 0..N /\ N - N = 0
    BY <1>1
  <2>2. e = h[N]
    BY <1>3, <1>6
  <2>3. ~ (q.tokens - h[N].tokens >= needed)
    BY <1>4, <1>6, <2>1
  <2>4. HeldSection(e, m, r) /\ Thinner(policy, q, e)
        /\ (policy \in Evicting => Len(e.items) = 0) /\ (policy \notin Evicting => e = q)
    <3> HIDE DEF enough
    <3> QED  BY <1>5, <2>1, <2>2
  <2>5. e.tokens \in Nat /\ e.items \in Seq(AnyItems)
    BY <2>4, CountNat
  <2>6. Len(e.items) = 0 => e.items = <<>>
    BY <2>5
  <2>7. q.tokens - e.tokens < needed
    BY <1>1, <2>2, <2>3, <2>5
  <2>8. Len(e.items) <= N
    <3>1. N <= N /\ 0 <= N
      BY <1>1
    <3> QED  BY <2>4, <3>1 DEF N
  <2> QED  BY <2>4, <2>6, <2>7, <2>8 DEF e, N
<1>7. CASE enough # {}
  <2> DEFINE k == Min(enough)
  <2>1. enough \subseteq 0..N /\ 0..N \subseteq Nat
    BY <1>4
  <2>2. k \in enough /\ \A j \in enough : k <= j
    <3> HIDE DEF enough
    <3> QED  BY <1>7, <2>1, MinOfNaturals
  <2>3. k \in 0..N /\ q.tokens - h[k].tokens >= needed /\ e = h[k]
    <3> HIDE DEF k
    <3>1. k \in 0..N /\ q.tokens - h[k].tokens >= needed
      BY <1>4, <2>2
    <3> QED  BY <1>3, <1>7, <3>1 DEF k
  <2> HIDE DEF k
  <2>4. k # 0
    <3> SUFFICES ASSUME k = 0 PROVE FALSE
      OBVIOUS
    <3>1. h[0] = q
      BY <1>1, <1>4
    <3> QED  BY <1>1, <2>3, <3>1
  <2>5. k - 1 \in 0..N /\ ~ (k <= k - 1) /\ k \in Nat
    BY <1>1, <2>3, <2>4
  <2>6. ~ (q.tokens - h[k - 1].tokens >= needed)
    BY <1>4, <2>2, <2>5
  <2>7. PICK a : a = h[k - 1]
    OBVIOUS
  <2>8. HeldSection(a, m, r) /\ Thinner(policy, q, a) /\ e = EvictOne(policy, a)
        /\ (policy \in Evicting => Len(a.items) = N - (k - 1))
    BY <1>4, <1>5, <2>3, <2>4, <2>5, <2>7
  <2>9. HeldSection(e, m, r) /\ Thinner(policy, q, e) /\ (policy \notin Evicting => e = q)
    BY <1>5, <2>3
  <2>10. a.tokens \in Nat /\ e.tokens \in Nat
    BY <2>8, <2>9, CountNat
  <2>11. ASSUME policy \in Evicting
         PROVE  \E x \in Range(q.items) \ Range(e.items) : q.tokens - (e.tokens + x.size) < needed
    <3>1. a.items # <<>>
      <4>1. Len(a.items) > 0
        BY <1>1, <2>3, <2>8, <2>11
      <4> QED  BY <4>1
    <3>2. PICK x \in Range(a.items) \ Range(e.items) : e.tokens = a.tokens - x.size
      BY <2>8, <2>11, <3>1, EvictOneSound
    <3>3. x.size \in Nat
      <4>1. PICK j \in DOMAIN a.items : x = a.items[j]
        BY DEF Range
      <4>2. IsSection(a)
        BY <2>8 DEF HeldSection
      <4> QED  BY <4>1, <4>2, ItemOf
    <3>4. e.tokens + x.size = a.tokens
      BY <2>10, <3>2, <3>3
    <3>5. x \in Range(q.items) \ Range(e.items)
      BY <2>8 DEF Thinner
    <3>6. q.tokens - a.tokens < needed
      BY <1>1, <2>6, <2>7, <2>10
    <3> QED  BY <3>4, <3>5, <3>6
  <2>12. Len(e.items) <= N
    <3>1. N <= N /\ N - k <= N
      BY <1>1, <2>5
    <3>2. Len(e.items) = N - k \/ e = q
      BY <1>5, <2>3
    <3> QED  BY <3>1, <3>2 DEF N
  <2> QED  BY <2>3, <2>9, <2>11, <2>12 DEF e, N
<1> QED  BY <1>6, <1>7

LEMMA HeldLater ==
  ASSUME NEW q, NEW m \in Nat, NEW r \in Nat, NEW m2 \in Nat, NEW r2 \in Nat, m <= m2, r <= r2,
         HeldSection(q, m, r)
  PROVE  HeldSection(q, m2, r2)
<1>1. \A i \in DOMAIN q.items : q.items[i].id \in Nat /\ q.items[i].id <= m
  BY ItemOf DEF HeldSection
<1>2. \A i \in DOMAIN q.items : q.items[i].id <= m2
  BY <1>1
<1>3. \A k \in 1..r : k \in 1..r2
  OBVIOUS
<1> QED  BY <1>2, <1>3 DEF HeldSection

\* An item is appended.
LEMMA AddItemSound ==
  ASSUME NEW q, NEW m \in Nat, NEW r, HeldSection(q, m, r), NEW item \in Items, item.id = m + 1
  PROVE  LET a == AddItem(q, item) IN
         /\ HeldSection(a, m + 1, r)
         /\ a.items = Append(q.items, item) /\ Len(a.items) = Len(q.items) + 1
         /\ a.tokens = q.tokens + item.size /\ a.tokens \in Nat /\ item.size \in Nat
         /\ Range(a.items) = Range(q.items) \cup {item}
<1> DEFINE a == AddItem(q, item)
           s == q.items
           N == Len(s)
<1>1. IsSection(q) /\ q.tokens = Tokens(s) /\ Increasing(s)
  BY DEF HeldSection
<1>2. s \in Seq(Items) /\ DOMAIN s = 1..N /\ N \in Nat /\ q.tokens \in Nat /\ s \in Seq(AnyItems)
  BY <1>1, CountNat DEF IsSection
<1>3. a = [items |-> Append(s, item), tokens |-> q.tokens + item.size, uses |-> q.uses, last |-> q.last]
  <2>1. q = [items |-> q.items, tokens |-> q.tokens, uses |-> q.uses, last |-> q.last]
    BY <1>1 DEF IsSection
  <2>2. AddItem(q, item) = [q EXCEPT !.items = Append(q.items, item), !.tokens = q.tokens + item.size]
    BY DEF AddItem
  <2> QED  BY <2>1, <2>2
<1> HIDE DEF a
<1>4. a.items = Append(s, item) /\ a.tokens = q.tokens + item.size /\ a.uses = q.uses /\ a.last = q.last
  BY <1>3
<1>5. item \in AnyItems /\ item.size \in Nat
  <2>1. item \in AnyItems
    BY ItemsTyped
  <2> QED  BY <2>1 DEF AnyItems
<1> DEFINE u == Append(s, item)
<1> HIDE DEF s, N
<1>6. /\ u \in Seq(Items) /\ Len(u) = N + 1 /\ DOMAIN u = 1..(N + 1)
      /\ \A j \in 1..N : u[j] = s[j]
      /\ u[N + 1] = item
  BY <1>2 DEF N
<1>7. Tokens(u) = Tokens(s) + item.size
  BY <1>2, <1>5, TokensAppend
<1> HIDE DEF u
<1>8. \A j \in 1..N : s[j].id \in Nat /\ s[j].id <= m
  BY <1>1, <1>2, ItemOf DEF HeldSection, s
<1>9. Increasing(u)
  <2> SUFFICES ASSUME NEW i \in 1..(N + 1), NEW j \in 1..(N + 1), i < j PROVE u[i].id < u[j].id
    BY <1>6 DEF Increasing
  <2>1. i \in 1..N
    BY <1>2
  <2>2. CASE j = N + 1
    <3>1. u[i].id <= m /\ u[i].id \in Nat /\ u[j].id = m + 1
      BY <1>6, <1>8, <2>1, <2>2
    <3> QED  BY <3>1
  <2>3. CASE j # N + 1
    <3>1. j \in 1..N
      BY <1>2, <2>3
    <3> QED  BY <1>1, <1>2, <1>6, <2>1, <3>1 DEF Increasing
  <2> QED  BY <2>2, <2>3
<1>10. \A i \in 1..(N + 1) : u[i].id <= m + 1
  <2> SUFFICES ASSUME NEW i \in 1..(N + 1) PROVE u[i].id <= m + 1
    OBVIOUS
  <2>1. CASE i = N + 1
    BY <1>6, <2>1
  <2>2. CASE i # N + 1
    <3>1. i \in 1..N
      BY <1>2, <2>2
    <3>2. u[i] = s[i] /\ s[i].id <= m /\ s[i].id \in Nat
      BY <1>6, <1>8, <3>1
    <3> QED  BY <3>2
  <2> QED  BY <2>1, <2>2
<1>11. Range(u) = Range(s) \cup {item}
  <2>1. \A x \in Range(u) : x \in Range(s) \cup {item}
    <3> SUFFICES ASSUME NEW i \in 1..(N + 1) PROVE u[i] \in Range(s) \cup {item}
      BY <1>6 DEF Range
    <3>1. i \in 1..N \/ i = N + 1
      BY <1>2
    <3> QED  BY <1>2, <1>6, <3>1 DEF Range
  <2>2. \A x \in Range(s) : x \in Range(u)
    <3> SUFFICES ASSUME NEW i \in 1..N PROVE s[i] \in Range(u)
      BY <1>2 DEF Range
    <3>1. i \in 1..(N + 1) /\ u[i] = s[i]
      BY <1>2, <1>6
    <3> QED  BY <1>6, <3>1 DEF Range
  <2>3. item \in Range(u)
    <3>1. N + 1 \in 1..(N + 1)
      BY <1>2
    <3> QED  BY <1>6, <3>1 DEF Range
  <2> QED  BY <2>1, <2>2, <2>3
<1>12. Ids(s) \subseteq Ids(u)
  BY <1>11 DEF Ids
<1>13. IsSection(a)
  <2>1. a = [items |-> a.items, tokens |-> a.tokens, uses |-> a.uses, last |-> a.last]
    BY <1>3, <1>4
  <2> QED  BY <1>1, <1>4, <1>6, <2>1 DEF IsSection, u
<1>14. HeldSection(a, m + 1, r)
  <2>1. a.items = u
    BY <1>4 DEF u
  <2>2. a.tokens = Tokens(u)
    BY <1>1, <1>4, <1>7
  <2>3. DOMAIN q.uses \cup DOMAIN q.last \subseteq Ids(s)
        /\ (\A i \in DOMAIN q.uses : q.uses[i] \in 1..r) /\ (\A i \in DOMAIN q.last : q.last[i] \in 1..r)
    BY DEF HeldSection, s
  <2> QED  BY <1>4, <1>6, <1>9, <1>10, <1>12, <1>13, <2>1, <2>2, <2>3 DEF HeldSection
<1>15. a.tokens \in Nat
  BY <1>2, <1>4, <1>5
<1> QED  BY <1>4, <1>5, <1>6, <1>11, <1>14, <1>15 DEF a, u, s, N

\* What a section is configured to keep.
WellConfigured(c) ==
  /\ c.budget \in Nat /\ c.max \in Nat \ {0}
  /\ c.policy \in Policies /\ c.summary \in Summarising
  /\ {c.explicit, c.ephemeral} \subseteq BOOLEAN
WithinBudget(c, q) == c.explicit \/ MayOverflow(c) \/ c.budget = 0 \/ q.tokens <= c.budget
WithinLimit(c, q) == c.explicit \/ c.policy \in {"none", "refuse"} \/ Len(q.items) <= c.max

\* An add makes what room it needs of what is worth least.
Sparing(c, q, item, a, e) ==
  LET gone == Range(q.items) \ Range(e.items) IN
  /\ Thinner(c.policy, q, e)
  /\ \/ a.came = "ok" /\ Range(a.left.items) = Range(e.items) \cup {item}
     \/ a.came \in {"explicit", "full", "not_freed"} /\ a.left = e
  /\ a.came = "ok" /\ gone # {} =>
       \E x \in gone : \/ Len(a.left.items) + 1 > c.max
                       \/ c.budget > 0 /\ a.left.tokens + x.size > c.budget
  /\ a.came # "ok" => gone = {} \/ item.size > c.budget
AddsSparingly(c, q, item, a) == \E e : Sparing(c, q, item, a, e)

LEMMA AddedSound ==
  ASSUME NEW c, WellConfigured(c), NEW q, NEW m \in Nat, NEW r, HeldSection(q, m, r),
         WithinLimit(c, q), WithinBudget(c, q), NEW item \in Items, item.id = m + 1
  PROVE  LET a == Added(c, q, item) IN
         /\ HeldSection(a.left, m, r) \/ HeldSection(a.left, m + 1, r)
         /\ WithinLimit(c, a.left) /\ WithinBudget(c, a.left)
         /\ AddsSparingly(c, q, item, a)
<1> DEFINE a == Added(c, q, item)
           q1 == IF Len(q.items) >= c.max THEN EvictOne(c.policy, q) ELSE q
           over == c.budget > 0 /\ q1.tokens + item.size > c.budget
           needed == q1.tokens + item.size - c.budget
           q2 == EvictTokens(c.policy, q1, needed)
<1>1. c.budget \in Nat /\ c.max \in Nat /\ c.max > 0 /\ c.policy \in Policies
  BY DEF WellConfigured
<1>2. a = IF c.explicit THEN [left |-> q, came |-> "explicit"]
          ELSE IF ~over \/ MayOverflow(c) THEN [left |-> AddItem(q1, item), came |-> "ok"]
          ELSE IF c.policy = "refuse" THEN [left |-> q1, came |-> "full"]
          ELSE IF q1.tokens - q2.tokens < needed THEN [left |-> q2, came |-> "not_freed"]
          ELSE [left |-> AddItem(q2, item), came |-> "ok"]
  BY DEF Added
<1>3. item.size \in Nat
  <2>1. item \in AnyItems
    BY ItemsTyped
  <2> QED  BY <2>1 DEF AnyItems
<1>4. q.tokens \in Nat /\ Len(q.items) \in Nat /\ (q.items = <<>> => Len(q.items) = 0)
  BY CountNat
<1>5. /\ HeldSection(q1, m, r) /\ Thinner(c.policy, q, q1)
      /\ (c.policy \notin Evicting => q1 = q)
      /\ \/ q1 = q /\ ~ (Len(q.items) >= c.max)
         \/ q1 = q /\ c.policy \notin Evicting
         \/ /\ Len(q.items) >= c.max /\ Len(q1.items) = Len(q.items) - 1 /\ c.policy \in Evicting
            /\ \E x \in Range(q.items) \ Range(q1.items) : q1.tokens = q.tokens - x.size
  <2>1. CASE Len(q.items) >= c.max
    <3>1. q.items # <<>>
      BY <1>1, <1>4, <2>1
    <3>2. q1 = EvictOne(c.policy, q)
      BY <2>1
    <3> HIDE DEF q1
    <3> QED  BY <1>1, <2>1, <3>1, <3>2, EvictOneSound
  <2>2. CASE ~ (Len(q.items) >= c.max)
    <3>1. q1 = q
      BY <2>2
    <3> HIDE DEF q1
    <3> QED  BY <2>2, <3>1, ThinnerSame
  <2> QED  BY <2>1, <2>2
<1> HIDE DEF a, q1, q2
<1>6. q1.tokens \in Nat /\ Len(q1.items) \in Nat
  BY <1>5, CountNat
<1>7. q1.tokens <= q.tokens /\ Len(q1.items) <= Len(q.items)
  <2>1. CASE q1 = q
    BY <1>4, <2>1
  <2>2. CASE Len(q1.items) = Len(q.items) - 1 /\ \E x \in Range(q.items) \ Range(q1.items) : q1.tokens = q.tokens - x.size
    <3>1. PICK x \in Range(q.items) : q1.tokens = q.tokens - x.size
      BY <2>2
    <3>2. x.size \in Nat
      BY ItemOf DEF HeldSection, Range
    <3> QED  BY <1>4, <1>6, <2>2, <3>1, <3>2
  <2> QED  BY <1>5, <2>1, <2>2
<1>8. c.policy \in Evicting /\ ~c.explicit => Len(q1.items) + 1 <= c.max
  <2> SUFFICES ASSUME c.policy \in Evicting, ~c.explicit PROVE Len(q1.items) + 1 <= c.max
    OBVIOUS
  <2>1. Len(q.items) <= c.max
    BY DEF WithinLimit, Evicting
  <2>2. CASE q1 = q /\ ~ (Len(q.items) >= c.max)
    BY <1>1, <1>4, <2>2
  <2>3. CASE Len(q1.items) = Len(q.items) - 1
    BY <1>1, <1>4, <1>6, <2>1, <2>3
  <2> QED  BY <1>5, <2>2, <2>3
<1>9. CASE c.explicit
  <2>1. a.left = q /\ a.came = "explicit"
    BY <1>2, <1>9
  <2>2. Sparing(c, q, item, a, q)
    BY <2>1, ThinnerSame DEF Sparing
  <2> QED  BY <2>1, <2>2 DEF AddsSparingly, a
<1>10. CASE ~c.explicit /\ (~over \/ MayOverflow(c))
  <2>1. a.left = AddItem(q1, item) /\ a.came = "ok"
    BY <1>2, <1>10
  <2>2. PICK b : b = a.left
    OBVIOUS
  <2>3. /\ HeldSection(b, m + 1, r) /\ Len(b.items) = Len(q1.items) + 1
        /\ b.tokens = q1.tokens + item.size /\ Range(b.items) = Range(q1.items) \cup {item}
    <3>1. PICK d : d = q1
      OBVIOUS
    <3>2. HeldSection(d, m, r) /\ b = AddItem(d, item)
      BY <1>5, <2>1, <2>2, <3>1
    <3>3. /\ HeldSection(b, m + 1, r) /\ Len(b.items) = Len(d.items) + 1
          /\ b.tokens = d.tokens + item.size /\ Range(b.items) = Range(d.items) \cup {item}
      BY ONLY <3>2, m \in Nat, item \in Items, item.id = m + 1, AddItemSound
    <3> QED  BY <3>1, <3>3
  <2>4. WithinLimit(c, b)
    BY <1>1, <1>8, <1>10, <2>3 DEF WithinLimit, Evicting
  <2>5. WithinBudget(c, b)
    BY <1>1, <1>3, <1>6, <1>10, <2>3 DEF WithinBudget
  <2>6. Sparing(c, q, item, a, q1)
    <3>1. ASSUME Range(q.items) \ Range(q1.items) # {} PROVE Len(b.items) + 1 > c.max
      <4>1. q1 # q
        BY <3>1
      <4>2. Len(q.items) >= c.max /\ Len(q1.items) = Len(q.items) - 1
        BY <1>5, <4>1
      <4> QED  BY <1>1, <1>4, <1>6, <2>3, <4>2
    <3> QED  BY <1>5, <2>1, <2>2, <2>3, <3>1 DEF Sparing
  <2> QED  BY <2>2, <2>3, <2>4, <2>5, <2>6 DEF AddsSparingly, a
<1>11. CASE ~c.explicit /\ over /\ ~MayOverflow(c) /\ c.policy = "refuse"
  <2>1. a.left = q1 /\ a.came = "full" /\ q1 = q
    BY <1>2, <1>5, <1>11 DEF Evicting
  <2>2. Sparing(c, q, item, a, q)
    BY <2>1, ThinnerSame DEF Sparing
  <2> QED  BY <2>1, <2>2 DEF AddsSparingly, a
<1>12. CASE ~c.explicit /\ over /\ ~MayOverflow(c) /\ c.policy # "refuse"
  <2>1. needed \in Nat /\ needed > 0 /\ c.budget > 0
    BY <1>1, <1>3, <1>6, <1>12
  <2>2. /\ HeldSection(q2, m, r) /\ Thinner(c.policy, q1, q2) /\ Len(q2.items) <= Len(q1.items)
        /\ c.policy \in Evicting =>
             \/ q1.tokens - q2.tokens < needed /\ q2.items = <<>>
             \/ /\ q1.tokens - q2.tokens >= needed
                /\ \E x \in Range(q1.items) \ Range(q2.items) : q1.tokens - (q2.tokens + x.size) < needed
        /\ c.policy \notin Evicting => q2 = q1
    <3> HIDE DEF needed
    <3> QED  BY <1>1, <1>5, <2>1, EvictTokensSound DEF q2
  <2>3. Thinner(c.policy, q, q2)
    BY <1>5, <2>2, ThinnerOn
  <2>4. q2.tokens \in Nat /\ Len(q2.items) \in Nat /\ (q2.items = <<>> => q2.tokens = 0 /\ Len(q2.items) = 0)
    BY <2>2, CountNat
  <2>5. CASE q1.tokens - q2.tokens < needed
    <3>1. a.left = q2 /\ a.came = "not_freed"
      <4> HIDE DEF needed, over
      <4> QED  BY <1>2, <1>12, <2>5
    <3>2. WithinLimit(c, q2)
      BY <1>1, <1>6, <1>8, <1>12, <2>2, <2>4 DEF WithinLimit, Evicting
    <3>3. WithinBudget(c, q2) /\ (Range(q.items) \ Range(q2.items) = {} \/ item.size > c.budget)
      <4>1. CASE c.policy \in Evicting
        <5>1. q2.tokens = 0
          BY <1>6, <2>1, <2>2, <2>4, <2>5, <4>1
        <5>2. item.size > c.budget
          BY <1>1, <1>3, <1>6, <2>5, <5>1
        <5> QED  BY <1>1, <5>1, <5>2 DEF WithinBudget
      <4>2. CASE c.policy \notin Evicting
        BY <1>5, <2>2, <4>2
      <4> QED  BY <4>1, <4>2
    <3>4. Sparing(c, q, item, a, q2)
      BY <2>3, <3>1, <3>3 DEF Sparing
    <3> QED  BY <2>2, <3>1, <3>2, <3>3, <3>4 DEF AddsSparingly, a
  <2>6. CASE ~ (q1.tokens - q2.tokens < needed)
    <3>1. a.left = AddItem(q2, item) /\ a.came = "ok"
      <4> HIDE DEF needed, over
      <4> QED  BY <1>2, <1>12, <2>6
    <3>2. PICK b : b = a.left
      OBVIOUS
    <3>3. /\ HeldSection(b, m + 1, r) /\ Len(b.items) = Len(q2.items) + 1
          /\ b.tokens = q2.tokens + item.size /\ Range(b.items) = Range(q2.items) \cup {item}
      <4>1. PICK d : d = q2
        OBVIOUS
      <4>2. HeldSection(d, m, r) /\ b = AddItem(d, item)
        BY <2>2, <3>1, <3>2, <4>1
      <4>3. /\ HeldSection(b, m + 1, r) /\ Len(b.items) = Len(d.items) + 1
            /\ b.tokens = d.tokens + item.size /\ Range(b.items) = Range(d.items) \cup {item}
        BY ONLY <4>2, m \in Nat, item \in Items, item.id = m + 1, AddItemSound
      <4> QED  BY <4>1, <4>3
    <3>4. WithinLimit(c, b)
      BY <1>1, <1>6, <1>8, <1>12, <2>2, <2>4, <3>3 DEF WithinLimit, Evicting
    <3>5. WithinBudget(c, b)
      <4>1. b.tokens <= c.budget
        BY <1>1, <1>3, <1>6, <2>4, <2>6, <3>3
      <4> QED  BY <4>1 DEF WithinBudget
    <3>6. c.policy \in Evicting
      <4> SUFFICES ASSUME c.policy \notin Evicting PROVE FALSE
        OBVIOUS
      <4>1. q2 = q1
        BY <2>2
      <4>2. q1.tokens - q1.tokens = 0
        BY <1>6
      <4> HIDE DEF needed
      <4> QED  BY <2>1, <2>6, <4>1, <4>2
    <3>7. PICK x \in Range(q1.items) \ Range(q2.items) : q1.tokens - (q2.tokens + x.size) < needed
      <4> HIDE DEF needed
      <4> QED  BY <2>2, <2>6, <3>6
    <3>8. x \in Range(q.items) \ Range(q2.items)
      BY <1>5 DEF Thinner
    <3>9. x.size \in Nat
      BY <3>8, ItemOf DEF HeldSection, Range
    <3>10. b.tokens + x.size > c.budget
      <4>1. PICK u, v, z, g, w, l : /\ u = q1.tokens /\ v = q2.tokens /\ z = x.size /\ g = item.size
                                   /\ w = c.budget /\ l = b.tokens
        OBVIOUS
      <4>2. /\ u \in Nat /\ v \in Nat /\ z \in Nat /\ g \in Nat /\ w \in Nat
            /\ l = v + g /\ u - (v + z) < u + g - w
        BY <1>1, <1>3, <1>6, <2>4, <3>3, <3>7, <3>9, <4>1, Zenon
      <4>3. l + z > w
        BY ONLY <4>2
      <4> QED  BY <4>1, <4>3, Zenon
    <3>11. Sparing(c, q, item, a, q2)
      BY <2>1, <2>3, <3>1, <3>2, <3>3, <3>8, <3>10 DEF Sparing
    <3> QED  BY <3>2, <3>3, <3>4, <3>5, <3>11 DEF AddsSparingly, a
  <2> QED  BY <2>5, <2>6
<1> QED  BY <1>9, <1>10, <1>11, <1>12

LEMMA ConfigOf ==
  ASSUME NEW c \in Configs, NEW t \in Types PROVE WellConfigured(c[t])
BY SessionMemoryAssumption DEF WellConfigured

LEMMA ClearedSound ==
  ASSUME NEW c, WellConfigured(c), NEW m \in Nat, NEW r \in Nat
  PROVE  HeldSection(Cleared, m, r) /\ WithinLimit(c, Cleared) /\ WithinBudget(c, Cleared)
<1>1. /\ Cleared.items = <<>> /\ Cleared.tokens = 0
      /\ Cleared.uses = NoTracking /\ Cleared.last = NoTracking
  BY DEF Cleared
<1>2. DOMAIN NoTracking = {} /\ NoTracking \in [{} -> Nat]
  BY DEF NoTracking
<1>3. <<>> \in Seq(Items) /\ Len(<<>>) = 0 /\ DOMAIN <<>> = {}
  OBVIOUS
<1>4. Cleared = [items |-> Cleared.items, tokens |-> Cleared.tokens, uses |-> Cleared.uses, last |-> Cleared.last]
  BY <1>1 DEF Cleared
<1>5. IsSection(Cleared)
  BY <1>1, <1>2, <1>3, <1>4 DEF IsSection
<1>6. HeldSection(Cleared, m, r)
  BY <1>1, <1>2, <1>3, <1>5, NoTokens DEF HeldSection, Increasing
<1> QED  BY <1>1, <1>3, <1>6 DEF WellConfigured, WithinLimit, WithinBudget

LEMMA RestoredSound ==
  ASSUME NEW c, NEW q, NEW m, NEW r, HeldSection(q, m, r), WithinLimit(c, q), WithinBudget(c, q)
  PROVE  HeldSection(Restored(q), m, r) /\ WithinLimit(c, Restored(q)) /\ WithinBudget(c, Restored(q))
<1> DEFINE a == Restored(q)
<1>1. a = [items |-> q.items, tokens |-> Tokens(q.items), uses |-> NoTracking, last |-> NoTracking]
  <2>1. PICK b : b = Cleared
    OBVIOUS
  <2>2. b = [items |-> b.items, tokens |-> b.tokens, uses |-> b.uses, last |-> b.last]
        /\ b.uses = NoTracking /\ b.last = NoTracking
    BY <2>1 DEF Cleared
  <2>3. a = [b EXCEPT !.items = q.items, !.tokens = Tokens(q.items)]
    BY <2>1 DEF Restored
  <2> HIDE DEF a
  <2>4. a = [items |-> q.items, tokens |-> Tokens(q.items), uses |-> b.uses, last |-> b.last]
    BY <2>2, <2>3
  <2> QED  BY <2>2, <2>4
<1> HIDE DEF a
<1>2. a.items = q.items /\ a.tokens = q.tokens /\ a.uses = NoTracking /\ a.last = NoTracking
  BY <1>1 DEF HeldSection
<1>3. DOMAIN NoTracking = {} /\ NoTracking \in [{} -> Nat]
  BY DEF NoTracking
<1>4. a = [items |-> a.items, tokens |-> a.tokens, uses |-> a.uses, last |-> a.last]
  BY <1>1, <1>2 DEF HeldSection
<1>5. IsSection(a)
  BY <1>2, <1>3, <1>4 DEF IsSection, HeldSection
<1>6. HeldSection(a, m, r)
  BY <1>2, <1>3, <1>5 DEF HeldSection
<1> QED  BY <1>2, <1>6 DEF WithinLimit, WithinBudget, a

\* What get() returns of a section is marked as read.
LEMMA TouchedSound ==
  ASSUME NEW c, NEW q, NEW m, clock \in Nat, HeldSection(q, m, clock), WithinLimit(c, q), WithinBudget(c, q),
         NEW s, Range(s) \subseteq Range(q.items)
  PROVE  HeldSection(Touched(q, s), m, clock + 1) /\ WithinLimit(c, Touched(q, s)) /\ WithinBudget(c, Touched(q, s))
<1> DEFINE a == Touched(q, s)
           ids == {i.id : i \in Range(s)}
           D == DOMAIN q.uses \cup ids
           E == DOMAIN q.last \cup ids
           f == [i \in D |-> Tracked(q.uses, i) + IF i \in ids THEN 1 ELSE 0]
           g == [i \in E |-> IF i \in ids THEN clock + 1 ELSE q.last[i]]
<1>1. a = [items |-> q.items, tokens |-> q.tokens, uses |-> f, last |-> g]
  <2>1. q = [items |-> q.items, tokens |-> q.tokens, uses |-> q.uses, last |-> q.last]
    BY DEF HeldSection, IsSection
  <2>2. a = [q EXCEPT !.uses = f, !.last = g]
    BY DEF Touched
  <2> HIDE DEF a, f, g
  <2> QED  BY <2>1, <2>2
<1>2. ids \subseteq Ids(q.items)
  BY DEF Ids
<1>3. /\ \A i \in DOMAIN q.uses : q.uses[i] \in 1..clock
      /\ \A i \in DOMAIN q.last : q.last[i] \in 1..clock
      /\ DOMAIN q.uses \cup DOMAIN q.last \subseteq Ids(q.items)
  BY DEF HeldSection
<1> HIDE DEF ids, a
<1>4. \A i \in D : f[i] \in 1..(clock + 1)
  <2> SUFFICES ASSUME NEW i \in D PROVE f[i] \in 1..(clock + 1)
    OBVIOUS
  <2>1. f[i] = Tracked(q.uses, i) + IF i \in ids THEN 1 ELSE 0
    OBVIOUS
  <2>2. CASE i \in DOMAIN q.uses
    <3>1. Tracked(q.uses, i) \in 1..clock
      BY <1>3, <2>2 DEF Tracked
    <3> HIDE DEF f
    <3> QED  BY <2>1, <3>1
  <2>3. CASE i \notin DOMAIN q.uses
    <3>1. Tracked(q.uses, i) = 0 /\ i \in ids
      BY <2>3 DEF Tracked
    <3> HIDE DEF f
    <3> QED  BY <2>1, <3>1
  <2> QED  BY <2>2, <2>3
<1>5. \A i \in E : g[i] \in 1..(clock + 1)
  <2> SUFFICES ASSUME NEW i \in E PROVE g[i] \in 1..(clock + 1)
    OBVIOUS
  <2>1. CASE i \in ids
    BY <2>1
  <2>2. CASE i \notin ids
    <3>1. q.last[i] \in 1..clock
      BY <1>3, <2>2
    <3> QED  BY <2>2, <3>1
  <2> QED  BY <2>1, <2>2
<1>6. DOMAIN f = D /\ DOMAIN g = E /\ f = [i \in DOMAIN f |-> f[i]] /\ g = [i \in DOMAIN g |-> g[i]]
  OBVIOUS
<1>7. D \cup E \subseteq Ids(q.items)
  BY <1>2, <1>3
<1> HIDE DEF D, E, f, g
<1>8. a.items = q.items /\ a.tokens = q.tokens /\ a.uses = f /\ a.last = g
  BY <1>1
<1>9. IsSection(a)
  <2>1. \A k \in 1..(clock + 1) : k \in Nat
    OBVIOUS
  <2>2. f \in [DOMAIN f -> Nat] /\ g \in [DOMAIN g -> Nat]
    BY <1>4, <1>5, <1>6, <2>1
  <2>3. a = [items |-> a.items, tokens |-> a.tokens, uses |-> a.uses, last |-> a.last]
    BY <1>1, <1>8
  <2> QED  BY <1>8, <2>2, <2>3 DEF IsSection, HeldSection
<1>10. HeldSection(a, m, clock + 1)
  BY <1>4, <1>5, <1>6, <1>7, <1>8, <1>9 DEF HeldSection
<1> QED  BY <1>8, <1>10 DEF WithinLimit, WithinBudget, a

\* What get() returns under a limit is a first part of the section that fits.
LEMMA FittingIs ==
  ASSUME NEW s \in Seq(AnyItems), NEW max \in Nat
  PROVE  \E k \in 0..Len(s) : FittingPrefix(s, max) = SubSeq(s, 1, k)
<1> DEFINE T == {k \in 0..Len(s) : Tokens(SubSeq(s, 1, k)) <= max}
<1>1. Len(s) \in Nat /\ 0 \in 0..Len(s)
  OBVIOUS
<1>2. SubSeq(s, 1, 0) = <<>>
  BY SubSeqEmpty
<1>3. 0 \in T
  <2>1. Tokens(SubSeq(s, 1, 0)) <= max
    <3>1. Tokens(SubSeq(s, 1, 0)) = 0
      BY <1>2, NoTokens
    <3> QED  BY <3>1
  <2> QED  BY <1>1, <2>1
<1>4. T \subseteq 0..Len(s) /\ FittingPrefix(s, max) = SubSeq(s, 1, Max(T))
  BY DEF FittingPrefix
<1> HIDE DEF T
<1>5. Max(T) \in T
  BY <1>1, <1>3, <1>4, MaxOfNaturals
<1> QED  BY <1>4, <1>5

LEMMA PartOfRange ==
  ASSUME NEW S, NEW s \in Seq(S), NEW a \in Nat, a > 0, NEW b \in 0..Len(s)
  PROVE  Range(SubSeq(s, a, b)) \subseteq Range(s) /\ SubSeq(s, a, b) \in Seq(S)
<1>1. \A i \in a..b : s[i] \in S
  OBVIOUS
<1>2. /\ SubSeq(s, a, b) \in Seq(S)
      /\ Len(SubSeq(s, a, b)) = IF a <= b THEN b - a + 1 ELSE 0
      /\ \A i \in 1..(b - a + 1) : SubSeq(s, a, b)[i] = s[a + i - 1]
  BY <1>1, SubSeqProperties
<1> DEFINE u == SubSeq(s, a, b)
<1> HIDE DEF u
<1>3. \A i \in DOMAIN u : i \in 1..(b - a + 1) /\ a + i - 1 \in DOMAIN s
  <2>1. DOMAIN u = 1..Len(u) /\ DOMAIN s = 1..Len(s) /\ Len(s) \in Nat
    BY <1>2 DEF u
  <2> QED  BY <1>2, <2>1 DEF u
<1>4. \A i \in DOMAIN u : u[i] \in Range(s)
  BY <1>2, <1>3 DEF u, Range
<1>5. Range(u) \subseteq Range(s)
  BY <1>4 DEF Range
<1> QED  BY <1>2, <1>5 DEF u

\* What the session memory is between two of its operations.
Outcomes4 == {"ok", "explicit", "full", "not_freed"}

SectionFine(t, q, m, r) ==
  HeldSection(q, m, r) /\ WithinLimit(config[t], q) /\ WithinBudget(config[t], q)

MemoryInv ==
  /\ config \in Configs /\ made \in 0..MaxItems /\ clock \in 0..MaxReads
  /\ {sticky, inTurn} \subseteq BOOLEAN
  /\ op.type \in Types \cup {"none"} /\ op.came \in Outcomes4
  /\ sec = [t \in Types |-> sec[t]]
  /\ \A t \in Types : SectionFine(t, sec[t], made, clock)

LEMMA Numbers ==
  ASSUME MemoryInv
  PROVE  /\ made \in Nat /\ clock \in Nat /\ MaxItems \in Nat /\ MaxReads \in Nat
         /\ made <= MaxItems /\ clock <= MaxReads
BY SessionMemoryAssumption DEF MemoryInv

LEMMA NoneIs == None.type = "none" /\ None.came = "ok"
BY DEF None

LEMMA FineLater ==
  ASSUME NEW t, NEW q, NEW m \in Nat, NEW r \in Nat, NEW m2 \in Nat, NEW r2 \in Nat, m <= m2, r <= r2,
         SectionFine(t, q, m, r)
  PROVE  SectionFine(t, q, m2, r2)
BY HeldLater DEF SectionFine

LEMMA MemoryStarts == Init => MemoryInv
<1> SUFFICES ASSUME Init PROVE MemoryInv
  OBVIOUS
<1> USE DEF Init
<1>1. MaxItems \in Nat /\ MaxReads \in Nat
  BY SessionMemoryAssumption
<1>2. sec = [t \in Types |-> sec[t]] /\ \A t \in Types : sec[t] = Cleared
  OBVIOUS
<1>3. ASSUME NEW t \in Types PROVE SectionFine(t, sec[t], made, clock)
  <2>1. WellConfigured(config[t])
    BY ConfigOf
  <2>2. 0 \in Nat
    OBVIOUS
  <2>3. SectionFine(t, Cleared, 0, 0)
    BY <2>1, <2>2, ClearedSound DEF SectionFine
  <2> QED  BY <1>2, <2>3
<1>4. made \in 0..MaxItems /\ clock \in 0..MaxReads /\ {sticky, inTurn} \subseteq BOOLEAN
  <2>1. made \in 0..MaxItems /\ clock \in 0..MaxReads
    BY <1>1
  <2>2. sticky \in BOOLEAN /\ inTurn \in BOOLEAN
    OBVIOUS
  <2> HIDE DEF Init
  <2> QED  BY <2>1, <2>2
<1>5. op.type \in Types \cup {"none"} /\ op.came \in Outcomes4
  BY NoneIs DEF Outcomes4
<1>6. config \in Configs
  OBVIOUS
<1> HIDE DEF Init
<1> QED  BY <1>2, <1>3, <1>4, <1>5, <1>6 DEF MemoryInv

\* An item of a number not given yet is one.
LEMMA NewItem ==
  ASSUME MemoryInv, made < MaxItems, NEW t \in Types, NEW size \in Sizes[t], NEW w \in Weights \cup {0}
  PROVE  [id |-> made + 1, size |-> size, priority |-> w] \in Items
<1>1. made + 1 \in 1..MaxItems
  BY Numbers
<1>2. t \in DOMAIN Sizes
  BY SessionMemoryAssumption
<1>3. size \in UNION Range(Sizes)
  BY <1>2 DEF Range
<1> QED  BY <1>1, <1>3 DEF Items

LEMMA LoadExplicitKeeps ==
  ASSUME MemoryInv, NEW t \in Types, NEW size \in Sizes[t], LoadExplicit(t, size)
  PROVE  MemoryInv'
<1> USE DEF LoadExplicit
<1>1. PICK item : item = [id |-> made + 1, size |-> size, priority |-> 0]
  OBVIOUS
<1>2. item \in Items /\ item.id = made + 1
  <2>1. item \in Items
    BY <1>1, NewItem
  <2> QED  BY <1>1, <2>1
<1>3. made' = made + 1 /\ made' \in 0..MaxItems /\ made \in Nat /\ made' \in Nat /\ clock \in Nat /\ made <= made'
  BY Numbers
<1>4. PICK q : q = sec[t]
  OBVIOUS
<1>5. sec' = [sec EXCEPT ![t] = AddItem(q, item)]
  BY <1>1, <1>3, <1>4
<1>6. sec' = [u \in Types |-> sec'[u]] /\ sec'[t] = AddItem(q, item) /\ \A u \in Types \ {t} : sec'[u] = sec[u]
  BY <1>5 DEF MemoryInv
<1>7. SectionFine(t, AddItem(q, item), made', clock)
  <2>1. HeldSection(q, made, clock)
    BY <1>4 DEF MemoryInv, SectionFine
  <2>2. HeldSection(AddItem(q, item), made + 1, clock)
    BY <1>2, <1>3, <2>1, AddItemSound
  <2> QED  BY <1>3, <2>2 DEF SectionFine, WithinLimit, WithinBudget
<1>8. ASSUME NEW u \in Types PROVE SectionFine(u, sec'[u], made', clock)
  <2>1. CASE u = t
    BY <1>6, <1>7, <2>1
  <2>2. CASE u # t
    <3>1. SectionFine(u, sec[u], made, clock) /\ clock <= clock
      BY <1>3 DEF MemoryInv
    <3>2. SectionFine(u, sec[u], made', clock)
      BY <1>3, <3>1, FineLater
    <3> QED  BY <1>6, <2>2, <3>2
  <2> QED  BY <2>1, <2>2
<1>9. \A u \in Types : SectionFine(u, sec[u], made, clock)'
  BY <1>8 DEF SectionFine
<1> QED  BY <1>3, <1>6, <1>9, NoneIs DEF MemoryInv, Outcomes4

LEMMA BeginTurnKeeps == ASSUME MemoryInv, BeginTurn PROVE MemoryInv'
<1> USE DEF BeginTurn
<1>1. made \in Nat /\ clock \in Nat
  BY Numbers
<1>2. sec' = [t \in Types |-> sec'[t]]
      /\ \A t \in Types : sec'[t] = IF config[t].ephemeral THEN Cleared ELSE Restored(sec[t])
  OBVIOUS
<1>3. ASSUME NEW t \in Types PROVE SectionFine(t, sec'[t], made, clock)
  <2>1. WellConfigured(config[t]) /\ SectionFine(t, sec[t], made, clock)
    BY ConfigOf DEF MemoryInv
  <2>2. PICK q : q = sec[t]
    OBVIOUS
  <2>3. PICK c : c = config[t]
    OBVIOUS
  <2>4. /\ HeldSection(Cleared, made, clock) /\ WithinLimit(c, Cleared) /\ WithinBudget(c, Cleared)
        /\ HeldSection(Restored(q), made, clock) /\ WithinLimit(c, Restored(q)) /\ WithinBudget(c, Restored(q))
    BY <1>1, <2>1, <2>2, <2>3, ClearedSound, RestoredSound DEF SectionFine
  <2>5. SectionFine(t, Cleared, made, clock) /\ SectionFine(t, Restored(q), made, clock)
    BY <2>3, <2>4 DEF SectionFine
  <2> QED  BY <1>2, <2>2, <2>5
<1>4. \A t \in Types : SectionFine(t, sec[t], made, clock)'
  BY <1>3 DEF SectionFine
<1> QED  BY <1>2, <1>4, NoneIs DEF MemoryInv, Outcomes4

\* Every section is read in part or whole.
LEMMA ReadKeeps ==
  ASSUME MemoryInv, clock < MaxReads, clock' = clock + 1, UNCHANGED <<config, made, inTurn>>,
         sticky' \in BOOLEAN, op' = None, NEW part,
         sec' = [t \in Types |-> Touched(sec[t], part[t])],
         \A t \in Types : Range(part[t]) \subseteq Range(sec[t].items)
  PROVE  MemoryInv'
<1>1. made \in Nat /\ clock \in Nat /\ clock' \in 0..MaxReads
  BY Numbers
<1>2. sec' = [t \in Types |-> sec'[t]] /\ \A t \in Types : sec'[t] = Touched(sec[t], part[t])
  OBVIOUS
<1>3. ASSUME NEW t \in Types PROVE SectionFine(t, sec'[t], made, clock + 1)
  <2>1. SectionFine(t, sec[t], made, clock)
    BY DEF MemoryInv
  <2>2. PICK q : q = sec[t]
    OBVIOUS
  <2>3. PICK c : c = config[t]
    OBVIOUS
  <2>4. PICK s : s = part[t]
    OBVIOUS
  <2>5. HeldSection(q, made, clock) /\ WithinLimit(c, q) /\ WithinBudget(c, q) /\ Range(s) \subseteq Range(q.items)
    BY <2>1, <2>2, <2>3, <2>4 DEF SectionFine
  <2>6. HeldSection(Touched(q, s), made, clock + 1) /\ WithinLimit(c, Touched(q, s)) /\ WithinBudget(c, Touched(q, s))
    BY <1>1, <2>5, TouchedSound
  <2> QED  BY <1>2, <2>2, <2>3, <2>4, <2>6 DEF SectionFine
<1>4. \A t \in Types : SectionFine(t, sec[t], made, clock)'
  BY <1>3 DEF SectionFine
<1> QED  BY <1>1, <1>2, <1>4, NoneIs DEF MemoryInv, Outcomes4

\* What recall() takes of a section is a part of it.
LEMMA RawPart ==
  ASSUME MemoryInv, NEW t \in Types
  PROVE  Range(SectionsRaw[t]) \subseteq Range(sec[t].items) /\ SectionsRaw[t] \in Seq(AnyItems)
<1>1. PICK s : s = sec[t].items
  OBVIOUS
<1>2. s \in Seq(AnyItems)
  BY <1>1, CountNat DEF MemoryInv, SectionFine
<1>3. PICK b \in Nat : b = config[t].budget
  BY ConfigOf DEF MemoryInv, WellConfigured
<1>4. SectionsRaw[t] = IF b > 0 THEN FittingPrefix(s, b) ELSE s
  BY <1>1, <1>3 DEF SectionsRaw
<1>5. PICK k \in 0..Len(s) : FittingPrefix(s, b) = SubSeq(s, 1, k)
  BY <1>2, <1>3, FittingIs
<1>6. Range(SubSeq(s, 1, k)) \subseteq Range(s) /\ SubSeq(s, 1, k) \in Seq(AnyItems)
  BY <1>2, PartOfRange
<1> QED  BY <1>1, <1>2, <1>4, <1>5, <1>6

LEMMA AssembleKeeps == ASSUME MemoryInv, Assemble PROVE MemoryInv'
<1> DEFINE part == [t \in Types |-> sec[t].items]
<1>1. \A t \in Types : part[t] = sec[t].items
  OBVIOUS
<1>2. sec' = [t \in Types |-> Touched(sec[t], part[t])]
  BY DEF Assemble
<1>3. sticky' \in BOOLEAN
  BY DEF Assemble, MemoryInv
<1> HIDE DEF part
<1> QED  BY <1>1, <1>2, <1>3, ReadKeeps DEF Assemble

LEMMA RecallKeeps == ASSUME MemoryInv, Recall PROVE MemoryInv'
<1>1. PICK part : part = SectionsRaw
  OBVIOUS
<1>2. sec' = [t \in Types |-> Touched(sec[t], part[t])]
  BY <1>1 DEF Recall
<1>3. \A t \in Types : Range(part[t]) \subseteq Range(sec[t].items)
  BY <1>1, RawPart
<1>4. sticky' \in BOOLEAN
  BY DEF Recall, MemoryInv
<1> QED  BY <1>2, <1>3, <1>4, ReadKeeps DEF Recall

\* An add, and what it evicted.
LEMMA AddKeeps ==
  ASSUME MemoryInv, NEW t \in Types, NEW size \in Sizes[t], NEW w \in WeightsOf(t), Add(t, size, w)
  PROVE  /\ MemoryInv'
         /\ op'.type = t /\ op'.size = size
         /\ \E item, a :
              /\ item.id = made + 1 /\ item.size = size
              /\ AddsSparingly(config[t], sec[t], item, a)
              /\ sec'[t] = a.left /\ op'.came = a.came
<1> USE DEF Add
<1>1. PICK item : item = [id |-> made + 1, size |-> size, priority |-> w]
  OBVIOUS
<1>2. item \in Items /\ item.id = made + 1 /\ item.size = size
  <2>1. w \in Weights \cup {0}
    BY DEF WeightsOf
  <2>2. item \in Items
    BY <1>1, <2>1, NewItem
  <2> QED  BY <1>1, <2>2
<1>3. PICK c : c = config[t]
  OBVIOUS
<1>4. PICK q : q = sec[t]
  OBVIOUS
<1>5. PICK a : a = Added(c, q, item)
  OBVIOUS
<1>6. /\ sec' = [sec EXCEPT ![t] = a.left]
      /\ op' = [type |-> t, id |-> item.id, size |-> size, came |-> a.came]
      /\ made' = made + 1 /\ UNCHANGED <<config, clock, sticky, inTurn>>
  BY <1>1, <1>3, <1>4, <1>5
<1>7. made' \in 0..MaxItems /\ made \in Nat /\ made' \in Nat /\ clock \in Nat /\ made <= made'
  BY Numbers
<1> USE DEF Add
<1>8. WellConfigured(c) /\ HeldSection(q, made, clock) /\ WithinLimit(c, q) /\ WithinBudget(c, q)
  BY <1>3, <1>4, ConfigOf DEF MemoryInv, SectionFine
<1> HIDE DEF Add
<1>9. /\ HeldSection(a.left, made, clock) \/ HeldSection(a.left, made + 1, clock)
      /\ WithinLimit(c, a.left) /\ WithinBudget(c, a.left)
      /\ AddsSparingly(c, q, item, a)
  BY <1>2, <1>5, <1>7, <1>8, AddedSound
<1>10. HeldSection(a.left, made + 1, clock)
  <2> SUFFICES ASSUME HeldSection(a.left, made, clock) PROVE HeldSection(a.left, made + 1, clock)
    BY <1>9
  <2>1. made + 1 \in Nat /\ made <= made + 1 /\ clock <= clock
    BY <1>7
  <2> QED  BY <1>7, <2>1, HeldLater
<1>11. sec' = [u \in Types |-> sec'[u]] /\ sec'[t] = a.left /\ \A u \in Types \ {t} : sec'[u] = sec[u]
  BY <1>6 DEF MemoryInv
<1>12. ASSUME NEW u \in Types PROVE SectionFine(u, sec'[u], made', clock)
  <2>1. CASE u = t
    BY <1>3, <1>6, <1>9, <1>10, <1>11, <2>1 DEF SectionFine
  <2>2. CASE u # t
    <3>1. SectionFine(u, sec[u], made, clock) /\ clock <= clock
      BY <1>7 DEF MemoryInv
    <3>2. SectionFine(u, sec[u], made', clock)
      BY <1>7, <3>1, FineLater
    <3> QED  BY <1>11, <2>2, <3>2
  <2> QED  BY <2>1, <2>2
<1>13. \A u \in Types : SectionFine(u, sec[u], made, clock)'
  BY <1>6, <1>12 DEF SectionFine
<1>14. a.came \in Outcomes4
  <2>1. PICK e : Sparing(c, q, item, a, e)
    BY <1>9 DEF AddsSparingly
  <2> QED  BY <2>1 DEF Sparing, Outcomes4
<1>15. op'.type = t /\ op'.size = size /\ op'.came = a.came
  BY <1>6
<1>16. MemoryInv'
  <2>1. config' \in Configs /\ {sticky, inTurn}' \subseteq BOOLEAN /\ clock' \in 0..MaxReads
    BY <1>6 DEF MemoryInv
  <2> QED  BY <1>7, <1>11, <1>13, <1>14, <1>15, <2>1 DEF MemoryInv
<1> QED  BY <1>2, <1>3, <1>4, <1>9, <1>11, <1>15, <1>16

\* A summary in the place of a section.
LEMMA SummaryKeeps ==
  ASSUME MemoryInv, NEW t \in Types, NEW size \in {0} \cup UNION Range(Sizes), size = 0 \/ made < MaxItems
  PROVE  LET q == SummaryOf(t, size).left IN
         IF size = 0 THEN q = sec[t] ELSE SectionFine(t, q, made + 1, clock)
<1>1. CASE size = 0
  BY <1>1 DEF SummaryOf
<1>2. CASE size # 0
  <2>1. PICK item : item = [id |-> made + 1, size |-> size, priority |-> 0]
    OBVIOUS
  <2>2. made + 1 \in 1..MaxItems /\ made \in Nat /\ clock \in Nat /\ made + 1 \in Nat /\ made <= made + 1 /\ clock <= clock
    BY <1>2, Numbers
  <2>3. item \in Items /\ item.id = made + 1
    BY <1>2, <2>1, <2>2 DEF Items
  <2>4. PICK c : c = config[t]
    OBVIOUS
  <2>5. WellConfigured(c) /\ HeldSection(Cleared, made, clock) /\ WithinLimit(c, Cleared) /\ WithinBudget(c, Cleared)
    <3>1. WellConfigured(c)
      BY <2>4, ConfigOf DEF MemoryInv
    <3> QED  BY <2>2, <3>1, ClearedSound
  <2>6. PICK a : a = Added(c, Cleared, item)
    OBVIOUS
  <2>7. PICK z : z = Cleared
    OBVIOUS
  <2>8. /\ HeldSection(a.left, made, clock) \/ HeldSection(a.left, made + 1, clock)
        /\ WithinLimit(c, a.left) /\ WithinBudget(c, a.left)
    BY <2>2, <2>3, <2>5, <2>6, <2>7, AddedSound
  <2>9. HeldSection(a.left, made + 1, clock)
    BY <2>2, <2>8, HeldLater
  <2>10. SummaryOf(t, size) = a
    BY <1>2, <2>1, <2>4, <2>6 DEF SummaryOf
  <2> QED  BY <1>2, <2>4, <2>8, <2>9, <2>10 DEF SectionFine
<1> QED  BY <1>1, <1>2

LEMMA EndTurnKeeps ==
  ASSUME MemoryInv, NEW size \in [Types -> {0} \cup UNION Range(Sizes)], EndTurn(size)
  PROVE  MemoryInv'
<1> DEFINE fails == {k \in DOMAIN Order :
                       Due(Order[k]) /\ SummaryOf(Order[k], size[Order[k]]).came # "ok"}
           done(t) == \E k \in DOMAIN Order : Order[k] = t /\ \A f \in fails : k <= f
           taken(t) == Due(t) /\ done(t)
<1>1. /\ inTurn' = FALSE /\ op' = None /\ UNCHANGED <<config, clock, sticky>>
      /\ made < MaxItems \/ \A t \in Types : size[t] = 0
      /\ made' = IF \E t \in Types : size[t] # 0 THEN made + 1 ELSE made
  BY DEF EndTurn
<1>2. sec' = [t \in Types |-> IF taken(t) THEN SummaryOf(t, size[t]).left ELSE sec[t]]
  BY DEF EndTurn
<1> HIDE DEF taken
<1>3. made \in Nat /\ clock \in Nat /\ MaxItems \in Nat /\ made <= MaxItems
  BY Numbers
<1>4. made' \in 0..MaxItems /\ made' \in Nat /\ made <= made' /\ clock <= clock
  BY <1>1, <1>3
<1>5. sec' = [t \in Types |-> sec'[t]]
      /\ \A t \in Types : sec'[t] = IF taken(t) THEN SummaryOf(t, size[t]).left ELSE sec[t]
  BY <1>2
<1>6. ASSUME NEW t \in Types PROVE SectionFine(t, sec'[t], made', clock)
  <2>1. SectionFine(t, sec[t], made', clock)
    <3>1. SectionFine(t, sec[t], made, clock)
      BY DEF MemoryInv
    <3> QED  BY <1>3, <1>4, <3>1, FineLater
  <2>2. CASE ~taken(t) \/ size[t] = 0
    <3>1. sec'[t] = sec[t]
      BY <1>5, <2>2 DEF SummaryOf
    <3> QED  BY <2>1, <3>1
  <2>3. CASE taken(t) /\ size[t] # 0
    <3>1. made' = made + 1 /\ made < MaxItems
      BY <1>1, <2>3
    <3>2. PICK z : z = size[t]
      OBVIOUS
    <3>3. z \in {0} \cup UNION Range(Sizes) /\ z # 0
      BY <2>3, <3>2
    <3>4. SectionFine(t, SummaryOf(t, z).left, made + 1, clock)
      BY <3>1, <3>3, SummaryKeeps
    <3> QED  BY <1>5, <2>3, <3>1, <3>2, <3>4
  <2> QED  BY <2>2, <2>3
<1>7. \A t \in Types : SectionFine(t, sec[t], made, clock)'
  BY <1>1, <1>6 DEF SectionFine
<1>8. config' \in Configs /\ {sticky, inTurn}' \subseteq BOOLEAN /\ clock' \in 0..MaxReads
  BY <1>1 DEF MemoryInv
<1> QED  BY <1>1, <1>4, <1>5, <1>7, <1>8, NoneIs DEF MemoryInv, Outcomes4

LEMMA MemoryStep == ASSUME MemoryInv, [Next]_vars PROVE MemoryInv'
<1>1. CASE \E t \in Types : \E s \in Sizes[t] : LoadExplicit(t, s)
  BY <1>1, LoadExplicitKeeps
<1>2. CASE BeginTurn
  BY <1>2, BeginTurnKeeps
<1>3. CASE \E t \in Types : \E s \in Sizes[t], w \in WeightsOf(t) : Add(t, s, w)
  BY <1>3, AddKeeps
<1>4. CASE Assemble
  BY <1>4, AssembleKeeps
<1>5. CASE Recall
  BY <1>5, RecallKeeps
<1>6. CASE \E size \in [Types -> {0} \cup UNION Range(Sizes)] : EndTurn(size)
  BY <1>6, EndTurnKeeps
<1>7. CASE UNCHANGED vars
  <2> USE <1>7 DEF vars
  <2>1. \A t \in Types : SectionFine(t, sec[t], made, clock)'
    BY DEF MemoryInv, SectionFine
  <2> QED  BY <2>1 DEF MemoryInv
<1> QED  BY <1>1, <1>2, <1>3, <1>4, <1>5, <1>6, <1>7 DEF Next

-----------------------------------------------------------------------------
(* What an add evicts.                                                       *)

\* Items that an add does not keep are those it evicted: the new one is none of them.
LEMMA GoneIs ==
  ASSUME MemoryInv, NEW t \in Types, NEW item, item.id = made + 1, NEW e,
         Range(e.items) \subseteq Range(sec[t].items),
         Range(sec'[t].items) = Range(e.items) \cup {item} \/ sec'[t] = e
  PROVE  Gone(t) = Range(sec[t].items) \ Range(e.items) /\ Stays(t) = Range(e.items)
<1>1. PICK q : q = sec[t]
  OBVIOUS
<1>2. HeldSection(q, made, clock) /\ IsSection(q) /\ Increasing(q.items)
  BY <1>1 DEF MemoryInv, SectionFine, HeldSection
<1>3. ASSUME NEW x \in Range(q.items) PROVE x.id # made + 1
  <2>1. PICK k \in DOMAIN q.items : x = q.items[k]
    BY DEF Range
  <2>2. x.id <= made /\ x.id \in Nat /\ made \in Nat
    BY <1>2, <2>1, ItemOf, Numbers DEF HeldSection
  <2> QED  BY <2>2
<1>4. PICK R : R = Range(sec'[t].items)
  OBVIOUS
<1>5. R = Range(e.items) \cup {item} \/ R = Range(e.items)
  BY <1>4
<1>6. ASSUME NEW x \in Range(q.items)
      PROVE  x.id \in Ids(sec'[t].items) <=> x \in Range(e.items)
  <2>1. x.id \in Ids(sec'[t].items) <=> \E y \in R : y.id = x.id
    BY <1>4 DEF Ids
  <2>2. ASSUME NEW y \in R, y.id = x.id PROVE x \in Range(e.items)
    <3>1. y \in Range(e.items)
      BY <1>3, <1>5, <2>2
    <3>2. y \in Range(q.items)
      BY <1>1, <3>1
    <3> QED  BY <1>2, <2>2, <3>1, <3>2, IdsApart
  <2>3. x \in Range(e.items) => x \in R
    BY <1>5
  <2> QED  BY <2>1, <2>2, <2>3
<1>7. Gone(t) = Range(q.items) \ Range(e.items)
  BY <1>1, <1>6 DEF Gone
<1> QED  BY <1>1, <1>7 DEF Stays

LEMMA EvictsStep ==
  ASSUME MemoryInv, [Next]_vars
  PROVE  UNCHANGED vars \/ (EvictsLeastWorth /\ EvictsNoMore /\ LossMeansTooBig)
<1>1. CASE op' = None
  <2>1. \A t \in Types : op'.type # t
    BY <1>1, NoneIs, SessionMemoryAssumption
  <2> QED  BY <2>1 DEF EvictsLeastWorth, EvictsNoMore, LossMeansTooBig
<1>2. CASE \E t \in Types : \E s \in Sizes[t], w \in WeightsOf(t) : Add(t, s, w)
  <2>0. PICK t \in Types : \E s \in Sizes[t], w \in WeightsOf(t) : Add(t, s, w)
    BY <1>2
  <2>1. PICK s \in Sizes[t], w \in WeightsOf(t) : Add(t, s, w)
    BY <2>0
  <2>2. PICK item, a :
          /\ item.id = made + 1 /\ item.size = s /\ AddsSparingly(config[t], sec[t], item, a)
          /\ sec'[t] = a.left /\ op'.came = a.came
    BY <2>1, AddKeeps
  <2>3. op'.type = t /\ op'.size = s
    BY <2>1, AddKeeps
  <2>4. PICK e : Sparing(config[t], sec[t], item, a, e)
    BY <2>2 DEF AddsSparingly
  <2>5. PICK q : q = sec[t]
    OBVIOUS
  <2>6. PICK c : c = config[t]
    OBVIOUS
  <2>7. Thinner(c.policy, q, e)
    BY <2>4, <2>5, <2>6 DEF Sparing
  <2>8. Range(e.items) \subseteq Range(q.items)
    BY <2>7 DEF Thinner
  <2>9. Range(sec'[t].items) = Range(e.items) \cup {item} \/ sec'[t] = e
    BY <2>2, <2>4 DEF Sparing
  <2>10. Gone(t) = Range(q.items) \ Range(e.items) /\ Stays(t) = Range(e.items)
    BY <2>2, <2>5, <2>8, <2>9, GoneIs
  <2>11. \A x \in Gone(t), k \in Stays(t) : NoDearer(config[t].policy, sec[t], x, k)
    BY <2>5, <2>6, <2>7, <2>10 DEF Thinner
  <2>12. EvictsLeastWorth
    BY <2>3, <2>11 DEF EvictsLeastWorth, NoDearer
  <2>13. EvictsNoMore
    <3>1. op'.came = "ok" /\ Gone(t) # {} =>
            \E x \in Gone(t) : \/ Len(sec'[t].items) + 1 > config[t].max
                               \/ config[t].budget > 0 /\ sec'[t].tokens + x.size > config[t].budget
      BY <2>2, <2>4, <2>5, <2>10 DEF Sparing
    <3> QED  BY <2>3, <3>1 DEF EvictsNoMore
  <2>14. LossMeansTooBig
    <3>1. op'.came # "ok" => Gone(t) = {} \/ op'.size > config[t].budget
      BY <2>2, <2>3, <2>4, <2>5, <2>10 DEF Sparing
    <3> QED  BY <2>3, <3>1 DEF LossMeansTooBig
  <2> QED  BY <2>12, <2>13, <2>14
<1>3. op' = None \/ UNCHANGED vars \/ \E t \in Types : \E s \in Sizes[t], w \in WeightsOf(t) : Add(t, s, w)
  BY DEF Next, LoadExplicit, BeginTurn, Assemble, Recall, EndTurn
<1> QED  BY <1>1, <1>2, <1>3

-----------------------------------------------------------------------------
(* What the model is shown.                                                  *)

\* Sums over sets without a common member.
LEMMA SumUnion ==
  ASSUME NEW w, NEW S, IsFiniteSet(S), NEW T, IsFiniteSet(T), S \cap T = {}, \A x \in S \cup T : w[x] \in Nat
  PROVE  SumOver(w, S \cup T) = SumOver(w, S) + SumOver(w, T)
<1> DEFINE Holds(s) == SumOver(w, S \cup s) = SumOver(w, S) + SumOver(w, s)
           Bad == {k \in 0..Cardinality(T) : \E s \in SUBSET T : Cardinality(s) = k /\ ~Holds(s)}
<1>1. ASSUME Bad # {} PROVE FALSE
  <2>1. Bad \subseteq Nat
    OBVIOUS
  <2>2. PICK m \in Bad : \A k \in Bad : m <= k
    BY <1>1, <2>1, LeastNatural
  <2>3. PICK s \in SUBSET T : Cardinality(s) = m /\ ~Holds(s)
    BY <2>2
  <2>4. IsFiniteSet(s) /\ IsFiniteSet(S \cup s) /\ SumOver(w, S) \in Nat
    BY FS_Subset, FS_Union, SumNat
  <2>5. s # {}
    <3>1. ASSUME s = {} PROVE Holds(s)
      <4>1. S \cup s = S
        BY <3>1
      <4> QED  BY <2>4, <3>1, <4>1, SumEmpty
    <3> HIDE DEF Holds
    <3> QED  BY <2>3, <3>1
  <2>6. PICK y \in s : TRUE
    BY <2>5
  <2> DEFINE u == s \ {y}
  <2>7. /\ SumOver(w, s) = w[y] + SumOver(w, u)
        /\ SumOver(w, S \cup s) = w[y] + SumOver(w, (S \cup s) \ {y})
    <3>1. \A x \in S \cup s : w[x] \in Nat
      OBVIOUS
    <3> QED  BY <2>4, <2>6, <3>1, SumPlus
  <2>8. (S \cup s) \ {y} = S \cup u
    BY <2>6
  <2>9. u \in SUBSET T /\ Cardinality(u) = m - 1 /\ m \in 0..Cardinality(T) /\ m > 0 /\ IsFiniteSet(u)
    BY <2>2, <2>3, <2>4, <2>6, LessOne
  <2>10. m - 1 \notin Bad /\ m - 1 \in 0..Cardinality(T)
    <3>1. m - 1 \in 0..Cardinality(T) /\ ~ (m <= m - 1)
      BY <2>9, FS_CardinalityType
    <3> HIDE DEF Bad
    <3> QED BY <2>2, <3>1
  <2>11. Holds(u)
    <3> HIDE DEF u, Holds
    <3> QED BY <2>9, <2>10
  <2>12. SumOver(w, u) \in Nat /\ w[y] \in Nat
    <3>1. \A x \in u : w[x] \in Nat
      OBVIOUS
    <3> HIDE DEF u
    <3> QED  BY <2>6, <2>9, <3>1, SumNat
  <2>13. Holds(s)
    <3>1. SumOver(w, S \cup s) = w[y] + SumOver(w, S \cup u)
      BY <2>7, <2>8
    <3>2. SumOver(w, S \cup u) = SumOver(w, S) + SumOver(w, u)
      BY <2>11
    <3> HIDE DEF u
    <3>3. w[y] + (SumOver(w, S) + SumOver(w, u)) = SumOver(w, S) + (w[y] + SumOver(w, u))
      BY <2>4, <2>12
    <3> QED  BY <2>7, <3>1, <3>2, <3>3
  <2> HIDE DEF Holds
  <2> QED  BY <2>3, <2>13
<1>2. Cardinality(T) \in 0..Cardinality(T)
  BY FS_CardinalityType
<1>3. Holds(T)
  <2>1. Cardinality(T) \notin Bad
    <3> HIDE DEF Bad
    <3> QED  BY <1>1
  <2> HIDE DEF Holds
  <2> QED  BY <1>2, <2>1
<1> QED  BY <1>3

\* A sum whose summands are no greater, and nothing outside T, is no greater.
LEMMA SumsCompare ==
  ASSUME NEW w, NEW v, NEW S, IsFiniteSet(S), NEW T, T \subseteq S,
         \A x \in S : w[x] \in Nat /\ v[x] \in Nat,
         \A x \in T : w[x] <= v[x], \A x \in S \ T : w[x] = 0
  PROVE  SumOver(w, S) <= SumOver(v, T) /\ SumOver(w, S) \in Nat /\ SumOver(v, T) \in Nat
<1> DEFINE Holds(s) == SumOver(w, s) <= SumOver(v, s \cap T)
           Bad == {k \in 0..Cardinality(S) : \E s \in SUBSET S : Cardinality(s) = k /\ ~Holds(s)}
<1>0. \A s \in SUBSET S : /\ IsFiniteSet(s) /\ IsFiniteSet(s \cap T)
                          /\ SumOver(w, s) \in Nat /\ SumOver(v, s \cap T) \in Nat
  BY FS_Subset, SumNat
<1>1. ASSUME Bad # {} PROVE FALSE
  <2>1. Bad \subseteq Nat
    OBVIOUS
  <2>2. PICK m \in Bad : \A k \in Bad : m <= k
    BY <1>1, <2>1, LeastNatural
  <2>3. PICK s \in SUBSET S : Cardinality(s) = m /\ ~Holds(s)
    BY <2>2
  <2>4. s # {}
    <3>1. ASSUME s = {} PROVE Holds(s)
      <4>1. s \cap T = {}
        BY <3>1
      <4> QED  BY <3>1, <4>1, SumEmpty
    <3> HIDE DEF Holds
    <3> QED  BY <2>3, <3>1
  <2>5. PICK y \in s : TRUE
    BY <2>4
  <2> DEFINE u == s \ {y}
  <2>6. u \in SUBSET S /\ Cardinality(u) = m - 1 /\ m \in 0..Cardinality(S) /\ m > 0
    BY <1>0, <2>2, <2>3, <2>5, LessOne
  <2>7. m - 1 \notin Bad /\ m - 1 \in 0..Cardinality(S)
    <3>1. m - 1 \in 0..Cardinality(S) /\ ~ (m <= m - 1)
      BY <2>6, FS_CardinalityType
    <3> HIDE DEF Bad
    <3> QED BY <2>2, <3>1
  <2>8. Holds(u)
    <3> HIDE DEF u, Holds
    <3> QED BY <2>6, <2>7
  <2>9. SumOver(w, s) = w[y] + SumOver(w, u) /\ w[y] \in Nat /\ SumOver(w, u) \in Nat
    <3>1. \A x \in s : w[x] \in Nat
      OBVIOUS
    <3>2. IsFiniteSet(s) /\ SumOver(w, u) \in Nat
      <4> HIDE DEF u
      <4> QED  BY <1>0, <2>6
    <3> QED  BY <2>5, <3>1, <3>2, SumPlus
  <2>10. SumOver(v, u \cap T) \in Nat
    <3> HIDE DEF u
    <3> QED  BY <1>0, <2>6
  <2>11. CASE y \in T
    <3>1. (s \cap T) \ {y} = u \cap T /\ y \in s \cap T /\ w[y] <= v[y] /\ v[y] \in Nat
      BY <2>5, <2>11
    <3>2. \A x \in s \cap T : v[x] \in Nat
      OBVIOUS
    <3>3. SumOver(v, s \cap T) = v[y] + SumOver(v, (s \cap T) \ {y})
      BY <1>0, <3>1, <3>2, SumPlus
    <3>4. Holds(s)
      <4> HIDE DEF u
      <4> QED  BY <2>8, <2>9, <2>10, <3>1, <3>3
    <3> HIDE DEF Holds
    <3> QED  BY <2>3, <3>4
  <2>12. CASE y \notin T
    <3>1. s \cap T = u \cap T /\ w[y] = 0
      BY <2>5, <2>12
    <3>2. Holds(s)
      <4> HIDE DEF u
      <4> QED  BY <2>8, <2>9, <2>10, <3>1
    <3> HIDE DEF Holds
    <3> QED  BY <2>3, <3>2
  <2> QED  BY <2>11, <2>12
<1>2. Cardinality(S) \in 0..Cardinality(S)
  BY FS_CardinalityType
<1>3. Holds(S)
  <2>1. Cardinality(S) \notin Bad
    <3> HIDE DEF Bad
    <3> QED  BY <1>1
  <2> HIDE DEF Holds
  <2> QED  BY <1>2, <2>1
<1>4. S \cap T = T
  OBVIOUS
<1> QED  BY <1>0, <1>3, <1>4

\* The types of sections, and their ranks.
LEMMA RanksAre ==
  /\ IsFiniteSet(Types) /\ Len(Priority) \in Nat
  /\ \A t \in Types : Rank(t) \in 1..Len(Priority) /\ Priority[Rank(t)] = t
<1>1. Priority \in Seq(Types) /\ Types = Range(Priority)
  BY SessionMemoryAssumption
<1>2. DOMAIN Priority = 1..Len(Priority) /\ Len(Priority) \in Nat
  BY <1>1
<1> HIDE DEF Types
<1>3. IsFiniteSet(Types)
  <2>1. IsFiniteSet(1..Len(Priority))
    BY <1>2, FS_Interval
  <2>2. Priority \in Surjection(1..Len(Priority), Types)
    BY <1>1, <1>2 DEF Surjection, Range
  <2> QED  BY <2>1, <2>2, FS_Surjection
<1>4. ASSUME NEW t \in Types PROVE Rank(t) \in 1..Len(Priority) /\ Priority[Rank(t)] = t
  <2> DEFINE T == {k \in DOMAIN Priority : Priority[k] = t}
  <2>1. T \subseteq Nat /\ T # {}
    <3>1. PICK k \in DOMAIN Priority : Priority[k] = t
      BY <1>1 DEF Range
    <3> QED  BY <1>2, <3>1
  <2>2. Rank(t) = Min(T)
    BY DEF Rank
  <2> HIDE DEF T
  <2>3. Min(T) \in T
    BY <2>1, MinOfNaturals
  <2> QED  BY <1>2, <2>2, <2>3 DEF T
<1> QED  BY <1>2, <1>3, <1>4

LEMMA RanksApart ==
  ASSUME NEW t \in Types, NEW u \in Types, t # u
  PROVE  Rank(t) < Rank(u) \/ Rank(u) < Rank(t)
<1>1. Rank(t) \in 1..Len(Priority) /\ Rank(u) \in 1..Len(Priority) /\ Len(Priority) \in Nat
      /\ Priority[Rank(t)] = t /\ Priority[Rank(u)] = u
  BY RanksAre
<1>2. Rank(t) # Rank(u)
  BY <1>1
<1> QED  BY <1>1, <1>2

\* Sections of a view: the tokens of each, and those of some of them.
Held(raw) == [t \in Types |-> Tokens(raw[t])]
IsView(raw) == raw = [t \in Types |-> raw[t]] /\ \A t \in Types : raw[t] \in Seq(AnyItems)
Lower(t) == {u \in Types : Rank(u) < Rank(t)}
Higher(t) == {u \in Types : Rank(u) > Rank(t)}

LEMMA ShareIs == \A raw, S : Share(raw, S) = SumOver(Held(raw), S)
BY DEF Share, Held, SumOver

LEMMA ShareNat ==
  ASSUME NEW raw, IsView(raw), NEW S, S \subseteq Types
  PROVE  /\ IsFiniteSet(S) /\ Share(raw, S) \in Nat
         /\ \A t \in Types : Held(raw)[t] = Tokens(raw[t]) /\ Held(raw)[t] \in Nat
<1>1. \A t \in Types : Held(raw)[t] = Tokens(raw[t]) /\ Held(raw)[t] \in Nat
  BY TokensNat DEF Held, IsView
<1>2. IsFiniteSet(S)
  BY RanksAre, FS_Subset
<1> QED  BY <1>1, <1>2, ShareIs, SumNat

\* What all contribute is what comes before a section, its own part and what comes after.
LEMMA ShareParts ==
  ASSUME NEW raw, IsView(raw), NEW t \in Types
  PROVE  /\ TotalOf(raw) = TrimmedBefore(raw, t) + Tokens(raw[t]) + Share(raw, Lower(t))
         /\ TotalOf(raw) \in Nat /\ TrimmedBefore(raw, t) \in Nat
         /\ Tokens(raw[t]) \in Nat /\ Share(raw, Lower(t)) \in Nat
<1> DEFINE w == Held(raw)
           H == Higher(t)
           L == Lower(t)
<1>1. H \subseteq Types /\ L \subseteq Types /\ TrimmedBefore(raw, t) = Share(raw, H)
  BY DEF Higher, Lower, TrimmedBefore
<1>2. /\ IsFiniteSet(H) /\ IsFiniteSet(L) /\ IsFiniteSet(Types) /\ TotalOf(raw) \in Nat
      /\ Share(raw, H) \in Nat /\ Share(raw, L) \in Nat
      /\ \A u \in Types : w[u] = Tokens(raw[u]) /\ w[u] \in Nat
  BY <1>1, ShareNat DEF TotalOf
<1>3. H \cap L = {}
  <2>1. \A u \in Types : Rank(u) \in Nat
    BY RanksAre
  <2> QED  BY <2>1 DEF Higher, Lower
<1>4. Types \ {t} = H \cup L
  <2>1. Rank(t) \in Nat
    BY RanksAre
  <2>2. \A u \in Types \ {t} : Rank(t) < Rank(u) \/ Rank(u) < Rank(t)
    BY RanksApart
  <2>3. \A u \in Types : Rank(u) \in Nat
    BY RanksAre
  <2> HIDE DEF Types
  <2> QED  BY <2>1, <2>2, <2>3 DEF Higher, Lower
<1> HIDE DEF w, H, L, Types
<1>5. SumOver(w, Types) = w[t] + SumOver(w, Types \ {t})
  BY <1>2, SumPlus
<1>6. SumOver(w, H \cup L) = SumOver(w, H) + SumOver(w, L)
  <2>1. \A x \in H \cup L : w[x] \in Nat
    BY <1>1, <1>2
  <2> QED  BY <1>2, <1>3, <2>1, SumUnion
<1>7. TotalOf(raw) = SumOver(w, Types) /\ Share(raw, H) = SumOver(w, H) /\ Share(raw, L) = SumOver(w, L)
  BY ShareIs DEF TotalOf, w
<1>8. w[t] = Tokens(raw[t]) /\ w[t] \in Nat
  BY <1>2
<1>9. TotalOf(raw) = Tokens(raw[t]) + (TrimmedBefore(raw, t) + Share(raw, L))
  BY <1>1, <1>4, <1>5, <1>6, <1>7, <1>8
<1>10. Tokens(raw[t]) \in Nat /\ TrimmedBefore(raw, t) \in Nat /\ Share(raw, L) \in Nat /\ TotalOf(raw) \in Nat
  BY <1>1, <1>2, <1>8
<1>11. Tokens(raw[t]) + (TrimmedBefore(raw, t) + Share(raw, L)) = TrimmedBefore(raw, t) + Tokens(raw[t]) + Share(raw, L)
  BY <1>10
<1> QED  BY <1>9, <1>10, <1>11 DEF L

\* A section trimmed after another: what comes before it includes the other.
LEMMA SharesNest ==
  ASSUME NEW raw, IsView(raw), NEW t \in Types, NEW u \in Types, Rank(u) > Rank(t)
  PROVE  TrimmedBefore(raw, u) + Tokens(raw[u]) <= TrimmedBefore(raw, t)
<1> DEFINE w == Held(raw)
           H == Higher(t)
           R == Higher(u) \cup {u}
<1>1. \A x \in Types : Rank(x) \in Nat
  BY RanksAre
<1>2. H \subseteq Types /\ R \subseteq H /\ u \notin Higher(u) /\ Higher(u) \subseteq Types
  <2> HIDE DEF Types
  <2> QED  BY <1>1 DEF Higher
<1>3. /\ IsFiniteSet(H) /\ IsFiniteSet(R) /\ IsFiniteSet(H \ R) /\ IsFiniteSet(Higher(u))
      /\ \A x \in Types : w[x] = Tokens(raw[x]) /\ w[x] \in Nat
  <2>1. R \subseteq Types /\ H \ R \subseteq Types
    BY <1>2
  <2> QED  BY <1>2, <2>1, ShareNat
<1>4. TrimmedBefore(raw, u) = SumOver(w, Higher(u)) /\ TrimmedBefore(raw, t) = SumOver(w, H)
  BY ShareIs DEF TrimmedBefore, Higher
<1>5. R \ {u} = Higher(u) /\ u \in R /\ H = R \cup (H \ R) /\ R \cap (H \ R) = {} /\ R \subseteq Types
  BY <1>2
<1> HIDE DEF w, H, R, Types
<1>6. SumOver(w, R) = w[u] + SumOver(w, Higher(u))
  <2>1. \A x \in R : w[x] \in Nat
    BY <1>3, <1>5
  <2>2. SumOver(w, R) = w[u] + SumOver(w, R \ {u})
    BY <1>3, <1>5, <2>1, SumPlus
  <2> QED  BY <1>5, <2>2
<1>7. SumOver(w, H) = SumOver(w, R) + SumOver(w, H \ R)
  <2>1. \A x \in R \cup (H \ R) : w[x] \in Nat
    BY <1>2, <1>3
  <2>2. SumOver(w, R \cup (H \ R)) = SumOver(w, R) + SumOver(w, H \ R)
    BY <1>3, <1>5, <2>1, SumUnion
  <2> QED  BY <1>5, <2>2
<1>8. SumOver(w, Higher(u)) \in Nat /\ SumOver(w, H \ R) \in Nat /\ w[u] = Tokens(raw[u]) /\ w[u] \in Nat
  <2>1. \A x \in Higher(u) : w[x] \in Nat
    BY <1>2, <1>3
  <2>2. \A x \in H \ R : w[x] \in Nat
    BY <1>2, <1>3
  <2> QED  BY <1>3, <2>1, <2>2, SumNat
<1> QED  BY <1>4, <1>6, <1>7, <1>8

\* What is cut off a section: nothing without an excess, all of it when that is not enough,
\* else enough.
Excess(raw, total, t) == TotalOf(raw) - total - TrimmedBefore(raw, t)

IsCut(raw, total, t, cut) ==
  /\ cut \in 0..Len(raw[t])
  /\ Trimmed(raw, total)[t] = SubSeq(raw[t], cut + 1, Len(raw[t]))
  /\ cut # 0 => Excess(raw, total, t) > 0
  /\ Excess(raw, total, t) > Tokens(raw[t]) => cut = Len(raw[t])
  /\ Excess(raw, total, t) <= Tokens(raw[t]) => Tokens(SubSeq(raw[t], 1, cut)) >= Excess(raw, total, t)

LEMMA CutIs ==
  ASSUME NEW raw, IsView(raw), NEW total \in Nat, NEW t \in Types
  PROVE  \E cut : IsCut(raw, total, t, cut)
<1> DEFINE x == Excess(raw, total, t)
           s == raw[t]
           N == Len(s)
           enough == {k \in 0..N : Tokens(SubSeq(s, 1, k)) >= x}
           cut == IF enough = {} THEN N ELSE Min(enough)
<1>1. s \in Seq(AnyItems) /\ N \in Nat
  BY DEF IsView
<1>2. x \in Int /\ Tokens(s) \in Nat
  BY ShareParts DEF Excess
<1>3. Trimmed(raw, total)[t] = SubSeq(s, cut + 1, N)
  BY DEF Trimmed, Excess
<1>4. \A k \in 0..N : Tokens(SubSeq(s, 1, k)) \in Nat /\ Tokens(SubSeq(s, 1, k)) <= Tokens(s)
  <2> SUFFICES ASSUME NEW k \in 0..N PROVE Tokens(SubSeq(s, 1, k)) \in Nat /\ Tokens(SubSeq(s, 1, k)) <= Tokens(s)
    OBVIOUS
  <2>1. /\ Tokens(SubSeq(s, 1, k)) + Tokens(SubSeq(s, k + 1, N)) = Tokens(s)
        /\ Tokens(SubSeq(s, 1, k)) \in Nat /\ Tokens(SubSeq(s, k + 1, N)) \in Nat
    BY <1>1, TokensCut
  <2> QED  BY <2>1
<1>5. Tokens(SubSeq(s, 1, 0)) = 0 /\ SubSeq(s, 1, N) = s
  <2>1. SubSeq(s, 1, 0) = <<>>
    BY SubSeqEmpty
  <2> QED  BY <1>1, <2>1, NoTokens, SubSeqFull
<1> HIDE DEF x, s, N
<1>6. enough # {} => Min(enough) \in enough /\ \A k \in enough : Min(enough) <= k
  <2>1. enough \subseteq Nat
    OBVIOUS
  <2> HIDE DEF enough
  <2> QED  BY <2>1, MinOfNaturals
<1>7. cut \in 0..N
  <2>1. Min(enough) \in enough => Min(enough) \in 0..N
    OBVIOUS
  <2> HIDE DEF enough
  <2> QED  BY <1>1, <1>6, <2>1
<1>8. cut # 0 => x > 0
  <2> SUFFICES ASSUME x <= 0 PROVE cut = 0
    BY <1>2
  <2>1. 0 \in enough
    BY <1>1, <1>2, <1>5
  <2>2. Min(enough) <= 0 /\ cut = Min(enough)
    <3> HIDE DEF enough
    <3> QED  BY <1>6, <2>1
  <2> HIDE DEF cut, enough
  <2> QED  BY <1>7, <2>2
<1>9. x > Tokens(s) => cut = N
  <2> SUFFICES ASSUME x > Tokens(s) PROVE cut = N
    OBVIOUS
  <2>1. enough = {}
    <3>1. \A k \in 0..N : ~ (Tokens(SubSeq(s, 1, k)) >= x)
      BY <1>2, <1>4
    <3> QED  BY <3>1
  <2> QED  BY <2>1
<1>10. x <= Tokens(s) => Tokens(SubSeq(s, 1, cut)) >= x
  <2> SUFFICES ASSUME x <= Tokens(s) PROVE Tokens(SubSeq(s, 1, cut)) >= x
    OBVIOUS
  <2>1. Tokens(SubSeq(s, 1, N)) >= x
    BY <1>2, <1>5
  <2>2. N \in enough
    BY <1>1, <2>1
  <2>3. cut \in enough
    <3> HIDE DEF enough
    <3> QED  BY <1>6, <2>2
  <2> HIDE DEF cut
  <2> QED  BY <2>3
<1> HIDE DEF cut
<1>11. IsCut(raw, total, t, cut)
  BY <1>3, <1>7, <1>8, <1>9, <1>10 DEF IsCut, x, s, N
<1> QED  BY <1>11

\* What trimming leaves of a section.
LEMMA TrimmedLeaves ==
  ASSUME NEW raw, IsView(raw), NEW total \in Nat, NEW t \in Types
  PROVE  LET left == Trimmed(raw, total)[t]
             x == Excess(raw, total, t)
         IN /\ left \in Seq(AnyItems) /\ Tokens(left) \in Nat /\ x \in Int
            /\ Tokens(left) <= Tokens(raw[t])
            /\ Tokens(left) <= Tokens(raw[t]) - x \/ left = <<>>
            /\ x > Tokens(raw[t]) => left = <<>>
            /\ IsRecent(left, raw[t])
            /\ left # raw[t] => x > 0
<1> DEFINE left == Trimmed(raw, total)[t]
           x == Excess(raw, total, t)
           s == raw[t]
           N == Len(s)
<1>1. s \in Seq(AnyItems) /\ N \in Nat
  BY DEF IsView
<1>2. x \in Int /\ Tokens(s) \in Nat
  BY ShareParts DEF Excess
<1>3. PICK cut : IsCut(raw, total, t, cut)
  BY CutIs
<1>4. /\ cut \in 0..N /\ left = SubSeq(s, cut + 1, N) /\ (cut # 0 => x > 0)
      /\ (x > Tokens(s) => cut = N) /\ (x <= Tokens(s) => Tokens(SubSeq(s, 1, cut)) >= x)
  BY <1>3 DEF IsCut
<1> HIDE DEF left, x, s, N
<1>5. /\ SubSeq(s, cut + 1, N) \in Seq(AnyItems)
      /\ Tokens(SubSeq(s, 1, cut)) + Tokens(SubSeq(s, cut + 1, N)) = Tokens(s)
      /\ Tokens(SubSeq(s, 1, cut)) \in Nat /\ Tokens(SubSeq(s, cut + 1, N)) \in Nat
  BY <1>1, <1>4, TokensCut DEF N
<1>6. cut = N => left = <<>>
  <2> SUFFICES ASSUME cut = N PROVE left = <<>>
    OBVIOUS
  <2>1. N + 1 \in Int /\ N \in Int /\ N < N + 1
    BY <1>1
  <2> QED  BY <1>4, <2>1, SubSeqEmpty
<1>7. left # s => x > 0
  <2> SUFFICES ASSUME cut = 0 PROVE left = s
    BY <1>4
  <2>1. cut + 1 = 1
    OBVIOUS
  <2> QED  BY <1>1, <1>4, <2>1, SubSeqFull DEF N
<1>8. IsRecent(left, s)
  BY <1>4 DEF IsRecent, N
<1>9. Tokens(left) <= Tokens(s) /\ (Tokens(left) <= Tokens(s) - x \/ left = <<>>)
  <2>1. CASE x > Tokens(s)
    BY <1>2, <1>4, <1>5, <1>6, <2>1
  <2>2. CASE ~ (x > Tokens(s))
    BY <1>2, <1>4, <1>5, <2>2
  <2> QED  BY <2>1, <2>2
<1> QED  BY <1>2, <1>4, <1>5, <1>6, <1>7, <1>8, <1>9 DEF left, x, s

LEMMA TrimmedView ==
  ASSUME NEW raw, IsView(raw), NEW total \in Nat
  PROVE  IsView(Trimmed(raw, total))
<1> DEFINE v == Trimmed(raw, total)
<1>1. v = [t \in Types |-> v[t]]
  BY DEF Trimmed
<1>2. \A t \in Types : v[t] \in Seq(AnyItems)
  BY TrimmedLeaves
<1> HIDE DEF v
<1> QED  BY <1>1, <1>2 DEF IsView, v

\* A trimmed view fits: the sections before the one in which the excess ends are gone, that one
\* gives the rest of it, and those after give nothing.
LEMMA TrimmedFits ==
  ASSUME NEW raw, IsView(raw), NEW total \in Nat
  PROVE  TotalOf(Trimmed(raw, total)) <= total /\ TotalOf(Trimmed(raw, total)) \in Nat
<1> DEFINE kept == Trimmed(raw, total)
           T == TotalOf(raw)
           Ends(t) == TrimmedBefore(raw, t) + Tokens(raw[t]) >= T - total
           ranks == {k \in 1..Len(Priority) : \E t \in Types : Ends(t) /\ Rank(t) = k}
<1>1. IsView(kept)
  BY TrimmedView
<1>2. Documents \in Types /\ Len(Priority) \in Nat
      /\ \A t \in Types : Rank(t) \in 1..Len(Priority) /\ Priority[Rank(t)] = t
  BY SessionMemoryAssumption, RanksAre
<1>3. \A t \in Types : /\ T = TrimmedBefore(raw, t) + Tokens(raw[t]) + Share(raw, Lower(t))
                       /\ T \in Nat /\ TrimmedBefore(raw, t) \in Nat
                       /\ Tokens(raw[t]) \in Nat /\ Share(raw, Lower(t)) \in Nat
  BY ShareParts
<1>4. \E t \in Types : Ends(t)
  <2> DEFINE R == {Rank(t) : t \in Types}
  <2>1. R \subseteq Nat /\ R # {}
    <3> HIDE DEF Types
    <3> QED  BY <1>2
  <2>2. PICK l \in R : \A k \in R : l <= k
    <3> HIDE DEF R
    <3> QED  BY <2>1, LeastNatural
  <2>3. PICK t \in Types : Rank(t) = l
    OBVIOUS
  <2>4. Lower(t) = {}
    <3>1. \A u \in Types : l <= Rank(u) /\ Rank(u) \in Nat
      BY <1>2, <2>2
    <3>2. l \in Nat
      BY <2>1
    <3> HIDE DEF Types, R
    <3> QED  BY <2>3, <3>1, <3>2 DEF Lower
  <2>5. Share(raw, Lower(t)) = 0
    BY <2>4, ShareIs, SumEmpty
  <2>6. T = TrimmedBefore(raw, t) + Tokens(raw[t])
    <3> HIDE DEF T
    <3>1. T = TrimmedBefore(raw, t) + Tokens(raw[t]) + 0 /\ TrimmedBefore(raw, t) \in Nat /\ Tokens(raw[t]) \in Nat
      BY <1>3, <2>5
    <3> QED  BY <3>1
  <2>7. Ends(t)
    <3>1. T \in Nat
      BY <1>3
    <3> HIDE DEF T
    <3> QED  BY <2>6, <3>1
  <2> QED  BY <2>7
<1>5. PICK t \in Types : Ends(t) /\ \A u \in Types : Rank(u) > Rank(t) => ~Ends(u)
  <2> HIDE DEF Ends, Types
  <2>1. PICK z \in Types : Ends(z)
    BY <1>4
  <2>2. ranks \subseteq 0..Len(Priority) /\ Rank(z) \in ranks
    BY <1>2, <2>1
  <2>3. PICK m \in ranks : \A k \in ranks : k <= m
    <3> HIDE DEF ranks
    <3> QED  BY <1>2, <2>2, MaxOfNaturals
  <2>4. PICK t \in Types : Ends(t) /\ Rank(t) = m
    OBVIOUS
  <2>5. ASSUME NEW u \in Types, Rank(u) > Rank(t), Ends(u) PROVE FALSE
    <3>1. Rank(u) \in ranks
      BY <1>2, <2>5
    <3>2. Rank(u) <= m /\ Rank(u) \in Nat /\ m \in Nat
      <4> HIDE DEF ranks
      <4> QED  BY <1>2, <2>3, <2>4, <3>1
    <3> QED  BY <2>4, <2>5, <3>2
  <2> QED  BY <2>4, <2>5
<1> HIDE DEF kept, T, Types
<1>6. ASSUME NEW u \in Types, Rank(u) > Rank(t) PROVE kept[u] = <<>>
  <2>1. ~ (TrimmedBefore(raw, u) + Tokens(raw[u]) >= T - total)
    BY <1>5, <1>6
  <2>2. Excess(raw, total, u) > Tokens(raw[u])
    BY <1>3, <2>1 DEF Excess, T
  <2> QED  BY <2>2, TrimmedLeaves DEF kept
<1>7. Tokens(kept[t]) <= Tokens(raw[t]) - Excess(raw, total, t) /\ Tokens(kept[t]) \in Nat
  <2>1. Excess(raw, total, t) <= Tokens(raw[t]) /\ Excess(raw, total, t) \in Int
    BY <1>3, <1>5 DEF Excess, T
  <2>2. PICK left : left = kept[t]
    OBVIOUS
  <2>3. Tokens(left) \in Nat /\ (Tokens(left) <= Tokens(raw[t]) - Excess(raw, total, t) \/ left = <<>>)
    BY <2>2, TrimmedLeaves DEF kept
  <2>4. left = <<>> => Tokens(left) = 0
    BY NoTokens
  <2> QED  BY <1>3, <2>1, <2>2, <2>3, <2>4
<1> DEFINE w == Held(kept)
           v == Held(raw)
           S == Types \ {t}
<1>8. /\ \A u \in Types : w[u] = Tokens(kept[u]) /\ w[u] \in Nat
      /\ \A u \in Types : v[u] = Tokens(raw[u]) /\ v[u] \in Nat
      /\ IsFiniteSet(Types) /\ IsFiniteSet(S) /\ TotalOf(kept) \in Nat
  <2>1. S \subseteq Types
    OBVIOUS
  <2> QED  BY <1>1, <2>1, ShareNat DEF TotalOf
<1> HIDE DEF w, v
<1>9. SumOver(w, S) <= SumOver(v, Lower(t)) /\ SumOver(w, S) \in Nat
  <2>1. Lower(t) \subseteq S
    BY <1>2 DEF Lower
  <2>2. \A u \in Lower(t) : w[u] <= v[u]
    <3> SUFFICES ASSUME NEW u \in Lower(t) PROVE w[u] <= v[u]
      OBVIOUS
    <3>1. u \in Types
      BY DEF Lower
    <3>2. Tokens(kept[u]) <= Tokens(raw[u])
      BY <3>1, TrimmedLeaves DEF kept
    <3> QED  BY <1>8, <3>1, <3>2
  <2>3. \A u \in S \ Lower(t) : w[u] = 0
    <3> SUFFICES ASSUME NEW u \in S \ Lower(t) PROVE w[u] = 0
      OBVIOUS
    <3>1. u \in Types /\ u # t /\ ~ (Rank(u) < Rank(t))
      BY DEF Lower
    <3>2. Rank(t) < Rank(u)
      BY <3>1, RanksApart
    <3>3. Rank(u) > Rank(t)
      BY <1>2, <3>1, <3>2
    <3>4. kept[u] = <<>>
      BY <1>6, <3>1, <3>3
    <3> QED  BY <1>8, <3>1, <3>4, NoTokens
  <2>4. \A u \in S : w[u] \in Nat /\ v[u] \in Nat
    BY <1>8
  <2> HIDE DEF S
  <2> QED  BY <1>8, <2>1, <2>2, <2>3, <2>4, SumsCompare
<1>10. TotalOf(kept) = Tokens(kept[t]) + SumOver(w, S)
  <2>1. SumOver(w, Types) = w[t] + SumOver(w, Types \ {t})
    BY <1>8, SumPlus
  <2> QED  BY <1>8, <2>1, ShareIs DEF TotalOf, w
<1>11. SumOver(v, Lower(t)) = Share(raw, Lower(t))
  BY ShareIs DEF v
<1> HIDE DEF S
<1>12. TotalOf(kept) <= total
  <2>1. T = TrimmedBefore(raw, t) + Tokens(raw[t]) + Share(raw, Lower(t))
        /\ T \in Nat /\ TrimmedBefore(raw, t) \in Nat
        /\ Tokens(raw[t]) \in Nat /\ Share(raw, Lower(t)) \in Nat
    BY <1>3
  <2>2. Excess(raw, total, t) = T - total - TrimmedBefore(raw, t)
    BY DEF Excess, T
  <2>3. PICK a \in Nat, b \in Nat, l \in Nat, k \in Nat, r \in Nat :
          /\ a = TrimmedBefore(raw, t) /\ b = Tokens(raw[t]) /\ l = Share(raw, Lower(t))
          /\ k = Tokens(kept[t]) /\ r = SumOver(w, S)
    BY <1>7, <1>9, <2>1
  <2>4. k <= b - ((a + b + l) - total - a) /\ r <= l
    BY <1>7, <1>9, <1>11, <2>1, <2>2, <2>3
  <2>5. k + r <= total
    BY <2>4
  <2> QED  BY <1>10, <2>3, <2>5
<1> QED  BY <1>8, <1>12 DEF kept

\* Where an item stands among those found.
FoundIn(s, hits) == {i \in DOMAIN s : s[i].id \in hits}
PlaceAmong(s, hits, i) == 1 + Cardinality({j \in FoundIn(s, hits) : j < i})
NthFound(s, hits, k) == CHOOSE i \in FoundIn(s, hits) : PlaceAmong(s, hits, i) = k

LEMMA FoundSound ==
  ASSUME NEW S, NEW s \in Seq(S), NEW hits
  PROVE  /\ Cardinality(FoundIn(s, hits)) \in Nat
         /\ \A k \in 1..Cardinality(FoundIn(s, hits)) :
              NthFound(s, hits, k) \in FoundIn(s, hits) /\ PlaceAmong(s, hits, NthFound(s, hits, k)) = k
         /\ Among(s, hits) = [k \in 1..Cardinality(FoundIn(s, hits)) |-> s[NthFound(s, hits, k)]]
<1> DEFINE found == FoundIn(s, hits)
           N == Cardinality(found)
           R == {p \in Nat \X Nat : p[1] < p[2]}
<1>1. IsFiniteSet(found) /\ found \subseteq Nat
  <2>1. DOMAIN s = 1..Len(s) /\ Len(s) \in Nat
    OBVIOUS
  <2>2. IsFiniteSet(1..Len(s))
    BY <2>1, FS_Interval
  <2>3. found \subseteq 1..Len(s)
    BY <2>1 DEF FoundIn
  <2> HIDE DEF found
  <2>4. IsFiniteSet(found)
    BY <2>2, <2>3, FS_Subset
  <2>5. \A i \in found : i \in Nat
    BY <2>1, <2>3
  <2> QED  BY <2>4, <2>5
<1>2. N \in Nat
  <2> HIDE DEF found
  <2> QED  BY <1>1, FS_CardinalityType
<1>3. \A i, j \in Nat : <<i, j>> \in R <=> i < j
  OBVIOUS
<1> HIDE DEF R
<1>4. Orders(R, found)
  <2> HIDE DEF found
  <2> QED  BY <1>1, <1>3 DEF Orders
<1>5. ASSUME NEW i \in found PROVE PlaceAmong(s, hits, i) = PlaceIn(found, R, i)
  <2>1. {j \in found : j < i} = Below(found, R, i)
    <3> HIDE DEF found
    <3>1. \A j \in found : j \in Nat /\ i \in Nat /\ (<<j, i>> \in R <=> j < i)
      BY <1>1, <1>3
    <3> QED  BY <3>1 DEF Below
  <2> QED  BY <2>1 DEF PlaceAmong, PlaceIn
<1>6. \A k \in 1..N : \E i \in found : PlaceAmong(s, hits, i) = k
  <2>1. \A k \in 1..N : \E i \in found : PlaceIn(found, R, i) = k
    <3> HIDE DEF found
    <3> QED  BY <1>1, <1>4, Placing
  <2> HIDE DEF found, N
  <2> QED  BY <1>5, <2>1
<1>7. \A k \in 1..N : NthFound(s, hits, k) \in found /\ PlaceAmong(s, hits, NthFound(s, hits, k)) = k
  <2> HIDE DEF N
  <2> QED  BY <1>6 DEF NthFound
<1>8. Among(s, hits) = [k \in 1..N |-> s[NthFound(s, hits, k)]]
  BY DEF Among, NthFound, PlaceAmong, FoundIn
<1> QED  BY <1>2, <1>7, <1>8

LEMMA AmongTyped ==
  ASSUME NEW S, NEW s \in Seq(S), NEW hits PROVE Among(s, hits) \in Seq(S)
<1> DEFINE N == Cardinality(FoundIn(s, hits))
<1>1. N \in Nat /\ Among(s, hits) = [k \in 1..N |-> s[NthFound(s, hits, k)]]
      /\ \A k \in 1..N : NthFound(s, hits, k) \in FoundIn(s, hits)
  BY FoundSound
<1>2. \A k \in 1..N : s[NthFound(s, hits, k)] \in S
  <2>1. \A i \in FoundIn(s, hits) : s[i] \in S
    BY DEF FoundIn
  <2> QED  BY <1>1, <2>1
<1> HIDE DEF N
<1> QED  BY <1>1, <1>2

\* All are found.
LEMMA AmongAll ==
  ASSUME NEW S, NEW s \in Seq(S), NEW hits, \A i \in DOMAIN s : s[i].id \in hits
  PROVE  Among(s, hits) = s
<1> DEFINE N == Len(s)
           found == FoundIn(s, hits)
<1>1. DOMAIN s = 1..N /\ N \in Nat /\ s = [i \in 1..N |-> s[i]]
  OBVIOUS
<1>2. found = 1..N
  BY <1>1 DEF FoundIn
<1>3. Cardinality(found) = N
  <2> HIDE DEF N, found
  <2>1. 1 \in Int /\ N \in Int /\ N >= 1 - 1
    BY <1>1
  <2>2. Cardinality(1..N) = IF 1 > N THEN 0 ELSE N - 1 + 1
    BY <2>1, FS_Interval
  <2> QED  BY <1>1, <1>2, <2>2
<1>4. ASSUME NEW i \in 1..N PROVE PlaceAmong(s, hits, i) = i
  <2> HIDE DEF N
  <2>1. {j \in found : j < i} = 1..(i - 1)
    <3> HIDE DEF found
    <3>1. \A j \in 1..N : j < i <=> j \in 1..(i - 1)
      BY <1>1
    <3>2. \A j \in 1..(i - 1) : j \in 1..N
      BY <1>1
    <3> QED  BY <1>2, <3>1, <3>2
  <2>2. Cardinality(1..(i - 1)) = i - 1
    <3>1. PICK z \in Nat : z = i - 1
      BY <1>1
    <3>2. Cardinality(1..z) = IF 1 > z THEN 0 ELSE z - 1 + 1
      BY FS_Interval
    <3>3. Cardinality(1..z) = z
      BY <3>2
    <3> QED  BY <3>1, <3>3
  <2>3. 1 + (i - 1) = i
    BY <1>1
  <2> QED  BY <2>1, <2>2, <2>3 DEF PlaceAmong
<1>5. \A k \in 1..N : NthFound(s, hits, k) \in found /\ PlaceAmong(s, hits, NthFound(s, hits, k)) = k
  BY <1>3, FoundSound
<1>6. \A k \in 1..N : NthFound(s, hits, k) = k
  <2> HIDE DEF N, found
  <2> QED  BY <1>2, <1>4, <1>5
<1>7. Among(s, hits) = [k \in 1..N |-> s[NthFound(s, hits, k)]]
  BY <1>3, FoundSound
<1> HIDE DEF N
<1> QED  BY <1>1, <1>6, <1>7

\* The views of the session memory.
LEMMA ItemsView ==
  ASSUME MemoryInv, NEW t \in Types
  PROVE  sec[t].items \in Seq(AnyItems) /\ Len(sec[t].items) \in Nat
BY CountNat DEF MemoryInv, SectionFine

LEMMA SectionsView == ASSUME MemoryInv PROVE IsView(SectionsRaw)
<1>1. SectionsRaw = [t \in Types |-> SectionsRaw[t]]
  BY DEF SectionsRaw
<1> QED  BY <1>1, RawPart DEF IsView

LEMMA AssembleView == ASSUME MemoryInv, NEW hits PROVE IsView(AssembleRaw(hits))
<1>1. AssembleRaw(hits) = [t \in Types |-> AssembleRaw(hits)[t]]
  BY DEF AssembleRaw
<1>2. ASSUME NEW t \in Types PROVE AssembleRaw(hits)[t] \in Seq(AnyItems)
  <2>1. PICK s : s = sec[t].items
    OBVIOUS
  <2>2. s \in Seq(AnyItems)
    BY <2>1, ItemsView
  <2>3. Among(s, hits) \in Seq(AnyItems)
    BY <2>2, AmongTyped
  <2> QED  BY <2>1, <2>2, <2>3 DEF AssembleRaw
<1> QED  BY <1>1, <1>2 DEF IsView

\* When every item is found, sections are taken whole.
LEMMA AssembleWhole ==
  ASSUME MemoryInv, NEW t \in Types PROVE AssembleRaw(1..made)[t] = sec[t].items
<1>1. PICK s : s = sec[t].items
  OBVIOUS
<1>2. s \in Seq(AnyItems)
  BY <1>1, ItemsView
<1>3. \A i \in DOMAIN s : s[i].id \in 1..made
  <2>1. HeldSection(sec[t], made, clock) /\ IsSection(sec[t]) /\ made \in Nat
    BY Numbers DEF MemoryInv, SectionFine, HeldSection
  <2>2. \A i \in DOMAIN s : s[i].id \in 1..MaxItems /\ s[i].id <= made
    BY <1>1, <2>1, ItemOf DEF HeldSection
  <2>3. \A i \in 1..MaxItems : i <= made => i \in 1..made
    BY <2>1, Numbers
  <2> QED  BY <2>2, <2>3
<1>4. Among(s, 1..made) = s
  BY <1>2, <1>3, AmongAll
<1> QED  BY <1>1, <1>4 DEF AssembleRaw

\* A view in which the handle stands for the documents.
LEMMA HandleFits ==
  ASSUME NEW kept, IsView(kept), kept[Documents] = <<>>, NEW total \in Nat, TotalOf(kept) <= total
  PROVE  TotalOf([kept EXCEPT ![Documents] = <<Handle>>]) <= total + HandleSize
<1> DEFINE view == [kept EXCEPT ![Documents] = <<Handle>>]
           w == Held(view)
           v == Held(kept)
           S == Types \ {Documents}
<1>1. Documents \in Types /\ HandleSize \in Nat /\ Handle \in AnyItems /\ Handle.size = HandleSize
  BY SessionMemoryAssumption, ItemsTyped DEF Handle
<1>2. /\ kept = [t \in Types |-> kept[t]] /\ (\A t \in Types : kept[t] \in Seq(AnyItems))
  BY DEF IsView
<1> HIDE DEF Types
<1>3. view[Documents] = <<Handle>> /\ (\A t \in S : view[t] = kept[t]) /\ view = [t \in Types |-> view[t]]
  BY <1>1, <1>2
<1>4. <<Handle>> \in Seq(AnyItems) /\ Tokens(<<Handle>>) = HandleSize
  BY <1>1, TokensOfOne
<1> HIDE DEF view
<1>5. IsView(view)
  <2>1. ASSUME NEW t \in Types PROVE view[t] \in Seq(AnyItems)
    <3>1. t = Documents \/ t \in S
      OBVIOUS
    <3> QED  BY <1>2, <1>3, <1>4, <3>1
  <2> QED  BY <1>3, <2>1 DEF IsView
<1>6. /\ \A t \in Types : w[t] = Tokens(view[t]) /\ w[t] \in Nat
      /\ \A t \in Types : v[t] = Tokens(kept[t]) /\ v[t] \in Nat
      /\ IsFiniteSet(Types) /\ IsFiniteSet(S) /\ TotalOf(kept) \in Nat
  <2>1. S \subseteq Types
    OBVIOUS
  <2> QED  BY <1>5, <2>1, ShareNat DEF TotalOf
<1>7. TotalOf(view) = SumOver(w, Types) /\ TotalOf(kept) = SumOver(v, Types)
  BY ShareIs DEF TotalOf
<1> HIDE DEF w, v
<1>8. SumOver(w, Types) = w[Documents] + SumOver(w, S) /\ SumOver(v, Types) = v[Documents] + SumOver(v, S)
  BY <1>1, <1>6, SumPlus
<1>9. SumOver(w, S) = SumOver(v, S) /\ SumOver(v, S) \in Nat
  <2>1. \A t \in S : w[t] \in Nat /\ w[t] = v[t] /\ v[t] \in Nat
    BY <1>3, <1>6
  <2> HIDE DEF S
  <2> QED  BY <1>6, <2>1, SumEqual, SumNat
<1>10. w[Documents] = HandleSize /\ v[Documents] = 0
  BY <1>1, <1>3, <1>4, <1>6, NoTokens
<1>11. TotalOf(view) = HandleSize + TotalOf(kept)
  <2> HIDE DEF S
  <2> QED  BY <1>1, <1>7, <1>8, <1>9, <1>10
<1> QED  BY <1>1, <1>6, <1>11 DEF view

\* What is trimmed and what is not, of any view.
ContextOf(raw, total, pinned) ==
  IF TotalOf(raw) <= total THEN raw
  ELSE IF pinned /\ raw[Documents] # <<>> /\ Trimmed(raw, total)[Documents] = <<>>
  THEN [Trimmed(raw, total) EXCEPT ![Documents] = <<Handle>>]
  ELSE Trimmed(raw, total)

LEMMA ContextIs ==
  \A total, hits, pinned : AssembleContext(total, hits, pinned) = ContextOf(AssembleRaw(hits), total, pinned)
BY DEF AssembleContext, ContextOf

LEMMA TotalsNat == Totals \subseteq Nat /\ HandleSize \in Nat /\ Documents \in Types
BY SessionMemoryAssumption

\* A context fits; the handle alone comes on top.
LEMMA ContextFits ==
  ASSUME NEW raw, IsView(raw), NEW total \in Nat, NEW pinned \in BOOLEAN
  PROVE  TotalOf(ContextOf(raw, total, pinned)) <= total + IF pinned THEN HandleSize ELSE 0
<1> DEFINE kept == Trimmed(raw, total)
           view == [kept EXCEPT ![Documents] = <<Handle>>]
           extra == IF pinned THEN HandleSize ELSE 0
<1>1. IsView(kept) /\ TotalOf(kept) <= total /\ TotalOf(kept) \in Nat
  BY TrimmedView, TrimmedFits
<1>2. TotalOf(raw) \in Nat /\ HandleSize \in Nat
  BY TotalsNat, ShareParts
<1>3. extra \in Nat
  BY <1>2
<1>4. kept[Documents] = <<>> => TotalOf(view) <= total + HandleSize
  <2> HIDE DEF kept
  <2> QED  BY <1>1, HandleFits
<1>5. CASE TotalOf(raw) <= total
  <2>1. ContextOf(raw, total, pinned) = raw
    BY <1>5 DEF ContextOf
  <2> HIDE DEF extra
  <2> QED  BY <1>2, <1>3, <1>5, <2>1 DEF extra
<1>6. CASE TotalOf(raw) > total /\ pinned /\ raw[Documents] # <<>> /\ kept[Documents] = <<>>
  <2>1. ~(TotalOf(raw) <= total)
    BY <1>2, <1>6
  <2>2. ContextOf(raw, total, pinned) = view /\ extra = HandleSize
    BY <1>6, <2>1 DEF ContextOf
  <2>3. TotalOf(ContextOf(raw, total, pinned)) <= total + extra
    BY <1>4, <1>6, <2>2
  <2> QED  BY <2>3
<1>7. CASE TotalOf(raw) > total /\ ~(pinned /\ raw[Documents] # <<>> /\ kept[Documents] = <<>>)
  <2>1. ~(TotalOf(raw) <= total)
    BY <1>2, <1>7
  <2>2. ContextOf(raw, total, pinned) = kept
    BY <1>7, <2>1 DEF ContextOf
  <2>3. TotalOf(kept) <= total + extra
    <3> HIDE DEF kept, extra
    <3> QED  BY <1>1, <1>3
  <2> QED  BY <2>2, <2>3
<1>8. TotalOf(raw) <= total \/ TotalOf(raw) > total
  BY <1>2
<1> HIDE DEF kept, extra
<1> QED  BY <1>5, <1>6, <1>7, <1>8

\* A section as it is keeps its newest items: all of them.
LEMMA AllIsRecent == ASSUME NEW s \in Seq(AnyItems) PROVE IsRecent(s, s)
<1>1. Len(s) \in Nat /\ SubSeq(s, 0 + 1, Len(s)) = s
  OBVIOUS
<1>2. 0 \in 0..Len(s)
  BY <1>1
<1> QED  BY <1>1, <1>2 DEF IsRecent

\* Sections give up their oldest items, and only when those less important have none left.
LEMMA ContextRecent ==
  ASSUME NEW raw, IsView(raw), NEW total \in Nat, NEW t \in Types
  PROVE  LET kept == ContextOf(raw, total, FALSE)
         IN /\ IsRecent(kept[t], raw[t])
            /\ kept[t] # raw[t] => \A u \in Types : Rank(u) > Rank(t) => kept[u] = <<>>
<1> DEFINE kept == ContextOf(raw, total, FALSE)
           left == Trimmed(raw, total)
<1>1. CASE TotalOf(raw) <= total
  <2>1. kept = raw
    BY <1>1 DEF ContextOf
  <2>2. IsRecent(raw[t], raw[t])
    <3>1. raw[t] \in Seq(AnyItems)
      BY DEF IsView
    <3> QED  BY <3>1, AllIsRecent
  <2> HIDE DEF kept
  <2> QED  BY <2>1, <2>2 DEF kept
<1>2. CASE ~(TotalOf(raw) <= total)
  <2>1. kept = left
    BY <1>2 DEF ContextOf
  <2>2. IsRecent(left[t], raw[t]) /\ (left[t] # raw[t] => Excess(raw, total, t) > 0)
    BY TrimmedLeaves
  <2>3. ASSUME left[t] # raw[t], NEW u \in Types, Rank(u) > Rank(t) PROVE left[u] = <<>>
    <3>1. Excess(raw, total, t) > 0
      BY <2>2, <2>3
    <3>2. TrimmedBefore(raw, u) + Tokens(raw[u]) <= TrimmedBefore(raw, t)
      BY <2>3, SharesNest
    <3>3. /\ TotalOf(raw) \in Nat /\ TrimmedBefore(raw, t) \in Nat
          /\ TrimmedBefore(raw, u) \in Nat /\ Tokens(raw[u]) \in Nat
      BY ShareParts
    <3>4. TotalOf(raw) - total - TrimmedBefore(raw, t) > 0
      BY <3>1 DEF Excess
    <3>5. TotalOf(raw) - total - TrimmedBefore(raw, u) > Tokens(raw[u])
      BY ONLY <3>2, <3>3, <3>4, total \in Nat
    <3>6. Excess(raw, total, u) > Tokens(raw[u])
      BY <3>5 DEF Excess
    <3> QED  BY <3>6, TrimmedLeaves
  <2> HIDE DEF kept, left
  <2> QED  BY <2>1, <2>2, <2>3 DEF kept
<1> QED  BY <1>1, <1>2

\* The sections are sound.
LEMMA SectionsHold == ASSUME MemoryInv PROVE SectionsSound
<1>1. ASSUME NEW t \in Types
      PROVE  HeldSection(sec[t], made, clock) /\ IsSection(sec[t])
             /\ WithinLimit(config[t], sec[t]) /\ WithinBudget(config[t], sec[t])
  BY DEF MemoryInv, SectionFine, HeldSection
<1>2. ASSUME NEW t \in Types
      PROVE  /\ sec[t].items \in Seq(Items) /\ sec[t].tokens \in Nat
             /\ \A f \in {sec[t].uses, sec[t].last} : \A i \in DOMAIN f : f[i] \in 1..MaxReads
  <2>1. HeldSection(sec[t], made, clock) /\ IsSection(sec[t])
    BY <1>1
  <2>2. sec[t].items \in Seq(Items)
    BY <2>1 DEF IsSection
  <2>3. sec[t].tokens \in Nat
    BY <2>1, CountNat
  <2>4. \A k \in 1..clock : k \in 1..MaxReads
    BY Numbers
  <2>5. /\ \A i \in DOMAIN sec[t].uses : sec[t].uses[i] \in 1..clock
        /\ \A i \in DOMAIN sec[t].last : sec[t].last[i] \in 1..clock
    BY <2>1 DEF HeldSection
  <2> QED  BY <2>2, <2>3, <2>4, <2>5
<1>3. TypeOK
  <2>1. /\ config \in Configs /\ made \in 0..MaxItems /\ clock \in 0..MaxReads
        /\ {sticky, inTurn} \subseteq BOOLEAN
        /\ op.type \in Types \cup {"none"} /\ op.came \in {"ok", "explicit", "full", "not_freed"}
    BY DEF MemoryInv, Outcomes4
  <2> QED  BY <1>2, <2>1 DEF TypeOK
<1>4. CountExact
  BY <1>1 DEF HeldSection, CountExact
<1>5. BudgetKept
  BY <1>1 DEF WithinBudget, BudgetKept
<1>6. ItemLimitKept
  BY <1>1 DEF WithinLimit, ItemLimitKept
<1> QED  BY <1>3, <1>4, <1>5, <1>6 DEF SectionsSound

LEMMA ViewIsBounded == ASSUME MemoryInv PROVE ViewBounded
<1> SUFFICES ASSUME NEW total \in Totals
             PROVE  /\ TotalOf(GetSections(total)) <= total
                    /\ \A hits \in SUBSET Ids(sec[Documents].items) : \A pinned \in BOOLEAN :
                         TotalOf(AssembleContext(total, hits, pinned))
                           <= total + IF pinned THEN HandleSize ELSE 0
  BY DEF ViewBounded
<1>1. total \in Nat
  BY TotalsNat
<1>2. TotalOf(GetSections(total)) <= total
  BY <1>1, SectionsView, TrimmedFits DEF GetSections
<1>3. ASSUME NEW hits, NEW pinned \in BOOLEAN
      PROVE  TotalOf(AssembleContext(total, hits, pinned)) <= total + IF pinned THEN HandleSize ELSE 0
  <2>1. PICK raw : raw = AssembleRaw(hits)
    OBVIOUS
  <2>2. IsView(raw)
    BY <2>1, AssembleView
  <2>3. TotalOf(ContextOf(raw, total, pinned)) <= total + IF pinned THEN HandleSize ELSE 0
    BY <1>1, <2>2, ContextFits
  <2> QED  BY <2>1, <2>3, ContextIs
<1> QED  BY <1>2, <1>3

LEMMA ViewIsRecent == ASSUME MemoryInv PROVE ViewRecent
<1> SUFFICES ASSUME NEW total \in Totals, NEW t \in Types
             PROVE  LET kept == AssembleContext(total, 1..made, FALSE)
                    IN /\ IsRecent(kept[t], sec[t].items)
                       /\ kept[t] # sec[t].items => \A u \in Types : Rank(u) > Rank(t) => kept[u] = <<>>
  BY DEF ViewRecent
<1>1. total \in Nat
  BY TotalsNat
<1>2. PICK raw : raw = AssembleRaw(1..made)
  OBVIOUS
<1>3. IsView(raw) /\ raw[t] = sec[t].items
  BY <1>2, AssembleView, AssembleWhole
<1>4. /\ IsRecent(ContextOf(raw, total, FALSE)[t], raw[t])
      /\ ContextOf(raw, total, FALSE)[t] # raw[t] =>
           \A u \in Types : Rank(u) > Rank(t) => ContextOf(raw, total, FALSE)[u] = <<>>
  BY <1>1, <1>3, ContextRecent
<1>5. AssembleContext(total, 1..made, FALSE) = ContextOf(raw, total, FALSE)
  BY <1>2, ContextIs
<1> QED  BY <1>3, <1>4, <1>5

LEMMA CorpusIsReachable == ASSUME MemoryInv PROVE CorpusReachable
<1> SUFFICES ASSUME sticky, sec[Documents].items # <<>>, NEW total \in Totals
             PROVE  AssembleContext(total, 1..made, sticky)[Documents] # <<>>
  BY DEF CorpusReachable
<1>1. Documents \in Types /\ total \in Nat
  BY TotalsNat
<1>2. PICK raw : raw = AssembleRaw(1..made)
  OBVIOUS
<1>3. IsView(raw) /\ raw[Documents] = sec[Documents].items
  BY <1>1, <1>2, AssembleView, AssembleWhole
<1> DEFINE kept == Trimmed(raw, total)
<1>4. CASE TotalOf(raw) <= total
  <2>1. ContextOf(raw, total, sticky) = raw
    BY <1>4 DEF ContextOf
  <2> QED  BY <1>2, <1>3, <2>1, ContextIs
<1>5. CASE ~(TotalOf(raw) <= total) /\ kept[Documents] = <<>>
  <2>1. ContextOf(raw, total, sticky) = [kept EXCEPT ![Documents] = <<Handle>>]
    BY <1>3, <1>5 DEF ContextOf
  <2>2. kept = [t \in Types |-> kept[t]]
    BY <1>1, <1>3, TrimmedView DEF IsView
  <2>3. ContextOf(raw, total, sticky)[Documents] = <<Handle>>
    <3> HIDE DEF kept
    <3> QED  BY <1>1, <2>1, <2>2
  <2>4. <<Handle>> # <<>>
    OBVIOUS
  <2> QED  BY <1>2, <2>3, <2>4, ContextIs
<1>6. CASE ~(TotalOf(raw) <= total) /\ kept[Documents] # <<>>
  <2>1. ContextOf(raw, total, sticky) = kept
    BY <1>6 DEF ContextOf
  <2> QED  BY <1>2, <1>6, <2>1, ContextIs
<1> QED  BY <1>4, <1>5, <1>6

\* In every reachable state of the session memory the counts, the tracking and the limits of
\* its sections are right and every assembly fits its budget, keeps the newest items and
\* still names an attached corpus; and no add evicts what it need not (sections.py,
\* session.py, assemble.py).
THEOREM MemorySoundHolds == Spec => MemorySound
<1>1. Init => MemoryInv
  BY MemoryStarts
<1>2. MemoryInv /\ [Next]_vars => MemoryInv'
  BY MemoryStep
<1>3. MemoryInv => ViewSound
  BY SectionsHold, ViewIsBounded, ViewIsRecent, CorpusIsReachable DEF ViewSound
<1>4. MemoryInv /\ [Next]_vars => [EvictsLeastWorth /\ EvictsNoMore /\ LossMeansTooBig]_vars
  BY EvictsStep
<1> QED  BY <1>1, <1>2, <1>3, <1>4, PTL DEF Spec, MemorySound, EvictsSparingly
=============================================================================
