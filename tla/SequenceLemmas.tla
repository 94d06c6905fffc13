--------------------------- MODULE SequenceLemmas ---------------------------
(***************************************************************************)
(* Facts about data that several proofs share: the least element of a set  *)
(* of naturals, which turns an induction into the search for a least       *)
(* counterexample, the largest element of a bounded one, quotients, and    *)
(* what the concatenation of a sequence of sequences consists of.          *)
(***************************************************************************)
EXTENDS Integers, SequencesExt, FiniteSetsExt, FiniteSetTheorems,
        SequenceTheorems, WellFoundedInduction, TLAPS

\* Of two elements of s the first stands in the relation R to the second.
Pairwise(s, R) == \A k, l \in 1 .. Len(s) : k < l => <<s[k], s[l]>> \in R

-----------------------------------------------------------------------------
(* Numbers.                                                                *)

\* The finite sets 0 .. n - 1 are well ordered by inclusion.
LEMMA LeastNat ==
    ASSUME NEW S \in SUBSET Nat, S # {}
    PROVE  \E m \in S : \A k \in S : m <= k
<1> DEFINE T == {0 .. (n - 1) : n \in S}
<1>1. T # {}
  OBVIOUS
<1>2. T \subseteq FiniteSubsetsOf(Nat)
  <2> SUFFICES ASSUME NEW n \in S PROVE 0 .. (n - 1) \in FiniteSubsetsOf(Nat)
    OBVIOUS
  <2>1. IsFiniteSet(0 .. (n - 1))
    BY FS_Interval
  <2> QED
    BY <2>1 DEF FiniteSubsetsOf
<1>3. IsWellFoundedOn(StrictSubsetOrdering(Nat), FiniteSubsetsOf(Nat))
  BY FS_StrictSubsetOrderingWellFounded
<1>4. PICK x \in T : \A y \in T : ~(<<y, x>> \in StrictSubsetOrdering(Nat))
  <2> HIDE DEF T
  <2> QED
    BY <1>1, <1>2, <1>3, WFMin
<1>5. PICK m \in S : x = 0 .. (m - 1)
  BY <1>4
<1>6. ASSUME NEW k \in S, k < m PROVE FALSE
  <2>1. 0 .. (k - 1) \in T
    OBVIOUS
  <2>2. /\ k \in 0 .. (m - 1) /\ k \notin 0 .. (k - 1)
        /\ 0 .. (k - 1) \subseteq 0 .. (m - 1)
    BY <1>6
  <2>3. <<0 .. (k - 1), x>> \in StrictSubsetOrdering(Nat)
    BY <2>2, <1>5 DEF StrictSubsetOrdering
  <2> QED
    BY <2>1, <2>3, <1>4
<1> QED
  BY <1>6

\* A set of naturals with an upper bound has a largest element.
LEMMA MaxNat ==
    ASSUME NEW S \in SUBSET Nat, S # {}, NEW n \in Nat, \A x \in S : x <= n
    PROVE  Max(S) \in S /\ \A x \in S : x <= Max(S)
<1> DEFINE U == {u \in Nat : \A x \in S : x <= u}
<1>1. U # {} /\ U \subseteq Nat
  OBVIOUS
<1>2. PICK u \in U : \A v \in U : u <= v
  <2> HIDE DEF U
  <2> QED
    BY <1>1, LeastNat
<1>3. u \in S
  <2> SUFFICES ASSUME u \notin S PROVE FALSE
    OBVIOUS
  <2>1. \A x \in S : x < u
    BY <1>2
  <2>2. PICK y \in S : y < u
    BY <2>1
  <2>3. u - 1 \in U
    BY <2>1, <2>2, <1>2
  <2> QED
    BY <2>3, <1>2
<1>4. \E x \in S : \A y \in S : x >= y
  BY <1>2, <1>3
<1> QED
  BY <1>4 DEF Max

\* The larger and the smaller of two.
LEMMA MaxMinTwo ==
    ASSUME NEW a \in Int, NEW b \in Int
    PROVE  /\ Max({a, b}) = IF a >= b THEN a ELSE b
           /\ Min({a, b}) = IF a <= b THEN a ELSE b
<1>1. \E x \in {a, b} : \A y \in {a, b} : x >= y
  OBVIOUS
<1>2. \E x \in {a, b} : \A y \in {a, b} : x <= y
  OBVIOUS
<1>3. Max({a, b}) \in {a, b} /\ \A y \in {a, b} : Max({a, b}) >= y
  BY <1>1 DEF Max
<1>4. Min({a, b}) \in {a, b} /\ \A y \in {a, b} : Min({a, b}) <= y
  BY <1>2 DEF Min
<1> QED
  BY <1>3, <1>4

\* A set of naturals has a smallest element.
LEMMA MinNat ==
    ASSUME NEW S \in SUBSET Nat, S # {}
    PROVE  Min(S) \in S /\ \A x \in S : Min(S) <= x
<1>1. \E x \in S : \A y \in S : x <= y
  BY LeastNat
<1> QED
  BY <1>1 DEF Min

\* Quotients, and products with a common factor.
LEMMA DivFacts ==
    ASSUME NEW n \in Nat, NEW m \in Nat \ {0}
    PROVE  n \div m \in Nat /\ (n \div m) * m <= n /\ n < (n \div m) * m + m
  OBVIOUS

LEMMA TimesMonotone ==
    ASSUME NEW i \in Nat, NEW j \in Nat, NEW m \in Nat \ {0}
    PROVE  /\ i * m \in Nat /\ (i + 1) * m = i * m + m
           /\ i <= j => i * m <= j * m
           /\ i < j => i * m + m <= j * m
<1>1. i <= j => i * m <= j * m
  OBVIOUS
<1>2. i < j => i * m + m <= j * m
  OBVIOUS
<1> QED
  BY <1>1, <1>2

LEMMA DivMonotone ==
    ASSUME NEW i \in Nat, NEW j \in Nat, NEW m \in Nat \ {0}, i <= j
    PROVE  i \div m <= j \div m
<1> DEFINE a == i \div m
           b == j \div m
<1>1. /\ a \in Nat /\ a * m <= i
      /\ b \in Nat /\ j < b * m + m
  BY DivFacts
<1> HIDE DEF a, b
<1> SUFFICES ASSUME b < a PROVE FALSE
  BY <1>1 DEF a, b
<1>2. b * m + m <= a * m /\ a * m \in Nat /\ b * m \in Nat
  BY <1>1, TimesMonotone
<1> QED
  BY <1>1, <1>2

-----------------------------------------------------------------------------
(* Concatenation.                                                          *)

\* The elements of s \o t, and a relation that holds pairwise in both parts
\* and across.
LEMMA ConcatPairwise ==
    ASSUME NEW S, NEW s \in Seq(S), NEW t \in Seq(S)
    PROVE  /\ s \o t \in Seq(S)
           /\ ToSet(s \o t) = ToSet(s) \cup ToSet(t)
           /\ \A R : (/\ Pairwise(s, R) /\ Pairwise(t, R)
                      /\ \A x \in ToSet(s), y \in ToSet(t) : <<x, y>> \in R)
                     => Pairwise(s \o t, R)
<1> DEFINE r == s \o t
<1>1. /\ r \in Seq(S) /\ Len(r) = Len(s) + Len(t)
      /\ \A i \in 1 .. Len(r) : r[i] = IF i <= Len(s) THEN s[i] ELSE t[i - Len(s)]
  BY ConcatProperties
<1>2. /\ Len(s) \in Nat /\ DOMAIN s = 1 .. Len(s)
      /\ Len(t) \in Nat /\ DOMAIN t = 1 .. Len(t)
      /\ DOMAIN r = 1 .. Len(r)
  BY <1>1, LenProperties
<1> HIDE DEF r
<1>3. \A i \in 1 .. Len(r) : /\ i <= Len(s) => i \in 1 .. Len(s) /\ r[i] = s[i]
                             /\ ~(i <= Len(s)) => i - Len(s) \in 1 .. Len(t) /\ r[i] = t[i - Len(s)]
  BY <1>1, <1>2
<1>4. ToSet(r) \subseteq ToSet(s) \cup ToSet(t)
  BY <1>2, <1>3 DEF ToSet
<1>5. ToSet(s) \subseteq ToSet(r)
  <2> SUFFICES ASSUME NEW i \in 1 .. Len(s) PROVE s[i] \in ToSet(r)
    BY <1>2 DEF ToSet
  <2>1. i \in 1 .. Len(r) /\ r[i] = s[i]
    BY <1>1, <1>2
  <2> QED
    BY <1>2, <2>1 DEF ToSet
<1>6. ToSet(t) \subseteq ToSet(r)
  <2> SUFFICES ASSUME NEW i \in 1 .. Len(t) PROVE t[i] \in ToSet(r)
    BY <1>2 DEF ToSet
  <2>1. Len(s) + i \in 1 .. Len(r) /\ r[Len(s) + i] = t[i]
    BY <1>1, <1>2
  <2> QED
    BY <1>2, <2>1 DEF ToSet
<1>7. ASSUME NEW R, Pairwise(s, R), Pairwise(t, R),
             \A x \in ToSet(s), y \in ToSet(t) : <<x, y>> \in R
      PROVE  Pairwise(r, R)
  <2> SUFFICES ASSUME NEW k \in 1 .. Len(r), NEW l \in 1 .. Len(r), k < l
               PROVE  <<r[k], r[l]>> \in R
    BY DEF Pairwise
  <2>1. CASE l <= Len(s)
    BY <1>2, <1>3, <1>7, <2>1 DEF Pairwise
  <2>2. CASE k > Len(s)
    <3>1. k - Len(s) \in 1 .. Len(t) /\ l - Len(s) \in 1 .. Len(t) /\ k - Len(s) < l - Len(s)
      BY <1>1, <1>2, <2>2
    <3>2. r[k] = t[k - Len(s)] /\ r[l] = t[l - Len(s)]
      BY <1>1, <1>2, <2>2
    <3> QED
      BY <1>7, <3>1, <3>2 DEF Pairwise
  <2>3. CASE k <= Len(s) /\ l > Len(s)
    <3>1. r[k] \in ToSet(s) /\ r[l] \in ToSet(t)
      BY <1>2, <1>3, <2>3 DEF ToSet
    <3> QED
      BY <1>7, <3>1
  <2> QED
    BY <1>1, <1>2, <2>1, <2>2, <2>3
<1> QED
  BY <1>1, <1>4, <1>5, <1>6, <1>7 DEF r

\* The parts of q: each pairwise in R, and earlier ones before later ones.
PartsPairwise(q, R) ==
    /\ \A i \in 1 .. Len(q) : Pairwise(q[i], R)
    /\ \A i, j \in 1 .. Len(q) : i < j =>
          \A x \in ToSet(q[i]), y \in ToSet(q[j]) : <<x, y>> \in R

Flattened(q, i, f) ==
    f = [k \in 1 .. i |-> IF k = 1 THEN q[k] ELSE f[k - 1] \o q[k]]

\* The recursive function that concatenates the parts exists.
LEMMA FlattenedExists ==
    ASSUME NEW q, NEW n \in Nat
    PROVE  \E f : Flattened(q, n, f)
<1> DEFINE Bad == {m \in Nat : ~ \E f : Flattened(q, m, f)}
<1> SUFFICES ASSUME Bad # {} PROVE FALSE
  OBVIOUS
<1>1. PICK m \in Bad : \A k \in Bad : m <= k
  <2>1. Bad \in SUBSET Nat
    OBVIOUS
  <2> HIDE DEF Bad
  <2> QED
    BY <2>1, LeastNat
<1>2. m # 0
  <2>1. Flattened(q, 0, [k \in 1 .. 0 |-> q])
    BY DEF Flattened
  <2> QED
    BY <2>1
<1>3. PICK f : Flattened(q, m - 1, f)
  <2>1. m - 1 \in Nat /\ ~(m <= m - 1)
    BY <1>2
  <2>2. m - 1 \notin Bad
    BY <1>1, <2>1
  <2> QED
    BY <2>1, <2>2
<1> DEFINE g == [k \in 1 .. m |-> IF k = 1 THEN q[1] ELSE f[k - 1] \o q[k]]
<1>4. \A k \in 1 .. (m - 1) : f[k] = IF k = 1 THEN q[k] ELSE f[k - 1] \o q[k]
  BY <1>3 DEF Flattened
<1>5. \A k \in 1 .. (m - 1) : g[k] = f[k]
  BY <1>4
<1>6. \A k \in 1 .. m : k # 1 => k - 1 \in 1 .. (m - 1)
  OBVIOUS
<1>7. \A k \in 1 .. m : (IF k = 1 THEN q[1] ELSE f[k - 1] \o q[k])
                        = (IF k = 1 THEN q[k] ELSE g[k - 1] \o q[k])
  <2> HIDE DEF g
  <2> QED
    BY <1>5, <1>6
<1>8. g = [k \in 1 .. m |-> IF k = 1 THEN q[k] ELSE g[k - 1] \o q[k]]
  BY <1>7
<1>9. Flattened(q, m, g)
  <2> HIDE DEF g
  <2> QED
    BY <1>8 DEF Flattened
<1> QED
  BY <1>9

\* What a concatenation consists of, and the order it keeps.
THEOREM FlattenSeqProperties ==
    ASSUME NEW S, NEW q \in Seq(Seq(S))
    PROVE  /\ FlattenSeq(q) \in Seq(S)
           /\ ToSet(FlattenSeq(q)) = UNION {ToSet(q[i]) : i \in 1 .. Len(q)}
           /\ \A R : PartsPairwise(q, R) => Pairwise(FlattenSeq(q), R)
<1>0. Len(q) \in Nat /\ DOMAIN q = 1 .. Len(q) /\ \A i \in 1 .. Len(q) : q[i] \in Seq(S)
  BY LenProperties, ElementOfSeq
<1>1. CASE Len(q) = 0
  <2>1. FlattenSeq(q) = <<>> /\ q = <<>>
    BY <1>0, <1>1, EmptySeq DEF FlattenSeq
  <2>2. ToSet(<<>>) = {} /\ UNION {ToSet(q[i]) : i \in 1 .. 0} = {} /\ <<>> \in Seq(S)
    BY DEF ToSet
  <2> QED
    BY <1>1, <2>1, <2>2 DEF Pairwise
<1>2. CASE Len(q) # 0
  <2> DEFINE F == CHOOSE f : Flattened(q, Len(q), f)
  <2>1. FlattenSeq(q) = F[Len(q)]
    BY <1>2 DEF FlattenSeq, Flattened
  <2>2. Flattened(q, Len(q), F)
    BY <1>0, FlattenedExists
  <2> HIDE DEF F
  <2>3. \A k \in 1 .. Len(q) : F[k] = IF k = 1 THEN q[k] ELSE F[k - 1] \o q[k]
    BY <2>2 DEF Flattened
  <2> DEFINE Good(k) == /\ F[k] \in Seq(S)
                        /\ ToSet(F[k]) = UNION {ToSet(q[i]) : i \in 1 .. k}
                        /\ \A R : PartsPairwise(q, R) => Pairwise(F[k], R)
             Bad == {k \in 1 .. Len(q) : ~Good(k)}
  <2>4. Bad = {}
    <3> SUFFICES ASSUME Bad # {} PROVE FALSE
      OBVIOUS
    <3>1. PICK k \in Bad : \A j \in Bad : k <= j
      <4>1. Bad \in SUBSET Nat
        BY <1>0
      <4> HIDE DEF Bad
      <4> QED
        BY <4>1, LeastNat
    <3>2. CASE k = 1
      <4>1. F[k] = q[1] /\ q[1] \in Seq(S)
        BY <1>0, <2>3, <3>2
      <4>2. UNION {ToSet(q[i]) : i \in 1 .. 1} = ToSet(q[1])
        OBVIOUS
      <4>3. ASSUME NEW R, PartsPairwise(q, R) PROVE Pairwise(q[1], R)
        <5>1. 1 \in 1 .. Len(q)
          BY <1>0, <1>2
        <5> QED
          BY <4>3, <5>1 DEF PartsPairwise
      <4>4. Good(k)
        BY <3>2, <4>1, <4>2, <4>3
      <4> QED
        BY <4>4
    <3>3. CASE k # 1
      <4>1. k - 1 \in 1 .. Len(q) /\ ~(k <= k - 1) /\ k \in 1 .. Len(q) /\ k \in Nat
        BY <1>0, <3>3
      <4>2. k - 1 \notin Bad
        BY <3>1, <4>1
      <4>3. Good(k - 1)
        BY <4>1, <4>2
      <4>4. F[k] = F[k - 1] \o q[k] /\ q[k] \in Seq(S)
        BY <1>0, <2>3, <3>3, <4>1
      <4>5. UNION {ToSet(q[i]) : i \in 1 .. k}
            = (UNION {ToSet(q[i]) : i \in 1 .. (k - 1)}) \cup ToSet(q[k])
        <5>1. \A i : i \in 1 .. k <=> i \in 1 .. (k - 1) \/ i = k
          BY <4>1
        <5> QED
          BY <5>1
      <4>6. ASSUME NEW R, PartsPairwise(q, R) PROVE Pairwise(F[k], R)
        <5>1. Pairwise(F[k - 1], R) /\ Pairwise(q[k], R)
          BY <4>1, <4>3, <4>6 DEF PartsPairwise
        <5>2. ASSUME NEW x \in ToSet(F[k - 1]), NEW y \in ToSet(q[k]) PROVE <<x, y>> \in R
          <6>1. PICK i \in 1 .. (k - 1) : x \in ToSet(q[i])
            BY <4>3
          <6>2. i \in 1 .. Len(q) /\ i < k
            BY <4>1
          <6> QED
            BY <4>1, <4>6, <6>1, <6>2 DEF PartsPairwise
        <5>3. (/\ Pairwise(F[k - 1], R) /\ Pairwise(q[k], R)
               /\ \A x \in ToSet(F[k - 1]), y \in ToSet(q[k]) : <<x, y>> \in R)
              => Pairwise(F[k - 1] \o q[k], R)
          BY <4>3, <4>4, ConcatPairwise
        <5> QED
          BY <4>4, <5>1, <5>2, <5>3
      <4>7. F[k] \in Seq(S) /\ ToSet(F[k]) = ToSet(F[k - 1]) \cup ToSet(q[k])
        BY <4>3, <4>4, ConcatPairwise
      <4>8. Good(k)
        BY <4>3, <4>5, <4>6, <4>7
      <4> QED
        BY <4>8
    <3> QED
      BY <3>2, <3>3
  <2>5. Good(Len(q))
    <3>1. Len(q) \in 1 .. Len(q)
      BY <1>0, <1>2
    <3> HIDE DEF Good
    <3> QED
      BY <2>4, <3>1
  <2> QED
    BY <2>1, <2>5
<1> QED
  BY <1>1, <1>2
=============================================================================
