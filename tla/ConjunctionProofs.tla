------------------------- MODULE ConjunctionProofs -------------------------
(***************************************************************************)
(* The walks of Conjunction find the documents that are in every list, and *)
(* nothing else: for any number of clauses, any lists, any block size and  *)
(* interval of the top layer, and whatever cannot be read.                 *)
(***************************************************************************)
EXTENDS Conjunction, SequenceLemmas

-----------------------------------------------------------------------------
(* Ascending sequences.                                                    *)

Less == {p \in Int \X Int : p[1] < p[2]}

\* Pairwise in the order of the integers is ascending.
LEMMA AscendingPairwise ==
    ASSUME NEW s \in Seq(Int)
    PROVE  IsAscending(s) <=> Pairwise(s, Less)
<1>1. DOMAIN s = 1 .. Len(s) /\ \A i \in 1 .. Len(s) : s[i] \in Int
  BY LenProperties, ElementOfSeq
<1>2. \A a, b \in Int : a < b <=> <<a, b>> \in Less
  BY DEF Less
<1> QED
  BY <1>1, <1>2 DEF IsAscending, Pairwise

\* Filtering keeps the order and the elements of S.
LEMMA FilterProperties ==
    ASSUME NEW s \in Seq(Int), IsAscending(s), NEW S
    PROVE  /\ Filter(s, S) \in Seq(Int)
           /\ IsAscending(Filter(s, S))
           /\ ToSet(Filter(s, S)) = ToSet(s) \cap S
<1> DEFINE p == [i \in DOMAIN s |-> IF s[i] \in S THEN <<s[i]>> ELSE <<>>]
<1>1. DOMAIN s = 1 .. Len(s) /\ Len(s) \in Nat /\ \A i \in 1 .. Len(s) : s[i] \in Int
  BY LenProperties, ElementOfSeq
<1>2. p \in Seq(Seq(Int)) /\ Len(p) = Len(s)
  BY <1>1
<1>3. \A i \in 1 .. Len(s) : p[i] = IF s[i] \in S THEN <<s[i]>> ELSE <<>>
  BY <1>1
<1>4. FlattenSeq(p) = Filter(s, S)
  BY DEF Filter
<1> HIDE DEF p
<1>5. \A i \in 1 .. Len(s) : /\ s[i] \in S => p[i] = <<s[i]>> /\ Len(p[i]) = 1 /\ ToSet(p[i]) = {s[i]}
                             /\ s[i] \notin S => Len(p[i]) = 0 /\ ToSet(p[i]) = {}
  <2> SUFFICES ASSUME NEW i \in 1 .. Len(s)
               PROVE  /\ s[i] \in S => p[i] = <<s[i]>> /\ Len(p[i]) = 1 /\ ToSet(p[i]) = {s[i]}
                      /\ s[i] \notin S => Len(p[i]) = 0 /\ ToSet(p[i]) = {}
    OBVIOUS
  <2>1. ToSet(<<s[i]>>) = {s[i]} /\ ToSet(<<>>) = {}
    BY DEF ToSet
  <2> QED
    BY <1>3, <2>1
<1>6. \A a, b \in Int : a < b => <<a, b>> \in Less
  BY DEF Less
<1>7. PartsPairwise(p, Less)
  <2>1. ASSUME NEW i \in 1 .. Len(p) PROVE Pairwise(p[i], Less)
    <3>1. Len(p[i]) = 0 \/ Len(p[i]) = 1
      BY <1>2, <1>5
    <3> QED
      BY <3>1 DEF Pairwise
  <2>2. ASSUME NEW i \in 1 .. Len(p), NEW j \in 1 .. Len(p), i < j,
               NEW x \in ToSet(p[i]), NEW y \in ToSet(p[j])
        PROVE  <<x, y>> \in Less
    <3>1. i \in 1 .. Len(s) /\ j \in 1 .. Len(s)
      BY <1>2
    <3>2. x = s[i] /\ y = s[j]
      BY <1>5, <2>2, <3>1
    <3>3. s[i] < s[j]
      BY <1>1, <2>2, <3>1 DEF IsAscending
    <3> QED
      BY <1>1, <1>6, <3>1, <3>2, <3>3
  <2> QED
    BY <2>1, <2>2 DEF PartsPairwise
<1>8. /\ Filter(s, S) \in Seq(Int)
      /\ ToSet(Filter(s, S)) = UNION {ToSet(p[i]) : i \in 1 .. Len(p)}
      /\ Pairwise(Filter(s, S), Less)
  BY <1>2, <1>4, <1>7, FlattenSeqProperties
<1>9. UNION {ToSet(p[i]) : i \in 1 .. Len(p)} = ToSet(s) \cap S
  <2>1. ToSet(s) = {s[i] : i \in 1 .. Len(s)}
    BY <1>1 DEF ToSet
  <2>2. ASSUME NEW i \in 1 .. Len(p), NEW x \in ToSet(p[i]) PROVE x \in ToSet(s) \cap S
    BY <1>2, <1>5, <2>1, <2>2
  <2>3. ASSUME NEW i \in 1 .. Len(s), s[i] \in S PROVE s[i] \in ToSet(p[i]) /\ i \in 1 .. Len(p)
    BY <1>2, <1>5, <2>3
  <2> QED
    BY <2>1, <2>2, <2>3
<1> QED
  BY <1>8, <1>9, AscendingPairwise

\* An ascending sequence is determined by its elements: one direction.
LEMMA AscendingPrefix ==
    ASSUME NEW s \in Seq(Int), NEW u \in Seq(Int), IsAscending(s), IsAscending(u),
           ToSet(s) = ToSet(u)
    PROVE  \A i \in 1 .. Len(s) : i <= Len(u) /\ s[i] = u[i]
<1>1. /\ DOMAIN s = 1 .. Len(s) /\ Len(s) \in Nat /\ \A i \in 1 .. Len(s) : s[i] \in Int
      /\ DOMAIN u = 1 .. Len(u) /\ Len(u) \in Nat /\ \A i \in 1 .. Len(u) : u[i] \in Int
  BY LenProperties, ElementOfSeq
<1>2. /\ \A i \in 1 .. Len(s) : \E j \in 1 .. Len(u) : s[i] = u[j]
      /\ \A i \in 1 .. Len(u) : \E j \in 1 .. Len(s) : u[i] = s[j]
  BY <1>1 DEF ToSet
<1>3. /\ \A i, j \in 1 .. Len(s) : i < j <=> s[i] < s[j]
      /\ \A i, j \in 1 .. Len(u) : i < j <=> u[i] < u[j]
  <2>1. /\ \A i, j \in 1 .. Len(s) : i < j => s[i] < s[j]
        /\ \A i, j \in 1 .. Len(u) : i < j => u[i] < u[j]
    BY <1>1 DEF IsAscending
  <2>2. ASSUME NEW i \in 1 .. Len(s), NEW j \in 1 .. Len(s), s[i] < s[j] PROVE i < j
    <3>1. i < j \/ i = j \/ j < i
      BY <1>1
    <3> QED
      BY <1>1, <2>1, <2>2, <3>1
  <2>3. ASSUME NEW i \in 1 .. Len(u), NEW j \in 1 .. Len(u), u[i] < u[j] PROVE i < j
    <3>1. i < j \/ i = j \/ j < i
      BY <1>1
    <3> QED
      BY <1>1, <2>1, <2>3, <3>1
  <2> QED
    BY <2>1, <2>2, <2>3
<1> DEFINE B == {i \in 1 .. Len(s) : ~(i <= Len(u) /\ s[i] = u[i])}
<1> SUFFICES ASSUME B # {} PROVE FALSE
  OBVIOUS
<1>4. PICK i \in B : \A k \in B : i <= k
  <2>1. B \in SUBSET Nat
    BY <1>1
  <2> HIDE DEF B
  <2> QED
    BY <2>1, LeastNat
<1>5. \A k \in 1 .. Len(s) : k < i => k <= Len(u) /\ s[k] = u[k]
  BY <1>1, <1>4
<1>6. i \in 1 .. Len(s) /\ i \in Nat
  BY <1>1
<1>7. PICK j \in 1 .. Len(u) : s[i] = u[j]
  BY <1>2, <1>6
<1>8. j >= i
  <2> SUFFICES ASSUME j < i PROVE FALSE
    BY <1>1, <1>6
  <2>1. j \in 1 .. Len(s) /\ s[j] = u[j]
    BY <1>1, <1>5, <1>6
  <2> QED
    BY <1>1, <1>3, <1>6, <1>7, <2>1
<1>9. CASE j = i
  BY <1>1, <1>4, <1>6, <1>7, <1>9
<1>10. CASE j > i
  <2>1. i \in 1 .. Len(u) /\ u[i] < s[i]
    BY <1>1, <1>3, <1>6, <1>7, <1>10
  <2>2. PICK m \in 1 .. Len(s) : u[i] = s[m]
    BY <1>2, <2>1
  <2>3. m < i
    BY <1>1, <1>3, <1>6, <2>1, <2>2
  <2>4. m \in 1 .. Len(u) /\ u[m] = u[i]
    BY <1>1, <1>5, <2>2, <2>3
  <2> QED
    BY <1>1, <1>3, <2>1, <2>3, <2>4
<1> QED
  BY <1>1, <1>6, <1>8, <1>9, <1>10

\* Two ascending sequences with the same elements are the same.
LEMMA AscendingUnique ==
    ASSUME NEW s \in Seq(Int), NEW u \in Seq(Int), IsAscending(s), IsAscending(u),
           ToSet(s) = ToSet(u)
    PROVE  s = u
<1>1. Len(s) \in Nat /\ Len(u) \in Nat
  BY LenProperties
<1>2. /\ \A i \in 1 .. Len(s) : i <= Len(u) /\ s[i] = u[i]
      /\ \A i \in 1 .. Len(u) : i <= Len(s) /\ s[i] = u[i]
  BY AscendingPrefix
<1>3. Len(s) = Len(u)
  BY <1>1, <1>2
<1> QED
  BY <1>2, <1>3, SeqEqual

\* The elements of an ascending sequence of documents are at least their
\* positions, so that it has at most NumDocs of them.
LEMMA AscendingLength ==
    ASSUME NEW s \in Seq(Doc), IsAscending(s), NumDocs \in Nat
    PROVE  Len(s) <= NumDocs
<1>1. DOMAIN s = 1 .. Len(s) /\ Len(s) \in Nat /\ \A i \in 1 .. Len(s) : s[i] \in 1 .. NumDocs
  BY LenProperties, ElementOfSeq DEF Doc
<1> DEFINE B == {i \in 1 .. Len(s) : s[i] < i}
<1>2. B = {}
  <2> SUFFICES ASSUME B # {} PROVE FALSE
    OBVIOUS
  <2>1. PICK i \in B : \A k \in B : i <= k
    <3>1. B \in SUBSET Nat
      BY <1>1
    <3> HIDE DEF B
    <3> QED
      BY <3>1, LeastNat
  <2>2. i - 1 \in 1 .. Len(s) /\ i - 1 < i /\ i - 1 \notin B /\ i \in 1 .. Len(s)
    BY <1>1, <2>1
  <2>3. s[i - 1] < s[i] /\ s[i - 1] >= i - 1
    BY <1>1, <2>2 DEF IsAscending
  <2> QED
    BY <1>1, <2>1, <2>2, <2>3
<1>3. CASE Len(s) = 0
  BY <1>3
<1>4. CASE Len(s) > 0
  BY <1>1, <1>2, <1>4
<1> QED
  BY <1>1, <1>3, <1>4

\* Ascending(S) lists the documents of S.
LEMMA AscendingProperties ==
    ASSUME NEW S
    PROVE  /\ Ascending(S) \in Seq(Doc) /\ IsAscending(Ascending(S))
           /\ ToSet(Ascending(S)) = Doc \cap S
<1> DEFINE s == [d \in Doc |-> d]
<1>1. s \in Seq(Int) /\ DOMAIN s = Doc /\ \A d \in Doc : s[d] = d /\ d \in Int
  BY SizeAssumption DEF Doc
<1> HIDE DEF s
<1>2. IsAscending(s) /\ ToSet(s) = Doc
  BY <1>1 DEF IsAscending, ToSet
<1>3. /\ Filter(s, S) \in Seq(Int) /\ IsAscending(Filter(s, S))
      /\ ToSet(Filter(s, S)) = Doc \cap S
  BY <1>1, <1>2, FilterProperties
<1>4. Filter(s, S) = Ascending(S)
  BY DEF Ascending, s
<1>5. Ascending(S) \in Seq(Doc)
  <2>1. \A i \in 1 .. Len(Ascending(S)) : Ascending(S)[i] \in Doc
    BY <1>3, <1>4, LenProperties DEF ToSet
  <2> QED
    BY <1>3, <1>4, <2>1, LenProperties, SeqDef
<1> QED
  BY <1>3, <1>4, <1>5

Hit(d) == <<d, [c \in Clause |-> d]>>

\* The hits are the documents of A, each with its own frequencies.
LEMMA HitsProperties ==
    ASSUME NEW A \in SUBSET Doc
    PROVE  /\ Hits(A) \in Seq({Hit(d) : d \in Doc})
           /\ Len(Hits(A)) = Len(Ascending(A))
           /\ \A i \in 1 .. Len(Ascending(A)) : Hits(A)[i] = Hit(Ascending(A)[i])
           /\ ToSet(Hits(A)) = {Hit(d) : d \in A}
<1> DEFINE ds == Ascending(A)
<1>1. /\ ds \in Seq(Doc) /\ DOMAIN ds = 1 .. Len(ds) /\ Len(ds) \in Nat /\ ToSet(ds) = A
      /\ \A i \in 1 .. Len(ds) : ds[i] \in Doc
  BY AscendingProperties, LenProperties, ElementOfSeq
<1>2. Hits(A) = [i \in 1 .. Len(ds) |-> Hit(ds[i])]
  BY <1>1 DEF Hits, Hit
<1> HIDE DEF ds
<1> DEFINE T == {Hit(d) : d \in Doc}
<1>3. \A i \in 1 .. Len(ds) : Hit(ds[i]) \in T
  BY <1>1
<1> HIDE DEF T
<1>4. Hits(A) \in Seq(T) /\ Len(Hits(A)) = Len(ds) /\ DOMAIN Hits(A) = 1 .. Len(ds)
  BY <1>1, <1>2, <1>3
<1>5. \A i \in 1 .. Len(ds) : Hits(A)[i] = Hit(ds[i])
  BY <1>2
<1>6. ToSet(ds) = {ds[i] : i \in 1 .. Len(ds)} /\ ToSet(Hits(A)) = {Hits(A)[i] : i \in 1 .. Len(ds)}
  BY <1>1, <1>4 DEF ToSet
<1>7. ToSet(Hits(A)) = {Hit(d) : d \in A}
  <2>1. {Hits(A)[i] : i \in 1 .. Len(ds)} = {Hit(ds[i]) : i \in 1 .. Len(ds)}
    BY <1>5
  <2>2. {Hit(ds[i]) : i \in 1 .. Len(ds)} = {Hit(d) : d \in A}
    BY <1>1, <1>6
  <2> QED
    BY <1>6, <2>1, <2>2
<1> QED
  BY <1>4, <1>5, <1>7 DEF ds, T

\* A document after all of A is a hit appended.
LEMMA HitsAppend ==
    ASSUME NEW A \in SUBSET Doc, NEW t \in Doc, \A d \in A : d < t
    PROVE  Hits(A \cup {t}) = Append(Hits(A), Hit(t))
<1> DEFINE a == Ascending(A)
           b == Ascending(A \cup {t})
<1>0. Doc \subseteq Int
  BY SizeAssumption DEF Doc
<1>1. /\ a \in Seq(Doc) /\ IsAscending(a) /\ ToSet(a) = A
      /\ b \in Seq(Doc) /\ IsAscending(b) /\ ToSet(b) = A \cup {t}
  <2>1. Doc \cap A = A /\ Doc \cap (A \cup {t}) = A \cup {t}
    OBVIOUS
  <2> QED
    BY <2>1, AscendingProperties
<1> HIDE DEF a, b
<1>2. /\ DOMAIN a = 1 .. Len(a) /\ Len(a) \in Nat /\ \A i \in 1 .. Len(a) : a[i] \in A
  BY <1>1, LenProperties DEF ToSet
<1> DEFINE u == Append(a, t)
<1>3. /\ u \in Seq(Doc) /\ Len(u) = Len(a) + 1 /\ DOMAIN u = 1 .. Len(a) + 1
      /\ u[Len(a) + 1] = t /\ \A i \in 1 .. Len(a) : u[i] = a[i]
  BY <1>1, <1>2, AppendProperties, LenProperties
<1> HIDE DEF u
<1>4. IsAscending(u)
  <2> SUFFICES ASSUME NEW i \in 1 .. Len(a) + 1, NEW j \in 1 .. Len(a) + 1, i < j PROVE u[i] < u[j]
    BY <1>3 DEF IsAscending
  <2>1. i \in 1 .. Len(a) /\ u[i] = a[i] /\ a[i] \in A
    BY <1>2, <1>3
  <2>2. CASE j = Len(a) + 1
    BY <1>3, <2>1, <2>2
  <2>3. CASE j \in 1 .. Len(a)
    BY <1>1, <1>2, <1>3, <2>1, <2>3 DEF IsAscending
  <2> QED
    BY <1>2, <2>2, <2>3
<1>5. ToSet(u) = A \cup {t}
  <2>1. ToSet(u) = {u[i] : i \in 1 .. Len(a) + 1} /\ ToSet(a) = {a[i] : i \in 1 .. Len(a)}
    BY <1>2, <1>3 DEF ToSet
  <2>2. \A i : i \in 1 .. Len(a) + 1 <=> i \in 1 .. Len(a) \/ i = Len(a) + 1
    BY <1>2
  <2> QED
    BY <1>1, <1>3, <2>1, <2>2
<1>6. a \in Seq(Int) /\ b \in Seq(Int) /\ u \in Seq(Int)
  BY <1>0, <1>1, <1>3, SeqMonotonic
<1>7. b = u
  BY <1>1, <1>4, <1>5, <1>6, AscendingUnique
<1> DEFINE T == {Hit(d) : d \in Doc}
<1>8. /\ Hits(A) \in Seq(T) /\ Len(Hits(A)) = Len(a)
      /\ \A i \in 1 .. Len(a) : Hits(A)[i] = Hit(a[i])
  BY HitsProperties DEF a
<1>9. /\ Hits(A \cup {t}) \in Seq(T) /\ Len(Hits(A \cup {t})) = Len(b)
      /\ \A i \in 1 .. Len(b) : Hits(A \cup {t})[i] = Hit(b[i])
  BY HitsProperties DEF b
<1>10. Hit(t) \in T
  OBVIOUS
<1> HIDE DEF T
<1> DEFINE h == Append(Hits(A), Hit(t))
<1>11. /\ h \in Seq(T) /\ Len(h) = Len(a) + 1 /\ h[Len(a) + 1] = Hit(t)
       /\ \A i \in 1 .. Len(a) : h[i] = Hits(A)[i]
  BY <1>2, <1>8, <1>10, AppendProperties
<1> HIDE DEF h
<1>12. \A i \in 1 .. Len(a) + 1 : h[i] = Hits(A \cup {t})[i]
  <2> SUFFICES ASSUME NEW i \in 1 .. Len(a) + 1 PROVE h[i] = Hits(A \cup {t})[i]
    OBVIOUS
  <2>1. Hits(A \cup {t})[i] = Hit(u[i])
    BY <1>3, <1>7, <1>9
  <2>2. CASE i = Len(a) + 1
    BY <1>3, <1>11, <2>1, <2>2
  <2>3. CASE i \in 1 .. Len(a)
    BY <1>3, <1>8, <1>11, <2>1, <2>3
  <2> QED
    BY <1>2, <2>2, <2>3
<1>13. h = Hits(A \cup {t})
  BY <1>3, <1>7, <1>9, <1>11, <1>12, SeqEqual
<1> QED
  BY <1>13 DEF h

\* No document, no hit.
LEMMA HitsEmpty == Hits({}) = <<>>
<1>1. /\ Ascending({}) \in Seq(Doc) /\ ToSet(Ascending({})) = {}
  BY AscendingProperties
<1>2. Len(Ascending({})) = 0
  <2>1. /\ Len(Ascending({})) \in Nat /\ DOMAIN Ascending({}) = 1 .. Len(Ascending({}))
        /\ \A i \in DOMAIN Ascending({}) : Ascending({})[i] \in ToSet(Ascending({}))
    BY <1>1, LenProperties DEF ToSet
  <2> QED
    BY <1>1, <2>1
<1>3. Hits({}) \in Seq({Hit(d) : d \in Doc}) /\ Len(Hits({})) = 0
  BY <1>2, HitsProperties
<1> QED
  BY <1>3, EmptySeq

-----------------------------------------------------------------------------
(* Galloping.                                                              *)

\* The bounds that stop the doubling.
Stops(s, t, h) == h >= Len(s) \/ s[h + 1] >= t

Doubling(s, t, n, f) ==
    f = [h \in n .. 2 * Len(s) + 1 |-> IF Stops(s, t, h) THEN h ELSE f[2 * h]]

\* The recursive function that doubles the bound exists: it is built from its
\* largest argument down.
LEMMA DoublingExists ==
    ASSUME NEW s \in Seq(Int), NEW t \in Int
    PROVE  \E f : Doubling(s, t, 1, f)
<1> DEFINE N == 2 * Len(s) + 1
           B == {m \in Nat : m <= N /\ ~ \E f : Doubling(s, t, N + 1 - m, f)}
<1>0. Len(s) \in Nat /\ N \in Nat /\ N >= 1
  BY LenProperties
<1>1. B = {}
  <2> SUFFICES ASSUME B # {} PROVE FALSE
    OBVIOUS
  <2>1. PICK m \in B : \A k \in B : m <= k
    <3>1. B \in SUBSET Nat
      OBVIOUS
    <3> HIDE DEF B
    <3> QED
      BY <3>1, LeastNat
  <2>2. m # 0
    <3>1. Doubling(s, t, N + 1, [h \in N + 1 .. N |-> h])
      BY <1>0 DEF Doubling
    <3> QED
      BY <1>0, <3>1
  <2> DEFINE n == N + 1 - m
  <2>3. m - 1 \in Nat /\ m - 1 <= N /\ ~(m <= m - 1) /\ N + 1 - (m - 1) = n + 1 /\ n \in 1 .. N
    BY <1>0, <2>2
  <2>4. PICK f : Doubling(s, t, n + 1, f)
    <3>1. m - 1 \notin B
      BY <2>1, <2>3
    <3> QED
      BY <2>3, <3>1
  <2> DEFINE g == [h \in n .. N |-> IF Stops(s, t, h) THEN h ELSE f[2 * h]]
  <2>5. \A h \in n + 1 .. N : g[h] = f[h]
    <3>1. \A h \in n + 1 .. N : f[h] = IF Stops(s, t, h) THEN h ELSE f[2 * h]
      BY <2>4 DEF Doubling
    <3>2. \A h \in n + 1 .. N : h \in n .. N
      BY <2>3
    <3> QED
      BY <3>1, <3>2
  <2>6. \A h \in n .. N : ~Stops(s, t, h) => 2 * h \in n + 1 .. N
    BY <1>0, <2>3 DEF Stops
  <2> HIDE DEF n
  <2>7. \A h \in n .. N : (IF Stops(s, t, h) THEN h ELSE f[2 * h])
                          = (IF Stops(s, t, h) THEN h ELSE g[2 * h])
    <3> HIDE DEF g
    <3> QED
      BY <2>5, <2>6
  <2>8. g = [h \in n .. N |-> IF Stops(s, t, h) THEN h ELSE g[2 * h]]
    BY <2>7
  <2>9. Doubling(s, t, n, g)
    <3> HIDE DEF g
    <3> QED
      BY <2>8 DEF Doubling
  <2> QED
    BY <2>1, <2>9 DEF n
<1>2. N \notin B /\ N + 1 - N = 1
  BY <1>0, <1>1
<1> QED
  BY <1>0, <1>2

\* The bound stops the doubling, and half of it did not.
LEMMA GallopBound ==
    ASSUME NEW s \in Seq(Int), NEW t \in Int
    PROVE  LET b == gallop_bound(s, t)
           IN  /\ b \in Nat /\ b >= 1 /\ Stops(s, t, b)
               /\ b = 1 \/ ~Stops(s, t, b \div 2)
<1> DEFINE N == 2 * Len(s) + 1
           F == CHOOSE f : Doubling(s, t, 1, f)
<1>0. Len(s) \in Nat /\ N \in Nat /\ N >= 1
  BY LenProperties
<1>1. Doubling(s, t, 1, F)
  BY DoublingExists
<1>2. gallop_bound(s, t) = F[1]
  BY DEF gallop_bound, Doubling, Stops
<1> HIDE DEF F
<1>3. \A h \in 1 .. N : F[h] = IF Stops(s, t, h) THEN h ELSE F[2 * h]
  BY <1>1 DEF Doubling
<1> DEFINE Good(h) == /\ F[h] \in Nat /\ F[h] >= 1 /\ Stops(s, t, F[h])
                      /\ F[h] = h \/ ~Stops(s, t, F[h] \div 2)
           B == {h \in 1 .. N : ~Good(h)}
<1>4. B = {}
  <2> SUFFICES ASSUME B # {} PROVE FALSE
    OBVIOUS
  <2>1. PICK h \in B : \A k \in B : k <= h
    <3>1. B \in SUBSET Nat /\ \A x \in B : x <= N
      BY <1>0
    <3> HIDE DEF B, N
    <3> QED
      BY <1>0, <3>1, MaxNat
  <2>2. h \in 1 .. N /\ h \in Nat
    BY <1>0
  <2>3. CASE Stops(s, t, h)
    <3>1. F[h] = h
      BY <1>3, <2>2, <2>3
    <3>2. Good(h)
      BY <2>2, <2>3, <3>1
    <3> QED
      BY <3>2
  <2>4. CASE ~Stops(s, t, h)
    <3>1. 2 * h \in 1 .. N /\ 2 * h > h
      BY <1>0, <2>2, <2>4 DEF Stops
    <3>2. 2 * h \notin B
      BY <2>1, <2>2, <3>1
    <3>3. Good(2 * h)
      BY <3>1, <3>2
    <3>4. F[h] = F[2 * h]
      BY <1>3, <2>2, <2>4
    <3>5. (2 * h) \div 2 = h
      BY <2>2
    <3>6. Good(h)
      BY <2>4, <3>3, <3>4, <3>5
    <3> QED
      BY <3>6
  <2> QED
    BY <2>3, <2>4
<1>5. Good(1)
  <2>1. 1 \in 1 .. N
    BY <1>0
  <2> HIDE DEF Good
  <2> QED
    BY <1>4, <2>1
<1> QED
  BY <1>2, <1>5

\* gallop returns the offset of the first posting that is not below t.
LEMMA GallopCorrect ==
    ASSUME NEW s \in Seq(Int), NEW t \in Int, IsAscending(s)
    PROVE  LET g == gallop(s, t)
           IN  /\ g \in 0 .. Len(s)
               /\ \A i \in 1 .. g : s[i] < t
               /\ g < Len(s) => s[g + 1] >= t
<1> DEFINE b == gallop_bound(s, t)
           lo == b \div 2
           hi == Min({b, Len(s)})
           G == {j \in lo .. hi : j = hi \/ s[j + 1] >= t}
<1>0. /\ Len(s) \in Nat /\ DOMAIN s = 1 .. Len(s) /\ \A i \in 1 .. Len(s) : s[i] \in Int
      /\ \A i, j \in 1 .. Len(s) : i < j => s[i] < s[j]
  BY LenProperties, ElementOfSeq DEF IsAscending
<1>1. /\ b \in Nat /\ b >= 1 /\ Stops(s, t, b)
      /\ b = 1 \/ ~Stops(s, t, b \div 2)
  BY GallopBound
<1>2. gallop(s, t) = Min(G)
  BY DEF gallop
<1> HIDE DEF b
<1>3. /\ hi = b \/ hi = Len(s)
      /\ hi <= b /\ hi <= Len(s)
  <2>1. b \in Int /\ Len(s) \in Int
    BY <1>0, <1>1
  <2>2. hi = IF b <= Len(s) THEN b ELSE Len(s)
    BY <2>1, MaxMinTwo
  <2> HIDE DEF hi
  <2> QED
    BY <2>1, <2>2
<1> HIDE DEF hi
<1>4. lo \in Nat /\ lo <= b /\ (b = 1 => lo = 0)
  BY <1>1
<1>5. b # 1 => lo < Len(s) /\ s[lo + 1] < t
  BY <1>0, <1>1, <1>4 DEF Stops
<1> HIDE DEF lo
<1>6. hi \in lo .. Len(s) /\ hi \in Nat
  <2>1. lo <= Len(s)
    BY <1>0, <1>4, <1>5
  <2> QED
    BY <1>0, <1>1, <1>3, <1>4, <2>1
<1>7. Min(G) \in G /\ \A x \in G : Min(G) <= x
  <2>1. hi \in G /\ G \in SUBSET Nat
    BY <1>4, <1>6
  <2> HIDE DEF G
  <2> QED
    BY <2>1, MinNat
<1> DEFINE g == Min(G)
<1>7a. g \in G /\ \A x \in G : g <= x
  BY <1>7
<1> HIDE DEF g
<1>8. /\ g \in lo .. hi /\ (g = hi \/ s[g + 1] >= t)
      /\ \A j \in lo .. hi : j < g => ~(s[j + 1] >= t)
  BY <1>4, <1>6, <1>7a
<1> HIDE DEF G
<1>9. ASSUME NEW i \in 1 .. g PROVE s[i] < t
  <2>0. i \in 1 .. Len(s)
    BY <1>0, <1>6, <1>8
  <2>1. CASE i > lo
    <3>1. i - 1 \in lo .. hi /\ i - 1 < g /\ i - 1 + 1 = i
      BY <1>4, <1>6, <1>8, <2>1
    <3> QED
      BY <1>0, <1>8, <2>0, <3>1
  <2>2. CASE i <= lo
    <3>1. b # 1
      BY <1>4, <2>2
    <3>2. s[lo + 1] < t /\ lo + 1 \in 1 .. Len(s) /\ i < lo + 1
      BY <1>0, <1>4, <1>5, <2>2, <3>1
    <3>3. s[i] < s[lo + 1]
      BY <1>0, <2>0, <3>2
    <3> QED
      BY <1>0, <2>0, <3>2, <3>3
  <2> QED
    BY <1>4, <2>1, <2>2
<1>10. ASSUME g < Len(s) PROVE s[g + 1] >= t
  <2>1. CASE g = hi
    <3>1. hi = b
      BY <1>0, <1>1, <1>3, <1>10, <2>1
    <3> QED
      BY <1>1, <1>10, <2>1, <3>1 DEF Stops
  <2> QED
    BY <1>8, <2>1
<1>11. g \in 0 .. Len(s)
  BY <1>0, <1>4, <1>6, <1>8
<1> QED
  BY <1>2, <1>9, <1>10, <1>11 DEF g

\* From position p on.
LEMMA RestGallop ==
    ASSUME NEW s \in Seq(Int), IsAscending(s), NEW t \in Int, NEW p \in 0 .. Len(s)
    PROVE  LET found == p + gallop(Rest(s, p), t)
           IN  /\ found \in p .. Len(s)
               /\ \A i \in p + 1 .. found : s[i] < t
               /\ found < Len(s) => s[found + 1] >= t
<1> DEFINE r == Rest(s, p)
           g == gallop(r, t)
<1>0. /\ Len(s) \in Nat /\ DOMAIN s = 1 .. Len(s) /\ \A i \in 1 .. Len(s) : s[i] \in Int
  BY LenProperties, ElementOfSeq
<1>1. /\ r \in Seq(Int) /\ Len(r) = Len(s) - p
      /\ \A i \in 1 .. Len(s) - p : r[i] = s[p + i]
  <2>1. p + 1 \in Int /\ Len(s) \in Int /\ \A i \in p + 1 .. Len(s) : s[i] \in Int
    BY <1>0
  <2>2. /\ SubSeq(s, p + 1, Len(s)) \in Seq(Int)
        /\ Len(SubSeq(s, p + 1, Len(s))) = IF p + 1 <= Len(s) THEN Len(s) - (p + 1) + 1 ELSE 0
        /\ \A i \in 1 .. Len(s) - (p + 1) + 1 : SubSeq(s, p + 1, Len(s))[i] = s[p + 1 + i - 1]
    BY <2>1, SubSeqProperties
  <2>3. /\ (IF p + 1 <= Len(s) THEN Len(s) - (p + 1) + 1 ELSE 0) = Len(s) - p
        /\ Len(s) - (p + 1) + 1 = Len(s) - p
    <3>1. p \in Nat /\ Len(s) \in Nat /\ p <= Len(s)
      BY <1>0
    <3>2. CASE p + 1 <= Len(s)
      BY <3>1, <3>2
    <3>3. CASE ~(p + 1 <= Len(s))
      BY <3>1, <3>3
    <3> QED
      BY <3>2, <3>3
  <2>4. \A i \in 1 .. Len(s) - p : p + 1 + i - 1 = p + i
    BY <1>0
  <2> QED
    BY <2>2, <2>3, <2>4 DEF Rest
<1> HIDE DEF r
<1>2. IsAscending(r)
  <2>1. DOMAIN r = 1 .. Len(s) - p
    BY <1>1, LenProperties
  <2> SUFFICES ASSUME NEW i \in 1 .. Len(s) - p, NEW j \in 1 .. Len(s) - p, i < j PROVE r[i] < r[j]
    BY <2>1 DEF IsAscending
  <2>2. p + i \in 1 .. Len(s) /\ p + j \in 1 .. Len(s) /\ p + i < p + j
    BY <1>0
  <2> QED
    BY <1>0, <1>1, <2>2 DEF IsAscending
<1>3. /\ g \in 0 .. Len(r) /\ (\A i \in 1 .. g : r[i] < t)
      /\ g < Len(r) => r[g + 1] >= t
  BY <1>1, <1>2, GallopCorrect
<1> HIDE DEF g
<1>4. p + g \in p .. Len(s) /\ g \in Nat
  BY <1>0, <1>1, <1>3
<1>5. ASSUME NEW i \in p + 1 .. p + g PROVE s[i] < t
  <2>1. i - p \in 1 .. g /\ i - p \in 1 .. Len(s) - p /\ p + (i - p) = i
    BY <1>0, <1>4
  <2>2. r[i - p] < t /\ r[i - p] = s[i]
    BY <1>1, <1>3, <2>1
  <2> QED
    BY <2>2
<1>6. ASSUME p + g < Len(s) PROVE s[p + g + 1] >= t
  <2>1. g < Len(r) /\ g + 1 \in 1 .. Len(s) - p /\ p + (g + 1) = p + g + 1
    BY <1>0, <1>1, <1>4, <1>6
  <2>2. r[g + 1] >= t /\ r[g + 1] = s[p + (g + 1)]
    BY <1>1, <1>3, <2>1
  <2> QED
    BY <2>1, <2>2
<1> QED
  BY <1>4, <1>5, <1>6 DEF r, g

-----------------------------------------------------------------------------
(* Blocks and the skip list.                                               *)

\* The blocks that begin inside the list are the blocks there are.
LEMMA BlockCount ==
    ASSUME NEW s \in Seq(Int)
    PROVE  /\ num_blocks(s) \in Nat
           /\ \A b \in Nat : b < num_blocks(s) <=> b * BlockSize < Len(s)
<1> DEFINE n == num_blocks(s)
<1>0. Len(s) \in Nat /\ BlockSize \in Nat \ {0} /\ Len(s) + BlockSize - 1 \in Nat
  BY LenProperties, SizeAssumption
<1>1. n \in Nat /\ n * BlockSize <= Len(s) + BlockSize - 1
      /\ Len(s) + BlockSize - 1 < n * BlockSize + BlockSize
  BY <1>0, DivFacts DEF num_blocks
<1> HIDE DEF n
<1>2. ASSUME NEW b \in Nat PROVE b < n <=> b * BlockSize < Len(s)
  <2>1. n * BlockSize \in Nat /\ b * BlockSize \in Nat
    BY <1>0, <1>1, TimesMonotone
  <2>2. ASSUME b < n PROVE b * BlockSize < Len(s)
    <3>1. b * BlockSize + BlockSize <= n * BlockSize
      BY <1>0, <1>1, <2>2, TimesMonotone
    <3> QED
      BY <1>0, <1>1, <2>1, <3>1
  <2>3. ASSUME n <= b PROVE ~(b * BlockSize < Len(s))
    <3>1. n * BlockSize <= b * BlockSize
      BY <1>0, <1>1, <2>3, TimesMonotone
    <3> QED
      BY <1>0, <1>1, <2>1, <3>1
  <2> QED
    BY <1>1, <2>2, <2>3
<1> QED
  BY <1>1, <1>2 DEF n

\* The largest posting of block b bounds the postings up to the end of b.
LEMMA BlockMax ==
    ASSUME NEW s \in Seq(Int), IsAscending(s), NEW b \in Nat, b < num_blocks(s)
    PROVE  /\ block_max(s, b) \in Int
           /\ \A i \in 1 .. Len(s) : i <= (b + 1) * BlockSize => s[i] <= block_max(s, b)
           /\ \A t \in Int : block_max(s, b) >= t =>
                 \E i \in 1 .. Len(s) : i <= (b + 1) * BlockSize /\ s[i] >= t
<1> DEFINE e == Min({(b + 1) * BlockSize, Len(s)})
           m == (b + 1) * BlockSize
<1>0. /\ Len(s) \in Nat /\ DOMAIN s = 1 .. Len(s) /\ \A i \in 1 .. Len(s) : s[i] \in Int
      /\ \A i, j \in 1 .. Len(s) : i < j => s[i] < s[j]
  BY LenProperties, ElementOfSeq DEF IsAscending
<1>1. BlockSize \in Nat \ {0} /\ b * BlockSize < Len(s)
  BY BlockCount, SizeAssumption
<1>2. m \in Nat /\ m >= 1 /\ b * BlockSize \in Nat
  BY <1>1, TimesMonotone
<1>3. block_max(s, b) = s[e]
  BY DEF block_max
<1>4. e = IF m <= Len(s) THEN m ELSE Len(s)
  <2>1. m \in Int /\ Len(s) \in Int
    BY <1>0, <1>2
  <2> QED
    BY <2>1, MaxMinTwo
<1> HIDE DEF e, m
<1>5. e \in 1 .. Len(s) /\ e <= m /\ \A i \in 1 .. Len(s) : i <= m => i <= e
  <2>1. Len(s) >= 1
    BY <1>0, <1>1, <1>2
  <2>2. CASE m <= Len(s)
    BY <1>0, <1>2, <1>4, <2>2
  <2>3. CASE ~(m <= Len(s))
    BY <1>0, <1>2, <1>4, <2>1, <2>3
  <2> QED
    BY <2>2, <2>3
<1>6. ASSUME NEW i \in 1 .. Len(s), i <= m PROVE s[i] <= s[e]
  <2>1. i = e \/ i < e
    BY <1>0, <1>5, <1>6
  <2> QED
    BY <1>0, <1>5, <2>1
<1> QED
  BY <1>0, <1>3, <1>5, <1>6 DEF m

\* Later blocks have larger postings.
LEMMA BlockMaxMonotone ==
    ASSUME NEW s \in Seq(Int), IsAscending(s), NEW a \in Nat, NEW b \in Nat,
           a <= b, b < num_blocks(s)
    PROVE  block_max(s, a) <= block_max(s, b)
<1>0. /\ Len(s) \in Nat /\ \A i \in 1 .. Len(s) : s[i] \in Int
      /\ num_blocks(s) \in Nat
  BY LenProperties, ElementOfSeq, BlockCount
<1>1. a < num_blocks(s)
  BY <1>0
<1>2. block_max(s, a) \in Int /\ block_max(s, b) \in Int
  BY <1>1, BlockMax
<1>3. PICK i \in 1 .. Len(s) : i <= (a + 1) * BlockSize /\ s[i] >= block_max(s, a)
  <2>1. \A t \in Int : block_max(s, a) >= t =>
                 \E i \in 1 .. Len(s) : i <= (a + 1) * BlockSize /\ s[i] >= t
    BY <1>1, BlockMax
  <2> QED
    BY <1>2, <2>1
<1>4. (a + 1) * BlockSize <= (b + 1) * BlockSize /\ (a + 1) * BlockSize \in Nat /\ (b + 1) * BlockSize \in Nat
  <2>1. a + 1 \in Nat /\ b + 1 \in Nat /\ a + 1 <= b + 1 /\ BlockSize \in Nat \ {0}
    BY SizeAssumption
  <2> QED
    BY <2>1, TimesMonotone
<1>5. i <= (b + 1) * BlockSize
  BY <1>0, <1>3, <1>4
<1>6. s[i] <= block_max(s, b)
  BY <1>5, BlockMax
<1> QED
  BY <1>0, <1>2, <1>3, <1>6

\* The blocks before block k are wholly below t.
BlocksBelow(s, k, t) == \A b \in 0 .. k - 1 : block_max(s, b) < t

\* Then so are their postings; and all postings are in the blocks.
LEMMA PostingsBelow ==
    ASSUME NEW s \in Seq(Int), IsAscending(s), NEW t \in Int,
           NEW k \in 0 .. num_blocks(s), BlocksBelow(s, k, t)
    PROVE  /\ \A i \in 1 .. Len(s) : i <= k * BlockSize => s[i] < t
           /\ k = num_blocks(s) => \A i \in 1 .. Len(s) : s[i] < t
<1>0. /\ Len(s) \in Nat /\ (\A i \in 1 .. Len(s) : s[i] \in Int)
      /\ num_blocks(s) \in Nat /\ k \in Nat /\ BlockSize \in Nat \ {0}
  BY LenProperties, ElementOfSeq, BlockCount, SizeAssumption
<1>1. k * BlockSize \in Nat
  BY <1>0, TimesMonotone
<1>2. ASSUME NEW i \in 1 .. Len(s), i <= k * BlockSize PROVE s[i] < t
  <2>1. k # 0
    BY <1>0, <1>2
  <2>2. k - 1 \in Nat /\ k - 1 < num_blocks(s) /\ k - 1 \in 0 .. k - 1 /\ (k - 1) + 1 = k
    BY <1>0, <2>1
  <2>3. block_max(s, k - 1) \in Int /\ s[i] <= block_max(s, k - 1)
    BY <1>2, <2>2, BlockMax
  <2>4. block_max(s, k - 1) < t
    BY <2>2 DEF BlocksBelow
  <2> QED
    BY <1>0, <2>3, <2>4
<1>3. ASSUME k = num_blocks(s) PROVE Len(s) <= k * BlockSize
  <2>1. ~(k < num_blocks(s))
    BY <1>0, <1>3
  <2>2. ~(k * BlockSize < Len(s))
    BY <1>0, <2>1, BlockCount
  <2> QED
    BY <1>0, <1>1, <2>2
<1> QED
  BY <1>0, <1>1, <1>2, <1>3

\* The top layer never jumps over a block that reaches the target.
LEMMA TopJump ==
    ASSUME NEW s \in Seq(Int), IsAscending(s), NEW t \in Int,
           NEW p \in Nat, p < num_blocks(s)
    PROVE  LET j == top_jump(s, p, t)
           IN  /\ j \in Nat /\ j * SkipInterval \in Nat /\ j * SkipInterval < num_blocks(s)
               /\ j * SkipInterval <= p \/ block_max(s, j * SkipInterval) < t
<1> DEFINE lo == p \div SkipInterval
           hi == (num_blocks(s) - 1) \div SkipInterval
           K == {k \in lo .. hi : \A j \in lo + 1 .. k : block_max(s, j * SkipInterval) < t}
           m == Max(K)
<1>0. num_blocks(s) \in Nat /\ num_blocks(s) - 1 \in Nat /\ SkipInterval \in Nat \ {0}
  <2>1. num_blocks(s) \in Nat
    BY BlockCount
  <2> QED
    BY <2>1, SizeAssumption
<1>1. /\ lo \in Nat /\ lo * SkipInterval <= p
      /\ hi \in Nat /\ hi * SkipInterval <= num_blocks(s) - 1
  BY <1>0, DivFacts
<1>2. lo <= hi
  <2>1. p <= num_blocks(s) - 1
    BY <1>0
  <2> QED
    BY <1>0, <2>1, DivMonotone
<1>3. top_jump(s, p, t) = m
  BY DEF top_jump
<1> HIDE DEF lo, hi
<1>4. m \in K
  <2>1. K \in SUBSET Nat /\ lo \in K /\ \A x \in K : x <= hi
    BY <1>1, <1>2
  <2> HIDE DEF K
  <2> QED
    BY <1>1, <2>1, MaxNat
<1> HIDE DEF m
<1>5. m \in lo .. hi /\ \A j \in lo + 1 .. m : block_max(s, j * SkipInterval) < t
  BY <1>4
<1>6. m \in Nat
  BY <1>1, <1>5
<1>7. m * SkipInterval \in Nat /\ m * SkipInterval <= hi * SkipInterval /\ hi * SkipInterval \in Nat
  BY <1>0, <1>1, <1>5, <1>6, TimesMonotone
<1>8. m = lo \/ m \in lo + 1 .. m
  BY <1>1, <1>5, <1>6
<1>9. m * SkipInterval <= p \/ block_max(s, m * SkipInterval) < t
  BY <1>1, <1>5, <1>8
<1>10. m * SkipInterval < num_blocks(s)
  BY <1>0, <1>1, <1>7
<1> QED
  BY <1>3, <1>6, <1>7, <1>9, <1>10

\* advance_to of the skip list stops at the first block that reaches t.
LEMMA SkipAdvance ==
    ASSUME NEW s \in Seq(Int), IsAscending(s), NEW t \in Int, NEW p \in 0 .. num_blocks(s)
    PROVE  LET r == skip_advance(s, p, t)
           IN  /\ r \in p .. num_blocks(s)
               /\ BlocksBelow(s, p, t) => BlocksBelow(s, r, t)
               /\ r < num_blocks(s) => block_max(s, r) >= t
<1> DEFINE n == num_blocks(s)
           j == top_jump(s, p, t)
           from == Max({p, j * SkipInterval})
           R == {b \in from .. n - 1 : block_max(s, b) >= t} \cup {n}
<1>0. n \in Nat /\ p \in Nat
  BY BlockCount
<1>1. CASE p >= n
  <2>1. p = n /\ skip_advance(s, p, t) = n
    BY <1>0, <1>1 DEF skip_advance
  <2> QED
    BY <1>0, <2>1
<1>2. CASE ~(p >= n)
  <2>1. skip_advance(s, p, t) = Min(R)
    BY <1>2 DEF skip_advance
  <2>2. /\ j \in Nat /\ j * SkipInterval \in Nat /\ j * SkipInterval < n
        /\ j * SkipInterval <= p \/ block_max(s, j * SkipInterval) < t
    BY <1>0, <1>2, TopJump
  <2>3. from = IF p >= j * SkipInterval THEN p ELSE j * SkipInterval
    <3>1. p \in Int /\ j * SkipInterval \in Int
      BY <1>0, <2>2
    <3> QED
      BY <3>1, MaxMinTwo
  <2> HIDE DEF j, from
  <2>4. from \in p .. n - 1 /\ (from = p \/ block_max(s, from) < t)
    BY <1>0, <1>2, <2>2, <2>3
  <2> DEFINE r == Min(R)
  <2>5. r \in R /\ \A x \in R : r <= x
    <3>1. R \in SUBSET Nat /\ n \in R
      BY <1>0, <2>4
    <3> HIDE DEF R
    <3> QED
      BY <3>1, MinNat
  <2> HIDE DEF r
  <2>6. r \in from .. n /\ (r < n => block_max(s, r) >= t)
    BY <1>0, <2>4, <2>5
  <2>7. ASSUME BlocksBelow(s, p, t), NEW b \in 0 .. r - 1 PROVE block_max(s, b) < t
    <3>0. b \in Nat /\ b < n /\ block_max(s, b) \in Int
      <4>1. b \in Nat /\ b < n
        BY <1>0, <2>4, <2>6
      <4> QED
        BY <4>1, BlockMax DEF n
    <3>1. CASE b >= from
      <4>1. b \in from .. n - 1 /\ b \notin R
        BY <1>0, <2>4, <2>5, <2>6, <3>0, <3>1
      <4> QED
        BY <3>0, <4>1
    <3>2. CASE b < from /\ from = p
      <4>1. b \in 0 .. p - 1
        BY <1>0, <2>4, <3>0, <3>2
      <4> QED
        BY <2>7, <4>1 DEF BlocksBelow
    <3>3. CASE b < from /\ from # p
      <4>1. from \in Nat /\ b <= from /\ from < n
        BY <1>0, <2>4, <3>0, <3>3
      <4>2. block_max(s, b) <= block_max(s, from) /\ block_max(s, from) \in Int
        BY <3>0, <4>1, BlockMaxMonotone, BlockMax DEF n
      <4> QED
        BY <2>4, <3>0, <3>3, <4>2
    <3> QED
      BY <1>0, <2>4, <3>0, <3>1, <3>2, <3>3
  <2>8. r \in p .. n
    BY <1>0, <2>4, <2>6
  <2> QED
    BY <2>1, <2>6, <2>7, <2>8 DEF r, BlocksBelow, n
<1> QED
  BY <1>1, <1>2

-----------------------------------------------------------------------------
(* Cursors.                                                                *)

\* The postings of a clause in the segment: ascending documents.
LEMMA DocsFacts ==
    ASSUME IsRequest(q), NEW c \in Clause
    PROVE  /\ docs(c) \in Seq(Int) /\ docs(c) \in Seq(Doc) /\ IsAscending(docs(c))
           /\ ToSet(docs(c)) = ToSet(q.lists[c]) \cap SegmentDocs(seg)
           /\ Len(docs(c)) \in Nat /\ DOMAIN docs(c) = 1 .. Len(docs(c))
           /\ \A i \in 1 .. Len(docs(c)) : docs(c)[i] \in Doc /\ docs(c)[i] \in Nat \ {0}
<1>0. Doc \subseteq Nat \ {0} /\ Doc \subseteq Int
  BY SizeAssumption DEF Doc
<1> DEFINE l == q.lists[c]
<1>1. l \in Seq(Doc) /\ IsAscending(l)
  <2>1. q.lists \in Seq(Seq(Doc)) /\ IsAscending(l)
    BY DEF IsRequest, Clause
  <2>2. DOMAIN q.lists = 1 .. Len(q.lists)
    BY <2>1, LenProperties
  <2>3. c \in 1 .. Len(q.lists)
    BY <2>2 DEF Clause
  <2> QED
    BY <2>1, <2>3, ElementOfSeq
<1>2. l \in Seq(Int)
  BY <1>0, <1>1, SeqMonotonic
<1>3. docs(c) = Filter(l, SegmentDocs(seg))
  BY DEF docs, segment_docs
<1> HIDE DEF l
<1> DEFINE s == docs(c)
<1>4. /\ s \in Seq(Int) /\ IsAscending(s)
      /\ ToSet(s) = ToSet(l) \cap SegmentDocs(seg)
  BY <1>1, <1>2, <1>3, FilterProperties
<1> HIDE DEF s
<1>5. Len(s) \in Nat /\ DOMAIN s = 1 .. Len(s)
  BY <1>4, LenProperties
<1>6. \A i \in 1 .. Len(s) : s[i] \in Doc
  BY <1>4, <1>5 DEF ToSet, SegmentDocs
<1>7. s \in Seq(Doc)
  BY <1>4, <1>5, <1>6, LenProperties, SeqDef
<1> QED
  BY <1>0, <1>4, <1>5, <1>6, <1>7 DEF l, s

\* All postings up to position p are below t.
Below(s, p, t) == \A i \in 1 .. p : s[i] < t

\* An advance that found a document stands on it; it ends in the list.
Lands(s, a) ==
    /\ a.pos \in 0 .. Len(s) /\ a.skip \in 0 .. num_blocks(s)
    /\ a.doc = None \/ (a.pos >= 1 /\ a.doc = s[a.pos])

\* An advance from a cursor that is behind t finds the first posting that is
\* not below t, and leaves the cursor behind t.
Finds(s, a, t) ==
    /\ BlocksBelow(s, a.skip, t)
    /\ a.doc = None => Below(s, Len(s), t)
    /\ a.doc # None => a.doc >= t /\ Below(s, a.pos - 1, t)

\* PostingsBlockSkipIter::advance_to.
LEMMA RamAdvance ==
    ASSUME IsRequest(q), NEW c \in Clause, NEW t \in Int,
           pos[c] \in 0 .. Len(docs(c)), skip[c] \in 0 .. num_blocks(docs(c))
    PROVE  LET a == ram_advance(c, t)
           IN  /\ a.error = FALSE /\ Lands(docs(c), a)
               /\ Below(docs(c), pos[c], t) /\ BlocksBelow(docs(c), skip[c], t) => Finds(docs(c), a, t)
<1> DEFINE s == docs(c)
           P == pos[c]
           K == skip[c]
           n == num_blocks(s)
           landed == skip_advance(s, K, t)
           jumps == block_max(s, P \div BlockSize) < t
           p == IF jumps THEN Max({P, landed * BlockSize}) ELSE P
           k == IF jumps THEN landed ELSE K
           found == p + gallop(Rest(s, p), t)
           a == ram_advance(c, t)
<1>1. a = IF P >= Len(s) \/ (jumps /\ landed = n) THEN Advanced(None, P, K)
          ELSE IF found >= Len(s) THEN Advanced(None, Len(s), k)
          ELSE Advanced(s[found + 1], found + 1, k)
  BY DEF ram_advance
<1>2. /\ s \in Seq(Int) /\ IsAscending(s) /\ Len(s) \in Nat /\ DOMAIN s = 1 .. Len(s)
      /\ \A i \in 1 .. Len(s) : s[i] \in Nat \ {0}
  BY DocsFacts
<1>3. P \in 0 .. Len(s) /\ K \in 0 .. n
  OBVIOUS
<1> HIDE DEF a, s, P, K
<1>4. n \in Nat /\ BlockSize \in Nat \ {0} /\ \A b \in Nat : b < n <=> b * BlockSize < Len(s)
  BY <1>2, BlockCount, SizeAssumption
<1>5. /\ landed \in K .. n
      /\ BlocksBelow(s, K, t) => BlocksBelow(s, landed, t)
  BY <1>2, <1>3, SkipAdvance
<1>6. landed \in Nat /\ landed * BlockSize \in Nat
  <2>1. landed \in Nat
    BY <1>3, <1>4, <1>5
  <2> QED
    BY <1>4, <2>1, TimesMonotone
<1> HIDE DEF n, landed, jumps
<1>7. CASE P >= Len(s) \/ (jumps /\ landed = n)
  <2>1. a = Advanced(None, P, K)
    BY <1>1, <1>7
  <2>2. a.error = FALSE /\ a.doc = None /\ a.pos = P /\ a.skip = K
    BY <2>1 DEF Advanced
  <2>3. ASSUME Below(s, P, t), BlocksBelow(s, K, t) PROVE Below(s, Len(s), t)
    <3>1. CASE P >= Len(s)
      BY <1>2, <1>3, <2>3, <3>1 DEF Below
    <3>2. CASE landed = n
      <4>1. n \in 0 .. num_blocks(s) /\ n = num_blocks(s) /\ BlocksBelow(s, n, t)
        BY <1>4, <1>5, <2>3, <3>2 DEF n
      <4>2. \A i \in 1 .. Len(s) : s[i] < t
        BY <1>2, <4>1, PostingsBelow
      <4> QED
        BY <4>2 DEF Below
    <3> QED
      BY <1>7, <3>1, <3>2
  <2> QED
    BY <1>3, <2>2, <2>3 DEF Lands, Finds, s, P, K, n, a
<1>8. CASE ~(P >= Len(s) \/ (jumps /\ landed = n))
  <2>1. /\ p \in 0 .. Len(s) /\ k \in 0 .. n
        /\ Below(s, P, t) /\ BlocksBelow(s, K, t) => Below(s, p, t) /\ BlocksBelow(s, k, t)
    <3>1. CASE ~jumps
      BY <1>3, <3>1
    <3>2. CASE jumps
      <4>1. landed < n /\ landed * BlockSize < Len(s)
        BY <1>4, <1>5, <1>6, <1>8, <3>2
      <4>2. p = IF P >= landed * BlockSize THEN P ELSE landed * BlockSize
        <5>1. P \in Int /\ landed * BlockSize \in Int
          BY <1>2, <1>3, <1>6
        <5> QED
          BY <3>2, <5>1, MaxMinTwo
      <4>3. k = landed
        BY <3>2
      <4> HIDE DEF p, k
      <4>4. p \in 0 .. Len(s) /\ (p = P \/ p = landed * BlockSize)
        BY <1>2, <1>3, <1>6, <4>1, <4>2
      <4>5. ASSUME Below(s, P, t), BlocksBelow(s, K, t) PROVE Below(s, p, t)
        <5>1. BlocksBelow(s, landed, t) /\ landed \in 0 .. num_blocks(s)
          BY <1>3, <1>4, <1>5, <1>6, <4>5 DEF n
        <5>2. \A i \in 1 .. Len(s) : i <= landed * BlockSize => s[i] < t
          BY <1>2, <5>1, PostingsBelow
        <5>3. CASE p = P
          BY <4>5, <5>3
        <5>4. CASE p = landed * BlockSize
          BY <1>2, <1>6, <4>4, <5>2, <5>4 DEF Below
        <5> QED
          BY <4>4, <5>3, <5>4
      <4> QED
        BY <1>4, <1>5, <1>6, <4>1, <4>3, <4>4, <4>5
    <3> QED
      BY <3>1, <3>2
  <2> HIDE DEF p, k
  <2>2. /\ found \in p .. Len(s) /\ (\A i \in p + 1 .. found : s[i] < t)
        /\ found < Len(s) => s[found + 1] >= t
    BY <1>2, <2>1, RestGallop
  <2> HIDE DEF found
  <2>3. found \in Nat /\ found <= Len(s)
    BY <1>2, <2>1, <2>2
  <2>4. ASSUME Below(s, p, t) PROVE Below(s, found, t)
    <3> SUFFICES ASSUME NEW i \in 1 .. found PROVE s[i] < t
      BY DEF Below
    <3>1. i \in 1 .. p \/ i \in p + 1 .. found
      BY <1>2, <2>1, <2>3
    <3> QED
      BY <2>2, <2>4, <3>1 DEF Below
  <2>5. CASE found >= Len(s)
    <3>1. a = Advanced(None, Len(s), k)
      BY <1>1, <1>8, <2>5
    <3>2. a.error = FALSE /\ a.doc = None /\ a.pos = Len(s) /\ a.skip = k
      BY <3>1 DEF Advanced
    <3>3. ASSUME Below(s, found, t) PROVE Below(s, Len(s), t)
      <4>1. \A i \in 1 .. Len(s) : i \in 1 .. found
        BY <1>2, <2>3, <2>5
      <4> QED
        BY <3>3, <4>1 DEF Below
    <3>4. Lands(s, a)
      BY <1>2, <2>1, <3>2 DEF Lands, n
    <3>5. ASSUME Below(s, P, t), BlocksBelow(s, K, t) PROVE Finds(s, a, t)
      BY <2>1, <2>4, <3>2, <3>3, <3>5 DEF Finds
    <3> QED
      BY <3>2, <3>4, <3>5 DEF s, P, K, a
  <2>6. CASE ~(found >= Len(s))
    <3>1. a = Advanced(s[found + 1], found + 1, k)
      BY <1>1, <1>8, <2>6
    <3>2. a.error = FALSE /\ a.doc = s[found + 1] /\ a.pos = found + 1 /\ a.skip = k
      BY <3>1 DEF Advanced
    <3>3. found + 1 \in 1 .. Len(s) /\ \A i \in 1 .. (found + 1) - 1 : i \in 1 .. found
      BY <1>2, <2>3, <2>6
    <3>4. Lands(s, a)
      BY <1>2, <2>1, <3>2, <3>3 DEF Lands, n
    <3>5. s[found + 1] >= t
      BY <1>2, <2>2, <2>3, <2>6
    <3>6. s[found + 1] # None
      BY <1>2, <3>3 DEF None
    <3>7. ASSUME Below(s, P, t), BlocksBelow(s, K, t) PROVE Finds(s, a, t)
      <4>1. Below(s, (found + 1) - 1, t)
        BY <2>1, <2>4, <3>3, <3>7 DEF Below
      <4>2. Below(s, a.pos - 1, t) /\ BlocksBelow(s, a.skip, t)
        BY <2>1, <3>2, <3>7, <4>1
      <4> QED
        BY <3>2, <3>5, <3>6, <4>2 DEF Finds
    <3> QED
      BY <3>2, <3>4, <3>7 DEF s, P, K, a
  <2> QED
    BY <2>5, <2>6
<1> QED
  BY <1>7, <1>8

\* Galloping from a position up to which all postings are below t.
LEMMA FoundFirst ==
    ASSUME NEW s \in Seq(Int), IsAscending(s), NEW t \in Int, NEW p \in 0 .. Len(s), Below(s, p, t)
    PROVE  LET found == p + gallop(Rest(s, p), t)
           IN  /\ found \in Nat /\ found \in 0 .. Len(s) /\ Below(s, found, t)
               /\ found < Len(s) => s[found + 1] >= t
<1> DEFINE found == p + gallop(Rest(s, p), t)
<1>0. Len(s) \in Nat /\ p \in Nat
  BY LenProperties
<1>1. /\ found \in p .. Len(s) /\ (\A i \in p + 1 .. found : s[i] < t)
      /\ found < Len(s) => s[found + 1] >= t
  BY RestGallop
<1> HIDE DEF found
<1>2. found \in Nat /\ found \in 0 .. Len(s)
  BY <1>0, <1>1
<1>3. Below(s, found, t)
  <2> SUFFICES ASSUME NEW i \in 1 .. found PROVE s[i] < t
    BY DEF Below
  <2>1. i \in 1 .. p \/ i \in p + 1 .. found
    BY <1>0, <1>2
  <2> QED
    BY <1>1, <2>1 DEF Below
<1> QED
  BY <1>1, <1>2, <1>3 DEF found

\* The blocks before that of a posting end before it.
LEMMA BlocksBefore ==
    ASSUME NEW s \in Seq(Int), IsAscending(s), NEW t \in Int, NEW f \in Nat, f < Len(s), Below(s, f, t)
    PROVE  f \div BlockSize \in 0 .. num_blocks(s) /\ BlocksBelow(s, f \div BlockSize, t)
<1> DEFINE k == f \div BlockSize
<1>0. Len(s) \in Nat /\ BlockSize \in Nat \ {0} /\ \A i \in 1 .. Len(s) : s[i] \in Int
  BY LenProperties, ElementOfSeq, SizeAssumption
<1>1. k \in Nat /\ k * BlockSize <= f
  BY <1>0, DivFacts
<1> HIDE DEF k
<1>2. k * BlockSize \in Nat
  BY <1>0, <1>1, TimesMonotone
<1>3. k * BlockSize < Len(s)
  BY <1>0, <1>1, <1>2
<1>4. num_blocks(s) \in Nat /\ k < num_blocks(s)
  BY <1>1, <1>3, BlockCount
<1>5. ASSUME NEW b \in 0 .. k - 1 PROVE block_max(s, b) < t
  <2>1. b \in Nat /\ b < num_blocks(s) /\ b + 1 \in Nat /\ b + 1 <= k
    BY <1>1, <1>4
  <2>2. (b + 1) * BlockSize <= k * BlockSize /\ (b + 1) * BlockSize \in Nat
    BY <1>0, <1>1, <2>1, TimesMonotone
  <2>3. block_max(s, b) \in Int
    BY <2>1, BlockMax
  <2> SUFFICES ASSUME block_max(s, b) >= t PROVE FALSE
    BY <2>3
  <2>4. PICK i \in 1 .. Len(s) : i <= (b + 1) * BlockSize /\ s[i] >= t
    BY <2>1, BlockMax
  <2>5. i \in 1 .. f
    BY <1>0, <1>1, <1>2, <2>2, <2>4
  <2> QED
    BY <1>0, <2>4, <2>5 DEF Below
<1> QED
  BY <1>1, <1>4, <1>5 DEF k, BlocksBelow

\* DiskPostingsCursor::advance_to_with_status; only what cannot be read is an error.
LEMMA DiskAdvance ==
    ASSUME IsRequest(q), NEW c \in Clause, NEW t \in Int,
           pos[c] \in 0 .. Len(docs(c)), skip[c] \in 0 .. num_blocks(docs(c)),
           Below(docs(c), pos[c], t), BlocksBelow(docs(c), skip[c], t)
    PROVE  LET a == disk_advance(c, t)
           IN  /\ a.error => q.bad # {}
               /\ Lands(docs(c), a) /\ Finds(docs(c), a, t)
<1> DEFINE s == docs(c)
           P == pos[c]
           K == skip[c]
           n == num_blocks(s)
           D == {b \in K .. n : b = n \/ block_max(s, b) >= t}
           block == Min(D)
           p == Max({P, block * BlockSize})
           found == p + gallop(Rest(s, p), t)
           a == disk_advance(c, t)
<1>1. a = IF block = n \/ found >= Len(s) THEN Advanced(None, P, n)
          ELSE [Advanced(s[found + 1], found + 1, found \div BlockSize) EXCEPT !.error = Bad(c, found)]
  BY DEF disk_advance
<1>2. /\ s \in Seq(Int) /\ IsAscending(s) /\ Len(s) \in Nat /\ DOMAIN s = 1 .. Len(s)
      /\ \A i \in 1 .. Len(s) : s[i] \in Nat \ {0}
  BY DocsFacts
<1>3. P \in 0 .. Len(s) /\ K \in 0 .. n /\ Below(s, P, t) /\ BlocksBelow(s, K, t)
  OBVIOUS
<1> HIDE DEF a, s, P, K
<1>4. n \in Nat /\ BlockSize \in Nat \ {0} /\ \A b \in Nat : b < n <=> b * BlockSize < Len(s)
  BY <1>2, BlockCount, SizeAssumption
<1>5. \A b \in Nat : b < n => block_max(s, b) \in Int
  BY <1>2, BlockMax
<1> HIDE DEF n
<1>6. block \in D /\ \A x \in D : block <= x
  <2>1. D \in SUBSET Nat /\ n \in D
    BY <1>3, <1>4
  <2> HIDE DEF D
  <2> QED
    BY <2>1, MinNat
<1> HIDE DEF block
<1>7. block \in K .. n /\ block \in Nat
  BY <1>3, <1>4, <1>6
<1>8. BlocksBelow(s, block, t)
  <2> SUFFICES ASSUME NEW b \in 0 .. block - 1 PROVE block_max(s, b) < t
    BY DEF BlocksBelow
  <2>1. b \in Nat /\ b < n /\ block_max(s, b) \in Int
    BY <1>4, <1>5, <1>7
  <2>2. CASE b < K
    <3>1. b \in 0 .. K - 1
      BY <1>3, <1>4, <2>1, <2>2
    <3> QED
      BY <1>3, <3>1 DEF BlocksBelow
  <2>3. CASE b >= K
    <3>1. b \in K .. n /\ ~(block <= b)
      BY <1>3, <1>4, <1>7, <2>1, <2>3
    <3>2. b \notin D
      BY <1>6, <3>1
    <3> QED
      BY <2>1, <3>1, <3>2
  <2> QED
    BY <1>3, <1>4, <2>1, <2>2, <2>3
<1> HIDE DEF D
<1>9. block * BlockSize \in Nat
  BY <1>4, <1>7, TimesMonotone
<1>10. CASE block = n
  <2>1. a.error = FALSE /\ a.doc = None /\ a.pos = P /\ a.skip = n
    BY <1>1, <1>10 DEF Advanced
  <2>2. n \in 0 .. num_blocks(s) /\ n = num_blocks(s) /\ BlocksBelow(s, n, t)
    BY <1>4, <1>8, <1>10 DEF n
  <2>3. \A i \in 1 .. Len(s) : s[i] < t
    BY <1>2, <2>2, PostingsBelow
  <2> QED
    BY <1>3, <2>1, <2>2, <2>3 DEF Lands, Finds, Below, s, a
<1>11. CASE block # n
  <2>1. block * BlockSize < Len(s)
    <3>1. block < n
      BY <1>4, <1>7, <1>11
    <3> QED
      BY <1>4, <1>7, <3>1
  <2>2. p = IF P >= block * BlockSize THEN P ELSE block * BlockSize
    <3>1. P \in Int /\ block * BlockSize \in Int
      BY <1>2, <1>3, <1>9
    <3> QED
      BY <3>1, MaxMinTwo
  <2> HIDE DEF p
  <2>3. p \in 0 .. Len(s) /\ (p = P \/ p = block * BlockSize)
    BY <1>2, <1>3, <1>9, <2>1, <2>2
  <2>4. Below(s, p, t)
    <3>1. block \in 0 .. num_blocks(s)
      BY <1>4, <1>7 DEF n
    <3>2. \A i \in 1 .. Len(s) : i <= block * BlockSize => s[i] < t
      BY <1>2, <1>8, <3>1, PostingsBelow
    <3>3. CASE p = block * BlockSize
      BY <1>2, <1>9, <2>3, <3>2, <3>3 DEF Below
    <3> QED
      BY <1>3, <2>3, <3>3
  <2>5. /\ found \in Nat /\ found \in 0 .. Len(s) /\ Below(s, found, t)
        /\ found < Len(s) => s[found + 1] >= t
    BY <1>2, <2>3, <2>4, FoundFirst
  <2> HIDE DEF found
  <2>6. CASE found >= Len(s)
    <3>1. a.error = FALSE /\ a.doc = None /\ a.pos = P /\ a.skip = n
      BY <1>1, <2>6 DEF Advanced
    <3>2. Below(s, Len(s), t)
      <4>1. \A i \in 1 .. Len(s) : i \in 1 .. found
        BY <1>2, <2>5, <2>6
      <4> QED
        BY <2>5, <4>1 DEF Below
    <3>3. BlocksBelow(s, n, t)
      <4> SUFFICES ASSUME NEW b \in 0 .. n - 1 PROVE block_max(s, b) < t
        BY DEF BlocksBelow
      <4>1. b \in Nat /\ b < num_blocks(s) /\ block_max(s, b) \in Int
        BY <1>4, <1>5 DEF n
      <4> SUFFICES ASSUME block_max(s, b) >= t PROVE FALSE
        BY <4>1
      <4>2. PICK i \in 1 .. Len(s) : i <= (b + 1) * BlockSize /\ s[i] >= t
        BY <1>2, <4>1, BlockMax
      <4> QED
        BY <1>2, <3>2, <4>2 DEF Below
    <3>4. Lands(s, a)
      <4>1. n \in 0 .. num_blocks(s)
        BY <1>4 DEF n
      <4> QED
        BY <1>3, <3>1, <4>1 DEF Lands
    <3>5. Finds(s, a, t)
      BY <3>1, <3>2, <3>3 DEF Finds
    <3> QED
      BY <3>1, <3>4, <3>5 DEF s, a
  <2>7. CASE ~(found >= Len(s))
    <3>1. a = [Advanced(s[found + 1], found + 1, found \div BlockSize) EXCEPT !.error = Bad(c, found)]
      BY <1>1, <1>11, <2>7
    <3>2. /\ a.error = Bad(c, found) /\ a.doc = s[found + 1]
          /\ a.pos = found + 1 /\ a.skip = found \div BlockSize
      BY <3>1 DEF Advanced
    <3>3. found + 1 \in 1 .. Len(s) /\ \A i \in 1 .. (found + 1) - 1 : i \in 1 .. found
      BY <1>2, <2>5, <2>7
    <3>4. found < Len(s)
      BY <1>2, <2>5, <2>7
    <3>5. found \div BlockSize \in 0 .. num_blocks(s) /\ BlocksBelow(s, found \div BlockSize, t)
      BY <1>2, <2>5, <3>4, BlocksBefore
    <3>6. Lands(s, a)
      BY <1>2, <3>2, <3>3, <3>5 DEF Lands
    <3>7. s[found + 1] >= t /\ s[found + 1] # None
      BY <1>2, <2>5, <3>3, <3>4 DEF None
    <3>8. Below(s, (found + 1) - 1, t)
      BY <2>5, <3>3 DEF Below
    <3>9. Finds(s, a, t)
      BY <3>2, <3>5, <3>7, <3>8 DEF Finds
    <3>10. a.error => q.bad # {}
      BY <3>2 DEF Bad
    <3> QED
      BY <3>6, <3>9, <3>10 DEF s, a
  <2> QED
    BY <2>6, <2>7
<1> QED
  BY <1>10, <1>11

\* The galloping cursor stays on what it finds.
LEMMA GallopAdvance ==
    ASSUME IsRequest(q), NEW c \in Clause, NEW t \in Int,
           pos[c] \in 0 .. Len(docs(c)), Below(docs(c), pos[c], t)
    PROVE  LET a == gallop_advance(c, t)
           IN  /\ a.error = FALSE /\ a.skip = skip[c]
               /\ a.pos \in 0 .. Len(docs(c)) /\ Below(docs(c), a.pos, t)
               /\ a.doc = None => Below(docs(c), Len(docs(c)), t)
               /\ a.doc # None => a.pos + 1 \in 1 .. Len(docs(c)) /\ a.doc = docs(c)[a.pos + 1] /\ a.doc >= t
<1> DEFINE s == docs(c)
           P == pos[c]
           found == P + gallop(Rest(s, P), t)
           a == gallop_advance(c, t)
<1>1. a = Advanced(IF found < Len(s) THEN s[found + 1] ELSE None, found, skip[c])
  BY DEF gallop_advance
<1>2. /\ s \in Seq(Int) /\ IsAscending(s) /\ Len(s) \in Nat /\ DOMAIN s = 1 .. Len(s)
      /\ \A i \in 1 .. Len(s) : s[i] \in Nat \ {0}
  BY DocsFacts
<1>3. P \in 0 .. Len(s) /\ Below(s, P, t)
  OBVIOUS
<1> HIDE DEF a, s, P
<1>4. /\ found \in Nat /\ found \in 0 .. Len(s) /\ Below(s, found, t)
      /\ found < Len(s) => s[found + 1] >= t
  BY <1>2, <1>3, FoundFirst
<1> HIDE DEF found
<1>5. /\ a.error = FALSE /\ a.skip = skip[c] /\ a.pos = found
      /\ a.doc = IF found < Len(s) THEN s[found + 1] ELSE None
  BY <1>1 DEF Advanced
<1>6. CASE found < Len(s)
  <2>1. found + 1 \in 1 .. Len(s)
    BY <1>2, <1>4, <1>6
  <2>2. s[found + 1] # None
    BY <1>2, <2>1 DEF None
  <2> QED
    BY <1>4, <1>5, <1>6, <2>1, <2>2 DEF a, s
<1>7. CASE ~(found < Len(s))
  <2>1. \A i \in 1 .. Len(s) : i \in 1 .. found
    BY <1>2, <1>4, <1>7
  <2>2. Below(s, Len(s), t)
    BY <1>4, <2>1 DEF Below
  <2> QED
    BY <1>4, <1>5, <1>7, <2>2 DEF a, s
<1> QED
  BY <1>6, <1>7

CursorTyped(c) == pos[c] \in 0 .. Len(docs(c)) /\ skip[c] \in 0 .. num_blocks(docs(c))

\* A cursor over s at position p and block k, with document d if it holds one,
\* has passed only postings below t: all of them when it is exhausted.
Behind(s, holds, p, k, d, t) ==
    /\ Below(s, IF holds THEN p - 1 ELSE p, t)
    /\ BlocksBelow(s, k, t)
    /\ holds => IF d = None THEN Below(s, Len(s), t)
                            ELSE p >= 1 /\ d = s[p]

\* The first posting that is not below t is t when t is there.
LEMMA FirstIsTarget ==
    ASSUME NEW s \in Seq(Int), IsAscending(s), NEW t \in Int, t \in ToSet(s)
    PROVE  /\ ~Below(s, Len(s), t)
           /\ \A j \in 1 .. Len(s) : Below(s, j - 1, t) /\ s[j] >= t => s[j] = t
<1>1. /\ Len(s) \in Nat /\ DOMAIN s = 1 .. Len(s) /\ \A i \in 1 .. Len(s) : s[i] \in Int
      /\ \A i, j \in 1 .. Len(s) : i < j => s[i] < s[j]
  BY LenProperties, ElementOfSeq DEF IsAscending
<1>2. PICK i \in 1 .. Len(s) : s[i] = t
  BY <1>1 DEF ToSet
<1>3. ~Below(s, Len(s), t)
  BY <1>1, <1>2 DEF Below
<1>4. ASSUME NEW j \in 1 .. Len(s), Below(s, j - 1, t), s[j] >= t PROVE s[j] = t
  <2>1. i = j \/ i < j \/ j < i
    BY <1>1
  <2>2. CASE i < j
    <3>1. i \in 1 .. j - 1
      BY <1>1, <2>2
    <3>2. s[i] < t
      BY <1>4, <3>1 DEF Below
    <3> QED
      BY <1>1, <1>2, <3>2
  <2>3. CASE j < i
    <3>1. s[j] < s[i]
      BY <1>1, <2>3
    <3> QED
      BY <1>1, <1>2, <1>4, <3>1
  <2> QED
    BY <1>2, <2>1, <2>2, <2>3
<1> QED
  BY <1>3, <1>4

\* What a follower answers about the target.
Answers(c, a, t) ==
    /\ a.error => q.bad # {}
    /\ a.doc \in Nat /\ a.pos \in 0 .. Len(docs(c)) /\ a.skip \in 0 .. num_blocks(docs(c))
    /\ q.mode # "executor" => Behind(docs(c), Holds, a.pos, a.skip, a.doc, t)
    /\ a.doc = t => t \in ToSet(docs(c)) /\ freq_at(c, a.pos) = t
    /\ q.mode # "executor" /\ t \in ToSet(docs(c)) => a.doc = t

\* A cursor that stands on the first posting that is not below t.
LEMMA HolderAnswers ==
    ASSUME IsRequest(q), Holds, NEW c \in Clause, NEW t \in Nat \ {0}, NEW a,
           a.error => q.bad # {}, Lands(docs(c), a), Finds(docs(c), a, t)
    PROVE  Answers(c, a, t)
<1> DEFINE s == docs(c)
<1>1. /\ s \in Seq(Int) /\ IsAscending(s) /\ Len(s) \in Nat /\ DOMAIN s = 1 .. Len(s)
      /\ \A i \in 1 .. Len(s) : s[i] \in Nat \ {0}
  BY DocsFacts
<1>2. t \in Int /\ t # None /\ q.mode # "fused"
  BY DEF None, Holds
<1>3. CASE a.doc = None
  <2>1. Below(s, Len(s), t) /\ a.pos \in 0 .. Len(s)
    BY <1>3 DEF Finds, Lands
  <2>2. \A i \in 1 .. a.pos - 1 : i \in 1 .. Len(s)
    BY <1>1, <2>1
  <2>3. Below(s, a.pos - 1, t)
    BY <2>1, <2>2 DEF Below
  <2>4. t \notin ToSet(s)
    BY <1>1, <1>2, <2>1, FirstIsTarget
  <2>5. Behind(docs(c), Holds, a.pos, a.skip, a.doc, t)
    BY <1>3, <2>1, <2>3 DEF Behind, Finds
  <2>6. a.doc \in Nat
    BY <1>3 DEF None
  <2> QED
    BY <1>2, <1>3, <2>4, <2>5, <2>6 DEF Answers, Lands
<1>4. CASE a.doc # None
  <2>1. a.pos \in 1 .. Len(s) /\ a.doc = s[a.pos] /\ s[a.pos] >= t /\ Below(s, a.pos - 1, t)
    BY <1>1, <1>4 DEF Finds, Lands
  <2>2. Behind(docs(c), Holds, a.pos, a.skip, a.doc, t)
    BY <1>1, <1>4, <2>1 DEF Behind, Finds
  <2>3. freq_at(c, a.pos) = a.doc /\ a.doc \in ToSet(s)
    BY <1>1, <1>2, <2>1 DEF freq_at, ToSet
  <2>4. t \in ToSet(s) => a.doc = t
    BY <1>1, <1>2, <2>1, FirstIsTarget
  <2>5. a.doc \in Nat
    BY <1>1, <2>1
  <2> QED
    BY <2>2, <2>3, <2>4, <2>5 DEF Answers, Lands
<1> QED
  BY <1>3, <1>4

\* A follower that is behind the target answers whether the target is among
\* its postings, whatever it had to skip, and is behind it again.
LEMMA AskCorrect ==
    ASSUME IsRequest(q), q.mode # "matches", NEW c \in Clause, target \in Nat \ {0}, CursorTyped(c),
           q.mode # "executor" => Behind(docs(c), Holds, pos[c], skip[c], cur[c], target)
    PROVE  Answers(c, ask(c), target)
<1> DEFINE s == docs(c)
           t == target
           a == ask(c)
<1>1. /\ s \in Seq(Int) /\ IsAscending(s) /\ Len(s) \in Nat /\ DOMAIN s = 1 .. Len(s)
      /\ \A i \in 1 .. Len(s) : s[i] \in Nat \ {0}
  BY DocsFacts
<1>2. t \in Int /\ t # None /\ t \in Nat \ {0}
  BY DEF None
<1>3. pos[c] \in 0 .. Len(s) /\ skip[c] \in 0 .. num_blocks(s)
  BY DEF CursorTyped
<1>4. CASE Holds /\ ~(cur[c] # None /\ cur[c] < t)
  <2>1. a = Advanced(cur[c], pos[c], skip[c])
    BY <1>4 DEF ask
  <2>2. a.error = FALSE /\ a.doc = cur[c] /\ a.pos = pos[c] /\ a.skip = skip[c]
    BY <2>1 DEF Advanced
  <2> HIDE DEF a
  <2>3. Behind(docs(c), Holds, pos[c], skip[c], cur[c], t)
    BY <1>4 DEF Holds
  <2>4. Lands(s, a)
    BY <1>3, <1>4, <2>2, <2>3 DEF Lands, Behind
  <2>5. ASSUME cur[c] # None PROVE cur[c] >= t /\ Below(s, pos[c] - 1, t)
    <3>1. pos[c] \in 1 .. Len(s) /\ cur[c] = s[pos[c]] /\ Below(s, pos[c] - 1, t)
      BY <1>1, <1>3, <1>4, <2>3, <2>5 DEF Behind
    <3> QED
      BY <1>1, <1>2, <1>4, <2>5, <3>1
  <2>6. cur[c] = None => Below(s, Len(s), t)
    BY <1>4, <2>3 DEF Behind
  <2>7. Finds(s, a, t)
    BY <2>2, <2>3, <2>5, <2>6 DEF Finds, Behind
  <2> QED
    BY <1>2, <1>4, <2>2, <2>4, <2>7, HolderAnswers DEF a
<1>5. CASE Holds /\ cur[c] # None /\ cur[c] < t
  <2>1. a = advance_to(c, t)
    BY <1>5 DEF ask
  <2>2. Behind(docs(c), Holds, pos[c], skip[c], cur[c], t)
    BY <1>5 DEF Holds
  <2>3. pos[c] \in 1 .. Len(s) /\ s[pos[c]] < t /\ Below(s, pos[c] - 1, t) /\ BlocksBelow(s, skip[c], t)
    BY <1>1, <1>3, <1>5, <2>2 DEF Behind
  <2>4. Below(s, pos[c], t)
    <3>1. \A i \in 1 .. pos[c] : i = pos[c] \/ i \in 1 .. pos[c] - 1
      BY <1>1, <2>3
    <3> QED
      BY <2>3, <3>1 DEF Below
  <2>5. CASE q.mode = "ram"
    <3>1. a = ram_advance(c, t)
      BY <2>1, <2>5 DEF advance_to
    <3>2. a.error = FALSE /\ Lands(s, a) /\ Finds(s, a, t)
      BY <1>2, <1>3, <2>3, <2>4, <3>1, RamAdvance
    <3> QED
      BY <1>2, <1>5, <3>2, HolderAnswers
  <2>6. CASE q.mode # "ram"
    <3>1. a = disk_advance(c, t)
      BY <1>5, <2>1, <2>6 DEF advance_to, Holds
    <3>2. (a.error => q.bad # {}) /\ Lands(s, a) /\ Finds(s, a, t)
      BY <1>2, <1>3, <2>3, <2>4, <3>1, DiskAdvance
    <3> QED
      BY <1>2, <1>5, <3>2, HolderAnswers
  <2> QED
    BY <2>5, <2>6
<1>6. CASE q.mode = "fused"
  <2>1. a = gallop_advance(c, t) /\ ~Holds
    BY <1>6 DEF ask, advance_to, Holds
  <2>2. Below(s, pos[c], t) /\ BlocksBelow(s, skip[c], t)
    BY <1>6, <2>1 DEF Behind
  <2>3. /\ a.error = FALSE /\ a.skip = skip[c]
        /\ a.pos \in 0 .. Len(s) /\ Below(s, a.pos, t)
        /\ a.doc = None => Below(s, Len(s), t)
        /\ a.doc # None => a.pos + 1 \in 1 .. Len(s) /\ a.doc = s[a.pos + 1] /\ a.doc >= t
    <3> DEFINE g == gallop_advance(c, t)
    <3>1. /\ g.error = FALSE /\ g.skip = skip[c]
          /\ g.pos \in 0 .. Len(s) /\ Below(s, g.pos, t)
          /\ g.doc = None => Below(s, Len(s), t)
          /\ g.doc # None => g.pos + 1 \in 1 .. Len(s) /\ g.doc = s[g.pos + 1] /\ g.doc >= t
      BY <1>2, <1>3, <2>2, GallopAdvance
    <3>2. a = g
      BY <2>1
    <3> HIDE DEF a, g, s
    <3> QED
      BY <3>1, <3>2
  <2> HIDE DEF a
  <2>4. Behind(docs(c), Holds, a.pos, a.skip, a.doc, t)
    BY <2>1, <2>2, <2>3 DEF Behind
  <2>5. CASE a.doc = None
    <3>1. t \notin ToSet(s)
      BY <1>1, <1>2, <2>3, <2>5, FirstIsTarget
    <3> QED
      BY <1>2, <1>3, <2>3, <2>4, <2>5, <3>1 DEF Answers, a, None
  <2>6. CASE a.doc # None
    <3>1. a.pos + 1 \in 1 .. Len(s) /\ a.doc = s[a.pos + 1] /\ s[a.pos + 1] >= t
      BY <2>3, <2>6
    <3>2. Below(s, (a.pos + 1) - 1, t)
      <4>1. \A i \in 1 .. (a.pos + 1) - 1 : i \in 1 .. a.pos
        BY <1>1, <2>3
      <4> QED
        BY <2>3, <4>1 DEF Below
    <3>3. t \in ToSet(s) => a.doc = t
      BY <1>1, <1>2, <3>1, <3>2, FirstIsTarget
    <3>4. freq_at(c, a.pos) = a.doc /\ a.doc \in ToSet(s)
      BY <1>1, <1>6, <3>1 DEF freq_at, ToSet
    <3>5. a.doc \in Nat
      BY <1>1, <3>1
    <3> QED
      BY <1>3, <2>3, <2>4, <3>3, <3>4, <3>5 DEF Answers, a
  <2> QED
    BY <2>5, <2>6
<1>7. CASE q.mode = "executor"
  <2>1. a = ram_advance(c, t)
    BY <1>7 DEF ask, advance_to, Holds
  <2>2. a.error = FALSE /\ Lands(s, a)
    BY <1>2, <1>3, <2>1, RamAdvance
  <2> HIDE DEF a
  <2>3. a.doc # None => freq_at(c, a.pos) = a.doc /\ a.doc \in ToSet(s)
    BY <1>1, <1>7, <2>2 DEF freq_at, ToSet, Lands
  <2>4. a.doc \in Nat
    BY <1>1, <2>2 DEF Lands, None
  <2> QED
    BY <1>2, <1>7, <2>2, <2>3, <2>4 DEF Answers, Lands, a
<1> QED
  BY <1>4, <1>5, <1>6, <1>7 DEF IsRequest, Holds

-----------------------------------------------------------------------------
(* The order of the clauses.                                               *)

NotEqual == {p \in Int \X Int : p[1] # p[2]}

\* Every clause is in the order once.
LEMMA OrderFacts ==
    ASSUME IsRequest(q)
    PROVE  /\ ByDocFreq \in Seq(Clause) /\ ToSet(ByDocFreq) = Clause
           /\ \A i, j \in 1 .. Len(ByDocFreq) : ByDocFreq[i] = ByDocFreq[j] => i = j
<1> DEFINE id == [c \in Clause |-> c]
           Group(n) == {c \in Clause : Len(docs(c)) = n - 1}
           p == [n \in 1 .. NumDocs + 1 |-> Filter(id, Group(n))]
<1>1. Clause = 1 .. Len(q.lists) /\ Len(q.lists) \in Nat /\ Clause \subseteq Int
  <2>1. q.lists \in Seq(Seq(Doc))
    BY DEF IsRequest
  <2>2. Clause = 1 .. Len(q.lists) /\ Len(q.lists) \in Nat
    BY <2>1, LenProperties DEF Clause
  <2> QED
    BY <2>2
<1>2. id \in Seq(Int) /\ IsAscending(id) /\ ToSet(id) = Clause
  <2>1. id \in Seq(Int) /\ DOMAIN id = Clause /\ \A c \in Clause : id[c] = c
    BY <1>1
  <2> HIDE DEF id
  <2> QED
    BY <2>1 DEF IsAscending, ToSet
<1> HIDE DEF id
<1>3. ASSUME NEW n \in 1 .. NumDocs + 1
      PROVE  /\ p[n] \in Seq(Int) /\ IsAscending(p[n]) /\ ToSet(p[n]) = Group(n)
  <2>1. p[n] = Filter(id, Group(n)) /\ Clause \cap Group(n) = Group(n)
    OBVIOUS
  <2> HIDE DEF p, Group
  <2> QED
    BY <1>2, <2>1, FilterProperties
<1>4. NumDocs \in Nat
  BY SizeAssumption
<1>5. p \in Seq(Seq(Int)) /\ Len(p) = NumDocs + 1
  <2>1. \A n \in 1 .. NumDocs + 1 : Filter(id, Group(n)) \in Seq(Int)
    BY <1>3
  <2> HIDE DEF Group
  <2> QED
    BY <1>4, <2>1
<1>6. FlattenSeq(p) = ByDocFreq
  BY DEF ByDocFreq, id
<1> HIDE DEF p
<1>7. PartsPairwise(p, NotEqual)
  <2>1. ASSUME NEW n \in 1 .. Len(p) PROVE Pairwise(p[n], NotEqual)
    <3>1. p[n] \in Seq(Int) /\ IsAscending(p[n])
      BY <1>3, <1>5
    <3>2. Pairwise(p[n], Less)
      BY <3>1, AscendingPairwise
    <3>3. Less \subseteq NotEqual
      BY DEF Less, NotEqual
    <3> QED
      BY <3>2, <3>3 DEF Pairwise
  <2>2. ASSUME NEW i \in 1 .. Len(p), NEW j \in 1 .. Len(p), i < j,
               NEW x \in ToSet(p[i]), NEW y \in ToSet(p[j])
        PROVE  <<x, y>> \in NotEqual
    <3>1. i \in 1 .. NumDocs + 1 /\ j \in 1 .. NumDocs + 1
      BY <1>5
    <3>2. x \in Group(i) /\ y \in Group(j)
      BY <1>3, <3>1
    <3>3. x \in Int /\ y \in Int /\ Len(docs(x)) = i - 1 /\ Len(docs(y)) = j - 1
      BY <1>1, <3>2
    <3>4. i - 1 # j - 1
      BY <2>2, <3>1, <1>4
    <3>5. x # y
      BY <3>3, <3>4
    <3> QED
      BY <3>3, <3>5 DEF NotEqual
  <2> QED
    BY <2>1, <2>2 DEF PartsPairwise
<1> DEFINE o == ByDocFreq
<1>8. /\ o \in Seq(Int) /\ Pairwise(o, NotEqual)
      /\ ToSet(o) = UNION {ToSet(p[n]) : n \in 1 .. Len(p)}
  BY <1>5, <1>6, <1>7, FlattenSeqProperties
<1> HIDE DEF o
<1>9. ToSet(o) = Clause
  <2>1. ASSUME NEW n \in 1 .. Len(p), NEW c \in ToSet(p[n]) PROVE c \in Clause
    BY <1>3, <1>5
  <2>2. ASSUME NEW c \in Clause PROVE \E n \in 1 .. Len(p) : c \in ToSet(p[n])
    <3>1. Len(docs(c)) \in Nat /\ Len(docs(c)) <= NumDocs
      BY <1>4, DocsFacts, AscendingLength
    <3>2. Len(docs(c)) + 1 \in 1 .. NumDocs + 1 /\ Len(docs(c)) = (Len(docs(c)) + 1) - 1
      BY <1>4, <3>1
    <3>3. c \in Group(Len(docs(c)) + 1)
      BY <3>2
    <3> QED
      BY <1>3, <1>5, <3>2, <3>3
  <2> QED
    BY <1>8, <2>1, <2>2
<1>10. /\ Len(o) \in Nat /\ DOMAIN o = 1 .. Len(o) /\ \A i \in 1 .. Len(o) : o[i] \in Clause
  BY <1>8, <1>9, LenProperties DEF ToSet
<1>11. o \in Seq(Clause)
  BY <1>8, <1>10, LenProperties, SeqDef
<1>12. ASSUME NEW i \in 1 .. Len(o), NEW j \in 1 .. Len(o), o[i] = o[j] PROVE i = j
  <2>1. \A k, l \in 1 .. Len(o) : k < l => o[k] # o[l]
    BY <1>8 DEF Pairwise, NotEqual
  <2>2. i = j \/ i < j \/ j < i
    BY <1>10
  <2> QED
    BY <1>12, <2>1, <2>2
<1> QED
  BY <1>9, <1>11, <1>12 DEF o

-----------------------------------------------------------------------------
(* The invariant.                                                          *)

\* The documents the walk has still to decide about.
Left ==
    {d \in Doc : \/ phase = "begin" /\ (seg = 2 => d > SegmentEnd)
                 \/ phase \in {"driver", "probe"}
                        /\ (d \in ToSet(stream) \/ (OnDisk /\ seg = 1 /\ d > SegmentEnd))
                 \/ phase = "probe" /\ d = target}

Settled == Common(q.lists) \ Left

\* The documents the driver proposes in the segment.
DriverDocs == IF FirstFollower = 1 THEN Common(q.lists) ELSE ToSet(docs(order[1]))

Followers == {c \in Clause : \E i \in FirstFollower .. Len(order) : order[i] = c}

TypeInv ==
    /\ IsRequest(q)
    /\ phase \in {"begin", "driver", "probe", "done"}
    /\ phase # "done" => status = "ok"
    /\ seg \in {1, 2} /\ (seg = 2 => OnDisk)
    /\ target \in Nat
    /\ pos \in [Clause -> Nat] /\ skip \in [Clause -> Nat]
    /\ cur \in [Clause -> Nat] /\ read \in [Clause -> Nat]
    /\ out \in Seq({Hit(d) : d \in Doc})

\* Between segments.
SegmentInv ==
    /\ phase = "begin" => target <= IF seg = 1 THEN 0 ELSE SegmentEnd
    /\ q.mode = "matches" => phase \in {"begin", "done"}

\* The driver has proposed what is up to the target.
StreamInv ==
    /\ order \in Seq(Clause) /\ ToSet(order) = Clause
    /\ \A i, j \in 1 .. Len(order) : order[i] = order[j] => i = j
    /\ stream \in Seq(Doc) /\ IsAscending(stream)
    /\ ToSet(stream) \subseteq DriverDocs
    /\ \A d \in ToSet(stream) : target < d
    /\ \A d \in DriverDocs : d <= target \/ d \in ToSet(stream)
    /\ OnDisk /\ seg = 1 => target <= SegmentEnd

\* The cursors of the followers are behind the target.
CursorInv ==
    /\ \A c \in Clause : CursorTyped(c)
    /\ q.mode # "executor" =>
          \A c \in Followers : Behind(docs(c), Holds, pos[c], skip[c], cur[c], target)

\* The clauses asked so far have the target, and its frequency was read there.
ProbeInv ==
    /\ probe \in FirstFollower .. Len(order) + 1
    /\ target \in DriverDocs
    /\ \A c \in Clause : (\E i \in 1 .. probe - 1 : order[i] = c) =>
          read[c] = target /\ target \in ToSet(docs(c))

\* The hits are the settled documents that are in every list.
OutInv ==
    /\ q.mode \notin {"executor", "matches"} /\ status = "ok" => out = Hits(Settled)
    /\ ToSet(out) \subseteq ToSet(Expected)
    /\ status # "ok" => q.bad # {}
    /\ q.mode = "fused_disk" => status \in {"ok", "declined"}
    /\ q.mode = "matches" /\ phase = "done" => status = "ok" /\ out = Expected

Inv ==
    /\ TypeInv /\ SegmentInv /\ OutInv
    /\ phase \in {"driver", "probe"} => StreamInv /\ CursorInv
    /\ phase = "probe" => ProbeInv

\* What the request alone determines.
LEMMA RequestFrame ==
    ASSUME q' = q
    PROVE  /\ Clause' = Clause /\ (OnDisk' <=> OnDisk) /\ Holds' = Holds
           /\ FirstFollower' = FirstFollower /\ Common(q.lists)' = Common(q.lists)
           /\ Expected' = Expected /\ (\A S : Hits(S)' = Hits(S)) /\ (\A d : Hit(d)' = Hit(d))
<1>1. Clause' = Clause /\ (OnDisk' <=> OnDisk) /\ Holds' = Holds
  BY DEF Clause, OnDisk, Holds
<1>2. FirstFollower' = FirstFollower
  BY DEF FirstFollower, Roaring, OnDisk
<1>3. Common(q.lists)' = Common(q.lists)
  BY DEF Common
<1>4. (\A S : Hits(S)' = Hits(S)) /\ (\A d : Hit(d)' = Hit(d))
  BY DEF Hits, Hit, Clause
<1>5. Expected' = Expected
  BY DEF Expected, Hits, Clause
<1> QED
  BY <1>1, <1>2, <1>3, <1>4, <1>5

\* The hits of the documents settled after a step.
LEMMA SettledFrame ==
    ASSUME q' = q
    PROVE  Hits(Settled)' = Hits(Settled')
<1>1. Hits(Settled)' = [i \in DOMAIN Ascending(Settled') |-> Hit(Ascending(Settled')[i])]
  BY DEF Hits, Hit, Clause
<1>2. \A S : Hits(S) = [i \in DOMAIN Ascending(S) |-> Hit(Ascending(S)[i])]
  BY DEF Hits, Hit
<1> QED
  BY <1>1, <1>2

\* What the request and the segment determine.
LEMMA SegmentFrame ==
    ASSUME q' = q, seg' = seg
    PROVE  \A c : docs(c)' = docs(c)
  BY DEF docs, segment_docs, SegmentDocs, OnDisk

\* Common documents are documents.
LEMMA CommonFacts ==
    /\ Common(q.lists) \subseteq Doc /\ Doc \subseteq Nat \ {0} /\ Settled \in SUBSET Doc
    /\ \A c \in Clause : Common(q.lists) \subseteq ToSet(q.lists[c])
  BY SizeAssumption DEF Common, Doc, Clause, Settled

\* Fewer documents, fewer hits.
LEMMA HitsMonotone ==
    ASSUME NEW A \in SUBSET Doc, NEW B \in SUBSET Doc, A \subseteq B
    PROVE  ToSet(Hits(A)) \subseteq ToSet(Hits(B))
<1>1. ToSet(Hits(A)) = {Hit(d) : d \in A} /\ ToSet(Hits(B)) = {Hit(d) : d \in B}
  BY HitsProperties
<1> QED
  BY <1>1

\* The walk begins with everything to decide.
LEMMA InitInv == Init => Inv
<1> SUFFICES ASSUME Init PROVE Inv
  OBVIOUS
<1>1. IsRequest(q)
  BY QueryAssumption DEF Init
<1>2. TypeInv
  <2>1. /\ pos \in [Clause -> Nat] /\ skip \in [Clause -> Nat]
        /\ cur \in [Clause -> Nat] /\ read \in [Clause -> Nat]
    BY DEF Init, None
  <2> QED
    BY <1>1, <2>1 DEF TypeInv, Init, None
<1>3. SegmentInv
  BY DEF SegmentInv, Init, None
<1>4. OutInv
  <2>1. Left = Doc
    BY DEF Left, Init
  <2>2. Settled = {}
    BY <2>1, CommonFacts DEF Settled
  <2>3. out = Hits(Settled) /\ ToSet(out) = {}
    BY <2>2, HitsEmpty DEF Init, ToSet
  <2> QED
    BY <2>3 DEF OutInv, Init
<1> QED
  BY <1>2, <1>3, <1>4 DEF Inv, Init

-----------------------------------------------------------------------------
(* Answers at once and failures.                                           *)

\* A walk that ends, with what it may answer.
LEMMA FinishInv ==
    ASSUME Inv, NEW st, NEW hits, Finish(st, hits),
           hits \in Seq({Hit(d) : d \in Doc}), ToSet(hits) \subseteq ToSet(Expected),
           q.mode \notin {"executor", "matches"} /\ st = "ok" => hits = Hits(Common(q.lists)),
           st # "ok" => q.bad # {},
           q.mode = "fused_disk" => st \in {"ok", "declined"},
           q.mode = "matches" => st = "ok" /\ hits = Expected
    PROVE  Inv'
<1>1. /\ phase' = "done" /\ status' = st /\ out' = hits /\ q' = q /\ seg' = seg
      /\ UNCHANGED <<order, pos, skip, cur, stream, target, probe, read>>
  BY DEF Finish
<1>2. /\ Clause' = Clause /\ (OnDisk' <=> OnDisk) /\ Common(q.lists)' = Common(q.lists)
      /\ Expected' = Expected /\ (\A S : Hits(S)' = Hits(S)) /\ (\A d : Hit(d)' = Hit(d))
  BY <1>1, RequestFrame
<1>3. TypeInv'
  <2>1. {Hit(d) : d \in Doc}' = {Hit(d) : d \in Doc}
    BY <1>2
  <2>2. IsRequest(q)'
    BY <1>1 DEF Inv, TypeInv, IsRequest
  <2> QED
    BY <1>1, <1>2, <2>1, <2>2 DEF Inv, TypeInv
<1>4. SegmentInv'
  BY <1>1 DEF SegmentInv
<1>5. OutInv'
  <2>1. Left' = {}
    BY <1>1 DEF Left
  <2>2. Settled' = Common(q.lists)
    BY <1>2, <2>1 DEF Settled
  <2>3. Hits(Settled)' = Hits(Common(q.lists))
    BY <1>1, <2>2, SettledFrame
  <2> QED
    BY <1>1, <1>2, <2>3 DEF OutInv
<1> QED
  BY <1>1, <1>3, <1>4, <1>5 DEF Inv

\* The hits of a set of common documents may be answered.
LEMMA CommonHits ==
    ASSUME q.mode # "matches", NEW A \in SUBSET Doc, A \subseteq Common(q.lists)
    PROVE  /\ Hits(A) \in Seq({Hit(d) : d \in Doc}) /\ ToSet(Hits(A)) \subseteq ToSet(Expected)
<1>1. Expected = Hits(Common(q.lists))
  BY DEF Expected
<1> QED
  BY <1>1, HitsProperties, HitsMonotone, CommonFacts

\* A failed read: nothing, or what could be read of every list.
LEMMA FailInv ==
    ASSUME Inv, fail, q.mode # "matches", q.bad # {}
    PROVE  Inv'
<1>1. CASE q.mode = "fused_disk"
  <2>1. Finish("declined", <<>>)
    BY <1>1 DEF fail
  <2>2. <<>> \in Seq({Hit(d) : d \in Doc}) /\ ToSet(<<>>) \subseteq ToSet(Expected)
    BY EmptySeq DEF ToSet
  <2> QED
    BY <1>1, <2>1, <2>2, FinishInv
<1>2. CASE q.mode # "fused_disk"
  <2> DEFINE A == {d \in Doc : \A c \in Clause : d \in decode_from_segment(c)}
  <2>1. Finish("merged", Hits(A))
    BY <1>2 DEF fail, conjunction_hits_merged
  <2>2. A \in SUBSET Doc /\ A \subseteq Common(q.lists)
    BY DEF decode_from_segment, Common, Clause
  <2> HIDE DEF A
  <2>3. /\ Hits(A) \in Seq({Hit(d) : d \in Doc}) /\ ToSet(Hits(A)) \subseteq ToSet(Expected)
    BY <2>2, CommonHits
  <2> QED
    BY <1>2, <2>1, <2>3, FinishInv
<1> QED
  BY <1>1, <1>2

\* A term without postings: no document is common.
LEMMA MissingTermInv == Inv /\ MissingTerm => Inv'
<1> SUFFICES ASSUME Inv, MissingTerm PROVE Inv'
  OBVIOUS
<1>1. Finish("ok", <<>>) /\ q.mode # "matches" /\ Missing
  BY DEF MissingTerm, Missing
<1>2. Common(q.lists) = {}
  <2>1. PICK c \in Clause : q.lists[c] = <<>>
    BY <1>1 DEF Missing
  <2>2. ToSet(q.lists[c]) = {}
    BY <2>1 DEF ToSet
  <2> QED
    BY <2>2, CommonFacts
<1>3. Hits(Common(q.lists)) = <<>>
  BY <1>2, HitsEmpty
<1>4. <<>> \in Seq({Hit(d) : d \in Doc}) /\ ToSet(<<>>) \subseteq ToSet(Expected)
  BY EmptySeq DEF ToSet
<1> QED
  BY <1>1, <1>3, <1>4, FinishInv

\* A list that cannot be opened.
LEMMA OpenErrorInv == Inv /\ OpenError => Inv'
<1> SUFFICES ASSUME Inv, OpenError PROVE Inv'
  OBVIOUS
<1>1. fail /\ q.bad # {} /\ q.mode # "matches"
  BY DEF OpenError, Unopenable
<1> QED
  BY <1>1, FailInv

\* The intersection of two bitmaps is the set of common documents.
LEMMA RoaringHitsInv == Inv /\ RoaringHits => Inv'
<1> SUFFICES ASSUME Inv, RoaringHits PROVE Inv'
  OBVIOUS
<1>1. Finish("ok", Hits(Common(q.lists))) /\ q.mode = "ram"
  BY DEF RoaringHits
<1>2. /\ Hits(Common(q.lists)) \in Seq({Hit(d) : d \in Doc})
      /\ ToSet(Hits(Common(q.lists))) \subseteq ToSet(Expected)
  BY <1>1, CommonHits, CommonFacts
<1> QED
  BY <1>1, <1>2, FinishInv

-----------------------------------------------------------------------------
(* The steps of the walk.                                                  *)

\* Steps that leave the request and the answer alone.
LEMMA QuietStep ==
    ASSUME Inv, q' = q, UNCHANGED <<status, out>>, Settled' = Settled \/ q.mode = "executor",
           q.mode # "matches",
           phase' \in {"begin", "driver", "probe", "done"}, phase # "done",
           seg' \in {1, 2}, seg' = 2 => OnDisk, target' \in Nat,
           pos' \in [Clause -> Nat], skip' \in [Clause -> Nat],
           cur' \in [Clause -> Nat], read' \in [Clause -> Nat]
    PROVE  TypeInv' /\ OutInv'
<1>1. /\ Clause' = Clause /\ (OnDisk' <=> OnDisk) /\ Common(q.lists)' = Common(q.lists)
      /\ Expected' = Expected /\ (\A d : Hit(d)' = Hit(d))
  BY RequestFrame
<1>2. {Hit(d) : d \in Doc}' = {Hit(d) : d \in Doc} /\ IsRequest(q)'
  BY <1>1 DEF Inv, TypeInv, IsRequest
<1>3. TypeInv'
  BY <1>1, <1>2 DEF Inv, TypeInv
<1>4. Hits(Settled)' = Hits(Settled')
  BY SettledFrame
<1>5. OutInv'
  BY <1>1, <1>4 DEF Inv, OutInv
<1> QED
  BY <1>3, <1>5

\* The first of an ascending sequence, and the rest.
LEMMA HeadTailAscending ==
    ASSUME NEW s \in Seq(Doc), IsAscending(s), s # <<>>
    PROVE  /\ Head(s) \in Doc /\ Tail(s) \in Seq(Doc) /\ IsAscending(Tail(s))
           /\ ToSet(s) = {Head(s)} \cup ToSet(Tail(s))
           /\ \A d \in ToSet(Tail(s)) : Head(s) < d
<1> DEFINE u == Tail(s)
<1>1. /\ Head(s) \in Doc /\ u \in Seq(Doc) /\ Len(u) = Len(s) - 1
      /\ \A i \in 1 .. Len(u) : u[i] = s[i + 1]
  BY HeadTailProperties
<1>2. /\ Len(s) \in Nat /\ Len(s) # 0 /\ DOMAIN s = 1 .. Len(s) /\ DOMAIN u = 1 .. Len(s) - 1
      /\ Head(s) = s[1]
  BY <1>1, LenProperties, EmptySeq
<1> HIDE DEF u
<1>3. \A i, j \in 1 .. Len(s) : i < j => s[i] < s[j]
  BY <1>2 DEF IsAscending
<1>4. IsAscending(u)
  <2> SUFFICES ASSUME NEW i \in 1 .. Len(s) - 1, NEW j \in 1 .. Len(s) - 1, i < j PROVE u[i] < u[j]
    BY <1>2 DEF IsAscending
  <2>1. i + 1 \in 1 .. Len(s) /\ j + 1 \in 1 .. Len(s) /\ i + 1 < j + 1
    BY <1>2
  <2> QED
    BY <1>1, <1>3, <2>1
<1>5. /\ ToSet(s) = {s[i] : i \in 1 .. Len(s)} /\ ToSet(u) = {u[i] : i \in 1 .. Len(s) - 1}
  BY <1>2 DEF ToSet
<1>6. ASSUME NEW d \in ToSet(u) PROVE d \in ToSet(s) /\ Head(s) < d
  <2>1. PICK i \in 1 .. Len(s) - 1 : d = u[i]
    BY <1>5
  <2>2. i + 1 \in 1 .. Len(s) /\ 1 \in 1 .. Len(s) /\ 1 < i + 1 /\ u[i] = s[i + 1]
    BY <1>1, <1>2
  <2>3. s[1] < s[i + 1] /\ d = s[i + 1]
    BY <1>3, <2>1, <2>2
  <2> QED
    BY <1>2, <1>5, <2>2, <2>3
<1>7. ASSUME NEW i \in 1 .. Len(s), i # 1 PROVE s[i] \in ToSet(u)
  <2>1. i - 1 \in 1 .. Len(s) - 1 /\ (i - 1) + 1 = i /\ i - 1 \in 1 .. Len(u)
    BY <1>1, <1>2, <1>7
  <2>2. u[i - 1] = s[i]
    BY <1>1, <2>1
  <2> QED
    BY <1>5, <2>1, <2>2
<1>8. ToSet(s) = {Head(s)} \cup ToSet(u)
  <2>1. 1 \in 1 .. Len(s)
    BY <1>2
  <2> QED
    BY <1>2, <1>5, <1>6, <1>7, <2>1
<1> QED
  BY <1>1, <1>4, <1>6, <1>8 DEF u

\* A cursor behind t is behind every later target.
LEMMA BehindLater ==
    ASSUME NEW s \in Seq(Int), IsAscending(s), NEW h \in BOOLEAN,
           NEW p \in 0 .. Len(s), NEW k \in 0 .. num_blocks(s), NEW d, NEW t \in Int, NEW u \in Int,
           t <= u, Behind(s, h, p, k, d, t)
    PROVE  Behind(s, h, p, k, d, u)
<1>1. Len(s) \in Nat /\ (\A i \in 1 .. Len(s) : s[i] \in Int) /\ num_blocks(s) \in Nat
  BY LenProperties, ElementOfSeq, BlockCount
<1>2. ASSUME NEW m \in Int, m <= Len(s), Below(s, m, t) PROVE Below(s, m, u)
  <2> SUFFICES ASSUME NEW i \in 1 .. m PROVE s[i] < u
    BY DEF Below
  <2>1. s[i] < t /\ s[i] \in Int
    BY <1>1, <1>2 DEF Below
  <2> QED
    BY <2>1
<1>3. BlocksBelow(s, k, u)
  <2> SUFFICES ASSUME NEW b \in 0 .. k - 1 PROVE block_max(s, b) < u
    BY DEF BlocksBelow
  <2>1. b \in Nat /\ b < num_blocks(s)
    BY <1>1
  <2>2. block_max(s, b) < t /\ block_max(s, b) \in Int
    BY <2>1, BlockMax DEF Behind, BlocksBelow
  <2> QED
    BY <2>2
<1>4. p - 1 \in Int /\ p - 1 <= Len(s) /\ p \in Int /\ p <= Len(s) /\ Len(s) <= Len(s)
  BY <1>1
<1>5. CASE h
  BY <1>1, <1>2, <1>3, <1>4, <1>5 DEF Behind
<1>6. CASE ~h
  BY <1>2, <1>3, <1>4, <1>6 DEF Behind
<1> QED
  BY <1>5, <1>6

\* The order of a walk, and the documents of its driver: those of the segment
\* that can be common.
LEMMA WalkFacts ==
    ASSUME TypeInv, StreamInv
    PROVE  /\ order \in Seq(Clause) /\ Len(order) \in Nat /\ Len(order) # 0 /\ order[1] \in Clause
           /\ FirstFollower \in {1, 2} /\ (OnDisk => FirstFollower = 2)
           /\ DriverDocs \subseteq SegmentDocs(seg) /\ DriverDocs \subseteq Doc
           /\ Common(q.lists) \cap SegmentDocs(seg) \subseteq DriverDocs
<1>1. order \in Seq(Clause) /\ Len(order) \in Nat /\ Len(order) # 0 /\ order[1] \in Clause
      /\ FirstFollower \in {1, 2} /\ (OnDisk => FirstFollower = 2)
  <2>1. order \in Seq(Clause) /\ ToSet(order) = Clause /\ Clause # {}
    <3>1. Clause # {}
      <4>1. q.lists \in Seq(Seq(Doc)) /\ q.lists # <<>>
        BY DEF TypeInv, IsRequest
      <4>2. Clause = 1 .. Len(q.lists) /\ Len(q.lists) \in Nat /\ Len(q.lists) # 0
        BY <4>1, LenProperties, EmptySeq DEF Clause
      <4> QED
        BY <4>2
    <3> QED
      BY <3>1 DEF StreamInv
  <2>2. Len(order) \in Nat /\ DOMAIN order = 1 .. Len(order)
    BY <2>1, LenProperties
  <2>3. Len(order) # 0
    BY <2>1, <2>2 DEF ToSet
  <2>4. order[1] \in Clause
    BY <2>1, <2>2, <2>3, ElementOfSeq
  <2> QED
    BY <2>1, <2>2, <2>3, <2>4 DEF FirstFollower, Roaring
<1>2. CASE FirstFollower = 1
  <2>1. DriverDocs = Common(q.lists) /\ ~OnDisk
    BY <1>1, <1>2 DEF DriverDocs
  <2>2. SegmentDocs(seg) = Doc
    BY <2>1 DEF SegmentDocs
  <2> QED
    BY <1>1, <2>1, <2>2, CommonFacts
<1>3. CASE FirstFollower = 2
  <2>1. DriverDocs = ToSet(q.lists[order[1]]) \cap SegmentDocs(seg)
    <3>1. DriverDocs = ToSet(docs(order[1]))
      BY <1>3 DEF DriverDocs
    <3> QED
      BY <1>1, <3>1, DocsFacts DEF TypeInv
  <2>2. SegmentDocs(seg) \subseteq Doc
    BY DEF SegmentDocs
  <2> QED
    BY <1>1, <2>1, <2>2, CommonFacts
<1> QED
  BY <1>1, <1>2, <1>3

\* The driver proposes its next document.
LEMMA NextTargetInv == Inv /\ NextTarget => Inv'
<1> SUFFICES ASSUME Inv, NextTarget PROVE Inv'
  OBVIOUS
<1>1. /\ phase = "driver" /\ stream # <<>> /\ TypeInv /\ SegmentInv /\ StreamInv /\ CursorInv
      /\ q.mode # "matches"
  BY DEF NextTarget, Inv, SegmentInv
<1>2. CASE OnDisk /\ Bad(order[1], Len(docs(order[1])) - Len(stream))
  <2>1. fail /\ q.bad # {}
    BY <1>2 DEF NextTarget, Bad
  <2> QED
    BY <1>1, <2>1, FailInv
<1>3. CASE ~(OnDisk /\ Bad(order[1], Len(docs(order[1])) - Len(stream)))
  <2>1. /\ target' = Head(stream) /\ stream' = Tail(stream)
        /\ read' = [read EXCEPT ![order[1]] = target']
        /\ probe' = FirstFollower /\ phase' = "probe"
        /\ q' = q /\ seg' = seg /\ UNCHANGED <<status, order, pos, skip, cur, out>>
    BY <1>3 DEF NextTarget
  <2>2. /\ Clause' = Clause /\ (OnDisk' <=> OnDisk) /\ Holds' = Holds
        /\ FirstFollower' = FirstFollower /\ Common(q.lists)' = Common(q.lists)
        /\ \A c : docs(c)' = docs(c)
    BY <2>1, RequestFrame, SegmentFrame
  <2>3. DriverDocs' = DriverDocs /\ Followers' = Followers
    <3>1. docs(order[1])' = docs(order[1])
      BY <2>1 DEF docs, segment_docs, SegmentDocs, OnDisk
    <3> QED
      BY <2>1, <2>2, <3>1 DEF DriverDocs, Followers
  <2>4. /\ Head(stream) \in Doc /\ Tail(stream) \in Seq(Doc) /\ IsAscending(Tail(stream))
        /\ ToSet(stream) = {Head(stream)} \cup ToSet(Tail(stream))
        /\ \A d \in ToSet(Tail(stream)) : Head(stream) < d
    BY <1>1, HeadTailAscending DEF StreamInv
  <2>5. target' \in Doc /\ target' \in Nat \ {0} /\ target \in Nat /\ Doc \subseteq Nat /\ target < target'
    BY <1>1, <2>1, <2>4, CommonFacts DEF TypeInv, StreamInv
  <2>6. order \in Seq(Clause) /\ Len(order) \in Nat /\ Len(order) # 0 /\ order[1] \in Clause
        /\ FirstFollower \in {1, 2} /\ (OnDisk => FirstFollower = 2)
    BY <1>1, WalkFacts DEF Inv
  <2>7. target' \in DriverDocs
    BY <1>1, <2>1, <2>4 DEF StreamInv
  <2>8. Settled' = Settled
    <3>1. Left' = Left
      BY <1>1, <2>1, <2>2, <2>4 DEF Left
    <3> QED
      BY <2>2, <3>1 DEF Settled
  <2>9. TypeInv' /\ OutInv'
    <3>1. read' \in [Clause -> Nat]
      BY <1>1, <2>1, <2>5 DEF TypeInv
    <3>2. /\ pos' \in [Clause -> Nat] /\ skip' \in [Clause -> Nat] /\ cur' \in [Clause -> Nat]
          /\ seg' \in {1, 2} /\ (seg' = 2 => OnDisk)
      BY <1>1, <2>1 DEF TypeInv
    <3> QED
      BY <1>1, <2>1, <2>5, <2>8, <3>1, <3>2, QuietStep
  <2>10. StreamInv'
    <3>1. OnDisk /\ seg = 1 => target' <= SegmentEnd
      <4> SUFFICES ASSUME OnDisk, seg = 1 PROVE target' <= SegmentEnd
        OBVIOUS
      <4>1. target' \in ToSet(docs(order[1]))
        BY <2>6, <2>7 DEF DriverDocs
      <4>2. target' \in SegmentDocs(1)
        BY <1>1, <2>6, <4>1, DocsFacts DEF TypeInv
      <4> QED
        BY <4>2 DEF SegmentDocs
    <3>2. \A d \in DriverDocs : d <= target' \/ d \in ToSet(stream')
      <4> SUFFICES ASSUME NEW d \in DriverDocs PROVE d <= target' \/ d \in ToSet(stream')
        OBVIOUS
      <4>1. CASE d \in ToSet(stream)
        BY <2>1, <2>4, <2>5, <4>1
      <4>2. CASE d <= target
        <5>1. d \in Nat
          <6>1. \A c \in Clause : ToSet(docs(c)) \subseteq Doc
            BY <1>1, DocsFacts DEF TypeInv, ToSet
          <6> QED
            BY <2>5, <2>6, <6>1, CommonFacts DEF DriverDocs
        <5> QED
          BY <2>5, <4>2, <5>1
      <4> QED
        BY <1>1, <4>1, <4>2 DEF StreamInv
    <3>3. ToSet(stream') \subseteq DriverDocs /\ \A d \in ToSet(stream') : target' < d
      BY <1>1, <2>1, <2>4 DEF StreamInv
    <3>4. order' \in Seq(Clause) /\ ToSet(order') = Clause
          /\ \A i, j \in 1 .. Len(order') : order'[i] = order'[j] => i = j
      BY <1>1, <2>1 DEF StreamInv
    <3> QED
      BY <2>1, <2>2, <2>3, <2>4, <3>1, <3>2, <3>3, <3>4 DEF StreamInv
  <2>11. CursorInv'
    <3>1. \A c \in Clause : CursorTyped(c)'
      BY <1>1, <2>1, <2>2 DEF CursorInv, CursorTyped
    <3>2. ASSUME q.mode # "executor", NEW c \in Followers
          PROVE  Behind(docs(c), Holds, pos[c], skip[c], cur[c], target')
      <4>1. c \in Clause /\ Behind(docs(c), Holds, pos[c], skip[c], cur[c], target) /\ CursorTyped(c)
        BY <1>1, <3>2 DEF CursorInv, Followers
      <4>2. target \in Int /\ target' \in Int /\ target <= target' /\ Holds \in BOOLEAN
        BY <2>5 DEF Holds
      <4>3. docs(c) \in Seq(Int) /\ IsAscending(docs(c))
        BY <1>1, <4>1, DocsFacts DEF TypeInv
      <4> QED
        BY <4>1, <4>2, <4>3, BehindLater DEF CursorTyped
    <3> QED
      BY <2>1, <2>2, <2>3, <3>1, <3>2 DEF CursorInv
  <2>12. ProbeInv'
    <3>1. FirstFollower \in FirstFollower .. Len(order) + 1
      BY <2>6
    <3>2. ASSUME NEW c \in Clause, NEW i \in 1 .. FirstFollower - 1, order[i] = c
          PROVE  read'[c] = target' /\ target' \in ToSet(docs(c))
      <4>1. i = 1 /\ FirstFollower = 2
        BY <2>6
      <4>2. read'[c] = target'
        BY <1>1, <2>1, <3>2, <4>1 DEF TypeInv
      <4> QED
        BY <2>7, <3>2, <4>1, <4>2 DEF DriverDocs
    <3> QED
      BY <2>1, <2>2, <2>3, <2>7, <3>1, <3>2 DEF ProbeInv
  <2>13. SegmentInv'
    BY <1>1, <2>1 DEF SegmentInv
  <2> QED
    BY <2>1, <2>9, <2>10, <2>11, <2>12, <2>13 DEF Inv
<1> QED
  BY <1>2, <1>3

\* A follower is asked: it has the target and its frequency is read, or the
\* target is in no hit.
LEMMA ProbeInvariant == Inv /\ Probe => Inv'
<1> SUFFICES ASSUME Inv, Probe PROVE Inv'
  OBVIOUS
<1> DEFINE c == order[probe]
           a == ask(c)
<1>1. /\ phase = "probe" /\ probe <= Len(order) /\ TypeInv /\ SegmentInv /\ StreamInv /\ CursorInv /\ ProbeInv
      /\ q.mode # "matches"
  BY DEF Probe, Inv, SegmentInv
<1>2. /\ order \in Seq(Clause) /\ Len(order) \in Nat /\ FirstFollower \in {1, 2}
      /\ DriverDocs \subseteq SegmentDocs(seg) /\ DriverDocs \subseteq Doc
  BY <1>1, WalkFacts
<1>3. probe \in 1 .. Len(order) /\ probe \in FirstFollower .. Len(order)
  BY <1>1, <1>2 DEF ProbeInv
<1>4. c \in Clause /\ c \in Followers
  <2>1. c \in Clause
    BY <1>2, <1>3, ElementOfSeq
  <2> QED
    BY <1>3, <2>1 DEF Followers
<1>5. target \in Doc /\ target \in SegmentDocs(seg) /\ target \in Nat \ {0}
  BY <1>1, <1>2, CommonFacts DEF ProbeInv
<1>6. Answers(c, a, target)
  <2>1. IsRequest(q) /\ CursorTyped(c)
    BY <1>1, <1>4 DEF TypeInv, CursorInv
  <2>2. q.mode # "executor" => Behind(docs(c), Holds, pos[c], skip[c], cur[c], target)
    BY <1>1, <1>4 DEF CursorInv
  <2> QED
    BY <1>1, <1>4, <1>5, <2>1, <2>2, AskCorrect
<1>7. CASE a.error
  <2>1. fail /\ q.bad # {}
    BY <1>6, <1>7 DEF Probe, Answers
  <2> QED
    BY <1>1, <2>1, FailInv
<1>8. CASE ~a.error
  <2>1. /\ pos' = [pos EXCEPT ![c] = a.pos] /\ skip' = [skip EXCEPT ![c] = a.skip]
        /\ cur' = [cur EXCEPT ![c] = a.doc]
        /\ IF a.doc = target
           THEN read' = [read EXCEPT ![c] = freq_at(c, a.pos)] /\ probe' = probe + 1 /\ phase' = phase
           ELSE phase' = "driver" /\ read' = read /\ probe' = probe
        /\ q' = q /\ seg' = seg /\ UNCHANGED <<status, order, stream, target, out>>
    BY <1>8 DEF Probe
  <2>2. /\ a.doc \in Nat /\ a.pos \in 0 .. Len(docs(c)) /\ a.skip \in 0 .. num_blocks(docs(c))
        /\ q.mode # "executor" => Behind(docs(c), Holds, a.pos, a.skip, a.doc, target)
        /\ a.doc = target => target \in ToSet(docs(c)) /\ freq_at(c, a.pos) = target
        /\ q.mode # "executor" /\ target \in ToSet(docs(c)) => a.doc = target
    BY <1>6 DEF Answers
  <2>3. a.pos \in Nat /\ a.skip \in Nat
    <3>1. docs(c) \in Seq(Int) /\ Len(docs(c)) \in Nat
      BY <1>1, <1>4, DocsFacts DEF TypeInv
    <3>2. num_blocks(docs(c)) \in Nat
      BY <3>1, BlockCount
    <3> QED
      BY <2>2, <3>1, <3>2
  <2> HIDE DEF a, c
  <2>4. /\ Clause' = Clause /\ (OnDisk' <=> OnDisk) /\ Holds' = Holds
        /\ FirstFollower' = FirstFollower /\ Common(q.lists)' = Common(q.lists)
        /\ \A x : docs(x)' = docs(x)
    BY <2>1, RequestFrame, SegmentFrame
  <2>5. DriverDocs' = DriverDocs /\ Followers' = Followers
    <3>1. docs(order[1])' = docs(order[1])
      BY <2>1 DEF docs, segment_docs, SegmentDocs, OnDisk
    <3> QED
      BY <2>1, <2>4, <3>1 DEF DriverDocs, Followers
  <2>6. Settled' = Settled \/ q.mode = "executor"
    <3>1. CASE a.doc = target
      <4>1. Left' = Left
        BY <1>1, <2>1, <2>4, <3>1 DEF Left
      <4> QED
        BY <2>4, <4>1 DEF Settled
    <3>2. CASE a.doc # target /\ q.mode # "executor"
      <4>1. target \notin ToSet(docs(c))
        BY <2>2, <3>2
      <4>2. target \notin ToSet(q.lists[c])
        BY <1>1, <1>4, <1>5, <4>1, DocsFacts DEF TypeInv
      <4>3. target \notin Common(q.lists)
        BY <1>4, <4>2, CommonFacts
      <4>4. Left = Left' \cup {target}
        <5>1. target \in Left
          BY <1>1, <1>5 DEF Left
        <5>2. \A d : d # target => (d \in Left <=> d \in Left')
          BY <1>1, <2>1, <2>4, <3>2 DEF Left
        <5>3. Left' \subseteq Left
          BY <1>1, <2>1, <2>4, <3>2 DEF Left
        <5> QED
          BY <5>1, <5>2, <5>3
      <4> QED
        BY <2>4, <4>3, <4>4 DEF Settled
    <3> QED
      BY <3>1, <3>2
  <2>7. TypeInv' /\ OutInv'
    <3>1. /\ pos' \in [Clause -> Nat] /\ skip' \in [Clause -> Nat] /\ cur' \in [Clause -> Nat]
      BY <1>1, <2>1, <2>2, <2>3 DEF TypeInv
    <3>2. read' \in [Clause -> Nat]
      BY <1>1, <2>1, <2>2 DEF TypeInv
    <3>3. /\ seg' \in {1, 2} /\ (seg' = 2 => OnDisk) /\ target' \in Nat
          /\ phase' \in {"begin", "driver", "probe", "done"} /\ phase # "done"
      BY <1>1, <2>1 DEF TypeInv
    <3> QED
      BY <1>1, <2>1, <2>6, <3>1, <3>2, <3>3, QuietStep
  <2>8. StreamInv'
    BY <1>1, <2>1, <2>4, <2>5 DEF StreamInv
  <2>9. CursorInv'
    <3>0. /\ \A x \in Clause : x # c => pos'[x] = pos[x] /\ skip'[x] = skip[x] /\ cur'[x] = cur[x]
          /\ pos'[c] = a.pos /\ skip'[c] = a.skip /\ cur'[c] = a.doc
      BY <1>1, <1>4, <2>1 DEF TypeInv
    <3>1. ASSUME NEW x \in Clause PROVE CursorTyped(x)'
      <4>1. CASE x = c
        BY <2>2, <2>4, <3>0, <4>1 DEF CursorTyped
      <4>2. CASE x # c
        BY <1>1, <2>4, <3>0, <4>2 DEF CursorTyped, CursorInv
      <4> QED
        BY <4>1, <4>2
    <3>2. ASSUME q.mode # "executor", NEW x \in Followers
          PROVE  Behind(docs(x), Holds, pos'[x], skip'[x], cur'[x], target)
      <4>1. CASE x = c
        BY <2>2, <3>0, <3>2, <4>1
      <4>2. CASE x # c
        BY <1>1, <3>0, <3>2, <4>2 DEF CursorInv, Followers
      <4> QED
        BY <4>1, <4>2
    <3> QED
      BY <2>1, <2>4, <2>5, <3>1, <3>2 DEF CursorInv
  <2>10. ASSUME phase' = "probe" PROVE ProbeInv'
    <3>1. a.doc = target /\ read' = [read EXCEPT ![c] = target] /\ probe' = probe + 1
      BY <2>1, <2>2, <2>10
    <3>2. probe' \in FirstFollower .. Len(order) + 1
      BY <1>2, <1>3, <3>1
    <3>3. ASSUME NEW x \in Clause, NEW i \in 1 .. probe' - 1, order[i] = x
          PROVE  read'[x] = target /\ target \in ToSet(docs(x))
      <4>1. CASE x = c
        BY <1>1, <1>4, <2>2, <3>1, <4>1 DEF TypeInv
      <4>2. CASE x # c
        <5>1. i \in 1 .. probe - 1
          BY <1>2, <1>3, <3>1, <3>3, <4>2 DEF c
        <5>2. read[x] = target /\ target \in ToSet(docs(x))
          BY <1>1, <3>3, <5>1 DEF ProbeInv
        <5> QED
          BY <1>1, <3>1, <4>2, <5>2 DEF TypeInv
      <4> QED
        BY <4>1, <4>2
    <3> QED
      BY <1>1, <2>1, <2>4, <2>5, <3>2, <3>3 DEF ProbeInv
  <2>11. SegmentInv' /\ phase' \in {"driver", "probe"}
    BY <1>1, <2>1 DEF SegmentInv
  <2> QED
    BY <2>7, <2>8, <2>9, <2>10, <2>11 DEF Inv
<1> QED
  BY <1>7, <1>8

\* Every clause has the target: it is the next hit, with its frequencies.
LEMMA EmitInv == Inv /\ Emit => Inv'
<1> SUFFICES ASSUME Inv, Emit PROVE Inv'
  OBVIOUS
<1>1. /\ phase = "probe" /\ probe > Len(order) /\ TypeInv /\ SegmentInv /\ StreamInv /\ CursorInv /\ ProbeInv
      /\ OutInv /\ q.mode # "matches"
  BY DEF Emit, Inv, SegmentInv
<1>2. /\ order \in Seq(Clause) /\ Len(order) \in Nat /\ FirstFollower \in {1, 2}
      /\ DriverDocs \subseteq SegmentDocs(seg) /\ DriverDocs \subseteq Doc
      /\ Common(q.lists) \cap SegmentDocs(seg) \subseteq DriverDocs
  BY <1>1, WalkFacts
<1>3. /\ out' = Append(out, <<target, read>>) /\ phase' = "driver" /\ q' = q /\ seg' = seg
      /\ UNCHANGED <<status, order, pos, skip, cur, stream, target, probe, read>>
  BY DEF Emit
<1>4. target \in Doc /\ target \in SegmentDocs(seg) /\ target \in Nat /\ Doc \subseteq Nat
  BY <1>1, <1>2, CommonFacts DEF ProbeInv
<1>5. \A c \in Clause : read[c] = target /\ target \in ToSet(docs(c))
  <2> SUFFICES ASSUME NEW c \in Clause PROVE read[c] = target /\ target \in ToSet(docs(c))
    OBVIOUS
  <2>1. PICK i \in 1 .. Len(order) : order[i] = c
    <3>1. c \in ToSet(order) /\ DOMAIN order = 1 .. Len(order)
      BY <1>1, <1>2, LenProperties DEF StreamInv
    <3> QED
      BY <3>1 DEF ToSet
  <2>2. i \in 1 .. probe - 1
    BY <1>1, <1>2 DEF ProbeInv
  <2> QED
    BY <1>1, <2>1, <2>2 DEF ProbeInv
<1>6. <<target, read>> = Hit(target)
  <2>1. read = [c \in Clause |-> target]
    BY <1>1, <1>5 DEF TypeInv
  <2> QED
    BY <2>1 DEF Hit
<1>7. target \in Common(q.lists)
  <2>1. \A c \in Clause : target \in ToSet(q.lists[c])
    BY <1>1, <1>5, DocsFacts DEF TypeInv
  <2> QED
    BY <1>4, <2>1 DEF Common, Clause
<1>8. /\ Clause' = Clause /\ (OnDisk' <=> OnDisk) /\ Holds' = Holds /\ Expected' = Expected
      /\ FirstFollower' = FirstFollower /\ Common(q.lists)' = Common(q.lists)
      /\ (\A x : docs(x)' = docs(x)) /\ (\A d : Hit(d)' = Hit(d))
  BY <1>3, RequestFrame, SegmentFrame
<1>9. DriverDocs' = DriverDocs /\ Followers' = Followers
  <2>1. docs(order[1])' = docs(order[1])
    BY <1>3 DEF docs, segment_docs, SegmentDocs, OnDisk
  <2> QED
    BY <1>3, <1>8, <2>1 DEF DriverDocs, Followers
<1>10. Settled' = Settled \cup {target} /\ Settled \in SUBSET Doc
  <2>1. target \notin Left'
    <3>1. target \notin ToSet(stream)
      BY <1>1, <1>4 DEF StreamInv
    <3>2. OnDisk /\ seg = 1 => ~(target > SegmentEnd)
      BY <1>1, <1>4, SizeAssumption DEF StreamInv
    <3> QED
      BY <1>3, <1>8, <3>1, <3>2 DEF Left
  <2>2. target \in Left
    BY <1>1, <1>4 DEF Left
  <2>3. \A d : d # target => (d \in Left <=> d \in Left')
    BY <1>1, <1>3, <1>8 DEF Left
  <2> QED
    BY <1>7, <1>8, <2>1, <2>2, <2>3, CommonFacts DEF Settled
<1>11. \A d \in Settled : d < target
  <2> SUFFICES ASSUME NEW d \in Settled PROVE d < target
    OBVIOUS
  <2>1. d \in Common(q.lists) /\ d \in Doc /\ d \notin Left /\ d \in Nat
    BY <1>4, CommonFacts DEF Settled
  <2>2. d # target /\ d \notin ToSet(stream) /\ ~(OnDisk /\ seg = 1 /\ d > SegmentEnd)
    BY <1>1, <2>1 DEF Left
  <2>3. CASE d \in SegmentDocs(seg)
    <3>1. d <= target
      BY <1>1, <1>2, <2>1, <2>2, <2>3 DEF StreamInv
    <3> QED
      BY <1>4, <2>1, <2>2, <3>1
  <2>4. CASE d \notin SegmentDocs(seg)
    <3>1. OnDisk /\ seg = 2
      BY <1>1, <2>1, <2>2, <2>4, SizeAssumption DEF SegmentDocs, TypeInv
    <3>2. d <= SegmentEnd /\ ~(target <= SegmentEnd)
      BY <1>4, <2>1, <2>4, <3>1 DEF SegmentDocs
    <3> QED
      BY <1>4, <2>1, <3>2, SizeAssumption
  <2> QED
    BY <2>3, <2>4
<1>12. /\ out' = Append(out, Hit(target)) /\ out' \in Seq({Hit(d) : d \in Doc})
       /\ ToSet(out') = ToSet(out) \cup {Hit(target)}
  <2> DEFINE T == {Hit(d) : d \in Doc}
  <2>1. out \in Seq(T) /\ Hit(target) \in T
    BY <1>1, <1>4 DEF TypeInv
  <2> HIDE DEF T
  <2>2. out' = Append(out, Hit(target))
    BY <1>3, <1>6
  <2>3. /\ Append(out, Hit(target)) \in Seq(T) /\ Len(Append(out, Hit(target))) = Len(out) + 1
        /\ \A i \in 1 .. Len(out) : Append(out, Hit(target))[i] = out[i]
        /\ Append(out, Hit(target))[Len(out) + 1] = Hit(target)
    BY <2>1, AppendProperties
  <2>4. Len(out) \in Nat /\ DOMAIN out = 1 .. Len(out) /\ DOMAIN out' = 1 .. Len(out) + 1
    BY <2>1, <2>2, <2>3, LenProperties
  <2>5. \A i : i \in 1 .. Len(out) + 1 <=> i \in 1 .. Len(out) \/ i = Len(out) + 1
    BY <2>4
  <2>6. ToSet(out') = ToSet(out) \cup {Hit(target)}
    BY <2>2, <2>3, <2>4, <2>5 DEF ToSet
  <2> QED
    BY <2>2, <2>3, <2>6 DEF T
<1>13. TypeInv'
  <2>1. {Hit(d) : d \in Doc}' = {Hit(d) : d \in Doc} /\ IsRequest(q)'
    BY <1>1, <1>3, <1>8 DEF TypeInv, IsRequest
  <2> QED
    BY <1>1, <1>3, <1>8, <1>12, <2>1 DEF TypeInv
<1>14. OutInv'
  <2>1. Hits(Settled)' = Hits(Settled \cup {target})
    BY <1>3, <1>10, SettledFrame
  <2>2. Hits(Settled \cup {target}) = Append(Hits(Settled), Hit(target))
    BY <1>4, <1>10, <1>11, HitsAppend
  <2>3. Hit(target) \in ToSet(Expected)
    <3>1. Expected = Hits(Common(q.lists))
      BY <1>1 DEF Expected
    <3>2. ToSet(Hits(Common(q.lists))) = {Hit(d) : d \in Common(q.lists)}
      BY HitsProperties, CommonFacts
    <3> QED
      BY <1>7, <3>1, <3>2
  <2> QED
    BY <1>1, <1>3, <1>8, <1>12, <2>1, <2>2, <2>3 DEF OutInv
<1>15. StreamInv' /\ CursorInv' /\ SegmentInv'
  <2>1. StreamInv'
    BY <1>1, <1>3, <1>8, <1>9 DEF StreamInv
  <2>2. CursorInv'
    BY <1>1, <1>3, <1>8, <1>9 DEF CursorInv, CursorTyped
  <2>3. SegmentInv'
    BY <1>1, <1>3 DEF SegmentInv
  <2> QED
    BY <2>1, <2>2, <2>3
<1> QED
  BY <1>3, <1>13, <1>14, <1>15 DEF Inv

\* The driver is exhausted: what is left is the next segment.
LEMMA EndSegmentInv == Inv /\ EndSegment => Inv'
<1> SUFFICES ASSUME Inv, EndSegment PROVE Inv'
  OBVIOUS
<1>1. phase = "driver" /\ stream = <<>> /\ TypeInv /\ SegmentInv /\ StreamInv /\ q.mode # "matches"
  BY DEF EndSegment, Inv, SegmentInv
<1>2. /\ IF OnDisk /\ seg = 1 THEN seg' = 2 /\ phase' = "begin" ELSE phase' = "done" /\ seg' = seg
      /\ q' = q /\ UNCHANGED <<status, order, pos, skip, cur, stream, target, probe, read, out>>
  BY DEF EndSegment
<1>3. (OnDisk' <=> OnDisk) /\ Common(q.lists)' = Common(q.lists)
  BY <1>2, RequestFrame
<1>4. Settled' = Settled
  <2>1. ToSet(stream) = {}
    BY <1>1 DEF ToSet
  <2>2. Left' = Left
    <3>1. CASE OnDisk /\ seg = 1
      BY <1>1, <1>2, <1>3, <2>1, <3>1 DEF Left
    <3>2. CASE ~(OnDisk /\ seg = 1)
      BY <1>1, <1>2, <1>3, <2>1, <3>2 DEF Left
    <3> QED
      BY <3>1, <3>2
  <2> QED
    BY <1>3, <2>2 DEF Settled
<1>5. TypeInv' /\ OutInv'
  <2>1. /\ pos' \in [Clause -> Nat] /\ skip' \in [Clause -> Nat] /\ cur' \in [Clause -> Nat]
        /\ read' \in [Clause -> Nat] /\ target' \in Nat
    BY <1>1, <1>2 DEF TypeInv
  <2>2. /\ seg' \in {1, 2} /\ (seg' = 2 => OnDisk)
        /\ phase' \in {"begin", "driver", "probe", "done"} /\ phase # "done"
    BY <1>1, <1>2 DEF TypeInv
  <2> QED
    BY <1>1, <1>2, <1>4, <2>1, <2>2, QuietStep
<1>6. SegmentInv'
  <2>1. phase' = "begin" => seg' = 2 /\ target' <= SegmentEnd
    BY <1>1, <1>2 DEF StreamInv
  <2> QED
    BY <1>1, <1>2, <2>1 DEF SegmentInv
<1> QED
  BY <1>2, <1>5, <1>6 DEF Inv

\* A clause without postings in the segment: no document of it is common.
LEMMA SkipSegmentInv == Inv /\ SkipSegment => Inv'
<1> SUFFICES ASSUME Inv, SkipSegment PROVE Inv'
  OBVIOUS
<1>1. phase = "begin" /\ OnDisk /\ TypeInv /\ SegmentInv /\ q.mode # "matches"
  BY DEF SkipSegment, Inv, OnDisk
<1>2. /\ IF seg = 1 THEN seg' = 2 /\ phase' = phase ELSE phase' = "done" /\ seg' = seg
      /\ q' = q /\ UNCHANGED <<status, order, pos, skip, cur, stream, target, probe, read, out>>
  BY DEF SkipSegment
<1>3. (OnDisk' <=> OnDisk) /\ Common(q.lists)' = Common(q.lists)
  BY <1>2, RequestFrame
<1>4. Common(q.lists) \cap SegmentDocs(seg) = {}
  <2>1. PICK c \in Clause : docs(c) = <<>>
    BY DEF SkipSegment
  <2>2. ToSet(docs(c)) = {} /\ ToSet(docs(c)) = ToSet(q.lists[c]) \cap SegmentDocs(seg)
    <3>1. ToSet(docs(c)) = {}
      BY <2>1 DEF ToSet
    <3> QED
      BY <1>1, <2>1, <3>1, DocsFacts DEF TypeInv
  <2> QED
    BY <2>2, CommonFacts
<1>5. Settled' = Settled
  <2> SUFFICES ASSUME NEW d \in Common(q.lists) PROVE d \in Left <=> d \in Left'
    BY <1>3 DEF Settled
  <2>1. d \in Doc /\ d \in Nat /\ d \notin SegmentDocs(seg)
    BY <1>4, CommonFacts
  <2>2. CASE seg = 1
    <3>1. d > SegmentEnd
      BY <1>1, <2>1, <2>2, SizeAssumption DEF SegmentDocs
    <3> QED
      BY <1>1, <1>2, <2>1, <2>2, <3>1 DEF Left
  <2>3. CASE seg = 2
    <3>1. ~(d > SegmentEnd)
      BY <1>1, <2>1, <2>3, SizeAssumption DEF SegmentDocs
    <3> QED
      BY <1>1, <1>2, <2>1, <2>3, <3>1 DEF Left
  <2> QED
    BY <1>1, <2>2, <2>3 DEF TypeInv
<1>6. TypeInv' /\ OutInv'
  <2>1. /\ pos' \in [Clause -> Nat] /\ skip' \in [Clause -> Nat] /\ cur' \in [Clause -> Nat]
        /\ read' \in [Clause -> Nat] /\ target' \in Nat
    BY <1>1, <1>2 DEF TypeInv
  <2>2. /\ seg' \in {1, 2} /\ (seg' = 2 => OnDisk)
        /\ phase' \in {"begin", "driver", "probe", "done"} /\ phase # "done"
    BY <1>1, <1>2 DEF TypeInv
  <2> QED
    BY <1>1, <1>2, <1>5, <2>1, <2>2, QuietStep
<1>7. SegmentInv' /\ phase' \in {"begin", "done"}
  <2>1. phase' = "begin" => seg = 1 /\ seg' = 2 /\ target' = target /\ target \in Nat /\ target <= 0
    BY <1>1, <1>2 DEF SegmentInv, TypeInv
  <2>2. phase' = "begin" => target' <= SegmentEnd
    BY <2>1, SizeAssumption
  <2> QED
    BY <1>1, <1>2, <2>1, <2>2 DEF SegmentInv
<1> QED
  BY <1>6, <1>7 DEF Inv

\* A segment begins: nothing is passed yet.
LEMMA BeginSegmentInv == Inv /\ BeginSegment => Inv'
<1> SUFFICES ASSUME Inv, BeginSegment PROVE Inv'
  OBVIOUS
<1> DEFINE o == ByDocFreq
           start == [c \in Clause |-> IF Holds /\ c # o[1]
                       THEN [Advanced(docs(c)[1], 1, 0) EXCEPT !.error = OnDisk /\ Bad(c, 0)]
                       ELSE Advanced(None, 0, 0)]
<1>1. /\ phase = "begin" /\ q.mode # "matches" /\ TypeInv /\ SegmentInv
      /\ \A c \in Clause : docs(c) # <<>>
  BY DEF BeginSegment, Inv
<1>2. IF \E c \in Clause : start[c].error THEN fail
      ELSE /\ order' = o
           /\ pos' = [c \in Clause |-> start[c].pos]
           /\ skip' = [c \in Clause |-> 0]
           /\ cur' = [c \in Clause |-> start[c].doc]
           /\ stream' = IF FirstFollower = 1 THEN Ascending(Common(q.lists)) ELSE docs(o[1])
           /\ probe' = FirstFollower
           /\ phase' = "driver"
           /\ UNCHANGED <<q, status, seg, target, read, out>>
  BY DEF BeginSegment, FirstFollower
<1>3. \A c \in Clause :
         /\ start[c].error => q.bad # {}
         /\ Holds /\ c # o[1] => start[c].pos = 1 /\ start[c].doc = docs(c)[1]
         /\ ~(Holds /\ c # o[1]) => start[c].pos = 0 /\ start[c].doc = None
  <2> SUFFICES ASSUME NEW c \in Clause
               PROVE  /\ start[c].error => q.bad # {}
                      /\ Holds /\ c # o[1] => start[c].pos = 1 /\ start[c].doc = docs(c)[1]
                      /\ ~(Holds /\ c # o[1]) => start[c].pos = 0 /\ start[c].doc = None
    OBVIOUS
  <2>1. CASE Holds /\ c # o[1]
    <3>1. start[c] = [Advanced(docs(c)[1], 1, 0) EXCEPT !.error = OnDisk /\ Bad(c, 0)]
      BY <2>1
    <3>2. Bad(c, 0) => q.bad # {}
      BY DEF Bad
    <3> HIDE DEF start
    <3> QED
      BY <2>1, <3>1, <3>2 DEF Advanced
  <2>2. CASE ~(Holds /\ c # o[1])
    <3>1. start[c] = Advanced(None, 0, 0)
      BY <2>2
    <3> HIDE DEF start
    <3> QED
      BY <2>2, <3>1 DEF Advanced
  <2> QED
    BY <2>1, <2>2
<1>4. \A c \in Clause : /\ docs(c) \in Seq(Int) /\ Len(docs(c)) \in Nat /\ Len(docs(c)) >= 1
                        /\ docs(c)[1] \in Nat \ {0} /\ num_blocks(docs(c)) \in Nat
  <2> SUFFICES ASSUME NEW c \in Clause
               PROVE  /\ docs(c) \in Seq(Int) /\ Len(docs(c)) \in Nat /\ Len(docs(c)) >= 1
                      /\ docs(c)[1] \in Nat \ {0} /\ num_blocks(docs(c)) \in Nat
    OBVIOUS
  <2>1. /\ docs(c) \in Seq(Int) /\ Len(docs(c)) \in Nat
        /\ \A i \in 1 .. Len(docs(c)) : docs(c)[i] \in Nat \ {0}
    BY <1>1, DocsFacts DEF TypeInv
  <2>2. Len(docs(c)) # 0
    BY <1>1, <2>1, EmptySeq
  <2>3. num_blocks(docs(c)) \in Nat
    BY <2>1, BlockCount
  <2> QED
    BY <2>1, <2>2, <2>3
<1>5. /\ o \in Seq(Clause) /\ ToSet(o) = Clause
      /\ \A i, j \in 1 .. Len(o) : o[i] = o[j] => i = j
  BY <1>1, OrderFacts DEF TypeInv
<1> HIDE DEF start, o
<1>6. CASE \E c \in Clause : start[c].error
  BY <1>1, <1>2, <1>3, <1>6, FailInv
<1>7. CASE ~ \E c \in Clause : start[c].error
  <2>1. /\ order' = o /\ pos' = [c \in Clause |-> start[c].pos] /\ skip' = [c \in Clause |-> 0]
        /\ cur' = [c \in Clause |-> start[c].doc]
        /\ stream' = IF FirstFollower = 1 THEN Ascending(Common(q.lists)) ELSE docs(o[1])
        /\ phase' = "driver" /\ q' = q /\ seg' = seg /\ UNCHANGED <<status, target, read, out>>
    BY <1>2, <1>7
  <2>2. /\ Clause' = Clause /\ (OnDisk' <=> OnDisk) /\ Holds' = Holds
        /\ FirstFollower' = FirstFollower /\ Common(q.lists)' = Common(q.lists)
        /\ \A x : docs(x)' = docs(x)
    BY <2>1, RequestFrame, SegmentFrame
  <2>3. FirstFollower \in {1, 2} /\ (OnDisk => FirstFollower = 2) /\ (Holds => FirstFollower = 2)
    BY DEF FirstFollower, Roaring, Holds
  <2>4. Len(o) \in Nat /\ Len(o) # 0 /\ DOMAIN o = 1 .. Len(o) /\ o[1] \in Clause
    <3>1. Clause # {}
      <4>1. q.lists \in Seq(Seq(Doc)) /\ q.lists # <<>>
        BY <1>1 DEF TypeInv, IsRequest
      <4>2. Clause = 1 .. Len(q.lists) /\ Len(q.lists) \in Nat /\ Len(q.lists) # 0
        BY <4>1, LenProperties, EmptySeq DEF Clause
      <4> QED
        BY <4>2
    <3>2. Len(o) \in Nat /\ DOMAIN o = 1 .. Len(o)
      BY <1>5, LenProperties
    <3>3. Len(o) # 0
      BY <1>5, <3>1, <3>2 DEF ToSet
    <3>4. o[1] \in Clause
      BY <1>5, <3>2, <3>3, ElementOfSeq
    <3> QED
      BY <3>2, <3>3, <3>4
  <2> DEFINE D == IF FirstFollower = 1 THEN Common(q.lists) ELSE ToSet(docs(o[1]))
  <2>5. DriverDocs' = D
    <3>1. docs(order[1])' = docs(o[1])
      BY <2>1 DEF docs, segment_docs, SegmentDocs, OnDisk
    <3> QED
      BY <2>1, <2>2, <3>1 DEF DriverDocs
  <2>6. stream' \in Seq(Doc) /\ IsAscending(stream') /\ ToSet(stream') = D
    <3>1. CASE FirstFollower = 1
      BY <2>1, <3>1, AscendingProperties, CommonFacts
    <3>2. CASE FirstFollower # 1
      BY <1>1, <2>1, <2>4, <3>2, DocsFacts DEF TypeInv
    <3> QED
      BY <3>1, <3>2
  <2>7. D \subseteq Doc /\ D \subseteq SegmentDocs(seg) /\ Common(q.lists) \cap SegmentDocs(seg) \subseteq D
    <3>1. CASE FirstFollower = 1
      <4>1. SegmentDocs(seg) = Doc
        BY <2>3, <3>1 DEF SegmentDocs
      <4> QED
        BY <3>1, <4>1, CommonFacts
    <3>2. CASE FirstFollower # 1
      <4>1. D = ToSet(q.lists[o[1]]) \cap SegmentDocs(seg)
        BY <1>1, <2>4, <3>2, DocsFacts DEF TypeInv
      <4>2. SegmentDocs(seg) \subseteq Doc
        BY DEF SegmentDocs
      <4> QED
        BY <2>4, <4>1, <4>2, CommonFacts
    <3> QED
      BY <3>1, <3>2
  <2> HIDE DEF D
  <2>8. \A d \in D : target < d
    <3> SUFFICES ASSUME NEW d \in D PROVE target < d
      OBVIOUS
    <3>1. d \in Nat \ {0} /\ d \in SegmentDocs(seg) /\ target \in Nat
      BY <1>1, <2>7, CommonFacts DEF TypeInv
    <3>2. CASE seg = 1
      BY <1>1, <3>1, <3>2 DEF SegmentInv
    <3>3. CASE seg = 2
      <4>1. OnDisk /\ ~(d <= SegmentEnd) /\ target <= SegmentEnd
        BY <1>1, <3>1, <3>3 DEF SegmentInv, TypeInv, SegmentDocs
      <4> QED
        BY <3>1, <4>1, SizeAssumption
    <3> QED
      BY <1>1, <3>2, <3>3 DEF TypeInv
  <2>9. Settled' = Settled
    <3> SUFFICES ASSUME NEW d \in Common(q.lists) PROVE d \in Left <=> d \in Left'
      BY <2>2 DEF Settled
    <3>1. d \in Doc /\ d \in Nat /\ (d \in SegmentDocs(seg) <=> d \in D)
      BY <2>7, CommonFacts
    <3>2. d \in Left' <=> d \in D \/ (OnDisk /\ seg = 1 /\ d > SegmentEnd)
      BY <2>1, <2>2, <2>6, <3>1 DEF Left
    <3>3. d \in Left <=> (seg = 2 => d > SegmentEnd)
      BY <1>1, <3>1 DEF Left
    <3>4. d \in SegmentDocs(seg) <=> ~OnDisk \/ (seg = 1 <=> d <= SegmentEnd)
      BY <3>1 DEF SegmentDocs
    <3>5. d <= SegmentEnd <=> ~(d > SegmentEnd)
      BY <3>1, SizeAssumption
    <3>6. seg \in {1, 2} /\ (seg = 2 => OnDisk)
      BY <1>1 DEF TypeInv
    <3> QED
      BY <3>1, <3>2, <3>3, <3>4, <3>5, <3>6
  <2>10. TypeInv' /\ OutInv'
    <3>1. pos' \in [Clause -> Nat] /\ skip' \in [Clause -> Nat]
      BY <1>3, <2>1
    <3>2. cur' \in [Clause -> Nat]
      <4>1. \A c \in Clause : start[c].doc \in Nat
        BY <1>3, <1>4 DEF None
      <4> QED
        BY <2>1, <4>1
    <3>3. /\ seg' \in {1, 2} /\ (seg' = 2 => OnDisk) /\ target' \in Nat /\ read' \in [Clause -> Nat]
          /\ phase' \in {"begin", "driver", "probe", "done"} /\ phase # "done"
      BY <1>1, <2>1 DEF TypeInv
    <3> QED
      BY <1>1, <2>1, <2>9, <3>1, <3>2, <3>3, QuietStep
  <2>11. StreamInv'
    <3>1. OnDisk /\ seg = 1 => target <= SegmentEnd
      <4>1. seg = 1 => target <= 0 /\ target \in Nat
        BY <1>1 DEF SegmentInv, TypeInv
      <4> QED
        BY <4>1, SizeAssumption
    <3> QED
      BY <1>5, <2>1, <2>2, <2>5, <2>6, <2>8, <3>1 DEF StreamInv
  <2>12. CursorInv'
    <3>1. ASSUME NEW c \in Clause PROVE CursorTyped(c)'
      <4>1. pos'[c] = start[c].pos /\ skip'[c] = 0 /\ pos'[c] \in {0, 1}
        BY <1>3, <2>1
      <4>2. pos'[c] \in 0 .. Len(docs(c)) /\ skip'[c] \in 0 .. num_blocks(docs(c))
        BY <1>4, <4>1
      <4> QED
        BY <2>2, <4>2 DEF CursorTyped
    <3>2. ASSUME NEW c \in Followers'
          PROVE  Behind(docs(c), Holds, pos'[c], skip'[c], cur'[c], target)
      <4>1. c \in Clause
        BY <2>2, <3>2 DEF Followers
      <4>2. pos'[c] = start[c].pos /\ skip'[c] = 0 /\ cur'[c] = start[c].doc
        BY <2>1, <4>1
      <4>3. BlocksBelow(docs(c), 0, target)
        BY DEF BlocksBelow
      <4>4. Below(docs(c), 0, target)
        BY DEF Below
      <4>5. CASE Holds
        <5>1. c # o[1]
          <6>1. PICK i \in 2 .. Len(o) : o[i] = c
            BY <2>1, <2>2, <2>3, <3>2, <4>5 DEF Followers
          <6> QED
            BY <1>5, <2>4, <6>1
        <5>2. start[c].pos = 1 /\ start[c].doc = docs(c)[1] /\ docs(c)[1] # None
          BY <1>3, <1>4, <4>1, <4>5, <5>1 DEF None
        <5>3. Below(docs(c), 1 - 1, target)
          BY <4>4
        <5> QED
          BY <4>2, <4>3, <4>5, <5>2, <5>3 DEF Behind
      <4>6. CASE ~Holds
        BY <1>3, <4>1, <4>2, <4>3, <4>4, <4>6 DEF Behind
      <4> QED
        BY <4>5, <4>6
    <3> QED
      BY <2>1, <2>2, <3>1, <3>2 DEF CursorInv
  <2>13. SegmentInv'
    BY <1>1, <2>1 DEF SegmentInv
  <2> QED
    BY <2>1, <2>10, <2>11, <2>12, <2>13 DEF Inv
<1> QED
  BY <1>6, <1>7

-----------------------------------------------------------------------------
(* conjunction_of_matches.                                                 *)

\* The documents that match a clause, by its tokens.
Match(cl) ==
    {d \in Doc : IF cl.all THEN \A t \in cl.tokens : d \in ToSet(q.lists[t])
                           ELSE \E t \in cl.tokens : d \in ToSet(q.lists[t])}

\* Tokens nobody has change nothing, or leave no document.
LEMMA MatchFacts ==
    ASSUME NEW cl, cl.tokens # {}
    PROVE  /\ ~Empty(cl) => ClauseDocs(cl) = Match(cl)
           /\ Empty(cl) => Match(cl) = {}
<1>1. \A t \in cl.tokens : t \notin Present(cl) => ToSet(q.lists[t]) = {}
  <2>1. ToSet(<<>>) = {}
    BY DEF ToSet
  <2> QED
    BY <2>1 DEF Present
<1>2. Present(cl) \subseteq cl.tokens
  BY DEF Present
<1>3. ASSUME ~Empty(cl) PROVE ClauseDocs(cl) = Match(cl)
  <2>1. cl.all => Present(cl) = cl.tokens
    BY <1>3 DEF Empty
  <2> QED
    BY <1>1, <1>2, <2>1 DEF ClauseDocs, Match
<1>4. ASSUME Empty(cl) PROVE Match(cl) = {}
  <2>1. CASE Present(cl) = {}
    BY <1>1, <2>1 DEF Match
  <2>2. CASE cl.all /\ Present(cl) # cl.tokens
    BY <1>1, <1>2, <2>2 DEF Match
  <2> QED
    BY <1>4, <2>1, <2>2 DEF Empty
<1> QED
  BY <1>3, <1>4

\* The clauses: the two tokens, then one clause for each other list.
LEMMA ClausesFacts ==
    ASSUME IsRequest(q), q.mode = "matches"
    PROVE  /\ DOMAIN Clauses = 1 .. Len(q.lists) - 1
           /\ Len(q.lists) \in Nat /\ Len(q.lists) >= 2 /\ Clause = 1 .. Len(q.lists)
           /\ Clauses[1] = [all |-> q.all, tokens |-> {1, 2}]
           /\ \A i \in 2 .. Len(q.lists) - 1 : Clauses[i] = [all |-> FALSE, tokens |-> {i + 1}]
<1> DEFINE n == Len(q.lists)
           S == [all : BOOLEAN, tokens : SUBSET Nat]
           a == <<[all |-> q.all, tokens |-> {1, 2}]>>
           b == [i \in 1 .. n - 2 |-> [all |-> FALSE, tokens |-> {i + 2}]]
<1>1. n \in Nat /\ n >= 2 /\ Clause = 1 .. n
  <2>1. q.lists \in Seq(Seq(Doc)) /\ Len(q.lists) >= 2
    BY DEF IsRequest
  <2> QED
    BY <2>1, LenProperties DEF Clause
<1>2. a \in Seq(S) /\ Len(a) = 1 /\ a[1] = [all |-> q.all, tokens |-> {1, 2}]
  <2>1. q.all \in BOOLEAN
    BY DEF IsRequest
  <2>2. [all |-> q.all, tokens |-> {1, 2}] \in S
    BY <2>1
  <2> HIDE DEF S
  <2> QED
    BY <2>2
<1>3. b \in Seq(S) /\ Len(b) = n - 2
      /\ \A i \in 1 .. n - 2 : b[i] = [all |-> FALSE, tokens |-> {i + 2}]
  <2>1. \A i \in 1 .. n - 2 : [all |-> FALSE, tokens |-> {i + 2}] \in S
    BY <1>1
  <2> HIDE DEF S
  <2>2. n - 2 \in Nat
    BY <1>1
  <2> HIDE DEF n
  <2> QED
    BY <2>1, <2>2
<1>4. Clauses = a \o b
  BY DEF Clauses
<1> HIDE DEF a, b, S, n
<1>5. /\ a \o b \in Seq(S) /\ Len(a \o b) = 1 + (n - 2)
      /\ \A i \in 1 .. 1 + (n - 2) : (a \o b)[i] = IF i <= 1 THEN a[i] ELSE b[i - 1]
  <2>0. a \in Seq(S) /\ b \in Seq(S)
    BY <1>2, <1>3
  <2>1. /\ a \o b \in Seq(S) /\ Len(a \o b) = Len(a) + Len(b)
        /\ \A i \in 1 .. Len(a) + Len(b) : (a \o b)[i] = IF i <= Len(a) THEN a[i] ELSE b[i - Len(a)]
    BY <2>0, ConcatProperties
  <2> QED
    BY <1>2, <1>3, <2>1
<1>6. DOMAIN (a \o b) = 1 .. n - 1 /\ 1 + (n - 2) = n - 1 /\ 1 \in 1 .. n - 1
  <2>1. 1 + (n - 2) = n - 1 /\ 1 \in 1 .. n - 1
    BY <1>1
  <2> QED
    BY <1>5, <2>1, LenProperties
<1>7. Clauses[1] = [all |-> q.all, tokens |-> {1, 2}]
  <2>1. (a \o b)[1] = a[1]
    BY <1>5, <1>6
  <2> QED
    BY <1>2, <1>4, <2>1
<1>8. ASSUME NEW i \in 2 .. n - 1 PROVE Clauses[i] = [all |-> FALSE, tokens |-> {i + 1}]
  <2>1. i \in 1 .. n - 1 /\ ~(i <= 1) /\ i - 1 \in 1 .. n - 2 /\ (i - 1) + 2 = i + 1
    BY <1>1
  <2> QED
    BY <1>3, <1>4, <1>5, <1>6, <2>1
<1> QED
  BY <1>1, <1>4, <1>6, <1>7, <1>8 DEF n

\* The estimate of a clause that is not empty is a number.
LEMMA EstimateNat ==
    ASSUME IsRequest(q), NEW cl, cl.tokens \subseteq Clause, ~Empty(cl)
    PROVE  estimate(cl) \in Nat
<1>1. Present(cl) # {} /\ Present(cl) \subseteq Clause
  BY DEF Empty, Present
<1>2. Clause = 1 .. Len(q.lists) /\ Len(q.lists) \in Nat
  <2>1. q.lists \in Seq(Seq(Doc))
    BY DEF IsRequest
  <2> QED
    BY <2>1, LenProperties DEF Clause
<1>3. \A t \in Clause : /\ q.lists[t] \in Seq(Doc) /\ Len(q.lists[t]) \in Nat
                        /\ DOMAIN q.lists[t] = 1 .. Len(q.lists[t]) /\ Len(q.lists[t]) <= NumDocs
  <2> SUFFICES ASSUME NEW t \in Clause
               PROVE  /\ q.lists[t] \in Seq(Doc) /\ Len(q.lists[t]) \in Nat
                      /\ DOMAIN q.lists[t] = 1 .. Len(q.lists[t]) /\ Len(q.lists[t]) <= NumDocs
    OBVIOUS
  <2>1. q.lists \in Seq(Seq(Doc)) /\ IsAscending(q.lists[t])
    BY DEF IsRequest, Clause
  <2>2. q.lists[t] \in Seq(Doc)
    BY <1>2, <2>1, ElementOfSeq
  <2> QED
    BY <2>1, <2>2, LenProperties, AscendingLength, SizeAssumption
<1>4. CASE cl.all
  <2> DEFINE L == {Len(q.lists[t]) : t \in Present(cl)}
  <2>1. L \in SUBSET Nat /\ L # {}
    BY <1>1, <1>3
  <2>2. estimate(cl) = Min(L)
    BY <1>4 DEF estimate
  <2> HIDE DEF L
  <2> QED
    BY <2>1, <2>2, MinNat
<1>5. CASE ~cl.all
  <2> DEFINE U == UNION {{t} \X DOMAIN q.lists[t] : t \in Present(cl)}
             B == (1 .. Len(q.lists)) \X (1 .. NumDocs)
  <2>1. U \subseteq B
    <3> SUFFICES ASSUME NEW t \in Present(cl), NEW i \in DOMAIN q.lists[t] PROVE <<t, i>> \in B
      OBVIOUS
    <3>1. t \in Clause /\ i \in 1 .. Len(q.lists[t]) /\ Len(q.lists[t]) \in Nat /\ Len(q.lists[t]) <= NumDocs
      BY <1>1, <1>3
    <3>2. i \in 1 .. NumDocs
      BY <3>1, SizeAssumption
    <3> QED
      BY <1>2, <3>1, <3>2
  <2>2. IsFiniteSet(B)
    <3>1. IsFiniteSet(1 .. Len(q.lists)) /\ IsFiniteSet(1 .. NumDocs)
      BY <1>2, SizeAssumption, FS_Interval
    <3> QED
      BY <3>1, FS_Product
  <2>3. estimate(cl) = Cardinality(U)
    BY <1>5 DEF estimate
  <2> HIDE DEF U, B
  <2>4. IsFiniteSet(U)
    BY <2>1, <2>2, FS_Subset
  <2> QED
    BY <2>3, <2>4, FS_CardinalityType
<1> QED
  BY <1>4, <1>5

\* The set of the smallest clause, asked against the others, is the set of the
\* documents that match every clause, whichever clause that is.
LEMMA MatchesInv == Inv /\ conjunction_of_matches => Inv'
<1> SUFFICES ASSUME Inv, conjunction_of_matches PROVE Inv'
  OBVIOUS
<1> DEFINE some == DOMAIN Clauses
           least == {i \in some : \A j \in some : estimate(Clauses[i]) <= estimate(Clauses[j])}
           driver == Min(least)
           G == {d \in ClauseDocs(Clauses[driver]) :
                    \A i \in some \ {driver} : d \in ClauseDocs(Clauses[i])}
           n == Len(q.lists)
           M == {d \in Doc : \A i \in some : d \in Match(Clauses[i])}
           X == {d \in IF q.all THEN ToSet(q.lists[1]) \cap ToSet(q.lists[2])
                                ELSE ToSet(q.lists[1]) \cup ToSet(q.lists[2]) :
                    \A c \in Clause \ {1, 2} : d \in ToSet(q.lists[c])}
<1>1. /\ q.mode = "matches" /\ IsRequest(q)
      /\ IF \E i \in some : Empty(Clauses[i]) THEN Finish("ok", <<>>) ELSE Finish("ok", Hits(G))
  BY DEF conjunction_of_matches, Inv, TypeInv
<1>2. Expected = Hits(X)
  BY <1>1 DEF Expected
<1>3. /\ some = 1 .. n - 1 /\ n \in Nat /\ n >= 2 /\ Clause = 1 .. n
      /\ Clauses[1] = [all |-> q.all, tokens |-> {1, 2}]
      /\ \A i \in 2 .. n - 1 : Clauses[i] = [all |-> FALSE, tokens |-> {i + 1}]
  BY <1>1, ClausesFacts
<1> HIDE DEF some, n
<1>4. \A i \in some : Clauses[i].tokens # {} /\ Clauses[i].tokens \subseteq Clause
  <2> SUFFICES ASSUME NEW i \in some PROVE Clauses[i].tokens # {} /\ Clauses[i].tokens \subseteq Clause
    OBVIOUS
  <2>1. CASE i = 1
    <3>1. Clauses[1].tokens = {1, 2}
      BY <1>3
    <3> QED
      BY <1>3, <2>1, <3>1
  <2>2. CASE i # 1
    <3>1. i \in 2 .. n - 1 /\ i + 1 \in 1 .. n
      BY <1>3, <2>2
    <3>a. Clauses[i] = [all |-> FALSE, tokens |-> {i + 1}]
      BY <1>3, <3>1, Zenon
    <3>2. Clauses[i].tokens = {i + 1}
      BY <3>a
    <3> QED
      BY <1>3, <3>1, <3>2
  <2> QED
    BY <2>1, <2>2
<1>5. \A c \in Clause : ToSet(q.lists[c]) \subseteq Doc
  <2> SUFFICES ASSUME NEW c \in Clause PROVE ToSet(q.lists[c]) \subseteq Doc
    OBVIOUS
  <2>1. q.lists \in Seq(Seq(Doc))
    BY <1>1 DEF IsRequest
  <2>2. q.lists[c] \in Seq(Doc)
    <3>1. c \in 1 .. Len(q.lists)
      BY <1>3 DEF n
    <3> QED
      BY <2>1, <3>1, ElementOfSeq
  <2> QED
    BY <2>2, LenProperties DEF ToSet
<1>6. M = X
  <2>0. 1 \in Clause /\ 2 \in Clause /\ 1 \in some
    BY <1>3
  <2>1. Match(Clauses[1]) = IF q.all THEN ToSet(q.lists[1]) \cap ToSet(q.lists[2])
                                     ELSE ToSet(q.lists[1]) \cup ToSet(q.lists[2])
    <3>1. Clauses[1].all = q.all /\ Clauses[1].tokens = {1, 2}
      BY <1>3
    <3>2. ToSet(q.lists[1]) \subseteq Doc /\ ToSet(q.lists[2]) \subseteq Doc
      BY <1>5, <2>0
    <3>3. CASE q.all
      BY <3>1, <3>2, <3>3 DEF Match
    <3>4. CASE ~q.all
      BY <3>1, <3>2, <3>4 DEF Match
    <3> QED
      BY <3>3, <3>4
  <2>2. ASSUME NEW i \in 2 .. n - 1 PROVE Match(Clauses[i]) = ToSet(q.lists[i + 1])
    <3>a. Clauses[i] = [all |-> FALSE, tokens |-> {i + 1}]
      BY <1>3, Zenon
    <3>1. Clauses[i].all = FALSE /\ Clauses[i].tokens = {i + 1}
      BY <3>a
    <3>2. ToSet(q.lists[i + 1]) \subseteq Doc
      <4>1. i + 1 \in Clause
        BY <1>3
      <4> QED
        BY <1>5, <4>1
    <3> QED
      BY <3>1, <3>2 DEF Match
  <2>3. \A i : i \in some <=> i = 1 \/ i \in 2 .. n - 1
    BY <1>3
  <2>4. \A c \in Clause \ {1, 2} : c - 1 \in 2 .. n - 1 /\ (c - 1) + 1 = c
    BY <1>3
  <2>5. \A i \in 2 .. n - 1 : i + 1 \in Clause \ {1, 2}
    BY <1>3
  <2>6. ASSUME NEW d \in M PROVE d \in X
    <3>1. d \in Match(Clauses[1]) /\ \A i \in 2 .. n - 1 : d \in ToSet(q.lists[i + 1])
      BY <2>0, <2>2, <2>3
    <3>2. ASSUME NEW c \in Clause \ {1, 2} PROVE d \in ToSet(q.lists[c])
      <4>1. d \in ToSet(q.lists[(c - 1) + 1])
        BY <2>4, <3>1
      <4> QED
        BY <2>4, <4>1
    <3> QED
      BY <2>1, <3>1, <3>2
  <2>7. ASSUME NEW d \in X PROVE d \in M
    <3>1. d \in Match(Clauses[1])
      BY <2>1
    <3>2. ASSUME NEW i \in 2 .. n - 1 PROVE d \in Match(Clauses[i])
      BY <2>2, <2>5
    <3>3. d \in Doc
      BY <3>1 DEF Match
    <3> QED
      BY <2>3, <3>1, <3>2, <3>3
  <2> QED
    BY <2>6, <2>7
<1>7. X \in SUBSET Doc
  BY <1>6
<1>8. Hits(X) \in Seq({Hit(d) : d \in Doc})
  BY <1>7, HitsProperties
<1> HIDE DEF X
<1>9. CASE \E i \in some : Empty(Clauses[i])
  <2>1. PICK i \in some : Empty(Clauses[i])
    BY <1>9
  <2>2. Match(Clauses[i]) = {}
    BY <1>4, <2>1, MatchFacts
  <2>3. X = {}
    BY <1>6, <2>1, <2>2
  <2>4. Expected = <<>>
    BY <1>2, <2>3, HitsEmpty
  <2>5. Finish("ok", Expected) /\ Expected \in Seq({Hit(d) : d \in Doc})
    BY <1>1, <1>2, <1>8, <1>9, <2>4
  <2> QED
    BY <1>1, <2>5, FinishInv
<1>10. CASE ~ \E i \in some : Empty(Clauses[i])
  <2>1. \A i \in some : ClauseDocs(Clauses[i]) = Match(Clauses[i])
    BY <1>4, <1>10, MatchFacts
  <2>2. driver \in some
    <3> DEFINE V == {estimate(Clauses[i]) : i \in some}
    <3>1. \A i \in some : estimate(Clauses[i]) \in Nat
      BY <1>1, <1>4, <1>10, EstimateNat
    <3>2. V \in SUBSET Nat /\ V # {}
      BY <1>3, <3>1
    <3>3. PICK v \in V : \A w \in V : v <= w
      <4> HIDE DEF V
      <4> QED
        BY <3>2, LeastNat
    <3>4. least # {} /\ least \in SUBSET Nat
      BY <1>3, <3>3
    <3>5. Min(least) \in least
      <4> HIDE DEF least
      <4> QED
        BY <3>4, MinNat
    <3> QED
      BY <3>5
  <2> HIDE DEF driver
  <2>3. \A i \in some : Match(Clauses[i]) \subseteq Doc
    BY DEF Match
  <2>4. G = M
    BY <2>1, <2>2, <2>3
  <2>5. Finish("ok", Expected) /\ Expected \in Seq({Hit(d) : d \in Doc})
    BY <1>1, <1>2, <1>6, <1>8, <1>10, <2>4
  <2> QED
    BY <1>1, <2>5, FinishInv
<1> QED
  BY <1>9, <1>10

-----------------------------------------------------------------------------
(* The theorems.                                                           *)

\* Whatever the request, the walk keeps the invariant.
THEOREM InvHolds == Spec => []Inv
<1>1. Inv /\ [Next]_vars => Inv'
  <2> SUFFICES ASSUME Inv, [Next]_vars PROVE Inv'
    OBVIOUS
  <2>1. CASE UNCHANGED vars
    <3>1. /\ q' = q /\ seg' = seg
          /\ UNCHANGED <<phase, status, order, pos, skip, cur, stream, target, probe, read, out>>
      BY <2>1 DEF vars
    <3>2. /\ Clause' = Clause /\ (OnDisk' <=> OnDisk) /\ Holds' = Holds /\ Expected' = Expected
          /\ FirstFollower' = FirstFollower /\ Common(q.lists)' = Common(q.lists)
          /\ (\A x : docs(x)' = docs(x)) /\ (\A d : Hit(d)' = Hit(d))
      BY <3>1, RequestFrame, SegmentFrame
    <3>3. DriverDocs' = DriverDocs /\ Followers' = Followers /\ Settled' = Settled
      <4>1. docs(order[1])' = docs(order[1])
        BY <3>1 DEF docs, segment_docs, SegmentDocs, OnDisk
      <4>2. Left' = Left
        BY <3>1, <3>2 DEF Left
      <4> QED
        BY <3>1, <3>2, <4>1, <4>2 DEF DriverDocs, Followers, Settled
    <3>4. TypeInv'
      <4>1. {Hit(d) : d \in Doc}' = {Hit(d) : d \in Doc} /\ IsRequest(q)'
        BY <3>1, <3>2 DEF Inv, TypeInv, IsRequest
      <4> QED
        BY <3>1, <3>2, <4>1 DEF Inv, TypeInv
    <3>5. SegmentInv'
      BY <3>1 DEF Inv, SegmentInv
    <3>6. OutInv'
      <4>1. Hits(Settled)' = Hits(Settled)
        BY <3>1, <3>3, SettledFrame
      <4> QED
        BY <3>1, <3>2, <4>1 DEF Inv, OutInv
    <3>7. phase' \in {"driver", "probe"} => StreamInv'
      BY <3>1, <3>2, <3>3 DEF Inv, StreamInv
    <3>8. phase' \in {"driver", "probe"} => CursorInv'
      BY <3>1, <3>2, <3>3 DEF Inv, CursorInv, CursorTyped
    <3>9. phase' = "probe" => ProbeInv'
      BY <3>1, <3>2, <3>3 DEF Inv, ProbeInv
    <3> QED
      BY <3>4, <3>5, <3>6, <3>7, <3>8, <3>9 DEF Inv
  <2>2. CASE Next
    BY <2>2, MissingTermInv, OpenErrorInv, RoaringHitsInv, BeginSegmentInv, SkipSegmentInv,
       NextTargetInv, ProbeInvariant, EmitInv, EndSegmentInv, MatchesInv DEF Next
  <2> QED
    BY <2>1, <2>2
<1> QED
  BY InitInv, <1>1, PTL DEF Spec

\* A walk whose reads succeed finds exactly the documents of every list, in
\* order, each with its own frequencies: for all lists, segments and blocks.
THEOREM ConjunctionExactHolds == Spec => []ConjunctionExact
<1>1. Inv => ConjunctionExact
  <2> SUFFICES ASSUME Inv, phase = "done", q.bad = {}, q.mode # "executor"
               PROVE  status = "ok" /\ out = Expected
    BY DEF ConjunctionExact
  <2>1. status = "ok"
    BY DEF Inv, OutInv
  <2>2. CASE q.mode = "matches"
    BY <2>2 DEF Inv, OutInv
  <2>3. CASE q.mode # "matches"
    <3>1. Left = {} /\ Settled = Common(q.lists)
      BY DEF Left, Settled
    <3>2. Expected = Hits(Common(q.lists))
      BY <2>3 DEF Expected
    <3> QED
      BY <2>1, <2>3, <3>1, <3>2 DEF Inv, OutInv
  <2> QED
    BY <2>1, <2>2, <2>3
<1> QED
  BY InvHolds, <1>1, PTL

\* Whatever cannot be read, the fused walk declines or is exact, and no walk
\* answers with a document that is not in every list.
THEOREM CorruptionContainedHolds == Spec => []CorruptionContained
<1>1. Inv => CorruptionContained
  <2> SUFFICES ASSUME Inv, phase = "done"
               PROVE  /\ q.mode = "fused_disk" => status = "declined" \/ out = Expected
                      /\ ToSet(out) \subseteq ToSet(Expected)
    BY DEF CorruptionContained
  <2>1. ASSUME q.mode = "fused_disk", status # "declined" PROVE out = Expected
    <3>1. status = "ok" /\ out = Hits(Settled)
      BY <2>1 DEF Inv, OutInv
    <3>2. Left = {} /\ Settled = Common(q.lists)
      BY DEF Left, Settled
    <3> QED
      BY <2>1, <3>1, <3>2 DEF Expected
  <2> QED
    BY <2>1 DEF Inv, OutInv
<1> QED
  BY InvHolds, <1>1, PTL
=============================================================================
