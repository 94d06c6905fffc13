----------------------------- MODULE TopKProofs -----------------------------
(***************************************************************************)
(* A document that entered the scores of the MaxScore walk has in the end  *)
(* the contributions of all its tokens: for any postings, any number of    *)
(* tokens and fields, any block size and any window.                       *)
(***************************************************************************)
EXTENDS TopK, SequenceLemmas, FunctionTheorems

-----------------------------------------------------------------------------
(* Sums.  The sum of c[1] .. c[n] counts the pairs of an index and a unit  *)
(* of its number, which shows that the order of the numbers is irrelevant. *)

Units(c, n) == {p \in (1 .. n) \X Nat : 1 <= p[2] /\ p[2] <= c[p[1]]}

\* The units of one more number.
LEMMA UnitsStep ==
    ASSUME NEW N \in Nat, NEW c \in [1 .. N -> Nat], NEW n \in 1 .. N,
           IsFiniteSet(Units(c, n - 1))
    PROVE  /\ IsFiniteSet(Units(c, n))
           /\ Cardinality(Units(c, n)) = Cardinality(Units(c, n - 1)) + c[n]
<1> DEFINE U == Units(c, n - 1)
           V == {n} \X (1 .. c[n])
<1>0. c[n] \in Nat /\ n \in Nat
  OBVIOUS
<1>1. Units(c, n) = U \cup V
  <2>1. \A p : p \in Units(c, n) <=> p \in (1 .. n) \X Nat /\ 1 <= p[2] /\ p[2] <= c[p[1]]
    BY DEF Units
  <2>2. \A p : p \in U <=> p \in (1 .. n - 1) \X Nat /\ 1 <= p[2] /\ p[2] <= c[p[1]]
    BY DEF Units
  <2>3. ASSUME NEW p \in Units(c, n) PROVE p \in U \cup V
    <3>1. p \in (1 .. n) \X Nat /\ 1 <= p[2] /\ p[2] <= c[p[1]]
      BY <2>1
    <3>2. CASE p[1] = n
      BY <1>0, <3>1, <3>2
    <3>3. CASE p[1] # n
      <4>1. p \in (1 .. n - 1) \X Nat
        BY <1>0, <3>1, <3>3
      <4> QED
        BY <2>2, <3>1, <4>1
    <3> QED
      BY <3>2, <3>3
  <2>4. ASSUME NEW p \in U PROVE p \in Units(c, n)
    <3>1. p \in (1 .. n - 1) \X Nat /\ 1 <= p[2] /\ p[2] <= c[p[1]]
      BY <2>2
    <3>2. p \in (1 .. n) \X Nat
      BY <1>0, <3>1
    <3> QED
      BY <2>1, <3>1, <3>2
  <2>5. ASSUME NEW p \in V PROVE p \in Units(c, n)
    <3>1. p \in (1 .. n) \X Nat /\ 1 <= p[2] /\ p[2] <= c[p[1]]
      BY <1>0
    <3> QED
      BY <2>1, <3>1
  <2> QED
    BY <2>3, <2>4, <2>5
<1>2. IsFiniteSet(V) /\ Cardinality(V) = c[n]
  <2>1. IsFiniteSet({n}) /\ Cardinality({n}) = 1
    BY FS_Singleton
  <2>2. IsFiniteSet(1 .. c[n]) /\ Cardinality(1 .. c[n]) = c[n]
    BY <1>0, FS_Interval
  <2>3. IsFiniteSet(V) /\ Cardinality(V) = Cardinality({n}) * Cardinality(1 .. c[n])
    BY <2>1, <2>2, FS_Product
  <2> QED
    BY <1>0, <2>1, <2>2, <2>3
<1>3. U \cap V = {}
  BY <1>0 DEF Units
<1>4. IsFiniteSet(U \cup V) /\ Cardinality(U \cup V) = Cardinality(U) + Cardinality(V) - Cardinality(U \cap V)
  BY <1>2, FS_Union
<1>5. Cardinality(U) \in Nat /\ Cardinality({}) = 0
  BY FS_CardinalityType, FS_EmptySet
<1>6. Cardinality(U \cap V) = 0
  BY <1>3, <1>5
<1>7. Cardinality(U \cup V) = Cardinality(U) + c[n]
  <2> HIDE DEF U, V
  <2> QED
    BY <1>0, <1>2, <1>4, <1>5, <1>6
<1> QED
  BY <1>1, <1>4, <1>7

LEMMA UnitsFinite ==
    ASSUME NEW N \in Nat, NEW c \in [1 .. N -> Nat], NEW n \in 0 .. N
    PROVE  IsFiniteSet(Units(c, n)) /\ Cardinality(Units(c, n)) \in Nat
<1> DEFINE B == {m \in 0 .. N : ~IsFiniteSet(Units(c, m))}
<1>1. B = {}
  <2> SUFFICES ASSUME B # {} PROVE FALSE
    OBVIOUS
  <2>1. PICK m \in B : \A k \in B : m <= k
    <3>1. B \in SUBSET Nat
      OBVIOUS
    <3> HIDE DEF B
    <3> QED
      BY <3>1, LeastNat
  <2>2. CASE m = 0
    <3>1. Units(c, 0) = {}
      BY DEF Units
    <3> QED
      BY <2>1, <2>2, <3>1, FS_EmptySet
  <2>3. CASE m # 0
    <3>1. m \in 1 .. N /\ m - 1 \in 0 .. N /\ ~(m <= m - 1)
      BY <2>1, <2>3
    <3>2. IsFiniteSet(Units(c, m - 1))
      BY <2>1, <3>1
    <3> QED
      BY <2>1, <3>1, <3>2, UnitsStep
  <2> QED
    BY <2>2, <2>3
<1> QED
  BY <1>1, FS_CardinalityType

\* The M numbers b are the N numbers c in the order f, some zeros left out.
Reorders(f, b, M, c, N) ==
    /\ N \in Nat /\ c \in [1 .. N -> Nat]
    /\ M \in Nat /\ b \in [1 .. M -> Nat] /\ f \in [1 .. M -> 1 .. N]
    /\ \A i, j \in 1 .. M : f[i] = f[j] => i = j
    /\ \A i \in 1 .. M : b[i] = c[f[i]]
    /\ \A k \in 1 .. N : c[k] # 0 => \E i \in 1 .. M : f[i] = k

\* This does not change the sum.
LEMMA UnitsReordered ==
    ASSUME NEW f, NEW b, NEW M, NEW c, NEW N, Reorders(f, b, M, c, N)
    PROVE  Cardinality(Units(b, M)) = Cardinality(Units(c, N))
<1>0. /\ N \in Nat /\ c \in [1 .. N -> Nat]
      /\ M \in Nat /\ b \in [1 .. M -> Nat] /\ f \in [1 .. M -> 1 .. N]
      /\ \A i, j \in 1 .. M : f[i] = f[j] => i = j
      /\ \A i \in 1 .. M : b[i] = c[f[i]]
      /\ \A k \in 1 .. N : c[k] # 0 => \E i \in 1 .. M : f[i] = k
  BY DEF Reorders
<1> DEFINE U == Units(b, M)
           V == Units(c, N)
           F == [p \in U |-> <<f[p[1]], p[2]>>]
<1>1. \A p : p \in U <=> p \in (1 .. M) \X Nat /\ 1 <= p[2] /\ p[2] <= b[p[1]]
  BY DEF Units
<1>2. \A p : p \in V <=> p \in (1 .. N) \X Nat /\ 1 <= p[2] /\ p[2] <= c[p[1]]
  BY DEF Units
<1>3. IsFiniteSet(U)
  <2>1. M \in 0 .. M
    BY <1>0
  <2> QED
    BY <1>0, <2>1, UnitsFinite
<1> HIDE DEF U, V
<1>4. F \in [U -> V]
  <2> SUFFICES ASSUME NEW p \in U PROVE <<f[p[1]], p[2]>> \in V
    OBVIOUS
  <2>1. p \in (1 .. M) \X Nat /\ 1 <= p[2] /\ p[2] <= b[p[1]]
    BY <1>1
  <2>2. f[p[1]] \in 1 .. N /\ b[p[1]] = c[f[p[1]]]
    BY <1>0, <2>1
  <2> QED
    BY <1>2, <2>1, <2>2
<1>5. ASSUME NEW p \in U, NEW q \in U, F[p] = F[q] PROVE p = q
  <2>1. p \in (1 .. M) \X Nat /\ q \in (1 .. M) \X Nat
    BY <1>1
  <2>2. f[p[1]] = f[q[1]] /\ p[2] = q[2]
    BY <1>5
  <2>3. p[1] = q[1]
    BY <1>0, <2>1, <2>2
  <2>4. p = <<p[1], p[2]>> /\ q = <<q[1], q[2]>>
    BY <2>1
  <2> QED
    BY <2>2, <2>3, <2>4, Zenon
<1>6. ASSUME NEW q \in V PROVE \E p \in U : F[p] = q
  <2>1. q \in (1 .. N) \X Nat /\ 1 <= q[2] /\ q[2] <= c[q[1]]
    BY <1>2
  <2>2. PICK i \in 1 .. M : f[i] = q[1]
    <3>1. q[1] \in 1 .. N /\ c[q[1]] \in Nat /\ c[q[1]] # 0
      BY <1>0, <2>1
    <3> QED
      BY <1>0, <3>1
  <2>3. <<i, q[2]>> \in U
    <3>1. b[i] = c[q[1]]
      BY <1>0, <2>2
    <3> QED
      BY <1>1, <2>1, <2>2, <3>1
  <2>4. F[<<i, q[2]>>] = q
    BY <2>1, <2>2, <2>3
  <2> QED
    BY <2>3, <2>4
<1> HIDE DEF F
<1>7. F \in Bijection(U, V)
  BY <1>4, <1>5, <1>6, Fun_IsBij
<1>8. ExistsBijection(U, V)
  BY <1>7, Fun_ExistsBij
<1> QED
  BY <1>3, <1>8, FS_Bijection DEF U, V

-----------------------------------------------------------------------------
(* Contributions and the score of a field.                                 *)

\* What is known of a token.
LEMMA TokenFacts ==
    ASSUME NEW t \in ScorableToken
    PROVE  /\ t.docs \in Seq(Doc) /\ t.freq \in [Doc -> Nat] /\ t.boost \in Nat \ {0}
           /\ DocFreq(t) \in Nat /\ DocFreq(t) = Len(t.docs) /\ DOMAIN t.docs = 1 .. DocFreq(t)
           /\ \A i \in 1 .. DocFreq(t) : t.docs[i] \in Doc /\ t.freq[t.docs[i]] > 0
           /\ \A i, j \in 1 .. DocFreq(t) : i < j => t.docs[i] < t.docs[j]
           /\ \A i, j \in 1 .. DocFreq(t) : t.docs[i] = t.docs[j] => i = j
           /\ \A d \in Doc : t.freq[d] > 0 => \E i \in 1 .. DocFreq(t) : t.docs[i] = d
<1>1. /\ t.docs \in Seq(Doc) /\ t.freq \in [Doc -> Nat] /\ t.boost \in Nat \ {0}
      /\ \A i, j \in DOMAIN t.docs : i < j => t.docs[i] < t.docs[j]
      /\ ToSet(t.docs) = {d \in Doc : t.freq[d] > 0}
  BY DEF ScorableToken
<1>2. DocFreq(t) \in Nat /\ DocFreq(t) = Len(t.docs) /\ DOMAIN t.docs = 1 .. DocFreq(t)
  BY <1>1, LenProperties DEF DocFreq
<1>3. \A i \in 1 .. DocFreq(t) : t.docs[i] \in Doc /\ t.docs[i] \in Int
  BY <1>1, <1>2, ElementOfSeq, SizeAssumption DEF Doc
<1>4. \A d : d \in ToSet(t.docs) <=> \E i \in 1 .. DocFreq(t) : t.docs[i] = d
  BY <1>2 DEF ToSet
<1>5. ASSUME NEW i \in 1 .. DocFreq(t) PROVE t.freq[t.docs[i]] > 0
  BY <1>1, <1>4
<1>6. ASSUME NEW i \in 1 .. DocFreq(t), NEW j \in 1 .. DocFreq(t), t.docs[i] = t.docs[j] PROVE i = j
  <2>1. i \in Int /\ j \in Int
    BY <1>2
  <2>2. ~(t.docs[i] < t.docs[j]) /\ ~(t.docs[j] < t.docs[i])
    BY <1>3, <1>6
  <2>3. ~(i < j) /\ ~(j < i)
    BY <1>1, <1>2, <2>2
  <2> QED
    BY <2>1, <2>3
<1> QED
  BY <1>1, <1>2, <1>3, <1>4, <1>5, <1>6

\* A token has no more postings than there are documents.
LEMMA DocFreqBound ==
    ASSUME NEW t \in ScorableToken
    PROVE  DocFreq(t) <= NumDocs
<1> DEFINE n == DocFreq(t)
           f == [i \in 1 .. n |-> t.docs[i]]
<1>1. n \in Nat /\ NumDocs \in Nat
  BY TokenFacts, SizeAssumption
<1>2. f \in [1 .. n -> Doc]
  BY TokenFacts
<1>3. \A i, j \in 1 .. n : f[i] = f[j] => i = j
  BY TokenFacts
<1>4. IsFiniteSet(Doc) /\ Cardinality(Doc) = NumDocs /\ Cardinality(1 .. n) = n
  BY <1>1, FS_Interval DEF Doc
<1> HIDE DEF f, n
<1>5. f \in Injection(1 .. n, Doc)
  BY <1>2, <1>3, Fun_IsInj
<1>6. Cardinality(1 .. n) <= Cardinality(Doc)
  BY <1>4, <1>5, FS_Injection
<1> QED
  BY <1>4, <1>6 DEF n

\* A contribution is a number; no token contributes to a document it is not in.
LEMMA ContributionType ==
    ASSUME NEW t \in ScorableToken, NEW d \in Doc, IsRequest(req)
    PROVE  /\ Contribution(t, d) \in Nat
           /\ t.freq[d] > 0 => Contribution(t, d) = score_doc(t, d)
           /\ Contribution(t, d) # 0 => t.freq[d] > 0
<1> DEFINE len == IF req.norms THEN req.doc_len[d] ELSE 1
           a == NumDocs + 1 - DocFreq(t)
           b == 3 * t.freq[d] + 4 - len
<1>1. len \in 0 .. 6
  BY DEF IsRequest
<1>2. t.freq[d] \in Nat /\ t.boost \in Nat
  BY TokenFacts
<1>3. a \in Nat
  BY TokenFacts, DocFreqBound, SizeAssumption
<1>4. ASSUME t.freq[d] > 0 PROVE b \in Nat
  BY <1>1, <1>2, <1>4
<1>5. score_doc(t, d) = IF len > 0 THEN a * b * t.boost ELSE 0
  BY DEF score_doc, score
<1> HIDE DEF a, b, len
<1>6. ASSUME t.freq[d] > 0 PROVE score_doc(t, d) \in Nat
  <2>1. a * b * t.boost \in Nat
    BY <1>2, <1>3, <1>4, <1>6
  <2> QED
    BY <1>5, <2>1
<1> QED
  BY <1>2, <1>6 DEF Contribution

Contributions(ts, d) == [i \in 1 .. Len(ts) |-> Contribution(ts[i], d)]

LEMMA ContributionsType ==
    ASSUME NEW ts \in Seq(ScorableToken), NEW d \in Doc, IsRequest(req)
    PROVE  Len(ts) \in Nat /\ Contributions(ts, d) \in [1 .. Len(ts) -> Nat]
<1>1. Len(ts) \in Nat /\ \A i \in 1 .. Len(ts) : ts[i] \in ScorableToken
  BY LenProperties, ElementOfSeq
<1> QED
  BY <1>1, ContributionType DEF Contributions

\* The score of a field counts the units of its contributions.
LEMMA FieldScoreUnits ==
    ASSUME NEW ts \in Seq(ScorableToken), NEW d \in Doc, IsRequest(req)
    PROVE  /\ FieldScore(ts, d) = Cardinality(Units(Contributions(ts, d), Len(ts)))
           /\ FieldScore(ts, d) \in Nat
<1> DEFINE c == Contributions(ts, d)
           N == Len(ts)
           Eq(f) == f = [n \in 0 .. N |-> IF n = 0 THEN 0 ELSE f[n - 1] + Contribution(ts[n], d)]
           g == [n \in 0 .. N |-> Cardinality(Units(c, n))]
           F == CHOOSE f : Eq(f)
<1>1. N \in Nat /\ c \in [1 .. N -> Nat]
  BY ContributionsType
<1>2. \A n \in 1 .. N : c[n] = Contribution(ts[n], d)
  BY DEF Contributions
<1>3. FieldScore(ts, d) = F[N]
  BY DEF FieldScore
<1> HIDE DEF c, N
<1>4. Units(c, 0) = {}
  BY DEF Units
<1>5. g[0] = 0 /\ \A n \in 0 .. N : g[n] \in Nat
  BY <1>1, <1>4, FS_EmptySet, UnitsFinite
<1>6. \A n \in 1 .. N : g[n] = g[n - 1] + Contribution(ts[n], d)
  <2> SUFFICES ASSUME NEW n \in 1 .. N PROVE g[n] = g[n - 1] + Contribution(ts[n], d)
    OBVIOUS
  <2>1. n - 1 \in 0 .. N /\ n \in 0 .. N
    BY <1>1
  <2>2. Cardinality(Units(c, n)) = Cardinality(Units(c, n - 1)) + c[n]
    BY <1>1, <2>1, UnitsFinite, UnitsStep
  <2> QED
    BY <1>2, <2>1, <2>2
<1>7. \E f : Eq(f)
  <2>1. Eq(g)
    <3> DEFINE h == [n \in 0 .. N |-> IF n = 0 THEN 0 ELSE g[n - 1] + Contribution(ts[n], d)]
    <3>1. ASSUME NEW n \in 0 .. N PROVE g[n] = h[n]
      <4>1. CASE n = 0
        BY <1>5, <4>1
      <4>2. CASE n # 0
        <5>1. n \in 1 .. N
          BY <1>1, <4>2
        <5>2. g[n] = g[n - 1] + Contribution(ts[n], d)
          BY <1>6, <5>1
        <5> QED
          BY <4>2, <5>2
      <4> QED
        BY <4>1, <4>2
    <3>2. DOMAIN g = 0 .. N /\ DOMAIN h = 0 .. N /\ g = [n \in 0 .. N |-> g[n]] /\ h = [n \in 0 .. N |-> h[n]]
      OBVIOUS
    <3> QED
      BY <3>1, <3>2
  <2> HIDE DEF g
  <2> QED
    BY <2>1
<1>8. Eq(F)
  <2> HIDE DEF Eq
  <2> QED
    BY <1>7
<1> HIDE DEF F
<1>9. \A n \in 0 .. N : F[n] = IF n = 0 THEN 0 ELSE F[n - 1] + Contribution(ts[n], d)
  BY <1>8
<1> HIDE DEF g, Eq
<1> DEFINE B == {n \in 0 .. N : F[n] # g[n]}
<1>10. B = {}
  <2> SUFFICES ASSUME B # {} PROVE FALSE
    OBVIOUS
  <2>1. PICK m \in B : \A k \in B : m <= k
    <3>1. B \in SUBSET Nat
      BY <1>1
    <3> HIDE DEF B
    <3> QED
      BY <3>1, LeastNat
  <2>2. m # 0
    BY <1>5, <1>9, <2>1
  <2>3. m \in 1 .. N /\ m - 1 \in 0 .. N /\ ~(m <= m - 1)
    BY <1>1, <2>1, <2>2
  <2>4. F[m - 1] = g[m - 1]
    BY <2>1, <2>3
  <2> QED
    BY <1>6, <1>9, <2>1, <2>2, <2>3, <2>4
<1>11. F[N] = g[N] /\ N \in 0 .. N
  BY <1>1, <1>10
<1>12. g[N] = Cardinality(Units(c, N))
  BY <1>11 DEF g
<1> QED
  BY <1>3, <1>5, <1>11, <1>12 DEF c, N

\* The score of a field is what its first token adds to that of the others.
LEMMA FieldScoreHead ==
    ASSUME NEW ts \in Seq(ScorableToken), ts # <<>>, NEW d \in Doc, IsRequest(req)
    PROVE  FieldScore(ts, d) = Contribution(Head(ts), d) + FieldScore(Tail(ts), d)
<1> DEFINE c == Contributions(ts, d)
           r == Contributions(Tail(ts), d)
           N == Len(ts)
           e == [i \in 1 .. N |-> IF i = N THEN c[1] ELSE c[i + 1]]
           f == [i \in 1 .. N |-> IF i = N THEN 1 ELSE i + 1]
<1>1. /\ Tail(ts) \in Seq(ScorableToken) /\ Len(Tail(ts)) = N - 1 /\ Head(ts) = ts[1]
      /\ N \in Nat /\ N >= 1 /\ \A i \in 1 .. N - 1 : Tail(ts)[i] = ts[i + 1]
  <2>1. N \in Nat /\ N # 0
    BY LenProperties, EmptySeq
  <2>2. /\ Tail(ts) \in Seq(ScorableToken) /\ Len(Tail(ts)) = N - 1 /\ Head(ts) = ts[1]
        /\ \A i \in 1 .. Len(Tail(ts)) : Tail(ts)[i] = ts[i + 1]
    BY HeadTailProperties
  <2> QED
    BY <2>1, <2>2
<1>2. /\ c \in [1 .. N -> Nat] /\ r \in [1 .. N - 1 -> Nat]
      /\ (\A i \in 1 .. N : c[i] = Contribution(ts[i], d))
      /\ (\A i \in 1 .. N - 1 : r[i] = Contribution(Tail(ts)[i], d))
  <2>1. c \in [1 .. N -> Nat] /\ r \in [1 .. N - 1 -> Nat]
    BY <1>1, ContributionsType
  <2> QED
    BY <1>1, <2>1 DEF Contributions
<1>3. /\ FieldScore(ts, d) = Cardinality(Units(c, N))
      /\ FieldScore(Tail(ts), d) = Cardinality(Units(r, N - 1))
      /\ FieldScore(Tail(ts), d) \in Nat
  BY <1>1, FieldScoreUnits
<1> HIDE DEF c, r, N
<1>4. e \in [1 .. N -> Nat] /\ f \in [1 .. N -> 1 .. N]
  BY <1>1, <1>2
<1>5. \A i, j \in 1 .. N : f[i] = f[j] => i = j
  BY <1>1
<1>6. \A i \in 1 .. N : e[i] = c[f[i]]
  BY <1>1
<1>7. ASSUME NEW k \in 1 .. N PROVE \E i \in 1 .. N : f[i] = k
  <2>1. CASE k = 1
    <3>1. N \in 1 .. N /\ f[N] = 1
      BY <1>1
    <3> QED
      BY <2>1, <3>1
  <2>2. CASE k # 1
    <3>1. k - 1 \in 1 .. N /\ f[k - 1] = k
      BY <1>1, <2>2
    <3> QED
      BY <3>1
  <2> QED
    BY <2>1, <2>2
<1>8. e[N] = Contribution(Head(ts), d) /\ N \in 1 .. N
  BY <1>1, <1>2
<1>9. Units(e, N - 1) = Units(r, N - 1)
  <2>1. \A i \in 1 .. N - 1 : e[i] = r[i]
    <3> SUFFICES ASSUME NEW i \in 1 .. N - 1 PROVE e[i] = r[i]
      OBVIOUS
    <3>1. i \in 1 .. N /\ i # N /\ i + 1 \in 1 .. N
      BY <1>1
    <3>2. e[i] = c[i + 1]
      BY <3>1
    <3> QED
      BY <1>1, <1>2, <3>1, <3>2
  <2> HIDE DEF e
  <2>2. \A p \in (1 .. N - 1) \X Nat : e[p[1]] = r[p[1]]
    BY <2>1
  <2> QED
    BY <2>2 DEF Units
<1> HIDE DEF e, f
<1>10. Cardinality(Units(e, N)) = Cardinality(Units(c, N))
  <2>1. \A k \in 1 .. N : c[k] # 0 => \E i \in 1 .. N : f[i] = k
    BY <1>7
  <2>2. N \in Nat
    BY <1>1
  <2>3. c \in [1 .. N -> Nat]
    BY <1>2
  <2>4. Reorders(f, e, N, c, N)
    BY <1>4, <1>5, <1>6, <2>1, <2>2, <2>3 DEF Reorders
  <2> QED
    BY <2>4, UnitsReordered
<1>11. Cardinality(Units(e, N)) = Cardinality(Units(e, N - 1)) + e[N]
  <2>1. N - 1 \in 0 .. N
    BY <1>1
  <2>2. IsFiniteSet(Units(e, N - 1))
    BY <1>1, <1>4, <2>1, UnitsFinite
  <2> QED
    BY <1>1, <1>4, <1>8, <2>2, UnitsStep
<1>12. FieldScore(ts, d) = FieldScore(Tail(ts), d) + Contribution(Head(ts), d)
  BY <1>3, <1>8, <1>9, <1>10, <1>11
<1>13. Contribution(Head(ts), d) \in Nat
  BY <1>1, <1>4, <1>8
<1> QED
  BY <1>3, <1>12, <1>13

-----------------------------------------------------------------------------
(* The order of the tokens.                                                *)

\* Finitely many numbers have an upper bound.
LEMMA BoundedImage ==
    ASSUME NEW n \in Nat, NEW g \in [1 .. n -> Nat]
    PROVE  \E u \in Nat : \A i \in 1 .. n : g[i] <= u
<1> DEFINE B == {m \in 0 .. n : ~ \E u \in Nat : \A i \in 1 .. m : g[i] <= u}
<1>1. B = {}
  <2> SUFFICES ASSUME B # {} PROVE FALSE
    OBVIOUS
  <2>1. PICK m \in B : \A k \in B : m <= k
    <3>1. B \in SUBSET Nat
      OBVIOUS
    <3> HIDE DEF B
    <3> QED
      BY <3>1, LeastNat
  <2>2. m # 0
    BY <2>1
  <2>3. m - 1 \in 0 .. n /\ ~(m <= m - 1) /\ m \in 1 .. n
    BY <2>1, <2>2
  <2>4. PICK u \in Nat : \A i \in 1 .. m - 1 : g[i] <= u
    BY <2>1, <2>3
  <2>a. m \in B
    OBVIOUS
  <2> HIDE DEF B
  <2>5. g[m] \in Nat /\ u + g[m] \in Nat
    BY <2>3
  <2>6. ASSUME NEW i \in 1 .. m PROVE g[i] <= u + g[m]
    <3>1. i \in 1 .. n
      BY <2>3
    <3>2. g[i] \in Nat
      BY <3>1
    <3>3. i = m \/ i \in 1 .. m - 1
      BY <2>3
    <3>4. g[i] <= u \/ g[i] = g[m]
      BY <2>4, <3>3
    <3> QED
      BY <2>5, <3>2, <3>4
  <2> QED
    BY <2>a, <2>5, <2>6 DEF B
<1>2. n \in 0 .. n /\ n \notin B
  <2> HIDE DEF B
  <2> QED
    BY <1>1
<1> QED
  BY <1>2

\* The bound of a token that has postings is a number.
LEMMA MaxContribType ==
    ASSUME NEW t \in ScorableToken, DocFreq(t) > 0, IsRequest(req)
    PROVE  max_contrib(t) \in Int
<1> DEFINE n == DocFreq(t)
           g == [i \in 1 .. n |-> t.freq[t.docs[i]]]
           S == {t.freq[t.docs[i]] : i \in DOMAIN t.docs}
<1>1. n \in Nat /\ DOMAIN t.docs = 1 .. n
  BY TokenFacts
<1>2. g \in [1 .. n -> Nat]
  BY TokenFacts
<1>3. PICK u \in Nat : \A i \in 1 .. n : g[i] <= u
  <2> HIDE DEF g
  <2> QED
    BY <1>1, <1>2, BoundedImage
<1>4. S \in SUBSET Nat /\ S # {} /\ \A x \in S : x <= u
  <2>1. 1 \in 1 .. n
    BY <1>1
  <2> QED
    BY <1>1, <1>2, <1>3, <2>1
<1> HIDE DEF S
<1>5. Max(S) \in Nat
  BY <1>4, MaxNat
<1>6. MinDocLen \in Nat
  BY DEF MinDocLen, IsRequest
<1>7. t.boost \in Int /\ NumDocs + 1 - n \in Int /\ 3 * Max(S) + 4 - MinDocLen \in Int
  BY <1>1, <1>5, <1>6, TokenFacts, SizeAssumption
<1>8. max_contrib(t) = (NumDocs + 1 - n) * (3 * Max(S) + 4 - MinDocLen) * t.boost
  BY DEF max_contrib, score, S
<1> HIDE DEF n
<1>9. \A a, b, c \in Int : a * b * c \in Int
  OBVIOUS
<1> QED
  BY <1>7, <1>8, <1>9

\* Earlier in the order means of smaller rank.
LEMMA RankMonotone ==
    ASSUME NEW ts \in Seq(ScorableToken), IsRequest(req),
           NEW i \in NonEmpty(ts), NEW j \in NonEmpty(ts), Before(ts, i, j)
    PROVE  Rank(ts, i) < Rank(ts, j)
<1> DEFINE S == NonEmpty(ts)
           A == {x \in S : Before(ts, x, i)}
           B == {x \in S : Before(ts, x, j)}
<1>1. IsFiniteSet(S) /\ S \subseteq 1 .. Len(ts) /\ Len(ts) \in Nat
  <2>1. Len(ts) \in Nat /\ S \subseteq 1 .. Len(ts)
    BY LenProperties DEF NonEmpty
  <2>2. IsFiniteSet(1 .. Len(ts))
    BY <2>1, FS_Interval
  <2> QED
    BY <2>1, <2>2, FS_Subset
<1>2. \A x \in S : max_contrib(ts[x]) \in Int /\ x \in Int
  <2> SUFFICES ASSUME NEW x \in S PROVE max_contrib(ts[x]) \in Int /\ x \in Int
    OBVIOUS
  <2>1. x \in 1 .. Len(ts) /\ DocFreq(ts[x]) > 0
    BY <1>1 DEF NonEmpty
  <2>2. ts[x] \in ScorableToken
    BY <2>1, ElementOfSeq
  <2> QED
    BY <1>1, <2>1, <2>2, MaxContribType
<1>3. i \in B /\ i \notin A
  BY <1>2 DEF Before
<1>4. A \subseteq B
  BY <1>2 DEF Before
<1>5. IsFiniteSet(B) /\ Cardinality(B) \in Nat
  BY <1>1, FS_Subset, FS_CardinalityType
<1>6. Cardinality(A) \in Nat
  BY <1>4, <1>5, FS_Subset, FS_CardinalityType
<1>7. A # B /\ A \in SUBSET B
  BY <1>3, <1>4
<1>8. Rank(ts, i) = Cardinality(A) /\ Rank(ts, j) = Cardinality(B)
  BY DEF Rank
<1> HIDE DEF A, B
<1>9. Cardinality(A) <= Cardinality(B) /\ Cardinality(A) # Cardinality(B)
  BY <1>5, <1>7, FS_Subset
<1> QED
  BY <1>5, <1>6, <1>8, <1>9

\* The tokens with postings, each once, in descending order of their bounds.
LEMMA OrderedFacts ==
    ASSUME NEW ts \in Seq(ScorableToken), IsRequest(req)
    PROVE  LET n == Cardinality(NonEmpty(ts))
               o == Ordered(ts)
           IN  /\ n \in Nat /\ o \in Seq(ScorableToken) /\ Len(o) = n
               /\ \A k \in 1 .. n : o[k].docs # <<>>
               /\ \A k, l \in 1 .. n : k < l => max_contrib(o[k]) >= max_contrib(o[l])
               /\ \E f \in [1 .. n -> 1 .. Len(ts)] :
                     /\ \A k \in 1 .. n : o[k] = ts[f[k]]
                     /\ \A k, l \in 1 .. n : f[k] = f[l] => k = l
                     /\ \A i \in NonEmpty(ts) : \E k \in 1 .. n : f[k] = i
<1> DEFINE S == NonEmpty(ts)
           n == Cardinality(S)
           o == Ordered(ts)
           r == [i \in S |-> Rank(ts, i)]
           f == [k \in 1 .. n |-> CHOOSE i \in S : Rank(ts, i) = k - 1]
<1>1. IsFiniteSet(S) /\ S \subseteq 1 .. Len(ts) /\ Len(ts) \in Nat /\ n \in Nat
  <2>1. Len(ts) \in Nat /\ S \subseteq 1 .. Len(ts)
    BY LenProperties DEF NonEmpty
  <2>2. IsFiniteSet(S)
    <3>1. IsFiniteSet(1 .. Len(ts))
      BY <2>1, FS_Interval
    <3> QED
      BY <2>1, <3>1, FS_Subset
  <2> QED
    BY <2>1, <2>2, FS_CardinalityType
<1>2. \A x \in S : ts[x] \in ScorableToken /\ DocFreq(ts[x]) > 0 /\ max_contrib(ts[x]) \in Int /\ x \in Int
  <2> SUFFICES ASSUME NEW x \in S
               PROVE  ts[x] \in ScorableToken /\ DocFreq(ts[x]) > 0 /\ max_contrib(ts[x]) \in Int /\ x \in Int
    OBVIOUS
  <2>1. x \in 1 .. Len(ts) /\ DocFreq(ts[x]) > 0
    BY <1>1 DEF NonEmpty
  <2>2. ts[x] \in ScorableToken
    BY <2>1, ElementOfSeq
  <2> QED
    BY <1>1, <2>1, <2>2, MaxContribType
<1>3. \A i \in S : Rank(ts, i) \in 0 .. n - 1
  <2> SUFFICES ASSUME NEW i \in S PROVE Rank(ts, i) \in 0 .. n - 1
    OBVIOUS
  <2> DEFINE A == {x \in S : Before(ts, x, i)}
  <2>1. i \notin A
    BY <1>2 DEF Before
  <2>2. A \in SUBSET S /\ A # S /\ Rank(ts, i) = Cardinality(A)
    BY <2>1 DEF Rank
  <2> HIDE DEF A
  <2>3. Cardinality(A) <= n /\ Cardinality(A) # n /\ Cardinality(A) \in Nat
    BY <1>1, <2>2, FS_Subset, FS_CardinalityType
  <2> QED
    BY <1>1, <2>2, <2>3
<1>4. \A i, j \in S : Before(ts, i, j) \/ Before(ts, j, i) \/ i = j
  BY <1>2 DEF Before
<1>5. \A i, j \in S : Rank(ts, i) = Rank(ts, j) => i = j
  <2> SUFFICES ASSUME NEW i \in S, NEW j \in S, Rank(ts, i) = Rank(ts, j) PROVE i = j
    OBVIOUS
  <2>1. ~(Rank(ts, i) < Rank(ts, j)) /\ ~(Rank(ts, j) < Rank(ts, i))
    BY <1>1, <1>3
  <2> QED
    BY <1>4, <2>1, RankMonotone
<1> HIDE DEF S, n
<1>6. \A k \in 1 .. n : \E i \in S : Rank(ts, i) = k - 1
  <2>1. r \in [S -> 0 .. n - 1]
    BY <1>3
  <2>2. \A i, j \in S : r[i] = r[j] => i = j
    BY <1>5
  <2>3. IsFiniteSet(0 .. n - 1) /\ Cardinality(0 .. n - 1) = n
    <3>1. 0 \in Int /\ n - 1 \in Int /\ n \in Nat
      BY <1>1
    <3>2. IsFiniteSet(0 .. n - 1) /\ Cardinality(0 .. n - 1) = IF 0 > n - 1 THEN 0 ELSE n - 1 - 0 + 1
      BY <3>1, FS_Interval
    <3> QED
      BY <3>1, <3>2
  <2>4. \A x \in 0 .. n - 1 : \E i \in S : r[i] = x
    <3> HIDE DEF r
    <3>1. r \in Injection(S, 0 .. n - 1)
      BY <2>1, <2>2, Fun_IsInj
    <3>2. r \in Surjection(S, 0 .. n - 1)
      BY <2>3, <3>1, FS_Injection DEF n
    <3> QED
      BY <3>2 DEF Surjection
  <2>5. \A k \in 1 .. n : k - 1 \in 0 .. n - 1
    BY <1>1
  <2> QED
    BY <2>4, <2>5
<1>7. \A k \in 1 .. n : f[k] \in S /\ Rank(ts, f[k]) = k - 1
  BY <1>6
<1>8. o = [k \in 1 .. n |-> ts[f[k]]]
  BY DEF Ordered, S, n
<1> HIDE DEF f
<1>9. f \in [1 .. n -> 1 .. Len(ts)]
  <2>1. \A k \in 1 .. n : f[k] \in 1 .. Len(ts)
    BY <1>1, <1>7
  <2>2. f = [k \in 1 .. n |-> f[k]]
    BY DEF f
  <2> QED
    BY <2>1, <2>2
<1>10. \A k, l \in 1 .. n : f[k] = f[l] => k = l
  <2> SUFFICES ASSUME NEW k \in 1 .. n, NEW l \in 1 .. n, f[k] = f[l] PROVE k = l
    OBVIOUS
  <2>1. k - 1 = l - 1
    BY <1>7
  <2> QED
    BY <1>1, <2>1
<1>11. \A i \in S : \E k \in 1 .. n : f[k] = i
  <2> SUFFICES ASSUME NEW i \in S PROVE \E k \in 1 .. n : f[k] = i
    OBVIOUS
  <2>1. Rank(ts, i) + 1 \in 1 .. n /\ (Rank(ts, i) + 1) - 1 = Rank(ts, i)
    BY <1>1, <1>3
  <2>2. f[Rank(ts, i) + 1] = i
    BY <1>5, <1>7, <2>1
  <2> QED
    BY <2>1, <2>2
<1>12. \A k, l \in 1 .. n : k < l => max_contrib(o[k]) >= max_contrib(o[l])
  <2> SUFFICES ASSUME NEW k \in 1 .. n, NEW l \in 1 .. n, k < l
               PROVE  max_contrib(ts[f[k]]) >= max_contrib(ts[f[l]])
    BY <1>8
  <2>1. f[k] \in S /\ f[l] \in S /\ Rank(ts, f[k]) = k - 1 /\ Rank(ts, f[l]) = l - 1
    BY <1>7
  <2>2. ~(Rank(ts, f[l]) < Rank(ts, f[k]))
    BY <1>1, <2>1
  <2>3. ~Before(ts, f[l], f[k])
    BY <2>1, <2>2, RankMonotone DEF S
  <2> QED
    BY <1>2, <2>1, <2>3 DEF Before
<1>13. o \in Seq(ScorableToken) /\ Len(o) = n
  <2>1. \A k \in 1 .. n : ts[f[k]] \in ScorableToken
    BY <1>2, <1>7
  <2> QED
    BY <1>1, <1>8, <2>1, SeqDef
<1>14. \A k \in 1 .. n : o[k].docs # <<>>
  <2> SUFFICES ASSUME NEW k \in 1 .. n PROVE ts[f[k]].docs # <<>>
    BY <1>8
  <2>1. ts[f[k]] \in ScorableToken /\ DocFreq(ts[f[k]]) > 0
    BY <1>2, <1>7
  <2> QED
    BY <2>1 DEF DocFreq
<1> QED
  BY <1>1, <1>8, <1>9, <1>10, <1>11, <1>12, <1>13, <1>14 DEF S, n

\* The order of the tokens does not change the score of a field.
LEMMA FieldScoreOrdered ==
    ASSUME NEW ts \in Seq(ScorableToken), NEW d \in Doc, IsRequest(req)
    PROVE  FieldScore(Ordered(ts), d) = FieldScore(ts, d)
<1> DEFINE n == Cardinality(NonEmpty(ts))
           o == Ordered(ts)
           b == Contributions(o, d)
           c == Contributions(ts, d)
           N == Len(ts)
<1>1. n \in Nat /\ o \in Seq(ScorableToken) /\ Len(o) = n
  BY OrderedFacts
<1>2. PICK f \in [1 .. n -> 1 .. N] :
         /\ \A k \in 1 .. n : o[k] = ts[f[k]]
         /\ \A k, l \in 1 .. n : f[k] = f[l] => k = l
         /\ \A i \in NonEmpty(ts) : \E k \in 1 .. n : f[k] = i
  BY OrderedFacts
<1>3. N \in Nat /\ c \in [1 .. N -> Nat] /\ b \in [1 .. n -> Nat]
  BY <1>1, ContributionsType
<1>4. /\ \A i \in 1 .. N : c[i] = Contribution(ts[i], d)
      /\ \A k \in 1 .. n : b[k] = Contribution(o[k], d)
  BY <1>1 DEF Contributions
<1>5. FieldScore(ts, d) = Cardinality(Units(c, N)) /\ FieldScore(o, d) = Cardinality(Units(b, n))
  BY <1>1, FieldScoreUnits
<1>6. \A i \in 1 .. N : c[i] # 0 => i \in NonEmpty(ts)
  <2> SUFFICES ASSUME NEW i \in 1 .. N, c[i] # 0 PROVE i \in NonEmpty(ts)
    OBVIOUS
  <2>1. ts[i] \in ScorableToken /\ i \in DOMAIN ts
    BY ElementOfSeq, LenProperties
  <2>2. ts[i].freq[d] > 0
    BY <1>4, <2>1, ContributionType
  <2>3. \E j \in 1 .. DocFreq(ts[i]) : ts[i].docs[j] = d
    BY <2>1, <2>2, TokenFacts
  <2>4. DocFreq(ts[i]) \in Nat
    BY <2>1, TokenFacts
  <2>5. DocFreq(ts[i]) > 0
    BY <2>3, <2>4
  <2> QED
    BY <2>1, <2>5 DEF NonEmpty
<1> HIDE DEF n, o, b, c, N
<1>7. Reorders(f, b, n, c, N)
  <2>1. \A k \in 1 .. n : b[k] = c[f[k]]
    BY <1>2, <1>4
  <2>2. \A i \in 1 .. N : c[i] # 0 => \E k \in 1 .. n : f[k] = i
    BY <1>2, <1>6
  <2> QED
    BY <1>1, <1>2, <1>3, <2>1, <2>2 DEF Reorders
<1>8. Cardinality(Units(b, n)) = Cardinality(Units(c, N))
  BY <1>7, UnitsReordered
<1> QED
  BY <1>5, <1>8 DEF o

-----------------------------------------------------------------------------
(* Blocks.                                                                 *)

BlockOf(j) == (j - 1) \div BlockSize

\* The postings lie in the blocks in their order, and no block is empty.
LEMMA BlockFacts ==
    ASSUME NEW t \in ScorableToken
    PROVE  LET n == DocFreq(t)
           IN  /\ num_blocks(t) \in Nat
               /\ \A j \in 1 .. n : BlockOf(j) \in Nat /\ BlockOf(j) < num_blocks(t)
               /\ \A i, j \in 1 .. n : BlockOf(i) < BlockOf(j) => t.docs[i] < t.docs[j]
               /\ \A b \in Nat : b < num_blocks(t) => block_doc_ids(t, b) # {}
               /\ \A b, d : d \in block_doc_ids(t, b) <=> \E j \in 1 .. n : BlockOf(j) = b /\ t.docs[j] = d
<1> DEFINE n == DocFreq(t)
           N == num_blocks(t)
<1>0. n \in Nat /\ DOMAIN t.docs = 1 .. n /\ BlockSize \in Nat \ {0} /\ n + BlockSize - 1 \in Nat
  BY TokenFacts, SizeAssumption
<1>1. N \in Nat /\ N * BlockSize <= n + BlockSize - 1 /\ n + BlockSize - 1 < N * BlockSize + BlockSize
  BY <1>0, DivFacts DEF num_blocks
<1>2. \A b, d : d \in block_doc_ids(t, b) <=> \E j \in 1 .. n : BlockOf(j) = b /\ t.docs[j] = d
  BY <1>0 DEF block_doc_ids, BlockOf
<1>3. \A i, j \in 1 .. n : i < j => t.docs[i] < t.docs[j]
  BY TokenFacts
<1> HIDE DEF n, N
<1>4. ASSUME NEW j \in 1 .. n
      PROVE  /\ BlockOf(j) \in Nat /\ BlockOf(j) * BlockSize \in Nat
             /\ BlockOf(j) * BlockSize <= j - 1 /\ j - 1 < BlockOf(j) * BlockSize + BlockSize
  <2>1. j - 1 \in Nat
    BY <1>0
  <2>2. BlockOf(j) \in Nat /\ BlockOf(j) * BlockSize <= j - 1 /\ j - 1 < BlockOf(j) * BlockSize + BlockSize
    BY <1>0, <2>1, DivFacts DEF BlockOf
  <2> QED
    BY <1>0, <2>2, TimesMonotone
<1>5. ASSUME NEW j \in 1 .. n PROVE BlockOf(j) < N
  <2> SUFFICES ASSUME N <= BlockOf(j) PROVE FALSE
    BY <1>1, <1>4
  <2>1. N * BlockSize <= BlockOf(j) * BlockSize /\ N * BlockSize \in Nat
    BY <1>0, <1>1, <1>4, TimesMonotone
  <2> QED
    BY <1>0, <1>1, <1>4, <2>1
<1>6. ASSUME NEW i \in 1 .. n, NEW j \in 1 .. n, BlockOf(i) < BlockOf(j) PROVE t.docs[i] < t.docs[j]
  <2>1. i - 1 \in Nat /\ j - 1 \in Nat
    BY <1>0
  <2>2. ~(j <= i)
    <3> SUFFICES ASSUME j <= i PROVE FALSE
      OBVIOUS
    <3>1. j - 1 <= i - 1
      BY <1>0
    <3>2. BlockOf(j) <= BlockOf(i)
      BY <1>0, <2>1, <3>1, DivMonotone DEF BlockOf
    <3> QED
      BY <1>4, <1>6, <3>2
  <2> QED
    BY <1>0, <1>3, <2>2
<1>7. ASSUME NEW b \in Nat, b < N PROVE block_doc_ids(t, b) # {}
  <2>1. b * BlockSize \in Nat /\ b * BlockSize + BlockSize <= N * BlockSize /\ N * BlockSize \in Nat
    BY <1>0, <1>1, <1>7, TimesMonotone
  <2>2. b * BlockSize + 1 \in 1 .. n
    BY <1>0, <1>1, <2>1
  <2>3. BlockOf(b * BlockSize + 1) = b
    <3> DEFINE m == BlockOf(b * BlockSize + 1)
    <3>1. m \in Nat /\ m * BlockSize \in Nat /\ m * BlockSize <= b * BlockSize /\ b * BlockSize < m * BlockSize + BlockSize
      <4> DEFINE j == b * BlockSize + 1
      <4>1. j \in 1 .. n /\ j - 1 = b * BlockSize
        BY <2>1, <2>2
      <4> HIDE DEF j
      <4>2. /\ BlockOf(j) \in Nat /\ BlockOf(j) * BlockSize \in Nat
            /\ BlockOf(j) * BlockSize <= j - 1 /\ j - 1 < BlockOf(j) * BlockSize + BlockSize
        BY <1>4, <4>1
      <4> QED
        BY <4>1, <4>2 DEF j
    <3> HIDE DEF m
    <3>2. ~(m < b)
      <4> SUFFICES ASSUME m < b PROVE FALSE
        OBVIOUS
      <4>1. m * BlockSize + BlockSize <= b * BlockSize
        BY <1>0, <3>1, TimesMonotone
      <4> QED
        BY <1>0, <2>1, <3>1, <4>1
    <3>3. ~(b < m)
      <4> SUFFICES ASSUME b < m PROVE FALSE
        OBVIOUS
      <4>1. b * BlockSize + BlockSize <= m * BlockSize
        BY <1>0, <3>1, TimesMonotone
      <4> QED
        BY <1>0, <2>1, <3>1, <4>1
    <3>4. m = b
      BY <3>1, <3>2, <3>3
    <3> QED
      BY <3>4 DEF m
  <2> QED
    BY <1>2, <2>2, <2>3
<1> QED
  BY <1>1, <1>2, <1>4, <1>5, <1>6, <1>7 DEF n, N

\* The first and the last document of a block.
LEMMA BlockRange ==
    ASSUME NEW t \in ScorableToken, NEW b \in Nat, b < num_blocks(t)
    PROVE  LET ids == block_doc_ids(t, b)
           IN  /\ ids \subseteq Doc
               /\ Min(ids) \in ids /\ \A x \in ids : Min(ids) <= x
               /\ Max(ids) \in ids /\ \A x \in ids : x <= Max(ids)
<1> DEFINE ids == block_doc_ids(t, b)
<1>1. ids # {}
  BY BlockFacts
<1>2. ids \subseteq Doc
  <2> SUFFICES ASSUME NEW d \in ids PROVE d \in Doc
    OBVIOUS
  <2>1. \E j \in 1 .. DocFreq(t) : t.docs[j] = d
    BY BlockFacts
  <2> QED
    BY <2>1, TokenFacts
<1>3. ids \in SUBSET Nat /\ NumDocs \in Nat /\ \A x \in ids : x <= NumDocs
  BY <1>2, SizeAssumption DEF Doc
<1> HIDE DEF ids
<1>4. Min(ids) \in ids /\ \A x \in ids : Min(ids) <= x
  BY <1>1, <1>3, MinNat
<1>5. Max(ids) \in ids /\ \A x \in ids : x <= Max(ids)
  BY <1>1, <1>3, MaxNat
<1> QED
  BY <1>2, <1>4, <1>5 DEF ids

\* The leap over a block that holds no scored document passes none in the blocks
\* after it either: D are the scored documents, and posting j is one of them.
LEMMA LeapKeepsScored ==
    ASSUME NEW t \in ScorableToken, NEW b \in Nat, b < num_blocks(t),
           NEW D \in SUBSET Doc,
           \A d \in D : d < Min(block_doc_ids(t, b)) \/ d > Max(block_doc_ids(t, b)),
           NEW j \in 1 .. DocFreq(t), BlockOf(j) >= b, t.docs[j] \in D
    PROVE  LET later == {d \in D : d > Max(block_doc_ids(t, b))}
           IN  /\ later # {}
               /\ Min({num_blocks(t), Max({seek_block(t, Min(later), b), b + 1})}) <= BlockOf(j)
<1> DEFINE lo == Min(block_doc_ids(t, b))
           hi == Max(block_doc_ids(t, b))
           d == t.docs[j]
           later == {e \in D : e > hi}
           N == num_blocks(t)
           k == BlockOf(j)
           ok == {c \in b .. N - 1 : Max(block_doc_ids(t, c)) >= Min(later)}
           s == seek_block(t, Min(later), b)
<1>1. N \in Nat /\ k \in Nat /\ k < N /\ d \in Nat /\ D \subseteq Nat
  BY BlockFacts, SizeAssumption DEF Doc
<1>2. lo \in block_doc_ids(t, b) /\ hi \in block_doc_ids(t, b) /\ lo \in Nat /\ hi \in Nat
      /\ \A x \in block_doc_ids(t, b) : lo <= x /\ x <= hi
  <2>1. block_doc_ids(t, b) \subseteq Nat
    BY BlockRange, SizeAssumption DEF Doc
  <2> QED
    BY <2>1, BlockRange
<1>3. d \in block_doc_ids(t, k)
  BY BlockFacts
<1>4. d > hi
  <2>1. k # b
    <3> SUFFICES ASSUME k = b PROVE FALSE
      OBVIOUS
    <3>1. lo <= d /\ d <= hi
      BY <1>2, <1>3
    <3> QED
      BY <1>1, <1>2, <3>1
  <2>2. b < k
    BY <1>1, <2>1
  <2>3. PICK i \in 1 .. DocFreq(t) : BlockOf(i) = b /\ t.docs[i] = hi
    BY <1>2, BlockFacts
  <2> QED
    BY <2>2, <2>3, BlockFacts
<1>5. b < k
  <2>1. k # b
    BY <1>1, <1>2, <1>3, <1>4
  <2> QED
    BY <1>1, <2>1
<1>6. d \in later /\ later \in SUBSET Nat
  BY <1>1, <1>4
<1>7. Min(later) \in Nat /\ Min(later) <= d
  <2> HIDE DEF later
  <2> QED
    BY <1>6, MinNat
<1>8. k \in ok
  <2>1. Max(block_doc_ids(t, k)) \in Nat /\ d <= Max(block_doc_ids(t, k))
    <3>1. block_doc_ids(t, k) \subseteq Nat
      BY <1>1, BlockRange, SizeAssumption DEF Doc
    <3> QED
      BY <1>1, <1>3, <3>1, BlockRange
  <2> QED
    BY <1>1, <1>5, <1>7, <2>1
<1>9. ok \in SUBSET Nat
  BY <1>1
<1>10. s = Min(ok)
  BY <1>8 DEF seek_block
<1> HIDE DEF ok, s, later
<1>11. s \in Nat /\ s <= k
  BY <1>8, <1>9, <1>10, MinNat
<1>12. Max({s, b + 1}) \in Nat /\ Max({s, b + 1}) <= k
  <2>1. Max({s, b + 1}) = IF s >= b + 1 THEN s ELSE b + 1
    <3>1. s \in Int /\ b + 1 \in Int
      BY <1>11
    <3> QED
      BY <3>1, MaxMinTwo
  <2> QED
    BY <1>1, <1>5, <1>11, <2>1
<1>13. Min({N, Max({s, b + 1})}) <= k
  <2> DEFINE m == Max({s, b + 1})
  <2> HIDE DEF m
  <2>1. m \in Int /\ N \in Int /\ m <= k
    BY <1>1, <1>12 DEF m
  <2>2. Min({N, m}) = IF N <= m THEN N ELSE m
    BY <2>1, MaxMinTwo
  <2>3. Min({N, m}) <= k
    BY <1>1, <2>1, <2>2
  <2> QED
    BY <2>3 DEF m
<1> QED
  BY <1>6, <1>13 DEF s, later

-----------------------------------------------------------------------------
(* The threshold.                                                          *)

\* With enough documents scored there is a K-th best score.
LEMMA KthScoreFacts ==
    ASSUME NEW D \in SUBSET Doc, NEW s \in [D -> Nat],
           req.limit \in Nat, req.limit > 0, Cardinality(D) >= req.limit
    PROVE  /\ KthScore(s) \in Nat
           /\ Cardinality({d \in D : s[d] > KthScore(s)}) < req.limit
           /\ Cardinality({d \in D : s[d] >= KthScore(s)}) >= req.limit
<1> DEFINE V == {s[d] : d \in D}
           AtLeast(x) == {d \in D : s[d] >= x}
           Above(x) == {d \in D : s[d] > x}
           X == {x \in V : Cardinality(AtLeast(x)) >= req.limit}
           g == [i \in 1 .. NumDocs |-> IF i \in D THEN s[i] ELSE 0]
           L == req.limit
<1>0. NumDocs \in Nat /\ D \subseteq 1 .. NumDocs /\ IsFiniteSet(D) /\ V \subseteq Nat
  <2>1. NumDocs \in Nat /\ D \subseteq 1 .. NumDocs
    BY SizeAssumption DEF Doc
  <2>2. IsFiniteSet(1 .. NumDocs)
    BY <2>1, FS_Interval
  <2> QED
    BY <2>1, <2>2, FS_Subset
<1>1. \A S \in SUBSET D : IsFiniteSet(S) /\ Cardinality(S) \in Nat
  BY <1>0, FS_Subset, FS_CardinalityType
<1>2. D # {}
  <2>1. Cardinality({}) = 0
    BY FS_EmptySet
  <2> QED
    BY <2>1
<1>3. PICK u \in Nat : \A x \in V : x <= u
  <2>1. g \in [1 .. NumDocs -> Nat]
    OBVIOUS
  <2>2. \A d \in D : g[d] = s[d]
    BY <1>0
  <2> HIDE DEF g
  <2>3. PICK u \in Nat : \A i \in 1 .. NumDocs : g[i] <= u
    BY <1>0, <2>1, BoundedImage
  <2>4. \A d \in D : s[d] <= u
    BY <1>0, <2>2, <2>3
  <2> QED
    BY <2>4
<1>4. X # {}
  <2>1. V \in SUBSET Nat /\ V # {}
    BY <1>0, <1>2
  <2>2. Min(V) \in V /\ \A x \in V : Min(V) <= x
    <3> HIDE DEF V
    <3> QED
      BY <2>1, MinNat
  <2>3. AtLeast(Min(V)) = D
    BY <1>0, <2>2
  <2> QED
    BY <2>2, <2>3
<1>5. X \in SUBSET Nat /\ \A x \in X : x <= u
  BY <1>0, <1>3
<1>6. Max(X) \in X /\ \A x \in X : x <= Max(X)
  <2> HIDE DEF X
  <2> QED
    BY <1>4, <1>5, MaxNat
<1>7. Cardinality(Above(Max(X))) < L
  <2> DEFINE m == Max(X)
             W == {s[d] : d \in Above(m)}
  <2> SUFFICES ASSUME ~(Cardinality(Above(m)) < L) PROVE FALSE
    OBVIOUS
  <2>0. m \in X /\ (\A x \in X : x <= m) /\ m \in Nat
    BY <1>5, <1>6
  <2> HIDE DEF m, X
  <2>1. Above(m) \in SUBSET D
    OBVIOUS
  <2>2. Cardinality(Above(m)) \in Nat /\ Cardinality(Above(m)) >= L
    BY <1>1, <2>1
  <2>3. Above(m) # {}
    <3>1. Cardinality({}) = 0
      BY FS_EmptySet
    <3> QED
      BY <2>2, <3>1
  <2>4. W \in SUBSET Nat /\ W # {} /\ W \subseteq V
    BY <2>3
  <2>5. Min(W) \in W /\ \A x \in W : Min(W) <= x
    <3> HIDE DEF W
    <3> QED
      BY <2>4, MinNat
  <2>6. Above(m) \subseteq AtLeast(Min(W))
    <3> SUFFICES ASSUME NEW d \in Above(m) PROVE d \in AtLeast(Min(W))
      OBVIOUS
    <3>1. s[d] \in W /\ s[d] \in Nat /\ Min(W) \in Nat
      BY <2>4, <2>5
    <3> QED
      BY <2>5, <3>1
  <2>7. AtLeast(Min(W)) \in SUBSET D
    OBVIOUS
  <2>8. Cardinality(AtLeast(Min(W))) >= L
    <3> DEFINE P == Above(m)
               Q == AtLeast(Min(W))
    <3>1. P \in SUBSET Q /\ IsFiniteSet(Q) /\ Cardinality(Q) \in Nat
      BY <1>1, <2>6, <2>7
    <3>2. Cardinality(P) \in Nat /\ Cardinality(P) >= L
      BY <2>2
    <3> HIDE DEF P, Q
    <3>3. Cardinality(P) <= Cardinality(Q)
      BY <3>1, FS_Subset
    <3>4. Cardinality(Q) >= L
      BY <3>1, <3>2, <3>3
    <3> QED
      BY <3>4 DEF Q
  <2>9. Min(W) \in X
    BY <2>4, <2>5, <2>8 DEF X
  <2>10. Min(W) > m
    BY <2>5
  <2> QED
    BY <2>0, <2>4, <2>5, <2>9, <2>10
<1>8. /\ KthScore(s) \in V
      /\ Cardinality(Above(KthScore(s))) < L
      /\ Cardinality(AtLeast(KthScore(s))) >= L
  <2>1. DOMAIN s = D
    OBVIOUS
  <2>2. Max(X) \in V /\ Cardinality(AtLeast(Max(X))) >= L
    BY <1>6
  <2>3. KthScore(s) = CHOOSE x \in V : Cardinality(Above(x)) < L /\ Cardinality(AtLeast(x)) >= L
    BY <2>1 DEF KthScore
  <2>4. \E x \in V : Cardinality(Above(x)) < L /\ Cardinality(AtLeast(x)) >= L
    <3> HIDE DEF X, V, Above, AtLeast, L
    <3> QED
      BY <1>7, <2>2
  <2> HIDE DEF X, V, Above, AtLeast, L
  <2> QED
    BY <2>3, <2>4
<1> QED
  BY <1>0, <1>8

\* More documents are not fewer than L.
LEMMA CountMonotone ==
    ASSUME NEW Q \in SUBSET Doc, NEW P \in SUBSET Q, NEW L \in Nat, Cardinality(P) >= L
    PROVE  Cardinality(Q) >= L
<1>1. IsFiniteSet(Doc)
  BY SizeAssumption, FS_Interval DEF Doc
<1>2. IsFiniteSet(Q) /\ Cardinality(Q) \in Nat
  BY <1>1, FS_Subset, FS_CardinalityType
<1>3. IsFiniteSet(P) /\ Cardinality(P) <= Cardinality(Q)
  BY <1>2, FS_Subset
<1>4. Cardinality(P) \in Nat
  BY <1>3, FS_CardinalityType
<1> QED
  BY <1>2, <1>3, <1>4

-----------------------------------------------------------------------------
(* The invariant.  What a request r determines, as constants.              *)

ContributionOf(r, t, d) ==
    LET len == IF r.norms THEN r.doc_len[d] ELSE 1
    IN  IF t.freq[d] > 0 THEN IF len > 0 THEN score(t, t.freq[d], len) ELSE 0 ELSE 0

ScoreOf(r, ts, d) ==
    LET sum[n \in 0 .. Len(ts)] == IF n = 0 THEN 0 ELSE sum[n - 1] + ContributionOf(r, ts[n], d)
    IN  sum[Len(ts)]

BoundOf(r, t) ==
    score(t, Max({t.freq[t.docs[i]] : i \in DOMAIN t.docs}), IF r.norms THEN r.min_doc_len ELSE 1)

LiveIn(r) == ~(Len(r.fields) > 1) /\ Cardinality(NonEmpty(r.fields[1])) = 1

LEMMA RequestConstants ==
    /\ \A t, d : Contribution(t, d) = ContributionOf(req, t, d)
    /\ \A ts, d : FieldScore(ts, d) = ScoreOf(req, ts, d)
    /\ \A t : max_contrib(t) = BoundOf(req, t)
    /\ Live <=> LiveIn(req)
<1>1. \A t, d : Contribution(t, d) = ContributionOf(req, t, d)
  BY DEF Contribution, score_doc, ContributionOf
<1>2. ASSUME NEW ts, NEW d PROVE FieldScore(ts, d) = ScoreOf(req, ts, d)
  BY DEF FieldScore, ScoreOf, Contribution, score_doc, ContributionOf
<1>3. \A t : max_contrib(t) = BoundOf(req, t)
  BY DEF max_contrib, MinDocLen, BoundOf
<1>4. Live <=> LiveIn(req)
  BY DEF Live, multi, LiveIn
<1> QED
  BY <1>1, <1>2, <1>3, <1>4

\* What token t adds to d from block b on.
Left(r, t, b, d) ==
    IF \E j \in 1 .. DocFreq(t) : t.docs[j] = d /\ BlockOf(j) >= b THEN ContributionOf(r, t, d) ELSE 0

\* What the field being walked scores in the end.
Total(r, fs, d) == ScoreOf(r, r.fields[Len(r.fields) - Len(fs)], d)

\* No token to come may add a document.
Shut == /\ LiveIn(req) => pending = <<>>
        /\ \A i \in 1 .. Len(pending) : BoundOf(req, pending[i]) < threshold

Typed ==
    /\ IsRequest(req)
    /\ phase \in {"start", "stream", "token", "block", "done"}
    /\ phase \in {"start", "stream"} => scored = NoScores /\ threshold = NegInf

\* The tokens still to walk have postings and descending bounds.
FieldInv ==
    /\ req.limit > 0
    /\ fields \in Seq(Seq(ScorableToken)) /\ Len(fields) < Len(req.fields)
    /\ \A i \in 1 .. Len(fields) : fields[i] = req.fields[Len(req.fields) - Len(fields) + i]
    /\ pending \in Seq(ScorableToken)
    /\ \A i \in 1 .. Len(pending) : pending[i].docs # <<>>
    /\ \A i, j \in 1 .. Len(pending) : i < j => BoundOf(req, pending[i]) >= BoundOf(req, pending[j])
    /\ LiveIn(req) => Len(pending) <= 1

\* As many documents as the window has room for reach the threshold.
ThresholdInv ==
    /\ DOMAIN scored \subseteq Doc /\ scored \in [DOMAIN scored -> Nat]
    /\ threshold \in Nat \cup {NegInf}
    /\ threshold # NegInf => Cardinality({d \in DOMAIN scored : scored[d] >= threshold}) >= req.limit

\* Between tokens: what is scored and what is to come make up the score, also
\* of a document that may still be added.
TokenInv ==
    /\ \A d \in DOMAIN scored : scored[d] + ScoreOf(req, pending, d) = Total(req, fields, d)
    /\ \A d \in Doc \ DOMAIN scored : ScoreOf(req, pending, d) = Total(req, fields, d) \/ Shut
    /\ LiveIn(req) /\ pending # <<>> => scored = NoScores

\* In the middle of a token.
BlockInv ==
    LET t == Head(pending)
    IN  /\ pending # <<>> /\ block \in Nat /\ allow \in BOOLEAN
        /\ \A d \in DOMAIN scored :
              scored[d] + Left(req, t, block, d) + ScoreOf(req, Tail(pending), d) = Total(req, fields, d)
        /\ \A d \in Doc \ DOMAIN scored :
              \/ Left(req, t, block, d) + ScoreOf(req, Tail(pending), d) = Total(req, fields, d)
              \/ LiveIn(req) /\ block >= num_blocks(t)
              \/ ~LiveIn(req) /\ ~allow
        /\ ~LiveIn(req) /\ ~allow => BoundOf(req, t) < threshold
        /\ LiveIn(req) => \A d \in DOMAIN scored : Left(req, t, block, d) = 0

Inv ==
    /\ Typed
    /\ phase \in {"token", "block"} => FieldInv /\ ThresholdInv
    /\ phase = "token" => TokenInv
    /\ phase = "block" => BlockInv

-----------------------------------------------------------------------------
(* One lemma per action.                                                   *)

LEMMA InitInv == Init => Inv
  BY RequestAssumption DEF Init, Inv, Typed

\* The streamed walk does not touch the scores.
LEMMA StreamInv ==
    ASSUME Inv, StartStream \/ StreamPosting \/ StreamEnd
    PROVE  Inv'
<1>1. /\ req' = req /\ scored' = scored /\ threshold' = threshold
      /\ phase \in {"start", "stream"} /\ phase' \in {"start", "stream", "done"}
  <2>1. CASE StartStream
    BY <2>1 DEF StartStream
  <2>2. CASE StreamPosting
    BY <2>2 DEF StreamPosting
  <2>3. CASE StreamEnd
    BY <2>3 DEF StreamEnd
  <2> QED
    BY <2>1, <2>2, <2>3
<1>2. Typed'
  BY <1>1 DEF Inv, Typed
<1> QED
  BY <1>1, <1>2 DEF Inv

\* The tokens of a field, put in order.
LEMMA FieldBegins ==
    ASSUME IsRequest(req), NEW ts \in Seq(ScorableToken)
    PROVE  LET o == Ordered(ts)
           IN  /\ o \in Seq(ScorableToken) /\ Len(o) = Cardinality(NonEmpty(ts))
               /\ \A i \in 1 .. Len(o) : o[i].docs # <<>>
               /\ \A i, j \in 1 .. Len(o) : i < j => BoundOf(req, o[i]) >= BoundOf(req, o[j])
               /\ \A d \in Doc : ScoreOf(req, o, d) = ScoreOf(req, ts, d)
<1> DEFINE o == Ordered(ts)
<1>1. /\ o \in Seq(ScorableToken) /\ Len(o) = Cardinality(NonEmpty(ts))
      /\ \A i \in 1 .. Len(o) : o[i].docs # <<>>
      /\ \A i, j \in 1 .. Len(o) : i < j => max_contrib(o[i]) >= max_contrib(o[j])
  BY OrderedFacts
<1>2. \A d \in Doc : FieldScore(o, d) = FieldScore(ts, d)
  BY FieldScoreOrdered
<1> HIDE DEF o
<1>3. \A i, j \in 1 .. Len(o) : i < j => BoundOf(req, o[i]) >= BoundOf(req, o[j])
  BY <1>1, RequestConstants
<1>4. \A d \in Doc : ScoreOf(req, o, d) = ScoreOf(req, ts, d)
  BY <1>2, RequestConstants
<1> QED
  BY <1>1, <1>3, <1>4 DEF o

\* A walk of a field begins with nothing scored.
LEMMA FieldStartInv ==
    ASSUME IsRequest(req), req.limit > 0, req' = req, phase' = "token",
           scored' = NoScores, threshold' = NegInf,
           fields' \in Seq(Seq(ScorableToken)), Len(fields') < Len(req.fields),
           \A i \in 1 .. Len(fields') : fields'[i] = req.fields[Len(req.fields) - Len(fields') + i],
           pending' = Ordered(req.fields[Len(req.fields) - Len(fields')])
    PROVE  Inv'
<1> DEFINE k == Len(req.fields) - Len(fields')
           ts == req.fields[k]
<1>1. Len(req.fields) \in Nat /\ Len(fields') \in Nat /\ k \in 1 .. Len(req.fields)
  <2>1. Len(req.fields) \in Nat /\ Len(fields') \in Nat
    BY LenProperties DEF IsRequest
  <2> QED
    BY <2>1
<1>2. ts \in Seq(ScorableToken)
  BY <1>1, ElementOfSeq DEF IsRequest
<1> HIDE DEF ts
<1>3. /\ pending' \in Seq(ScorableToken) /\ Len(pending') = Cardinality(NonEmpty(ts))
      /\ \A i \in 1 .. Len(pending') : pending'[i].docs # <<>>
      /\ \A i, j \in 1 .. Len(pending') : i < j => BoundOf(req, pending'[i]) >= BoundOf(req, pending'[j])
      /\ \A d \in Doc : ScoreOf(req, pending', d) = ScoreOf(req, ts, d)
  <2>1. pending' = Ordered(ts)
    BY DEF ts
  <2> QED
    BY <1>2, <2>1, FieldBegins
<1>4. LiveIn(req) => Len(pending') <= 1
  <2> SUFFICES ASSUME LiveIn(req) PROVE Len(pending') <= 1
    OBVIOUS
  <2>1. ~(Len(req.fields) > 1) /\ Cardinality(NonEmpty(req.fields[1])) = 1
    BY DEF LiveIn
  <2>2. k = 1
    BY <1>1, <2>1
  <2> QED
    BY <1>3, <2>1, <2>2 DEF ts
<1>5. DOMAIN NoScores = {} /\ NoScores \in [{} -> Nat]
  BY DEF NoScores
<1>6. Typed'
  BY DEF Typed
<1>7. FieldInv'
  BY <1>3, <1>4 DEF FieldInv
<1>8. ThresholdInv'
  BY <1>5 DEF ThresholdInv, NegInf
<1>9. TokenInv'
  <2>1. \A d \in Doc : ScoreOf(req', pending', d) = Total(req', fields', d)
    BY <1>3 DEF Total, ts
  <2> QED
    BY <1>5, <2>1 DEF TokenInv
<1> QED
  BY <1>6, <1>7, <1>8, <1>9 DEF Inv

LEMMA StartReferenceInv == ASSUME Inv, StartReference PROVE Inv'
<1>1. /\ IsRequest(req) /\ req' = req /\ scored' = scored /\ threshold' = threshold
      /\ scored = NoScores /\ threshold = NegInf
  BY DEF Inv, Typed, StartReference
<1>2. CASE req.limit = 0 \/ Candidates = {}
  <2>1. phase' = "done"
    BY <1>2 DEF StartReference
  <2> QED
    BY <1>1, <2>1 DEF Inv, Typed
<1>3. CASE ~(req.limit = 0 \/ Candidates = {})
  <2>1. phase' = "token" /\ fields' = Tail(req.fields) /\ pending' = Ordered(req.fields[1])
    BY <1>3 DEF StartReference
  <2>2. req.fields \in Seq(Seq(ScorableToken)) /\ req.fields # <<>> /\ req.limit > 0
    BY <1>1, <1>3 DEF IsRequest
  <2>3. /\ fields' \in Seq(Seq(ScorableToken)) /\ Len(fields') = Len(req.fields) - 1
        /\ Len(req.fields) \in Nat
        /\ \A i \in 1 .. Len(fields') : fields'[i] = req.fields[i + 1]
    BY <2>1, <2>2, HeadTailProperties, LenProperties
  <2>4. Len(req.fields) - Len(fields') = 1 /\ Len(fields') < Len(req.fields)
    BY <2>3
  <2>5. \A i \in 1 .. Len(fields') : fields'[i] = req.fields[Len(req.fields) - Len(fields') + i]
    <3>1. \A i \in 1 .. Len(fields') : 1 + i = i + 1
      BY <2>3
    <3> QED
      BY <2>3, <2>4, <3>1
  <2>6. pending' = Ordered(req.fields[Len(req.fields) - Len(fields')])
    BY <2>1, <2>4
  <2> QED
    BY <1>1, <2>1, <2>2, <2>3, <2>4, <2>5, <2>6, FieldStartInv
<1> QED
  BY <1>2, <1>3

LEMMA EndFieldInv == ASSUME Inv, EndField PROVE Inv'
<1>1. /\ IsRequest(req) /\ req' = req /\ scored' = NoScores /\ threshold' = NegInf
      /\ FieldInv /\ phase = "token"
  BY DEF Inv, Typed, EndField
<1>2. CASE fields = <<>>
  <2>1. phase' = "done"
    BY <1>2 DEF EndField
  <2> QED
    BY <1>1, <2>1 DEF Inv, Typed
<1>3. CASE fields # <<>>
  <2>1. phase' = "token" /\ pending' = Ordered(Head(fields)) /\ fields' = Tail(fields)
    BY <1>1, <1>3 DEF EndField
  <2>2. /\ fields \in Seq(Seq(ScorableToken)) /\ Len(fields) < Len(req.fields) /\ req.limit > 0
        /\ \A i \in 1 .. Len(fields) : fields[i] = req.fields[Len(req.fields) - Len(fields) + i]
    BY <1>1 DEF FieldInv
  <2>3. /\ fields' \in Seq(Seq(ScorableToken)) /\ Len(fields') = Len(fields) - 1
        /\ Len(fields) \in Nat /\ Len(fields) >= 1 /\ Head(fields) = fields[1]
        /\ \A i \in 1 .. Len(fields') : fields'[i] = fields[i + 1]
    <3>1. Len(fields) \in Nat /\ Len(fields) # 0
      BY <1>3, <2>2, LenProperties, EmptySeq
    <3> QED
      BY <1>3, <2>1, <2>2, <3>1, HeadTailProperties
  <2>4. Len(req.fields) \in Nat
    BY <1>1, LenProperties DEF IsRequest
  <2>5. Len(req.fields) - Len(fields') = Len(req.fields) - Len(fields) + 1 /\ Len(fields') < Len(req.fields)
    BY <2>2, <2>3, <2>4
  <2>6. \A i \in 1 .. Len(fields') : fields'[i] = req.fields[Len(req.fields) - Len(fields') + i]
    <3> SUFFICES ASSUME NEW i \in 1 .. Len(fields')
                 PROVE  fields[i + 1] = req.fields[Len(req.fields) - Len(fields') + i]
      BY <2>3
    <3>1. i + 1 \in 1 .. Len(fields) /\ Len(req.fields) - Len(fields') + i = Len(req.fields) - Len(fields) + (i + 1)
      <4> DEFINE a == Len(req.fields)
                 b == Len(fields)
                 c == Len(fields')
      <4>1. a \in Nat /\ b \in Nat /\ c = b - 1 /\ i \in 1 .. c
        BY <2>3, <2>4
      <4> HIDE DEF a, b, c
      <4>2. i + 1 \in 1 .. b /\ a - c + i = a - b + (i + 1)
        BY <4>1
      <4> QED
        BY <4>2 DEF a, b, c
    <3> QED
      BY <2>2, <3>1
  <2>7. pending' = Ordered(req.fields[Len(req.fields) - Len(fields')])
    <3>1. 1 \in 1 .. Len(fields)
      BY <2>3
    <3> QED
      BY <2>1, <2>2, <2>3, <2>5, <3>1
  <2> QED
    BY <1>1, <2>1, <2>2, <2>3, <2>5, <2>6, <2>7, FieldStartInv
<1> QED
  BY <1>2, <1>3

\* The current token and those after it.
LEMMA PendingFacts ==
    ASSUME IsRequest(req), FieldInv, pending # <<>>
    PROVE  LET t == Head(pending)
           IN  /\ t \in ScorableToken /\ t = pending[1] /\ DocFreq(t) > 0 /\ BoundOf(req, t) \in Int
               /\ Len(pending) \in Nat /\ Len(pending) >= 1
               /\ Tail(pending) \in Seq(ScorableToken) /\ Len(Tail(pending)) = Len(pending) - 1
               /\ \A i \in 1 .. Len(Tail(pending)) : Tail(pending)[i] = pending[i + 1]
               /\ \A d \in Doc :
                     /\ ContributionOf(req, t, d) \in Nat /\ ScoreOf(req, Tail(pending), d) \in Nat
                     /\ ScoreOf(req, pending, d) = ContributionOf(req, t, d) + ScoreOf(req, Tail(pending), d)
<1> DEFINE t == Head(pending)
<1>1. pending \in Seq(ScorableToken) /\ \A i \in 1 .. Len(pending) : pending[i].docs # <<>>
  BY DEF FieldInv
<1>2. /\ Len(pending) \in Nat /\ Len(pending) >= 1 /\ t = pending[1]
      /\ Tail(pending) \in Seq(ScorableToken) /\ Len(Tail(pending)) = Len(pending) - 1
      /\ \A i \in 1 .. Len(Tail(pending)) : Tail(pending)[i] = pending[i + 1]
  <2>1. Len(pending) \in Nat /\ Len(pending) # 0
    BY <1>1, LenProperties, EmptySeq
  <2> QED
    BY <1>1, <2>1, HeadTailProperties
<1>3. 1 \in 1 .. Len(pending)
  BY <1>2
<1>4. t \in ScorableToken /\ t.docs # <<>>
  BY <1>1, <1>2, <1>3, ElementOfSeq
<1>5. DocFreq(t) > 0
  <2>1. t.docs \in Seq(Doc)
    BY <1>4, TokenFacts
  <2>2. Len(t.docs) \in Nat /\ Len(t.docs) # 0
    BY <1>4, <2>1, LenProperties, EmptySeq
  <2> QED
    BY <2>2 DEF DocFreq
<1> HIDE DEF t
<1>6. BoundOf(req, t) \in Int
  BY <1>4, <1>5, MaxContribType, RequestConstants
<1>7. ASSUME NEW d \in Doc
      PROVE  /\ ContributionOf(req, t, d) \in Nat /\ ScoreOf(req, Tail(pending), d) \in Nat
             /\ ScoreOf(req, pending, d) = ContributionOf(req, t, d) + ScoreOf(req, Tail(pending), d)
  <2>1. Contribution(t, d) \in Nat /\ FieldScore(Tail(pending), d) \in Nat
    BY <1>2, <1>4, ContributionType, FieldScoreUnits
  <2>2. FieldScore(pending, d) = Contribution(t, d) + FieldScore(Tail(pending), d)
    BY <1>1, FieldScoreHead DEF t
  <2> QED
    BY <2>1, <2>2, RequestConstants
<1> QED
  BY <1>2, <1>4, <1>5, <1>6, <1>7 DEF t

\* All of a token is left before its first block, and nothing after its last.
LEMMA LeftFacts ==
    ASSUME IsRequest(req), NEW t \in ScorableToken, NEW d \in Doc
    PROVE  /\ \A b : Left(req, t, b, d) \in Nat
           /\ Left(req, t, 0, d) = ContributionOf(req, t, d)
           /\ \A b \in Nat : b >= num_blocks(t) => Left(req, t, b, d) = 0
<1>1. /\ ContributionOf(req, t, d) \in Nat
      /\ ContributionOf(req, t, d) # 0 => \E j \in 1 .. DocFreq(t) : t.docs[j] = d
  <2>1. ContributionOf(req, t, d) \in Nat /\ (ContributionOf(req, t, d) # 0 => t.freq[d] > 0)
    BY ContributionType, RequestConstants
  <2> QED
    BY <2>1, TokenFacts
<1>2. \A j \in 1 .. DocFreq(t) : BlockOf(j) \in Nat /\ BlockOf(j) < num_blocks(t)
  BY BlockFacts
<1>3. num_blocks(t) \in Nat
  BY BlockFacts
<1>4. \A b : Left(req, t, b, d) \in Nat
  BY <1>1 DEF Left
<1>5. Left(req, t, 0, d) = ContributionOf(req, t, d)
  <2>1. \A j \in 1 .. DocFreq(t) : BlockOf(j) >= 0
    BY <1>2
  <2> QED
    BY <1>1, <2>1 DEF Left
<1>6. ASSUME NEW b \in Nat, b >= num_blocks(t) PROVE Left(req, t, b, d) = 0
  <2>1. \A j \in 1 .. DocFreq(t) : ~(BlockOf(j) >= b)
    BY <1>2, <1>3, <1>6
  <2> QED
    BY <2>1 DEF Left
<1> QED
  BY <1>4, <1>5, <1>6

LEMMA StartTokenInv == ASSUME Inv, StartToken PROVE Inv'
<1> DEFINE t == Head(pending)
<1>1. /\ IsRequest(req) /\ FieldInv /\ ThresholdInv /\ TokenInv /\ pending # <<>>
      /\ req' = req /\ pending' = pending /\ fields' = fields /\ threshold' = threshold
      /\ scored' = scored /\ phase' = "block" /\ block' = 0 /\ allow' = (max_contrib(t) >= threshold)
  BY DEF Inv, Typed, StartToken, Current, AllowNewDocs
<1>2. /\ t \in ScorableToken /\ t = pending[1] /\ BoundOf(req, t) \in Int
      /\ Len(pending) \in Nat /\ Len(pending) >= 1
      /\ \A d \in Doc :
            /\ ContributionOf(req, t, d) \in Nat /\ ScoreOf(req, Tail(pending), d) \in Nat
            /\ ScoreOf(req, pending, d) = ContributionOf(req, t, d) + ScoreOf(req, Tail(pending), d)
  BY <1>1, PendingFacts
<1>3. \A d \in Doc : Left(req, t, 0, d) = ContributionOf(req, t, d)
  BY <1>1, <1>2, LeftFacts
<1>4. /\ DOMAIN scored \subseteq Doc /\ (\A d \in DOMAIN scored : scored[d] \in Nat)
      /\ threshold \in Int
  BY <1>1 DEF ThresholdInv, NegInf
<1>5. Typed' /\ FieldInv' /\ ThresholdInv'
  BY <1>1 DEF Typed, FieldInv, ThresholdInv
<1>6. allow' \in BOOLEAN /\ (~allow' <=> BoundOf(req, t) < threshold)
  <2>1. allow' = (BoundOf(req, t) >= threshold)
    BY <1>1, RequestConstants
  <2>2. (BoundOf(req, t) >= threshold) \in BOOLEAN
    OBVIOUS
  <2>3. ~(BoundOf(req, t) >= threshold) <=> BoundOf(req, t) < threshold
    BY <1>2, <1>4
  <2> QED
    BY <2>1, <2>2, <2>3, Zenon
<1> HIDE DEF t
<1>7. ASSUME NEW d \in DOMAIN scored
      PROVE  scored[d] + Left(req, t, 0, d) + ScoreOf(req, Tail(pending), d) = Total(req, fields, d)
  <2>1. scored[d] + ScoreOf(req, pending, d) = Total(req, fields, d) /\ d \in Doc /\ scored[d] \in Nat
    BY <1>1, <1>4 DEF TokenInv
  <2> QED
    BY <1>2, <1>3, <2>1
<1>8. ASSUME NEW d \in Doc \ DOMAIN scored
      PROVE  \/ Left(req, t, 0, d) + ScoreOf(req, Tail(pending), d) = Total(req, fields, d)
             \/ ~LiveIn(req) /\ ~allow'
  <2>1. CASE ScoreOf(req, pending, d) = Total(req, fields, d)
    BY <1>2, <1>3, <2>1
  <2>2. CASE Shut
    <3>1. ~LiveIn(req) /\ 1 \in 1 .. Len(pending)
      BY <1>1, <1>2, <2>2 DEF Shut
    <3>2. BoundOf(req, t) < threshold
      BY <1>2, <2>2, <3>1 DEF Shut
    <3> QED
      BY <1>6, <3>1, <3>2
  <2> QED
    BY <1>1, <2>1, <2>2 DEF TokenInv
<1>9. LiveIn(req) => DOMAIN scored = {}
  BY <1>1 DEF TokenInv, NoScores
<1>10. BlockInv'
  <2>1. Head(pending') = t
    BY <1>1 DEF t
  <2> QED
    BY <1>1, <1>6, <1>7, <1>8, <1>9, <2>1 DEF BlockInv
<1> QED
  BY <1>1, <1>5, <1>10 DEF Inv

\* What is common to the steps inside a token.
LEMMA BlockStep ==
    ASSUME Inv, phase = "block", req' = req, pending' = pending, fields' = fields,
           threshold' = threshold, phase' = "block"
    PROVE  /\ Typed' /\ FieldInv' /\ IsRequest(req) /\ FieldInv /\ ThresholdInv /\ BlockInv
           /\ pending # <<>> /\ Head(pending) \in ScorableToken /\ Head(pending') = Head(pending)
           /\ \A d \in Doc :
                 /\ ContributionOf(req, Head(pending), d) \in Nat
                 /\ ScoreOf(req, Tail(pending), d) \in Nat
           /\ block \in Nat /\ allow \in BOOLEAN
<1>1. IsRequest(req) /\ FieldInv /\ ThresholdInv /\ BlockInv
  BY DEF Inv, Typed
<1>2. pending # <<>> /\ block \in Nat /\ allow \in BOOLEAN
  BY <1>1 DEF BlockInv
<1>3. Typed' /\ FieldInv'
  BY <1>1 DEF Typed, FieldInv
<1>4. /\ Head(pending) \in ScorableToken
      /\ \A d \in Doc :
            /\ ContributionOf(req, Head(pending), d) \in Nat
            /\ ScoreOf(req, Tail(pending), d) \in Nat
  BY <1>1, <1>2, PendingFacts
<1> QED
  BY <1>1, <1>2, <1>3, <1>4

LEMMA StopEarlyInv == ASSUME Inv, StopEarly PROVE Inv'
<1> DEFINE t == Head(pending)
<1>1. /\ phase = "block" /\ req' = req /\ pending' = pending /\ fields' = fields
      /\ threshold' = threshold /\ scored' = scored /\ allow' = allow /\ phase' = "block"
      /\ block' = num_blocks(t) /\ LiveIn(req)
  BY RequestConstants DEF Inv, Typed, StopEarly, Current
<1>2. /\ Typed' /\ FieldInv' /\ IsRequest(req) /\ ThresholdInv /\ BlockInv
      /\ t \in ScorableToken /\ Head(pending') = t /\ pending # <<>> /\ allow \in BOOLEAN
  BY <1>1, BlockStep
<1>3. ThresholdInv'
  BY <1>1, <1>2 DEF ThresholdInv
<1>4. num_blocks(t) \in Nat /\ DOMAIN scored \subseteq Doc
  BY <1>2, BlockFacts DEF ThresholdInv
<1>5. \A d \in DOMAIN scored : Left(req, t, block, d) = 0 /\ Left(req, t, num_blocks(t), d) = 0
  BY <1>1, <1>2, <1>4, LeftFacts DEF BlockInv
<1>6. BlockInv'
  <2>1. \A d \in DOMAIN scored :
           scored[d] + Left(req, t, num_blocks(t), d) + ScoreOf(req, Tail(pending), d) = Total(req, fields, d)
    BY <1>2, <1>5 DEF BlockInv
  <2> QED
    BY <1>1, <1>2, <1>4, <1>5, <2>1 DEF BlockInv
<1> QED
  BY <1>1, <1>2, <1>3, <1>6 DEF Inv

\* The leap moves forward.
LEMMA LeapForward ==
    ASSUME NEW t \in ScorableToken, NEW b \in Nat, b < num_blocks(t), NEW x
    PROVE  LET m == Min({num_blocks(t), Max({seek_block(t, x, b), b + 1})})
           IN  m \in Nat /\ m >= b
<1> DEFINE N == num_blocks(t)
           s == seek_block(t, x, b)
           ok == {c \in b .. N - 1 : Max(block_doc_ids(t, c)) >= x}
<1>1. N \in Nat
  BY BlockFacts
<1>2. s \in Nat
  <2>1. CASE ok = {}
    BY <1>1, <2>1 DEF seek_block
  <2>2. CASE ok # {}
    <3>1. ok \in SUBSET Nat /\ s = Min(ok)
      BY <1>1, <2>2 DEF seek_block
    <3> HIDE DEF ok, s
    <3> QED
      BY <2>2, <3>1, MinNat
  <2> QED
    BY <2>1, <2>2
<1> HIDE DEF s, N
<1>3. Max({s, b + 1}) = IF s >= b + 1 THEN s ELSE b + 1
  <2>1. s \in Int /\ b + 1 \in Int
    BY <1>2
  <2> QED
    BY <2>1, MaxMinTwo
<1> DEFINE k == Max({s, b + 1})
<1>4. k \in Nat /\ k >= b
  BY <1>2, <1>3
<1> HIDE DEF k
<1>5. Min({N, k}) = IF N <= k THEN N ELSE k
  <2>1. N \in Int /\ k \in Int
    BY <1>1, <1>4
  <2> QED
    BY <2>1, MaxMinTwo
<1>6. Min({N, k}) \in Nat /\ Min({N, k}) >= b
  <2>1. N >= b
    BY <1>1 DEF N
  <2> QED
    BY <1>1, <1>4, <1>5, <2>1
<1> QED
  BY <1>6 DEF N, k, s

LEMMA SkipBlockInv == ASSUME Inv, SkipBlock PROVE Inv'
<1> DEFINE t == Head(pending)
           hi == Max(block_doc_ids(t, block))
           later == {d \in DOMAIN scored : d > hi}
           leap == Min({num_blocks(t), Max({seek_block(t, Min(later), block), block + 1})})
<1>1. /\ phase = "block" /\ req' = req /\ pending' = pending /\ fields' = fields
      /\ threshold' = threshold /\ scored' = scored /\ allow' = allow /\ phase' = "block"
      /\ block < num_blocks(t) /\ ~LiveIn(req) /\ ~allow
      /\ \A d \in DOMAIN scored : d < Min(block_doc_ids(t, block)) \/ d > hi
      /\ block' = IF later = {} THEN num_blocks(t) ELSE leap
  BY RequestConstants DEF Inv, Typed, SkipBlock, Current, skippable, RangeUnscored, NextScored, target_block
<1>2. /\ Typed' /\ FieldInv' /\ IsRequest(req) /\ ThresholdInv /\ BlockInv
      /\ t \in ScorableToken /\ Head(pending') = t /\ pending # <<>> /\ allow \in BOOLEAN /\ block \in Nat
  BY <1>1, BlockStep
<1>3. ThresholdInv'
  BY <1>1, <1>2 DEF ThresholdInv
<1>4. num_blocks(t) \in Nat /\ DOMAIN scored \subseteq Doc
  BY <1>2, BlockFacts DEF ThresholdInv
<1>5. \A j \in 1 .. DocFreq(t) : BlockOf(j) \in Nat
  BY <1>2, BlockFacts
<1>6. block' \in Nat /\ block' >= block
  <2>1. leap \in Nat /\ leap >= block
    BY <1>1, <1>2, LeapForward
  <2> QED
    BY <1>1, <1>2, <1>4, <2>1
<1>7. ASSUME NEW j \in 1 .. DocFreq(t), BlockOf(j) >= block, t.docs[j] \in DOMAIN scored
      PROVE  BlockOf(j) >= block'
  <2>1. later # {} /\ leap <= BlockOf(j)
    BY <1>1, <1>2, <1>4, <1>7, LeapKeepsScored
  <2>2. block' = leap
    BY <1>1, <2>1
  <2> HIDE DEF leap
  <2> QED
    BY <1>5, <1>6, <2>1, <2>2
<1>8. \A d \in DOMAIN scored : Left(req, t, block', d) = Left(req, t, block, d)
  <2> SUFFICES ASSUME NEW d \in DOMAIN scored PROVE Left(req, t, block', d) = Left(req, t, block, d)
    OBVIOUS
  <2>1. \A j \in 1 .. DocFreq(t) : t.docs[j] = d => (BlockOf(j) >= block' <=> BlockOf(j) >= block)
    BY <1>2, <1>5, <1>6, <1>7
  <2> QED
    BY <2>1 DEF Left
<1> HIDE DEF t, later, leap, hi
<1>9. BlockInv'
  <2>0. Head(pending) = t
    BY DEF t
  <2>1. \A d \in DOMAIN scored :
           scored[d] + Left(req, t, block', d) + ScoreOf(req, Tail(pending), d) = Total(req, fields, d)
    BY <1>2, <1>8, <2>0 DEF BlockInv
  <2>2. BoundOf(req, t) < threshold
    BY <1>1, <1>2, <2>0 DEF BlockInv
  <2> QED
    BY <1>1, <1>2, <1>6, <2>1, <2>2 DEF BlockInv
<1> QED
  BY <1>1, <1>2, <1>3, <1>9 DEF Inv

LEMMA ScoreBlockInv == ASSUME Inv, ScoreBlock PROVE Inv'
<1> DEFINE t == Head(pending)
           D == DOMAIN scored
           take == {d \in block_doc_ids(t, block) :
                       (d \in D \/ AllowNow) /\ score_doc(t, d) > 0}
           old(d) == IF d \in D THEN scored[d] ELSE 0
           C(d) == ContributionOf(req, t, d)
           R(d) == ScoreOf(req, Tail(pending), d)
           T(d) == Total(req, fields, d)
           L(d) == Left(req, t, block, d)
           M(d) == Left(req, t, block + 1, d)
<1>1. /\ phase = "block" /\ req' = req /\ pending' = pending /\ fields' = fields
      /\ threshold' = threshold /\ allow' = allow /\ phase' = "block"
      /\ block < num_blocks(t) /\ block' = block + 1
      /\ IF LiveIn(req) THEN GateOpen ELSE ~skippable
      /\ scored' = [d \in D \cup take |-> old(d) + IF d \in take THEN score_doc(t, d) ELSE 0]
  BY RequestConstants DEF Inv, Typed, ScoreBlock, Current
<1>2. /\ Typed' /\ FieldInv' /\ IsRequest(req) /\ ThresholdInv /\ BlockInv /\ FieldInv
      /\ t \in ScorableToken /\ Head(pending') = t /\ pending # <<>> /\ allow \in BOOLEAN /\ block \in Nat
  BY <1>1, BlockStep
<1>3. \A d \in Doc : C(d) \in Nat /\ R(d) \in Nat
  BY <1>1, BlockStep
<1>4. num_blocks(t) \in Nat /\ D \subseteq Doc /\ \A d \in D : scored[d] \in Nat
  BY <1>2, BlockFacts DEF ThresholdInv
<1>5. block_doc_ids(t, block) \subseteq Doc /\ take \subseteq Doc
  BY <1>1, <1>2, BlockRange
<1>6. ASSUME NEW d \in block_doc_ids(t, block)
      PROVE  /\ score_doc(t, d) = C(d) /\ L(d) = C(d) /\ M(d) = 0 /\ d \in Doc
  <2>1. PICK j \in 1 .. DocFreq(t) : BlockOf(j) = block /\ t.docs[j] = d
    BY <1>2, BlockFacts
  <2>2. d \in Doc /\ t.freq[d] > 0
    BY <1>2, <2>1, TokenFacts
  <2>3. score_doc(t, d) = C(d)
    BY <1>2, <2>2, ContributionType, RequestConstants
  <2>4. BlockOf(j) >= block
    BY <1>2, <2>1
  <2>5. \A i \in 1 .. DocFreq(t) : t.docs[i] = d => ~(BlockOf(i) >= block + 1)
    <3> SUFFICES ASSUME NEW i \in 1 .. DocFreq(t), t.docs[i] = d PROVE ~(BlockOf(i) >= block + 1)
      OBVIOUS
    <3>1. i = j
      BY <1>2, <2>1, TokenFacts
    <3> QED
      BY <1>2, <2>1, <3>1
  <2> QED
    BY <2>1, <2>2, <2>3, <2>4, <2>5 DEF Left
<1>7. ASSUME NEW d \in Doc, d \notin block_doc_ids(t, block) PROVE M(d) = L(d)
  <2>1. \A j \in 1 .. DocFreq(t) : t.docs[j] = d => (BlockOf(j) >= block + 1 <=> BlockOf(j) >= block)
    <3> SUFFICES ASSUME NEW j \in 1 .. DocFreq(t), t.docs[j] = d
                 PROVE  BlockOf(j) >= block + 1 <=> BlockOf(j) >= block
      OBVIOUS
    <3>1. BlockOf(j) \in Nat /\ BlockOf(j) # block
      BY <1>2, <1>7, BlockFacts
    <3> QED
      BY <1>2, <3>1
  <2> QED
    BY <2>1 DEF Left
<1>8. \A d \in Doc : L(d) \in Nat /\ M(d) \in Nat
  BY <1>2, LeftFacts
<1>9. ASSUME NEW d \in Doc \ D, ~(L(d) + R(d) = T(d)) PROVE ~LiveIn(req) /\ ~allow
  <2>1. \/ LiveIn(req) /\ block >= num_blocks(t)
        \/ ~LiveIn(req) /\ ~allow
    BY <1>2, <1>9 DEF BlockInv
  <2> QED
    BY <1>1, <1>2, <1>4, <2>1
<1>10. \A d \in D : scored[d] + L(d) + R(d) = T(d)
  BY <1>2 DEF BlockInv
<1>11. AllowNow <=> (LiveIn(req) \/ allow)
  BY <1>1, <1>2, RequestConstants DEF AllowNow
<1> HIDE DEF t, C, R, T, L, M
<1>12. DOMAIN scored' = D \cup take
  BY <1>1
<1>13. ASSUME NEW d \in D \cup take
       PROVE  /\ scored'[d] \in Nat
              /\ d \in D => scored'[d] >= scored[d]
              /\ scored'[d] + M(d) + R(d) = T(d)
  <2>0. d \in Doc /\ C(d) \in Nat /\ R(d) \in Nat /\ L(d) \in Nat /\ M(d) \in Nat
    BY <1>3, <1>4, <1>5, <1>8
  <2>1. scored'[d] = old(d) + IF d \in take THEN score_doc(t, d) ELSE 0
    BY <1>1
  <2>2. old(d) \in Nat
    BY <1>4
  <2>3. d \in D \/ L(d) + R(d) = T(d)
    <3> SUFFICES ASSUME d \notin D PROVE L(d) + R(d) = T(d)
      OBVIOUS
    <3>1. AllowNow
      OBVIOUS
    <3> QED
      BY <1>9, <1>11, <2>0, <3>1
  <2>4. old(d) + L(d) + R(d) = T(d)
    <3>1. CASE d \in D
      BY <1>10, <3>1
    <3>2. CASE d \notin D
      BY <2>0, <2>3, <3>2
    <3> QED
      BY <3>1, <3>2
  <2>5. scored'[d] = old(d) + (IF d \in take THEN C(d) ELSE 0)
    BY <1>6, <2>1
  <2>6. L(d) = M(d) + (IF d \in take THEN C(d) ELSE 0)
    <3>1. CASE d \in take
      BY <1>6, <2>0, <3>1
    <3>2. CASE d \notin take /\ d \in block_doc_ids(t, block)
      <4>1. ~(score_doc(t, d) > 0)
        BY <3>2
      <4> QED
        BY <1>6, <2>0, <3>2, <4>1
    <3>3. CASE d \notin take /\ d \notin block_doc_ids(t, block)
      BY <1>7, <2>0, <3>3
    <3> QED
      BY <3>1, <3>2, <3>3
  <2> DEFINE x == IF d \in take THEN C(d) ELSE 0
  <2>7. x \in Nat
    BY <2>0
  <2>8. d \in D => old(d) = scored[d]
    OBVIOUS
  <2> HIDE DEF x, old, take
  <2>9. scored'[d] = old(d) + x /\ L(d) = M(d) + x
    BY <2>5, <2>6 DEF x
  <2> QED
    BY <2>0, <2>2, <2>4, <2>7, <2>8, <2>9
<1>14. ASSUME NEW d \in Doc \ (D \cup take)
       PROVE  M(d) + R(d) = T(d) \/ (~LiveIn(req) /\ ~allow)
  <2>0. d \in Doc /\ (L(d) + R(d) = T(d) \/ (~LiveIn(req) /\ ~allow))
    <3>1. d \in Doc \ D
      OBVIOUS
    <3>2. \A e \in Doc \ D : L(e) + R(e) = T(e) \/ (~LiveIn(req) /\ ~allow)
      BY <1>9
    <3> HIDE DEF D, take
    <3> QED
      BY <3>1, <3>2
  <2>1. CASE d \notin block_doc_ids(t, block)
    <3>1. M(d) = L(d)
      BY <1>7, <2>0, <2>1
    <3> QED
      BY <2>0, <3>1
  <2>2. CASE d \in block_doc_ids(t, block) /\ AllowNow
    <3>1. ~(score_doc(t, d) > 0)
      BY <2>2
    <3>2. L(d) = 0 /\ M(d) = 0
      BY <1>3, <1>6, <2>2, <3>1
    <3> QED
      BY <2>0, <3>2
  <2>3. CASE ~AllowNow
    BY <1>11, <2>3
  <2> QED
    BY <2>1, <2>2, <2>3
<1> HIDE DEF take, D
<1>15. ThresholdInv'
  <2>1. DOMAIN scored' \subseteq Doc /\ scored' \in [DOMAIN scored' -> Nat]
    <3>1. scored' = [d \in D \cup take |-> scored'[d]]
      BY <1>1
    <3>2. scored' \in [D \cup take -> Nat]
      BY <1>13, <3>1
    <3> QED
      BY <1>4, <1>5, <1>12, <3>2
  <2>2. ASSUME threshold # NegInf
        PROVE  Cardinality({d \in DOMAIN scored' : scored'[d] >= threshold}) >= req.limit
    <3>1. Cardinality({d \in D : scored[d] >= threshold}) >= req.limit /\ threshold \in Nat /\ req.limit \in Nat
      BY <1>2, <2>2 DEF ThresholdInv, IsRequest, D
    <3>2. \A d \in D : scored[d] >= threshold => scored'[d] >= threshold
      BY <1>4, <1>13, <3>1
    <3>3. D \in SUBSET Doc /\ D \cup take \in SUBSET Doc /\ D \subseteq D \cup take
      BY <1>4, <1>5
    <3>4. Cardinality({d \in D \cup take : scored'[d] >= threshold}) >= req.limit
      <4> DEFINE P == {d \in D : scored[d] >= threshold}
                 Q == {d \in D \cup take : scored'[d] >= threshold}
      <4>1. Q \in SUBSET Doc /\ P \in SUBSET Q /\ Cardinality(P) >= req.limit /\ req.limit \in Nat
        BY <3>1, <3>2, <3>3
      <4> HIDE DEF P, Q
      <4>2. Cardinality(Q) >= req.limit
        BY <4>1, CountMonotone
      <4> QED
        BY <4>2 DEF Q
    <3> QED
      BY <1>12, <3>4
  <2> QED
    BY <1>1, <1>2, <2>1, <2>2 DEF ThresholdInv
<1>16. ASSUME LiveIn(req), NEW d \in D \cup take PROVE M(d) = 0
  <2>0. d \in Doc
    BY <1>4, <1>5
  <2>1. CASE d \in block_doc_ids(t, block)
    BY <1>6, <2>1
  <2>2. CASE d \notin block_doc_ids(t, block)
    <3>1. d \in D
      BY <2>2 DEF take
    <3>2. L(d) = 0
      BY <1>2, <1>16, <3>1 DEF BlockInv, L, t, D
    <3> QED
      BY <1>7, <2>0, <2>2, <3>2
  <2> QED
    BY <2>1, <2>2
<1>17. BlockInv'
  <2>0. ~LiveIn(req) /\ ~allow => BoundOf(req, t) < threshold
    BY <1>2 DEF BlockInv, t
  <2>1. \A d \in D \cup take : scored'[d] + Left(req, t, block + 1, d) + ScoreOf(req, Tail(pending), d) = Total(req, fields, d)
    BY <1>13 DEF M, R, T
  <2>2. \A d \in Doc \ (D \cup take) :
           \/ Left(req, t, block + 1, d) + ScoreOf(req, Tail(pending), d) = Total(req, fields, d)
           \/ ~LiveIn(req) /\ ~allow
    BY <1>14 DEF M, R, T
  <2>3. LiveIn(req) => \A d \in D \cup take : Left(req, t, block + 1, d) = 0
    BY <1>16 DEF M
  <2>4. block + 1 \in Nat
    BY <1>2
  <2>5. Head(pending) = t
    BY DEF t
  <2> QED
    BY <1>1, <1>2, <1>12, <2>0, <2>1, <2>2, <2>3, <2>4, <2>5 DEF BlockInv
<1> QED
  BY <1>1, <1>2, <1>15, <1>17 DEF Inv

LEMMA EndTokenInv == ASSUME Inv, EndToken PROVE Inv'
<1> DEFINE t == Head(pending)
           rest == Tail(pending)
           D == DOMAIN scored
<1>1. /\ phase = "block" /\ req' = req /\ pending' = rest /\ fields' = fields
      /\ scored' = scored /\ phase' = "token" /\ block >= num_blocks(t)
      /\ threshold' = IF Cardinality(D) >= req.limit THEN KthScore(scored) ELSE threshold
  BY DEF EndToken, Current
<1>2. /\ IsRequest(req) /\ FieldInv /\ ThresholdInv /\ BlockInv /\ pending # <<>>
      /\ block \in Nat /\ allow \in BOOLEAN /\ req.limit \in Nat /\ req.limit > 0
  BY <1>1 DEF Inv, Typed, BlockInv, FieldInv, IsRequest
<1>3. /\ t \in ScorableToken /\ t = pending[1] /\ BoundOf(req, t) \in Int
      /\ Len(pending) \in Nat /\ Len(pending) >= 1
      /\ rest \in Seq(ScorableToken) /\ Len(rest) = Len(pending) - 1
      /\ \A i \in 1 .. Len(rest) : rest[i] = pending[i + 1]
      /\ \A d \in Doc : ScoreOf(req, rest, d) \in Nat
  BY <1>2, PendingFacts
<1>4. /\ D \in SUBSET Doc /\ scored \in [D -> Nat] /\ threshold \in Nat \cup {NegInf}
      /\ threshold # NegInf => Cardinality({d \in D : scored[d] >= threshold}) >= req.limit
  BY <1>2 DEF ThresholdInv
<1>5. \A d \in Doc : Left(req, t, block, d) = 0
  BY <1>1, <1>2, <1>3, LeftFacts
<1> HIDE DEF t, rest, D
<1>6. ASSUME Cardinality(D) >= req.limit
      PROVE  /\ KthScore(scored) \in Nat /\ threshold <= KthScore(scored)
             /\ Cardinality({d \in D : scored[d] >= KthScore(scored)}) >= req.limit
  <2> DEFINE K == KthScore(scored)
             P == {d \in D : scored[d] >= threshold}
             Q == {d \in D : scored[d] > K}
  <2>1. K \in Nat /\ Cardinality(Q) < req.limit /\ Cardinality({d \in D : scored[d] >= K}) >= req.limit
    BY <1>2, <1>4, <1>6, KthScoreFacts
  <2>2. threshold <= K
    <3>1. CASE threshold = NegInf
      BY <2>1, <3>1 DEF NegInf
    <3>2. CASE threshold # NegInf
      <4> HIDE DEF K
      <4> SUFFICES ASSUME K < threshold PROVE FALSE
        BY <1>4, <2>1, <3>2
      <4>1. threshold \in Nat /\ \A d \in D : scored[d] \in Nat
        BY <1>4, <3>2
      <4>2. P \in SUBSET Q /\ Q \in SUBSET Doc
        BY <1>4, <2>1, <4>1
      <4>3. Cardinality(P) >= req.limit
        BY <1>4, <3>2
      <4> HIDE DEF P, Q
      <4>4. Cardinality(Q) >= req.limit
        BY <1>2, <4>2, <4>3, CountMonotone
      <4>5. Cardinality(Q) \in Nat
        <5>1. IsFiniteSet(Doc)
          BY SizeAssumption, FS_Interval DEF Doc
        <5> QED
          BY <4>2, <5>1, FS_Subset, FS_CardinalityType
      <4> QED
        BY <1>2, <2>1, <4>4, <4>5
    <3> QED
      BY <3>1, <3>2
  <2> QED
    BY <2>1, <2>2
<1>7. threshold' \in Nat \cup {NegInf} /\ threshold <= threshold' /\ threshold' \in Int /\ threshold \in Int
  <2>1. threshold \in Int
    BY <1>4 DEF NegInf
  <2>2. CASE Cardinality(D) >= req.limit
    BY <1>1, <1>6, <2>1, <2>2
  <2>3. CASE ~(Cardinality(D) >= req.limit)
    BY <1>1, <1>4, <2>1, <2>3
  <2> QED
    BY <2>2, <2>3
<1>8. ThresholdInv'
  <2>1. DOMAIN scored' = D
    BY <1>1 DEF D
  <2>2. threshold' # NegInf => Cardinality({d \in D : scored[d] >= threshold'}) >= req.limit
    <3>1. CASE Cardinality(D) >= req.limit
      BY <1>1, <1>6, <3>1
    <3>2. CASE ~(Cardinality(D) >= req.limit)
      BY <1>1, <1>4, <3>2
    <3> QED
      BY <3>1, <3>2
  <2> QED
    BY <1>1, <1>4, <1>7, <2>1, <2>2 DEF ThresholdInv
<1>9. FieldInv'
  <2>1. \A i \in 1 .. Len(rest) : i \in Nat /\ i + 1 \in 1 .. Len(pending)
    BY <1>3
  <2>2. \A i \in 1 .. Len(rest) : rest[i].docs # <<>>
    BY <1>2, <1>3, <2>1 DEF FieldInv
  <2>3. ASSUME NEW i \in 1 .. Len(rest), NEW j \in 1 .. Len(rest), i < j
        PROVE  BoundOf(req, rest[i]) >= BoundOf(req, rest[j])
    <3>1. i + 1 < j + 1
      BY <2>1, <2>3
    <3> QED
      BY <1>2, <1>3, <2>1, <3>1 DEF FieldInv
  <2>4. LiveIn(req) => Len(rest) <= 1
    BY <1>2, <1>3 DEF FieldInv
  <2> QED
    BY <1>1, <1>2, <1>3, <2>2, <2>3, <2>4 DEF FieldInv
<1>10. Typed'
  BY <1>1, <1>2 DEF Typed
<1>11. LiveIn(req) => rest = <<>>
  <2> SUFFICES ASSUME LiveIn(req) PROVE rest = <<>>
    OBVIOUS
  <2>1. Len(rest) = 0
    <3>1. Len(pending) <= 1
      BY <1>2 DEF FieldInv
    <3> QED
      BY <1>3, <3>1
  <2> QED
    BY <1>3, <2>1, EmptySeq
<1>12. \A d \in D : scored[d] + ScoreOf(req, rest, d) = Total(req, fields, d)
  <2> SUFFICES ASSUME NEW d \in D PROVE scored[d] + ScoreOf(req, rest, d) = Total(req, fields, d)
    OBVIOUS
  <2>1. scored[d] + Left(req, t, block, d) + ScoreOf(req, rest, d) = Total(req, fields, d)
    BY <1>2 DEF BlockInv, t, rest, D
  <2>2. Left(req, t, block, d) = 0 /\ scored[d] \in Nat /\ ScoreOf(req, rest, d) \in Nat
    BY <1>3, <1>4, <1>5
  <2> QED
    BY <2>1, <2>2
<1>13. ASSUME NEW d \in Doc \ D
       PROVE  ScoreOf(req, rest, d) = Total(req, fields, d) \/ Shut'
  <2>1. \/ Left(req, t, block, d) + ScoreOf(req, rest, d) = Total(req, fields, d)
        \/ LiveIn(req)
        \/ ~LiveIn(req) /\ ~allow
    BY <1>2 DEF BlockInv, t, rest, D
  <2>2. CASE Left(req, t, block, d) + ScoreOf(req, rest, d) = Total(req, fields, d)
    BY <1>3, <1>5, <2>2
  <2>3. CASE LiveIn(req)
    <3>1. pending' = <<>> /\ Len(pending') = 0
      BY <1>1, <1>11, <2>3
    <3> QED
      BY <3>1 DEF Shut
  <2>4. CASE ~LiveIn(req) /\ ~allow
    <3>1. BoundOf(req, t) < threshold
      BY <1>2, <2>4 DEF BlockInv, t
    <3>2. ASSUME NEW i \in 1 .. Len(rest) PROVE BoundOf(req, rest[i]) < threshold'
      <4>1. 1 \in 1 .. Len(pending) /\ i + 1 \in 1 .. Len(pending) /\ 1 < i + 1
        BY <1>3
      <4>2. BoundOf(req, t) >= BoundOf(req, rest[i])
        BY <1>2, <1>3, <4>1 DEF FieldInv
      <4>3. BoundOf(req, rest[i]) \in Int
        <5>1. rest[i] \in ScorableToken
          BY <1>3, ElementOfSeq
        <5>2. rest[i].docs # <<>>
          BY <1>2, <1>3, <4>1 DEF FieldInv
        <5>3. DocFreq(rest[i]) > 0
          <6>1. rest[i].docs \in Seq(Doc)
            BY <5>1, TokenFacts
          <6>2. Len(rest[i].docs) \in Nat /\ Len(rest[i].docs) # 0
            BY <5>2, <6>1, LenProperties, EmptySeq
          <6> QED
            BY <6>2 DEF DocFreq
        <5> QED
          BY <1>2, <5>1, <5>3, MaxContribType, RequestConstants
      <4> QED
        BY <1>3, <1>7, <3>1, <4>2, <4>3
    <3> QED
      BY <1>1, <2>4, <3>2 DEF Shut
  <2> QED
    BY <2>1, <2>2, <2>3, <2>4
<1>14. TokenInv'
  <2>1. DOMAIN scored' = D
    BY <1>1 DEF D
  <2> QED
    BY <1>1, <1>11, <1>12, <1>13, <2>1 DEF TokenInv
<1> QED
  BY <1>1, <1>8, <1>9, <1>10, <1>14 DEF Inv

-----------------------------------------------------------------------------
(* The theorems.                                                           *)

\* Every step of a ranked search keeps the invariant.
THEOREM InvHolds == Spec => []Inv
<1>1. ASSUME Inv, [Next]_vars PROVE Inv'
  <2>1. CASE StartStream \/ StreamPosting \/ StreamEnd
    BY <1>1, <2>1, StreamInv
  <2>2. CASE StartReference
    BY <1>1, <2>2, StartReferenceInv
  <2>3. CASE StartToken
    BY <1>1, <2>3, StartTokenInv
  <2>4. CASE StopEarly
    BY <1>1, <2>4, StopEarlyInv
  <2>5. CASE SkipBlock
    BY <1>1, <2>5, SkipBlockInv
  <2>6. CASE ScoreBlock
    BY <1>1, <2>6, ScoreBlockInv
  <2>7. CASE EndToken
    BY <1>1, <2>7, EndTokenInv
  <2>8. CASE EndField
    BY <1>1, <2>8, EndFieldInv
  <2>9. CASE UNCHANGED vars
    BY <1>1, <2>9 DEF vars, Inv, Typed, FieldInv, ThresholdInv, TokenInv, BlockInv, Shut
  <2> QED
    BY <1>1, <2>1, <2>2, <2>3, <2>4, <2>5, <2>6, <2>7, <2>8, <2>9 DEF Next
<1> QED
  BY InitInv, <1>1, PTL DEF Spec

\* Whatever blocks the MaxScore walk skips, and whether or not its bounds are
\* sharp, a scored document has the contributions of all the tokens walked.
THEOREM ScoresCompleteHolds == Spec => []ScoresComplete
<1>1. Inv => ScoresComplete
  <2> SUFFICES ASSUME Inv, phase = "token", NEW d \in DOMAIN scored
               PROVE  scored[d] + FieldScore(pending, d) = FieldScore(req.fields[Len(req.fields) - Len(fields)], d)
    BY DEF ScoresComplete
  <2>1. scored[d] + ScoreOf(req, pending, d) = Total(req, fields, d)
    BY DEF Inv, TokenInv
  <2> QED
    BY <2>1, RequestConstants DEF Total
<1> QED
  BY InvHolds, <1>1, PTL
=============================================================================
