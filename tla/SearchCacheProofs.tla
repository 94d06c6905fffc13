------------------------- MODULE SearchCacheProofs -------------------------
(***************************************************************************)
(* Proofs about SearchCache, for any number of searchers, writers and      *)
(* keys, every capacity and any number of changes.                         *)
(***************************************************************************)
EXTENDS SearchCache, SequenceTheorems, TLAPS

-----------------------------------------------------------------------------
(* The inductive invariant.                                                *)

\* A searcher is never invalidating, has its key from the miss to the
\* insertion and its response from the read to the insertion; what it saw of
\* the index is not ahead of it.
SearchersSound ==
    \A a \in Searcher :
        /\ pc[a] \notin {"invalidate", "invalidate_only"}
        /\ pc[a] # "idle" => key[a] \in Key
        /\ pc[a] = "put" => response[a] # {}
        /\ probed[a] # None => probed[a] <= generation

\* A missing index has no terms to build.
MissingIsClean == terms_dirty => exists

Inv ==
    /\ TypeOK
    /\ CacheBounded
    /\ SearchersSound
    /\ MissingIsClean
    /\ FreshUnlessRaced
    /\ DirtyReadsAreRaced

-----------------------------------------------------------------------------
(* The queue of the cache.                                                 *)

\* A key that is not queued goes to the back.
LEMMA QueueAppend ==
    ASSUME NEW q \in Seq(Key), NEW k \in Key, IsInjective(q), k \notin ToSet(q)
    PROVE  /\ Append(q, k) \in Seq(Key)
           /\ IsInjective(Append(q, k))
           /\ ToSet(Append(q, k)) = ToSet(q) \cup {k}
           /\ Len(Append(q, k)) = Len(q) + 1
<1> DEFINE p == Append(q, k)
<1>1. /\ p \in Seq(Key) /\ Len(p) = Len(q) + 1
      /\ \A i \in 1 .. Len(q) : p[i] = q[i]
      /\ p[Len(q) + 1] = k
  BY AppendProperties
<1>2. Len(q) \in Nat /\ DOMAIN q = 1 .. Len(q) /\ DOMAIN p = 1 .. (Len(q) + 1)
  BY <1>1, LenProperties
<1> HIDE DEF p
<1>3. \A i \in 1 .. Len(q) : q[i] \in ToSet(q)
  BY <1>2 DEF ToSet
<1>4. IsInjective(p)
  <2> SUFFICES ASSUME NEW i \in 1 .. (Len(q) + 1), NEW j \in 1 .. (Len(q) + 1),
                      p[i] = p[j]
               PROVE  i = j
    BY <1>2 DEF IsInjective
  <2>1. CASE i \in 1 .. Len(q) /\ j \in 1 .. Len(q)
    BY <2>1, <1>1, <1>2 DEF IsInjective
  <2>2. CASE i \in 1 .. Len(q) /\ j = Len(q) + 1
    BY <2>2, <1>1, <1>3
  <2>3. CASE i = Len(q) + 1 /\ j \in 1 .. Len(q)
    BY <2>3, <1>1, <1>3
  <2> QED
    BY <2>1, <2>2, <2>3, <1>2
<1>5. ToSet(p) = ToSet(q) \cup {k}
  BY <1>1, <1>2 DEF ToSet
<1> QED
  BY <1>1, <1>4, <1>5 DEF p

\* The front of the queue is dropped.
LEMMA QueueTail ==
    ASSUME NEW q \in Seq(Key), q # <<>>, IsInjective(q)
    PROVE  /\ Tail(q) \in Seq(Key)
           /\ IsInjective(Tail(q))
           /\ ToSet(Tail(q)) = ToSet(q) \ {Head(q)}
           /\ Len(Tail(q)) = Len(q) - 1
<1> DEFINE p == Tail(q)
<1>1. /\ p \in Seq(Key) /\ Len(p) = Len(q) - 1
      /\ \A i \in 1 .. Len(p) : p[i] = q[i + 1]
      /\ Head(q) = q[1]
  BY HeadTailProperties
<1>2. Len(q) \in Nat \ {0} /\ DOMAIN q = 1 .. Len(q) /\ DOMAIN p = 1 .. (Len(q) - 1)
  BY <1>1, LenProperties, EmptySeq
<1> HIDE DEF p
<1>3. IsInjective(p)
  <2> SUFFICES ASSUME NEW i \in 1 .. (Len(q) - 1), NEW j \in 1 .. (Len(q) - 1),
                      p[i] = p[j]
               PROVE  i = j
    BY <1>2 DEF IsInjective
  <2>1. i + 1 \in DOMAIN q /\ j + 1 \in DOMAIN q /\ q[i + 1] = q[j + 1]
    BY <1>1, <1>2
  <2>2. i + 1 = j + 1
    BY <2>1 DEF IsInjective
  <2> QED
    BY <2>2
<1>4. ToSet(p) \subseteq ToSet(q) \ {Head(q)}
  <2> SUFFICES ASSUME NEW i \in 1 .. (Len(q) - 1)
               PROVE  p[i] \in ToSet(q) /\ p[i] # q[1]
    BY <1>1, <1>2 DEF ToSet
  <2>1. i + 1 \in DOMAIN q /\ 1 \in DOMAIN q /\ p[i] = q[i + 1] /\ i + 1 # 1
    BY <1>1, <1>2
  <2> QED
    BY <2>1 DEF IsInjective, ToSet
<1>5. ToSet(q) \ {Head(q)} \subseteq ToSet(p)
  <2> SUFFICES ASSUME NEW i \in 1 .. Len(q), q[i] # q[1] PROVE q[i] \in ToSet(p)
    BY <1>1, <1>2 DEF ToSet
  <2>1. i - 1 \in DOMAIN p /\ p[i - 1] = q[i]
    BY <1>1, <1>2
  <2> QED
    BY <2>1 DEF ToSet
<1> QED
  BY <1>1, <1>3, <1>4, <1>5 DEF p

-----------------------------------------------------------------------------
(* Every step keeps the invariant.                                         *)

\* Steps that leave cache and queue alone keep them faithful.
LEMMA SameCache ==
    ASSUME CacheBounded, UNCHANGED cache PROVE CacheBounded'
  BY DEF CacheBounded, cache

LEMMA InitInv == Init => Inv
<1> SUFFICES ASSUME Init PROVE Inv
  OBVIOUS
<1> USE CacheConstants DEF Init
<1>1. order \in Seq(Key) /\ Len(order) = 0 /\ DOMAIN order = {}
  OBVIOUS
<1>2. CacheBounded
  BY <1>1 DEF CacheBounded, IsInjective, ToSet
<1>3. TypeOK
  <2>1. exists \in BOOLEAN /\ terms_dirty \in BOOLEAN /\ raced \in BOOLEAN
    OBVIOUS
  <2>2. generation \in Gen
    BY DEF Gen
  <2>3. /\ entries \in [Key -> SUBSET Gen]
        /\ pc \in [Actor -> {"idle", "invalidate", "invalidate_only", "probe",
                             "materialize", "read", "put"}]
        /\ key \in [Searcher -> Key \cup {None}]
        /\ probed \in [Searcher -> Gen \cup {None}]
        /\ response \in [Searcher -> SUBSET Gen]
    OBVIOUS
  <2> QED
    BY <1>1, <2>1, <2>2, <2>3 DEF TypeOK
<1>4. SearchersSound /\ MissingIsClean /\ DirtyReadsAreRaced
  BY DEF SearchersSound, MissingIsClean, DirtyReadsAreRaced, Actor
<1>5. FreshUnlessRaced
  BY DEF FreshUnlessRaced, Fresh
<1> QED
  BY <1>2, <1>3, <1>4, <1>5 DEF Inv

\* A writer that changes the index raises its generation and stays on its way
\* to the cache.
LEMMA ChangeInv ==
    ASSUME Inv, NEW w \in Writer, NEW dirty \in BOOLEAN,
           NEW next \in {"invalidate", "invalidate_only"},
           Change(w, dirty, next), exists' \in BOOLEAN, dirty => exists'
    PROVE  Inv'
<1> USE CacheConstants DEF Inv, Change, Goto, locals, cache
<1>1. TypeOK'
  BY DEF TypeOK, Gen, Actor
<1>2. w \notin Searcher /\ w \in Actor /\ generation \in Nat /\ generation' = generation + 1
  BY DEF Actor, TypeOK, Gen
<1>3. SearchersSound'
  <2> SUFFICES ASSUME NEW a \in Searcher
               PROVE  /\ pc'[a] \notin {"invalidate", "invalidate_only"}
                      /\ pc'[a] # "idle" => key'[a] \in Key
                      /\ pc'[a] = "put" => response'[a] # {}
                      /\ probed'[a] # None => probed'[a] <= generation'
    BY DEF SearchersSound
  <2>1. pc'[a] = pc[a] /\ probed[a] \in Gen \cup {None}
    BY <1>2 DEF TypeOK, Actor
  <2> QED
    BY <1>2, <2>1 DEF SearchersSound, Gen
<1>4. Invalidating'
  BY <1>2 DEF Invalidating, TypeOK
<1>5. DirtyReadsAreRaced'
  <2> SUFFICES ASSUME NEW a \in Searcher PROVE probed'[a] # generation'
    BY DEF DirtyReadsAreRaced
  <2> QED
    BY <1>2 DEF SearchersSound, TypeOK, Gen
<1> QED
  BY <1>1, <1>3, <1>4, <1>5, SameCache DEF MissingIsClean, FreshUnlessRaced

\* Invalidation empties the cache.
LEMMA InvalidateInv ==
    ASSUME Inv, NEW w \in Writer, invalidate_search_cache(w)
    PROVE  Inv'
<1> USE CacheConstants DEF Inv, invalidate_search_cache, Goto, store, locals
<1>1. order' \in Seq(Key) /\ Len(order') = 0 /\ DOMAIN order' = {}
  OBVIOUS
<1>2. TypeOK'
  BY <1>1 DEF TypeOK, Actor
<1>3. CacheBounded'
  BY <1>1 DEF CacheBounded, IsInjective, ToSet
<1>4. \A a \in Searcher : pc'[a] = pc[a]
  BY DEF TypeOK, Actor
<1>5. SearchersSound' /\ MissingIsClean' /\ DirtyReadsAreRaced'
  BY <1>4 DEF SearchersSound, MissingIsClean, DirtyReadsAreRaced
<1>6. Fresh'
  BY DEF Fresh
<1> QED
  BY <1>2, <1>3, <1>5, <1>6 DEF FreshUnlessRaced

\* The other steps of writers and the probes of everyone.
LEMMA RefreshInv == ASSUME Inv, NEW w \in Writer, RefreshIndex(w) PROVE Inv'
<1> USE CacheConstants DEF Inv, RefreshIndex, Goto, locals, cache
<1>1. TypeOK'
  BY DEF TypeOK, Actor
<1>2. w \notin Searcher /\ w \in Actor /\ (\A a \in Searcher : pc'[a] = pc[a])
  BY DEF TypeOK, Actor
<1>3. Invalidating'
  BY <1>2 DEF Invalidating, TypeOK
<1> QED
  BY <1>1, <1>2, <1>3, SameCache DEF SearchersSound, MissingIsClean,
     FreshUnlessRaced, DirtyReadsAreRaced

LEMMA CreateIndexInv == ASSUME Inv, NEW w \in Writer, CreateIndex(w) PROVE Inv'
<1> USE CacheConstants DEF Inv, CreateIndex, Goto, locals, cache
<1>1. TypeOK'
  BY DEF TypeOK, Actor
<1>2. w \notin Searcher /\ w \in Actor /\ (\A a \in Searcher : pc'[a] = pc[a])
  BY DEF TypeOK, Actor
<1>3. Invalidating => Invalidating'
  BY <1>2 DEF Invalidating, TypeOK, Actor
<1> QED
  BY <1>1, <1>2, <1>3, SameCache DEF SearchersSound, MissingIsClean,
     FreshUnlessRaced, Fresh, DirtyReadsAreRaced

\* A probe sends a searcher to its read only when there is nothing to build.
LEMMA TermsInv ==
    ASSUME Inv, NEW a \in Actor, ProbeTerms(a) \/ MaterializeTerms(a)
    PROVE  Inv'
<1> USE CacheConstants DEF Inv, ProbeTerms, MaterializeTerms, Goto, store, cache, AfterTerms
<1>1. /\ generation' = generation /\ UNCHANGED <<exists, cache, key, response, raced>>
      /\ probed' = Probed(a) /\ pc[a] \in {"probe", "materialize"}
      /\ \A b \in Actor \ {a} : pc'[b] = pc[b]
      /\ pc'[a] \in {"materialize", AfterTerms(a)}
      /\ terms_dirty' => terms_dirty
      /\ pc'[a] = "read" => ~terms_dirty'
  BY DEF TypeOK, MissingIsClean
<1> HIDE DEF ProbeTerms, MaterializeTerms, AfterTerms
<1>2. TypeOK'
  <2>1. pc' \in [Actor -> {"idle", "invalidate", "invalidate_only", "probe",
                           "materialize", "read", "put"}]
    BY DEF TypeOK, ProbeTerms, MaterializeTerms, AfterTerms
  <2>2. terms_dirty' \in BOOLEAN
    BY DEF TypeOK, ProbeTerms, MaterializeTerms
  <2>3. probed' \in [Searcher -> Gen \cup {None}]
    BY <1>1 DEF TypeOK, Probed
  <2> QED
    BY <1>1, <2>1, <2>2, <2>3 DEF TypeOK
<1>3. SearchersSound' /\ DirtyReadsAreRaced'
  <2> SUFFICES ASSUME NEW b \in Searcher
               PROVE  /\ pc'[b] \notin {"invalidate", "invalidate_only"}
                      /\ pc'[b] # "idle" => key'[b] \in Key
                      /\ pc'[b] = "put" => response'[b] # {}
                      /\ probed'[b] # None => probed'[b] <= generation'
                      /\ pc'[b] = "read" /\ terms_dirty' => probed'[b] # generation'
    BY DEF SearchersSound, DirtyReadsAreRaced
  <2>1. CASE b = a
    BY <1>1, <2>1 DEF TypeOK, Probed, SearchersSound, AfterTerms, Gen
  <2>2. CASE b # a
    <3>1. probed'[b] = probed[b] /\ pc'[b] = pc[b]
      BY <1>1, <2>2 DEF TypeOK, Probed, Actor
    <3> QED
      BY <1>1, <3>1 DEF SearchersSound, DirtyReadsAreRaced
  <2> QED
    BY <2>1, <2>2
<1>4. Invalidating => Invalidating'
  BY <1>1 DEF Invalidating, Actor
<1> QED
  BY <1>1, <1>2, <1>3, <1>4, SameCache DEF MissingIsClean, FreshUnlessRaced, Fresh

LEMMA GetInv ==
    ASSUME Inv, NEW a \in Searcher, NEW k \in Key, search_cache_get(a, k) PROVE Inv'
<1> USE CacheConstants DEF Inv, search_cache_get, Goto, store, cache
<1>1. TypeOK' /\ a \notin Writer /\ a \in Actor
  BY DEF TypeOK, Actor
<1>2. /\ pc'[a] = "probe" /\ key'[a] = k
      /\ \A b \in Actor \ {a} : pc'[b] = pc[b]
      /\ \A b \in Searcher \ {a} : key'[b] = key[b]
  BY <1>1 DEF TypeOK
<1>3. SearchersSound' /\ DirtyReadsAreRaced'
  BY <1>1, <1>2 DEF SearchersSound, DirtyReadsAreRaced, Actor
<1>4. Invalidating => Invalidating'
  BY <1>1, <1>2 DEF Invalidating, Actor
<1> QED
  BY <1>1, <1>3, <1>4, SameCache DEF MissingIsClean, FreshUnlessRaced, Fresh

LEMMA ReadInv == ASSUME Inv, NEW a \in Searcher, with_search_reader(a) PROVE Inv'
<1> USE CacheConstants DEF Inv, with_search_reader, Goto, store, cache
<1>1. TypeOK' /\ a \notin Writer /\ a \in Actor
  BY DEF TypeOK, Actor
<1>2. /\ pc'[a] \in {"read", "probe", "put"} /\ response'[a] = response[a] \cup {generation}
      /\ pc[a] = "read" /\ key' = key
      /\ \A b \in Actor \ {a} : pc'[b] = pc[b]
      /\ \A b \in Searcher \ {a} : response'[b] = response[b]
  BY <1>1 DEF TypeOK
<1>3. SearchersSound' /\ DirtyReadsAreRaced'
  BY <1>1, <1>2 DEF SearchersSound, DirtyReadsAreRaced, Actor, TypeOK
<1>4. Invalidating => Invalidating'
  BY <1>1, <1>2 DEF Invalidating, Actor
<1> QED
  BY <1>1, <1>3, <1>4, SameCache DEF MissingIsClean, FreshUnlessRaced, Fresh

\* An insertion replaces a response in place, or queues the key and drops the
\* oldest one of a full cache.
LEMMA PutInv == ASSUME Inv, NEW a \in Searcher, search_cache_put(a) PROVE Inv'
<1> USE CacheConstants DEF Inv
<1> DEFINE k == key[a]
           full == Len(order) >= Capacity
           base == IF full THEN Tail(order) ELSE order
<1>1. /\ pc[a] = "put" /\ a \notin Writer /\ a \in Actor
      /\ k \in Key /\ response[a] \in SUBSET Gen /\ response[a] # {}
      /\ order \in Seq(Key) /\ Len(order) \in Nat
      /\ entries \in [Key -> SUBSET Gen]
  BY DEF search_cache_put, TypeOK, Actor, SearchersSound, Gen
<1>2. /\ pc' = [pc EXCEPT ![a] = "idle"]
      /\ key' = [key EXCEPT ![a] = None]
      /\ probed' = [probed EXCEPT ![a] = None]
      /\ response' = [response EXCEPT ![a] = {}]
      /\ raced' = (raced \/ response[a] # {generation})
      /\ UNCHANGED <<exists, generation, terms_dirty>>
  BY DEF search_cache_put, Goto, store
<1>3. /\ entries' \in [Key -> SUBSET Gen]
      /\ order' \in Seq(Key)
      /\ CacheBounded'
      /\ Fresh /\ response[a] = {generation} => Fresh'
  <2>1. CASE entries[k] # {}
    <3>1. entries' = [entries EXCEPT ![k] = response[a]] /\ order' = order
      BY <2>1 DEF search_cache_put
    <3>2. {q \in Key : entries'[q] # {}} = {q \in Key : entries[q] # {}}
      BY <1>1, <2>1, <3>1
    <3>3. CacheBounded'
      BY <3>1, <3>2 DEF CacheBounded
    <3> QED
      BY <1>1, <1>2, <3>1, <3>3 DEF Fresh
  <2>2. CASE entries[k] = {}
    <3>1. /\ order' = Append(base, k)
          /\ entries' = [q \in Key |-> IF q = k THEN response[a]
                                       ELSE IF full /\ q = Head(order) THEN {}
                                       ELSE entries[q]]
      BY <2>2 DEF search_cache_put
    <3>2. k \notin ToSet(order)
      BY <2>2 DEF CacheBounded
    <3>3. /\ base \in Seq(Key) /\ IsInjective(base) /\ Len(base) < Capacity
          /\ ToSet(base) = IF full THEN ToSet(order) \ {Head(order)} ELSE ToSet(order)
      <4>1. CASE full
        <5>1. order # <<>>
          BY <1>1, <4>1
        <5> QED
          BY <1>1, <4>1, <5>1, QueueTail DEF CacheBounded
      <4>2. CASE ~full
        BY <1>1, <4>2 DEF CacheBounded
      <4> QED
        BY <4>1, <4>2
    <3>4. /\ order' \in Seq(Key) /\ IsInjective(order')
          /\ ToSet(order') = ToSet(base) \cup {k}
          /\ Len(order') = Len(base) + 1
      <4> HIDE DEF base, k
      <4>1. k \notin ToSet(base)
        BY <3>2, <3>3
      <4> QED
        BY <1>1, <3>1, <3>3, <4>1, QueueAppend
    <3>5. ToSet(order') = {q \in Key : entries'[q] # {}}
      BY <1>1, <3>1, <3>3, <3>4 DEF CacheBounded
    <3>6. CacheBounded'
      <4>1. Len(base) \in Nat
        BY <3>3
      <4> QED
        BY <3>3, <3>4, <3>5, <4>1 DEF CacheBounded
    <3> QED
      BY <1>1, <1>2, <3>1, <3>4, <3>6 DEF Fresh
  <2> QED
    BY <2>1, <2>2
<1>4. TypeOK'
  BY <1>1, <1>2, <1>3 DEF TypeOK
<1>5. \A b \in Actor \ {a} : pc'[b] = pc[b]
  BY <1>1, <1>2 DEF TypeOK
<1>6. pc'[a] = "idle" /\ probed'[a] = None
      /\ \A b \in Searcher \ {a} : probed'[b] = probed[b] /\ key'[b] = key[b]
                                   /\ response'[b] = response[b]
  BY <1>1, <1>2 DEF TypeOK
<1>7. SearchersSound' /\ DirtyReadsAreRaced'
  BY <1>1, <1>2, <1>5, <1>6 DEF SearchersSound, DirtyReadsAreRaced, Actor
<1>8. FreshUnlessRaced'
  <2>1. Invalidating => Invalidating'
    BY <1>1, <1>5 DEF Invalidating, Actor
  <2> QED
    BY <1>2, <1>3, <2>1 DEF FreshUnlessRaced
<1> QED
  BY <1>2, <1>3, <1>4, <1>7, <1>8 DEF MissingIsClean

\* The inductive invariant holds of every reachable state.
THEOREM InvHolds == Spec => []Inv
<1>1. Init => Inv
  BY InitInv
<1>2. ASSUME Inv, [Next]_vars PROVE Inv'
  <2>1. ASSUME NEW w \in Writer, WriteOne(w) \/ WriteBulk(w) PROVE Inv'
    BY <1>2, <2>1, ChangeInv DEF WriteOne, WriteBulk
  <2>2. ASSUME NEW w \in Writer, DeleteIndex(w) PROVE Inv'
    BY <1>2, <2>2, ChangeInv DEF DeleteIndex
  <2>3. CASE UNCHANGED vars
    BY <1>2, <2>3 DEF vars, store, cache, locals, Inv, TypeOK, CacheBounded,
       SearchersSound, MissingIsClean, FreshUnlessRaced, Invalidating, Fresh,
       DirtyReadsAreRaced
  <2> QED
    BY <1>2, <2>1, <2>2, <2>3, RefreshInv, CreateIndexInv, InvalidateInv, TermsInv,
       GetInv, ReadInv, PutInv DEF Next
<1>3. Inv /\ [Next]_vars => Inv'
  BY <1>2
<1> QED
  BY <1>1, <1>3, PTL DEF Spec

\* The response cache of an index is a bounded map whose queue names each
\* entry once, whatever requests race for it (search_cache_put).
THEOREM CacheSoundHolds == Spec => []CacheSound
<1>1. Inv => CacheSound
  BY DEF Inv, CacheSound
<1> QED
  BY <1>1, InvHolds, PTL

\* A response is outdated, or a query meets an unbuilt dictionary, only after
\* a write went between two critical sections of one search.
THEOREM StaleOnlyIfRacedHolds == Spec => []StaleOnlyIfRaced
<1>1. Inv => StaleOnlyIfRaced
  BY DEF Inv, StaleOnlyIfRaced
<1> QED
  BY <1>1, InvHolds, PTL
=============================================================================
