---------------------------- MODULE SearchCache ----------------------------
(***************************************************************************)
(* Searches and writes of one index racing through AppState (state.rs,     *)
(* search.rs): the store lock, the deferred term dictionary and the search *)
(* response cache are three critical sections that a request enters one    *)
(* after the other.  Each action below is one of them.                     *)
(*                                                                         *)
(* The contents of the index are its generation, a counter of the changes  *)
(* that a search could observe; the code has none.  A cached response is   *)
(* the set of generations it was computed from: a search reads the store   *)
(* once or several times, each time under a lock of its own.               *)
(***************************************************************************)
EXTENDS Integers, SequencesExt, FiniteSets

CONSTANTS
    Searcher, Writer,   \* concurrent requests
    Key,                \* hashes of request bodies
    Capacity,           \* SEARCH_CACHE_CAPACITY, 256 in the code
    None,
    MaxGeneration       \* bound on the number of changes

ASSUME CacheConstants ==
    /\ Searcher \cap Writer = {}
    /\ Capacity \in Nat \ {0}
    /\ MaxGeneration \in Nat
    /\ None \notin Nat

VARIABLES
    \* under the store lock
    exists, generation, terms_dirty,
    \* under the search cache lock
    entries,            \* key -> generations of the response, {} without one
    order,              \* keys in insertion order
    \* the requests in flight
    pc,
    key,                \* the key a searcher missed on
    probed,             \* the generation when a searcher asked for the terms
    response,           \* the generations a searcher read
    raced               \* a response was cached after the index had changed

store == <<exists, generation, terms_dirty>>
cache == <<entries, order>>
locals == <<key, probed, response>>
vars == <<store, cache, pc, locals, raced>>

Actor == Searcher \cup Writer
Gen == 0 .. MaxGeneration

TypeOK ==
    /\ exists \in BOOLEAN /\ terms_dirty \in BOOLEAN /\ raced \in BOOLEAN
    /\ generation \in Gen
    /\ entries \in [Key -> SUBSET Gen]
    /\ order \in Seq(Key)
    /\ pc \in [Actor -> {"idle", "invalidate", "invalidate_only", "probe",
                         "materialize", "read", "put"}]
    /\ key \in [Searcher -> Key \cup {None}]
    /\ probed \in [Searcher -> Gen \cup {None}]
    /\ response \in [Searcher -> SUBSET Gen]

Init ==
    /\ exists = FALSE /\ generation = 0 /\ terms_dirty = FALSE
    /\ entries = [k \in Key |-> {}] /\ order = <<>>
    /\ pc = [a \in Actor |-> "idle"]
    /\ key = [a \in Searcher |-> None]
    /\ probed = [a \in Searcher |-> None]
    /\ response = [a \in Searcher |-> {}]
    /\ raced = FALSE

Goto(a, label) == pc' = [pc EXCEPT ![a] = label]

-----------------------------------------------------------------------------
(* Mutations: the store section, then the cache section, then the gauges.  *)

Change(w, dirty, next) ==
    /\ pc[w] = "idle"
    /\ generation < MaxGeneration
    /\ generation' = generation + 1
    /\ terms_dirty' = dirty
    /\ Goto(w, next)
    /\ UNCHANGED <<cache, locals, raced>>

\* index_document, create_document, set_mapping, and delete_document when it
\* finds the id: an index that is missing is created.
WriteOne(w) == Change(w, TRUE, "invalidate") /\ exists' = TRUE

\* Mutant: a bulk that forgets the cache.
WriteBulkQuietly(w) == Change(w, TRUE, "idle") /\ exists' = TRUE

\* apply_document_writes skips the gauges.
WriteBulk(w) == Change(w, TRUE, "invalidate_only") /\ exists' = TRUE

\* refresh_index builds the terms under the write lock; the documents stay.
RefreshIndex(w) ==
    /\ pc[w] = "idle"
    /\ terms_dirty' = FALSE
    /\ Goto(w, "invalidate")
    /\ UNCHANGED <<exists, generation, cache, locals, raced>>

DeleteIndex(w) ==
    /\ exists
    /\ Change(w, FALSE, "invalidate_only")
    /\ exists' = FALSE

\* create_index does not touch the cache.  A search of the new, empty index
\* finds what a search of the missing one found: no change.
CreateIndex(w) ==
    /\ pc[w] = "idle"
    /\ ~exists
    /\ exists' = TRUE
    /\ Goto(w, "probe")
    /\ UNCHANGED <<generation, terms_dirty, cache, locals, raced>>

\* Writers that refresh the memory gauges go on to ensure_terms_ready.
invalidate_search_cache(w) ==
    /\ pc[w] \in {"invalidate", "invalidate_only"}
    /\ entries' = [k \in Key |-> {}]
    /\ order' = <<>>
    /\ Goto(w, IF pc[w] = "invalidate" THEN "probe" ELSE "idle")
    /\ UNCHANGED <<store, locals, raced>>

-----------------------------------------------------------------------------
(* ensure_terms_ready: a probe under the read lock, then the write lock.   *)

AfterTerms(a) == IF a \in Searcher THEN "read" ELSE "idle"

Probed(a) == IF a \in Searcher THEN [probed EXCEPT ![a] = generation] ELSE probed

\* Mutant: the probe finds nothing to build.
ProbeOnly(a) ==
    /\ pc[a] = "probe"
    /\ probed' = Probed(a)
    /\ Goto(a, AfterTerms(a))
    /\ UNCHANGED <<store, cache, key, response, raced>>

ProbeTerms(a) ==
    /\ pc[a] = "probe"
    /\ probed' = Probed(a)
    /\ Goto(a, IF exists /\ terms_dirty THEN "materialize" ELSE AfterTerms(a))
    /\ UNCHANGED <<store, cache, key, response, raced>>

MaterializeTerms(a) ==
    /\ pc[a] = "materialize"
    /\ terms_dirty' = FALSE
    /\ probed' = Probed(a)
    /\ Goto(a, AfterTerms(a))
    /\ UNCHANGED <<exists, generation, cache, key, response, raced>>

-----------------------------------------------------------------------------
(* search_handler.                                                         *)

\* A missing index is an error and a hit is answered from the cache; neither
\* changes anything.
search_cache_get(a, k) ==
    /\ pc[a] = "idle"
    /\ exists
    /\ entries[k] = {}
    /\ key' = [key EXCEPT ![a] = k]
    /\ Goto(a, "probe")
    /\ UNCHANGED <<store, cache, probed, response, raced>>

\* Mutant: a reader that numbers the response after the next change.
ReadAhead(a) ==
    /\ pc[a] = "read"
    /\ response' = [response EXCEPT ![a] = @ \cup {generation + 1}]
    /\ Goto(a, "put")
    /\ UNCHANGED <<store, cache, key, probed, raced>>

\* with_search_reader runs its part of the query under one read guard.  A top-k
\* query needs one; the general path reads the documents, their mapping and,
\* with the terms asked for again, their scores one after the other.
with_search_reader(a) ==
    /\ pc[a] = "read"
    /\ response' = [response EXCEPT ![a] = @ \cup {generation}]
    /\ \E next \in {"read", "probe", "put"} : Goto(a, next)
    /\ UNCHANGED <<store, cache, key, probed, raced>>

\* Mutant: a key already there is queued again.
PutQueuesTwice(a) ==
    /\ pc[a] = "put"
    /\ LET k == key[a]
           full == Len(order) >= Capacity
       IN  /\ order' = Append(IF full THEN Tail(order) ELSE order, k)
           /\ entries' = [q \in Key |->
                             IF full /\ q = Head(order) THEN {}
                             ELSE IF q = k THEN response[a]
                             ELSE entries[q]]
    /\ raced' = (raced \/ response[a] # {generation})
    /\ Goto(a, "idle")
    /\ key' = [key EXCEPT ![a] = None]
    /\ probed' = [probed EXCEPT ![a] = None]
    /\ response' = [response EXCEPT ![a] = {}]
    /\ UNCHANGED store

\* A new key goes to the back of the queue and pushes the oldest ones out; a
\* key already there gets the new response and keeps its place.
search_cache_put(a) ==
    /\ pc[a] = "put"
    /\ LET k == key[a]
           full == Len(order) >= Capacity
       IN  IF entries[k] # {}
           THEN /\ entries' = [entries EXCEPT ![k] = response[a]]
                /\ UNCHANGED order
           ELSE /\ order' = Append(IF full THEN Tail(order) ELSE order, k)
                /\ entries' = [q \in Key |->
                                  IF q = k THEN response[a]
                                  ELSE IF full /\ q = Head(order) THEN {}
                                  ELSE entries[q]]
    /\ raced' = (raced \/ response[a] # {generation})
    /\ Goto(a, "idle")
    /\ key' = [key EXCEPT ![a] = None]
    /\ probed' = [probed EXCEPT ![a] = None]
    /\ response' = [response EXCEPT ![a] = {}]
    /\ UNCHANGED store

Next ==
    \/ \E w \in Writer :
          \/ WriteOne(w) \/ WriteBulk(w) \/ RefreshIndex(w)
          \/ CreateIndex(w) \/ DeleteIndex(w) \/ invalidate_search_cache(w)
    \/ \E w \in Actor : ProbeTerms(w) \/ MaterializeTerms(w)
    \/ \E s \in Searcher :
          \/ \E k \in Key : search_cache_get(s, k)
          \/ with_search_reader(s) \/ search_cache_put(s)

Spec == Init /\ [][Next]_vars

-----------------------------------------------------------------------------
(* Properties.                                                             *)

\* A writer has changed the index and not yet dropped its cached responses.
Invalidating == \E w \in Writer : pc[w] \in {"invalidate", "invalidate_only"}

Fresh == \A k \in Key : entries[k] \in {{}, {generation}}

\* The queue of keys and the map of responses describe the same entries, no
\* key twice, within the capacity: eviction can neither leak nor miss one.
CacheBounded ==
    /\ IsInjective(order)
    /\ ToSet(order) = {k \in Key : entries[k] # {}}
    /\ Len(order) <= Capacity

\* Every kind of mutation drops the responses it outdates: one that is stale, or
\* put together from before and after a write, can only come from a search that
\* a write overtook on its way to the cache.
FreshUnlessRaced == ~raced /\ ~Invalidating => Fresh

\* The double-checked materialization of ensure_terms_ready: a query meets an
\* unbuilt dictionary only when a write slipped in before its read guard.
DirtyReadsAreRaced ==
    \A a \in Searcher : pc[a] = "read" /\ terms_dirty => probed[a] # generation

\* docs/poc/perf-optimization-plan.md: the cache is "generation-invalidated
\* on every mutation", so between mutations no outdated response is in it.
GenerationInvalidated == ~Invalidating => Fresh

\* The comment on with_search_reader: "the subsequent read guard is held over
\* a consistent, materialised snapshot".
SnapshotMaterialised ==
    [][\A a \in Searcher : with_search_reader(a) => ~terms_dirty]_vars

\* The response cache of an index is a bounded map with a faithful queue.
CacheSound == TypeOK /\ CacheBounded

\* Without a write between two critical sections of one search, no response is
\* outdated and no query meets an unbuilt dictionary.
StaleOnlyIfRaced == FreshUnlessRaced /\ DirtyReadsAreRaced
=============================================================================
