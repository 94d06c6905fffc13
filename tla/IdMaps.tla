------------------------------- MODULE IdMaps -------------------------------
(***************************************************************************)
(* The id maps of one index (surch-api, InMemoryIndex in state.rs): an     *)
(* immutable dense snapshot (DenseIdMaps) under four mutable overlays,     *)
(* folded together by `densify`.  Every write handler runs under the store *)
(* write lock; the operations of one _bulk request are separate steps here *)
(* that keep the lock (in_bulk) until apply_document_writes returns.       *)
(*                                                                         *)
(* A Rust map from K to V is a total function K -> V \cup {None}.  The     *)
(* packed encodings (CSR uid buffer, FST, u64 slots) are represented by    *)
(* what they decode to: an empty span or a zero length is None.            *)
(***************************************************************************)
EXTENDS Integers, FiniteSets

CONSTANTS
    Uid,            \* public document ids (never the empty string)
    Source,         \* document bodies
    None,           \* Option::None, a hole
    MaxDocs,        \* bound: doc ids are 0 .. MaxDocs - 1 (u32 in the code)
    DensifyBudget   \* SURCH_DENSIFY_BUDGET_DOCS, or None when unset

DocId == 0 .. (MaxDocs - 1)

ASSUME MaxDocsAssumption == MaxDocs \in Nat \ {0}
ASSUME NoneAssumption == /\ None \notin Uid
                         /\ None \notin Source
                         /\ None \notin Nat
ASSUME BudgetAssumption == DensifyBudget = None \/ DensifyBudget \in Nat \ {0}

VARIABLES
    \* DenseIdMaps
    forward,                \* uid -> doc id
    reverse,                \* doc id -> uid
    documents,              \* doc id -> source
    doc_count,              \* doc ids covered by the snapshot, holes included
    \* overlays: writes since the last densify
    forward_dirty,
    reverse_dirty,
    documents_dirty,
    deleted_since_dense,
    \* scalars
    live_count,
    next_doc_id,
    terms_finalized,
    \* apply_document_writes, while it holds the write lock
    in_bulk,
    needs_full_rebuild,
    new_doc_ids

dense == <<forward, reverse, documents, doc_count>>
overlay == <<forward_dirty, reverse_dirty, documents_dirty, deleted_since_dense>>
batch == <<in_bulk, needs_full_rebuild, new_doc_ids>>
vars == <<dense, overlay, live_count, next_doc_id, terms_finalized, batch>>

NoUids == [d \in DocId |-> None]
NoIds == [u \in Uid |-> None]

\* The id maps proper; TypeOK adds the flags.
MapsTypeOK ==
    /\ forward \in [Uid -> DocId \cup {None}]
    /\ reverse \in [DocId -> Uid \cup {None}]
    /\ documents \in [DocId -> Source \cup {None}]
    /\ doc_count \in 0 .. MaxDocs
    /\ forward_dirty \in [Uid -> DocId \cup {None}]
    /\ reverse_dirty \in [DocId -> Uid \cup {None}]
    /\ documents_dirty \in [DocId -> Source \cup {None}]
    /\ deleted_since_dense \in SUBSET DocId
    /\ next_doc_id \in 0 .. MaxDocs
    /\ new_doc_ids \in SUBSET DocId

TypeOK ==
    /\ MapsTypeOK
    /\ live_count \in 0 .. MaxDocs
    /\ terms_finalized \in BOOLEAN
    /\ in_bulk \in BOOLEAN
    /\ needs_full_rebuild \in BOOLEAN

Init ==
    /\ forward = NoIds /\ reverse = NoUids /\ documents = NoUids
    /\ doc_count = 0
    /\ forward_dirty = NoIds /\ reverse_dirty = NoUids /\ documents_dirty = NoUids
    /\ deleted_since_dense = {}
    /\ live_count = 0 /\ next_doc_id = 0 /\ terms_finalized = FALSE
    /\ in_bulk = FALSE /\ needs_full_rebuild = FALSE /\ new_doc_ids = {}

-----------------------------------------------------------------------------
(* Reads: the three merges of overlay and snapshot.                        *)

resolve_uid(u) ==
    IF forward_dirty[u] # None THEN forward_dirty[u]
    ELSE IF forward[u] \in deleted_since_dense THEN None
    ELSE forward[u]

uid_for_doc_id(d) ==
    IF d \in deleted_since_dense THEN None
    ELSE IF reverse_dirty[d] # None THEN reverse_dirty[d]
    ELSE reverse[d]

blob_for_doc_id(d) ==
    IF d \in deleted_since_dense THEN None
    ELSE IF documents_dirty[d] # None THEN documents_dirty[d]
    ELSE documents[d]

has_document(u) == resolve_uid(u) # None

\* The doc ids a reader can reach.
Live == {d \in DocId : uid_for_doc_id(d) # None}

-----------------------------------------------------------------------------
(* The deferred mutators: they touch the overlays only.                    *)

\* Mutants: an update counted as a new document; the slot after the live ones
\* handed out as if there were no holes.
UpsertCountsUpdates(u, s) ==
    /\ UNCHANGED <<dense, deleted_since_dense>>
    /\ next_doc_id < MaxDocs
    /\ LET d == IF has_document(u) THEN resolve_uid(u) ELSE next_doc_id
       IN  /\ reverse_dirty' = [reverse_dirty EXCEPT ![d] = u]
           /\ forward_dirty' = [forward_dirty EXCEPT ![u] = d]
           /\ documents_dirty' = [documents_dirty EXCEPT ![d] = s]
           /\ next_doc_id' = IF has_document(u) THEN next_doc_id ELSE d + 1
    /\ live_count' = live_count + 1

UpsertReusesSlots(u, s) ==
    /\ UNCHANGED <<dense, deleted_since_dense>>
    /\ next_doc_id < MaxDocs
    /\ LET d == IF has_document(u) THEN resolve_uid(u) ELSE live_count
       IN  /\ reverse_dirty' = [reverse_dirty EXCEPT ![d] = u]
           /\ forward_dirty' = [forward_dirty EXCEPT ![u] = d]
           /\ documents_dirty' = [documents_dirty EXCEPT ![d] = s]
    /\ next_doc_id' = IF has_document(u) THEN next_doc_id ELSE next_doc_id + 1
    /\ live_count' = IF has_document(u) THEN live_count ELSE live_count + 1

\* An id that resolves keeps its doc id and only changes its body; any other
\* id, a deleted one included, gets a fresh doc id.
upsert_document_deferred(u, s) ==
    /\ UNCHANGED <<dense, deleted_since_dense>>
    /\ \/ /\ has_document(u)
          /\ documents_dirty' = [documents_dirty EXCEPT ![resolve_uid(u)] = s]
          /\ UNCHANGED <<forward_dirty, reverse_dirty, live_count, next_doc_id>>
       \/ /\ ~has_document(u)
          /\ next_doc_id < MaxDocs
          /\ next_doc_id' = next_doc_id + 1
          /\ reverse_dirty' = [reverse_dirty EXCEPT ![next_doc_id] = u]
          /\ forward_dirty' = [forward_dirty EXCEPT ![u] = next_doc_id]
          /\ documents_dirty' = [documents_dirty EXCEPT ![next_doc_id] = s]
          /\ live_count' = live_count + 1

\* Only a doc id of the snapshot needs a tombstone.
Tombstone(d) == IF d < doc_count THEN {d} ELSE {}

\* Mutants: a document counted out of the overlay and of the snapshot; a body
\* left behind in the overlay.
DeleteCountsTwice(u) ==
    /\ has_document(u)
    /\ forward_dirty' = [forward_dirty EXCEPT ![u] = None]
    /\ reverse_dirty' = [reverse_dirty EXCEPT ![resolve_uid(u)] = None]
    /\ documents_dirty' = [documents_dirty EXCEPT ![resolve_uid(u)] = None]
    /\ deleted_since_dense' = deleted_since_dense \cup Tombstone(resolve_uid(u))
    /\ live_count' = live_count - 2
    /\ UNCHANGED <<dense, next_doc_id>>

DeleteLeavesBody(u) ==
    /\ has_document(u)
    /\ forward_dirty' = [forward_dirty EXCEPT ![u] = None]
    /\ reverse_dirty' = [reverse_dirty EXCEPT ![resolve_uid(u)] = None]
    /\ deleted_since_dense' = deleted_since_dense \cup Tombstone(resolve_uid(u))
    /\ live_count' = live_count - 1
    /\ UNCHANGED <<dense, documents_dirty, next_doc_id>>

\* The case in which delete_document_deferred returns true.
delete_document_deferred(u) ==
    /\ has_document(u)
    /\ forward_dirty' = [forward_dirty EXCEPT ![u] = None]
    /\ reverse_dirty' = [reverse_dirty EXCEPT ![resolve_uid(u)] = None]
    /\ documents_dirty' = [documents_dirty EXCEPT ![resolve_uid(u)] = None]
    /\ deleted_since_dense' = deleted_since_dense \cup Tombstone(resolve_uid(u))
    /\ live_count' = live_count - 1
    /\ UNCHANGED <<dense, next_doc_id>>

-----------------------------------------------------------------------------
(* densify: fold the overlays into the snapshot.                           *)

ClearOverlay ==
    /\ forward_dirty' = NoIds
    /\ reverse_dirty' = NoUids
    /\ documents_dirty' = NoUids
    /\ deleted_since_dense' = {}

\* Mutant: the slots of the old snapshot only.
KeptOldSlot(d) == /\ d < doc_count
                  /\ uid_for_doc_id(d) # None
                  /\ blob_for_doc_id(d) # None

\* densify_full keeps a slot only when it has both a body and a uid.
KeptSlot(d) == /\ d < next_doc_id
               /\ uid_for_doc_id(d) # None
               /\ blob_for_doc_id(d) # None

\* The from-scratch path.
densify_full ==
    /\ documents' = [d \in DocId |-> IF KeptSlot(d) THEN blob_for_doc_id(d) ELSE None]
    /\ reverse' = [d \in DocId |-> IF KeptSlot(d) THEN uid_for_doc_id(d) ELSE None]
    /\ forward' = [u \in Uid |->
                     IF \E d \in DocId : KeptSlot(d) /\ uid_for_doc_id(d) = u
                     THEN CHOOSE d \in DocId : KeptSlot(d) /\ uid_for_doc_id(d) = u
                     ELSE None]
    /\ doc_count' = next_doc_id
    /\ ClearOverlay

\* A doc id minted since the last densify.
InTranche(d) == doc_count <= d /\ d < next_doc_id

\* The tranche's sorted entries merged with the old FST.  The builder panics
\* on a key present on both sides (see FstKeysUnique).
merge_forward_fst ==
    [u \in Uid |->
        IF \E d \in DocId : InTranche(d) /\ reverse_dirty[d] = u
        THEN CHOOSE d \in DocId : InTranche(d) /\ reverse_dirty[d] = u
        ELSE forward[u]]

\* The incremental path: it appends the tranche and leaves older slots alone.
densify_append_only ==
    /\ documents' = [d \in DocId |->
                        IF InTranche(d) THEN documents_dirty[d] ELSE documents[d]]
    /\ reverse' = [d \in DocId |->
                        IF InTranche(d) THEN reverse_dirty[d] ELSE reverse[d]]
    /\ forward' = merge_forward_fst
    /\ doc_count' = next_doc_id
    /\ forward_dirty' = NoIds
    /\ reverse_dirty' = NoUids
    /\ documents_dirty' = NoUids
    /\ UNCHANGED deleted_since_dense

\* Nothing to fold: the early return of densify.
OverlayEmpty == /\ forward_dirty = NoIds
                /\ deleted_since_dense = {}
                /\ documents_dirty = NoUids

\* Mutants: updates of old documents, or deletes, overlooked.
OldDeletes == deleted_since_dense # {}
OldUpdates == \E d \in DocId : documents_dirty[d] # None /\ d < doc_count

\* An update or a delete that touches a doc id of the snapshot.
has_old_interference ==
    \/ deleted_since_dense # {}
    \/ \E d \in DocId : documents_dirty[d] # None /\ d < doc_count

densify ==
    /\ \/ OverlayEmpty /\ UNCHANGED <<dense, overlay>>
       \/ ~OverlayEmpty /\ has_old_interference /\ densify_full
       \/ ~OverlayEmpty /\ ~has_old_interference /\ densify_append_only
    /\ UNCHANGED <<live_count, next_doc_id>>

\* The overlay has reached the configured number of doc ids.
BudgetReached == DensifyBudget # None /\ next_doc_id - doc_count >= DensifyBudget

maybe_densify_by_budget ==
    IF BudgetReached THEN densify
    ELSE UNCHANGED <<dense, overlay, live_count, next_doc_id>>

-----------------------------------------------------------------------------
(* Handlers.  rebuild_index leaves the id maps alone but for the flag.     *)

\* index_document: upsert, then rebuild_index.
IndexDocument(u, s) ==
    /\ ~in_bulk
    /\ upsert_document_deferred(u, s)
    /\ terms_finalized' = FALSE
    /\ UNCHANGED batch

\* create_document returns early, changing nothing, when the id exists.
CreateDocument(u, s) ==
    /\ ~in_bulk
    /\ ~has_document(u)
    /\ upsert_document_deferred(u, s)
    /\ terms_finalized' = FALSE
    /\ UNCHANGED batch

\* delete_document rebuilds only when something was deleted.
DeleteDocument(u) ==
    /\ ~in_bulk
    /\ delete_document_deferred(u)
    /\ terms_finalized' = FALSE
    /\ UNCHANGED batch

\* set_mapping and merge_field_mappings replace the mapping and rebuild.
SetMapping ==
    /\ ~in_bulk
    /\ terms_finalized' = FALSE
    /\ UNCHANGED <<dense, overlay, live_count, next_doc_id, batch>>

\* refresh_index, through finalize_terms_for_refresh.
Refresh ==
    /\ ~in_bulk
    /\ ~terms_finalized
    /\ densify
    /\ terms_finalized' = TRUE
    /\ UNCHANGED batch

\* apply_document_writes takes the write lock ...
BulkBegin ==
    /\ ~in_bulk
    /\ in_bulk' = TRUE
    /\ needs_full_rebuild' = FALSE
    /\ new_doc_ids' = {}
    /\ UNCHANGED <<dense, overlay, live_count, next_doc_id, terms_finalized>>

\* ... applies each operation in turn ...
BulkIndex(u, s) ==
    /\ in_bulk
    /\ upsert_document_deferred(u, s)
    /\ needs_full_rebuild' = (needs_full_rebuild \/ has_document(u))
    /\ new_doc_ids' = IF has_document(u) THEN new_doc_ids
                      ELSE new_doc_ids \cup {next_doc_id}
    /\ UNCHANGED <<in_bulk, terms_finalized>>

BulkCreate(u, s) ==
    /\ in_bulk
    /\ ~has_document(u)
    /\ upsert_document_deferred(u, s)
    /\ new_doc_ids' = new_doc_ids \cup {next_doc_id}
    /\ UNCHANGED <<in_bulk, needs_full_rebuild, terms_finalized>>

BulkDelete(u) ==
    /\ in_bulk
    /\ delete_document_deferred(u)
    /\ needs_full_rebuild' = TRUE
    /\ UNCHANGED <<in_bulk, new_doc_ids, terms_finalized>>

\* Mutants: appending although the batch updates or deletes, or although the
\* builder is gone.
AppendsUpdates == new_doc_ids # {} /\ ~terms_finalized
AppendsFinalized == ~needs_full_rebuild /\ new_doc_ids # {}

\* append_to_index extends live postings; on finalized ones it rebuilds.
Appends == ~needs_full_rebuild /\ new_doc_ids # {} /\ ~terms_finalized

\* ... and ends with rebuild_index or append_to_index, when an operation
\* changed the index.
BulkEnd ==
    /\ in_bulk
    /\ in_bulk' = FALSE
    /\ IF Appends THEN maybe_densify_by_budget
       ELSE UNCHANGED <<dense, overlay, live_count, next_doc_id>>
    /\ terms_finalized' = (/\ terms_finalized
                           /\ ~needs_full_rebuild
                           /\ new_doc_ids = {})
    /\ needs_full_rebuild' = FALSE
    /\ new_doc_ids' = {}

Next ==
    \/ \E u \in Uid, s \in Source :
          \/ IndexDocument(u, s) \/ CreateDocument(u, s)
          \/ BulkIndex(u, s) \/ BulkCreate(u, s)
    \/ \E u \in Uid : DeleteDocument(u) \/ BulkDelete(u)
    \/ SetMapping \/ Refresh \/ BulkBegin \/ BulkEnd

Spec == Init /\ [][Next]_vars

-----------------------------------------------------------------------------
(* Properties.                                                             *)

\* The three reads tell one story across overlay and snapshot: a uid resolves
\* to a doc id exactly when that doc id answers with the uid, and a doc id
\* has a uid exactly when it has a body (state.rs resolve_uid,
\* uid_for_doc_id, blob_for_doc_id).
ViewsAgree ==
    /\ \A u \in Uid, d \in DocId : resolve_uid(u) = d <=> uid_for_doc_id(d) = u
    /\ \A d \in DocId : uid_for_doc_id(d) = None <=> blob_for_doc_id(d) = None

\* The incremental counter answers _count with the number of documents a
\* reader can reach, through deletes of fresh and of densified documents.
LiveCountExact == live_count = Cardinality(Live)

\* The debug_assert of finalize_terms_for_refresh: a finalized index has no
\* write waiting in an overlay.
FinalizedDrained == (terms_finalized /\ ~in_bulk) =>
                        OverlayEmpty /\ reverse_dirty = NoUids

\* densify never panics in an FST builder: no uid is live under two doc ids,
\* and on the append-only path no uid of the tranche is in the old FST.
FstKeysUnique ==
    /\ \A d, e \in DocId :
          uid_for_doc_id(d) # None /\ uid_for_doc_id(d) = uid_for_doc_id(e) => d = e
    /\ ~has_old_interference =>
          \A d \in DocId : InTranche(d) /\ reverse_dirty[d] # None =>
              forward[reverse_dirty[d]] = None

\* A doc id is never reused: a dead one stays dead and a live one keeps its
\* uid until it dies, whatever densify does in between.
DocIdsNeverReused ==
    [][\A d \in DocId : d < next_doc_id =>
          \/ uid_for_doc_id(d)' = uid_for_doc_id(d)
          \/ uid_for_doc_id(d)' = None]_vars

\* The map of public ids to sources that the reads expose.
View == [u \in Uid |-> IF has_document(u) THEN blob_for_doc_id(resolve_uid(u))
                       ELSE None]

\* Every handler changes what readers see by exactly what it was asked to, and
\* refreshes, mapping changes and the ends of a bulk change nothing: no update
\* is reverted and no deleted document returns when the overlays are folded.
HandlersExact ==
    [][/\ \A u \in Uid, s \in Source :
             \/ IndexDocument(u, s) \/ CreateDocument(u, s)
             \/ BulkIndex(u, s) \/ BulkCreate(u, s)
             => View' = [View EXCEPT ![u] = s]
       /\ \A u \in Uid : DeleteDocument(u) \/ BulkDelete(u)
             => View' = [View EXCEPT ![u] = None]
       /\ SetMapping \/ Refresh \/ BulkBegin \/ BulkEnd => View' = View]_vars

Abstract == INSTANCE DocStore WITH docs <- View

\* The id maps implement the plain document map: inserts, updates and deletes
\* change one entry, and refreshes, densifies and rebuilds change none.
ImplementsDocStore == Abstract!Spec
-----------------------------------------------------------------------------
(* The inductive invariant behind the properties above.                    *)

\* The snapshot is a bijection between its live uids and slots.
DenseInv ==
    /\ \A u \in Uid, d \in DocId : forward[u] = d <=> reverse[d] = u
    /\ \A d \in DocId : reverse[d] = None <=> documents[d] = None
    /\ \A d \in DocId : reverse[d] # None => d < doc_count
    /\ doc_count <= next_doc_id

\* The overlays: fresh uids and slots mirror each other above the snapshot,
\* a dirty body belongs to a live slot, and tombstones hit live slots only.
OverlayInv ==
    /\ \A u \in Uid, d \in DocId : forward_dirty[u] = d <=> reverse_dirty[d] = u
    /\ \A d \in DocId : reverse_dirty[d] # None =>
          InTranche(d) /\ documents_dirty[d] # None
    /\ \A d \in DocId : documents_dirty[d] # None =>
          \/ reverse_dirty[d] # None
          \/ reverse[d] # None /\ d \notin deleted_since_dense
    /\ \A d \in deleted_since_dense : reverse[d] # None

\* A uid that is fresh again was deleted from the snapshot first.
FreshInv == \A u \in Uid : forward_dirty[u] # None /\ forward[u] # None =>
                forward[u] \in deleted_since_dense

\* Outside a bulk, and in a bulk that has written nothing yet, a finalized
\* index has nothing in its overlays.
FinalizedInv ==
    /\ ~in_bulk => ~needs_full_rebuild /\ new_doc_ids = {}
    /\ terms_finalized /\ ~needs_full_rebuild /\ new_doc_ids = {} =>
          OverlayEmpty /\ reverse_dirty = NoUids

IndInv == MapsTypeOK /\ DenseInv /\ OverlayInv /\ FreshInv
=============================================================================
