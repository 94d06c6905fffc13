--------------------------- MODULE InMemoryIndex ---------------------------
(***************************************************************************)
(* One index of surch-api as a whole (InMemoryIndex in state.rs): the id   *)
(* maps of IdMaps together with the segmented index of DocumentIndex.      *)
(* Every handler updates both; the postings must describe the documents    *)
(* the id maps hold.                                                       *)
(***************************************************************************)
EXTENDS IdMaps, DocumentIndex

allVars == <<vars, indexVars>>

\* No handler holds the store write lock.
Unlocked == ~in_bulk /\ phase = "idle"

\* The documents a rebuild reads back: every doc id that has a body.
StoredDocs == {<<d, blob_for_doc_id(d)>> :
                  d \in {e \in DocId : e < next_doc_id /\ blob_for_doc_id(e) # None}}

IxInit == Init /\ IndexInit

\* rebuild_index, after the id maps have taken the write.
rebuild_index == ClearAndAdd(StoredDocs') /\ UNCHANGED <<flush_budget, phase>>

IxIndexDocument(u, s) == Unlocked /\ IndexDocument(u, s) /\ rebuild_index

IxCreateDocument(u, s) == Unlocked /\ CreateDocument(u, s) /\ rebuild_index

IxDeleteDocument(u) == Unlocked /\ DeleteDocument(u) /\ rebuild_index

IxSetMapping == Unlocked /\ SetMapping /\ rebuild_index

IxRefresh == Unlocked /\ Refresh /\ materialize_terms_and_finalize_postings

\* ensure_terms_ready: a search materializes what the writes deferred.
EnsureTermsReady ==
    /\ Unlocked
    /\ terms_dirty
    /\ materialize_terms
    /\ UNCHANGED <<vars, flush_budget, phase>>

\* apply_document_writes: the operations touch the id maps only ...
IxBulkBegin == Unlocked /\ BulkBegin /\ UNCHANGED indexVars
IxBulkIndex(u, s) == BulkIndex(u, s) /\ UNCHANGED indexVars
IxBulkCreate(u, s) == BulkCreate(u, s) /\ UNCHANGED indexVars
IxBulkDelete(u) == BulkDelete(u) /\ UNCHANGED indexVars

\* ... and the postings follow once per batch: nothing to do, an append that
\* goes on to the budget check, or a rebuild.
IxBulkEnd ==
    /\ BulkEnd
    /\ \/ /\ ~needs_full_rebuild /\ new_doc_ids = {}
          /\ UNCHANGED indexVars
       \/ /\ Appends
          /\ add_documents_with_mapping_deferred(
                 {p \in StoredDocs : p[1] \in new_doc_ids})
          /\ phase' = "flush"
          /\ UNCHANGED flush_budget
       \/ /\ ~Appends /\ (needs_full_rebuild \/ new_doc_ids # {})
          /\ rebuild_index

\* The rest of an append or a refresh, under the same lock.
IxFlush == maybe_flush_by_budget /\ UNCHANGED vars
IxMerge == (MergeStep \/ MergeDone) /\ UNCHANGED vars

IxNext ==
    \/ \E u \in Uid, s \in Source :
          \/ IxIndexDocument(u, s) \/ IxCreateDocument(u, s)
          \/ IxBulkIndex(u, s) \/ IxBulkCreate(u, s)
    \/ \E u \in Uid : IxDeleteDocument(u) \/ IxBulkDelete(u)
    \/ IxSetMapping \/ IxRefresh \/ EnsureTermsReady
    \/ IxBulkBegin \/ IxBulkEnd \/ IxFlush \/ IxMerge

\* A handler that holds the lock runs to its end.
IxSpec == IxInit /\ [][IxNext]_allVars /\ WF_allVars(IxFlush \/ IxMerge)

-----------------------------------------------------------------------------
(* Properties.                                                             *)

\* Once a handler has released the lock, the postings on their way to the
\* dictionaries are those of the stored documents: each live document with
\* its current source, no deleted one, no stale version.
PostingsMatchDocs == Unlocked => Indexed = StoredDocs

\* A search that finds the dictionaries clean finds every document.
CleanMeansComplete == Unlocked /\ ~terms_dirty => Searchable = StoredDocs

\* The builder still holds all of the active segment while appends may extend
\* it: rebuilding the dictionary from the builder forgets no earlier batch.
BuilderComplete ==
    Unlocked /\ ~terms_finalized =>
        {p[1] - segments[active].doc_base : p \in postings_builder}
            = segments[active].live_docs

\* An append is never turned away as a duplicate, an error the caller ignores:
\* the doc ids of a batch are new to the active segment.
AppendsAccepted ==
    in_bulk /\ Appends => Accepts({p \in StoredDocs : p[1] \in new_doc_ids},
                                  segments[active].doc_base,
                                  segments[active].live_docs)

\* The merge loop ends: the lock is released again.
LockReleased == (phase # "idle") ~> (phase = "idle")

\* Searches after a refresh see every document written before it.
RefreshedSeesAll == Unlocked /\ terms_finalized => Searchable = StoredDocs

\* The postings follow the id maps through every write path: none is lost or
\* stale, no append is refused, and the builder can rebuild what it holds.
PostingsExact == PostingsMatchDocs /\ BuilderComplete /\ AppendsAccepted

\* A search over built dictionaries, after a refresh in particular, misses no
\* document.
SearchesComplete == CleanMeansComplete /\ RefreshedSeesAll
=============================================================================
