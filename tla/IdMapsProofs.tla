---------------------------- MODULE IdMapsProofs ----------------------------
(***************************************************************************)
(* Proofs about IdMaps, for every set of uids and sources, every bound on  *)
(* doc ids and every densify budget.                                       *)
(***************************************************************************)
EXTENDS IdMaps, FiniteSetTheorems, TLAPS

-----------------------------------------------------------------------------
(* What each mutator does to the inductive invariant and to the reads.     *)

\* The three reads agree in every state of the inductive invariant.
LEMMA IndInvViews == IndInv => ViewsAgree /\ FstKeysUnique
<1> SUFFICES ASSUME IndInv PROVE ViewsAgree /\ FstKeysUnique
  OBVIOUS
<1> USE MaxDocsAssumption, NoneAssumption DEF IndInv, MapsTypeOK, DocId
<1>1. ASSUME NEW u \in Uid, NEW d \in DocId
      PROVE  resolve_uid(u) = d <=> uid_for_doc_id(d) = u
  BY <1>1 DEF resolve_uid, uid_for_doc_id, DenseInv, OverlayInv, FreshInv, InTranche
<1>2. ASSUME NEW d \in DocId
      PROVE  uid_for_doc_id(d) = None <=> blob_for_doc_id(d) = None
  BY <1>2 DEF uid_for_doc_id, blob_for_doc_id, DenseInv, OverlayInv, InTranche
<1>3. ASSUME NEW d \in DocId, NEW e \in DocId,
             uid_for_doc_id(d) # None, uid_for_doc_id(d) = uid_for_doc_id(e)
      PROVE  d = e
  BY <1>3 DEF uid_for_doc_id, DenseInv, OverlayInv, FreshInv, InTranche
<1>4. ASSUME ~has_old_interference, NEW d \in DocId,
             InTranche(d), reverse_dirty[d] # None
      PROVE  forward[reverse_dirty[d]] = None
  BY <1>4 DEF has_old_interference, OverlayInv, FreshInv
<1> QED
  BY <1>1, <1>2, <1>3, <1>4 DEF ViewsAgree, FstKeysUnique

\* The same after a step.
LEMMA IndInvViewsNext == IndInv' => ViewsAgree'
  BY IndInvViews, PTL

\* An upsert keeps the invariant; it mints one doc id for an absent uid and
\* touches no uid otherwise.
LEMMA UpsertStep ==
    ASSUME IndInv, NEW u \in Uid, NEW s \in Source, upsert_document_deferred(u, s),
           new_doc_ids' \in SUBSET DocId
    PROVE  /\ IndInv'
           /\ has_document(u) =>
                 /\ \A d \in DocId : uid_for_doc_id(d)' = uid_for_doc_id(d)
                 /\ live_count' = live_count
           /\ ~has_document(u) =>
                 /\ next_doc_id \in DocId
                 /\ uid_for_doc_id(next_doc_id) = None
                 /\ \A d \in DocId : uid_for_doc_id(d)' =
                        IF d = next_doc_id THEN u ELSE uid_for_doc_id(d)
                 /\ live_count' = live_count + 1
<1> USE MaxDocsAssumption, NoneAssumption DEF IndInv, DocId
<1>1. CASE has_document(u)
  <2>1. resolve_uid(u) \in DocId
    BY <1>1 DEF has_document, resolve_uid, MapsTypeOK
  <2>2. MapsTypeOK'
    BY <1>1, <2>1 DEF upsert_document_deferred, MapsTypeOK, dense
  <2>3. DenseInv' /\ FreshInv'
    BY <1>1 DEF upsert_document_deferred, DenseInv, FreshInv, dense
  <2>4. OverlayInv'
    BY <1>1, <2>1 DEF upsert_document_deferred, OverlayInv, MapsTypeOK, dense,
       InTranche, resolve_uid, DenseInv, FreshInv
  <2> QED
    BY <1>1, <2>2, <2>3, <2>4 DEF upsert_document_deferred, uid_for_doc_id, dense
<1>2. CASE ~has_document(u)
  <2>1. next_doc_id \in DocId
    BY <1>2 DEF upsert_document_deferred, MapsTypeOK
  <2>2. MapsTypeOK'
    <3>1. next_doc_id' \in 0 .. MaxDocs
      BY <1>2, <2>1 DEF upsert_document_deferred
    <3>2. reverse_dirty' \in [DocId -> Uid \cup {None}]
      BY <1>2, <2>1 DEF upsert_document_deferred, MapsTypeOK
    <3>3. forward_dirty' \in [Uid -> DocId \cup {None}]
      BY <1>2, <2>1 DEF upsert_document_deferred, MapsTypeOK
    <3>4. documents_dirty' \in [DocId -> Source \cup {None}]
      BY <1>2, <2>1 DEF upsert_document_deferred, MapsTypeOK
    <3> QED
      BY <1>2, <3>1, <3>2, <3>3, <3>4 DEF upsert_document_deferred, MapsTypeOK, dense
  <2>3. DenseInv'
    BY <1>2, <2>1 DEF upsert_document_deferred, DenseInv, MapsTypeOK, dense
  <2>4. reverse[next_doc_id] = None /\ reverse_dirty[next_doc_id] = None
        /\ documents_dirty[next_doc_id] = None
        /\ next_doc_id \notin deleted_since_dense
    BY <2>1 DEF DenseInv, OverlayInv, InTranche, MapsTypeOK
  <2>5. forward_dirty[u] = None
    BY <1>2 DEF has_document, resolve_uid
  <2>6. OverlayInv'
    BY <1>2, <2>1, <2>4, <2>5 DEF upsert_document_deferred, OverlayInv, DenseInv,
       MapsTypeOK, dense, InTranche
  <2>7. FreshInv'
    BY <1>2, <2>1 DEF upsert_document_deferred, FreshInv, MapsTypeOK, dense,
       has_document, resolve_uid
  <2>8. uid_for_doc_id(next_doc_id) = None
    BY <2>4 DEF uid_for_doc_id
  <2>9. \A d \in DocId : uid_for_doc_id(d)' =
            IF d = next_doc_id THEN u ELSE uid_for_doc_id(d)
    BY <1>2, <2>1, <2>4 DEF upsert_document_deferred, uid_for_doc_id, dense, MapsTypeOK
  <2> QED
    BY <1>2, <2>1, <2>2, <2>3, <2>6, <2>7, <2>8, <2>9 DEF upsert_document_deferred
<1> QED
  BY <1>1, <1>2

\* A delete keeps the invariant and kills exactly the doc id of its uid.
LEMMA DeleteStep ==
    ASSUME IndInv, NEW u \in Uid, delete_document_deferred(u),
           new_doc_ids' \in SUBSET DocId
    PROVE  /\ IndInv'
           /\ resolve_uid(u) \in DocId
           /\ uid_for_doc_id(resolve_uid(u)) = u
           /\ \A d \in DocId : uid_for_doc_id(d)' =
                  IF d = resolve_uid(u) THEN None ELSE uid_for_doc_id(d)
<1> USE MaxDocsAssumption, NoneAssumption DEF IndInv, DocId
<1> DEFINE x == resolve_uid(u)
<1>1. x \in DocId /\ uid_for_doc_id(x) = u
  BY IndInvViews DEF delete_document_deferred, has_document, resolve_uid, MapsTypeOK, ViewsAgree
<1>2. MapsTypeOK'
  <2>1. reverse_dirty' \in [DocId -> Uid \cup {None}]
    BY <1>1 DEF delete_document_deferred, MapsTypeOK
  <2>2. forward_dirty' \in [Uid -> DocId \cup {None}]
    BY <1>1 DEF delete_document_deferred, MapsTypeOK
  <2>3. documents_dirty' \in [DocId -> Source \cup {None}]
    BY <1>1 DEF delete_document_deferred, MapsTypeOK
  <2>4. deleted_since_dense' \in SUBSET DocId
    BY <1>1 DEF delete_document_deferred, MapsTypeOK, Tombstone
  <2> QED
    BY <2>1, <2>2, <2>3, <2>4 DEF delete_document_deferred, MapsTypeOK, dense
<1>3. DenseInv'
  BY DEF delete_document_deferred, DenseInv, dense
<1>4. CASE forward_dirty[u] # None
  <2>1. x = forward_dirty[u] /\ ~(x < doc_count) /\ reverse_dirty[x] = u
    BY <1>1, <1>4 DEF resolve_uid, OverlayInv, InTranche, MapsTypeOK
  <2>2. deleted_since_dense' = deleted_since_dense
    BY <2>1 DEF delete_document_deferred, Tombstone
  <2>3. FreshInv'
    BY <1>1, <2>2 DEF delete_document_deferred, MapsTypeOK, FreshInv, dense
  <2>4. OverlayInv'
    BY <1>1, <2>1, <2>2 DEF delete_document_deferred, MapsTypeOK, OverlayInv, dense, InTranche
  <2>5. reverse[x] = None
    BY <1>1, <2>1 DEF DenseInv, MapsTypeOK
  <2>6. \A d \in DocId : uid_for_doc_id(d)' = IF d = x THEN None ELSE uid_for_doc_id(d)
    BY <1>1, <2>1, <2>2, <2>5 DEF delete_document_deferred, uid_for_doc_id, dense, MapsTypeOK
  <2> QED
    BY <1>1, <1>2, <1>3, <2>3, <2>4, <2>6
<1>5. CASE forward_dirty[u] = None
  <2>1. x = forward[u] /\ x < doc_count /\ reverse[x] = u /\ reverse_dirty[x] = None
    BY <1>1, <1>5 DEF resolve_uid, OverlayInv, DenseInv, InTranche, MapsTypeOK
  <2>2. deleted_since_dense' = deleted_since_dense \cup {x}
    BY <2>1 DEF delete_document_deferred, Tombstone
  <2>3. FreshInv'
    BY <1>1, <1>5, <2>2 DEF delete_document_deferred, MapsTypeOK, FreshInv, dense
  <2>4. OverlayInv'
    BY <1>1, <1>5, <2>1, <2>2 DEF delete_document_deferred, MapsTypeOK, OverlayInv, dense, InTranche
  <2>5. \A d \in DocId : uid_for_doc_id(d)' = IF d = x THEN None ELSE uid_for_doc_id(d)
    BY <1>1, <2>1, <2>2 DEF delete_document_deferred, uid_for_doc_id, dense, MapsTypeOK
  <2> QED
    BY <1>1, <1>2, <1>3, <2>3, <2>4, <2>5
<1> QED
  BY <1>4, <1>5

\* densify empties the overlays and changes no read.
LEMMA DensifyStep ==
    ASSUME IndInv, densify, new_doc_ids' \in SUBSET DocId
    PROVE  /\ IndInv'
           /\ \A d \in DocId : /\ uid_for_doc_id(d)' = uid_for_doc_id(d)
                               /\ blob_for_doc_id(d)' = blob_for_doc_id(d)
           /\ (OverlayEmpty /\ reverse_dirty = NoUids)'
<1> USE MaxDocsAssumption, NoneAssumption DEF IndInv, DocId
<1>1. CASE OverlayEmpty /\ UNCHANGED <<dense, overlay>>
  <2>1. reverse_dirty = NoUids
    BY <1>1 DEF OverlayEmpty, NoUids, NoIds, OverlayInv, MapsTypeOK
  <2>2. IndInv'
    BY <1>1 DEF densify, MapsTypeOK, DenseInv, OverlayInv, FreshInv, InTranche, dense, overlay
  <2> QED
    BY <1>1, <2>1, <2>2 DEF OverlayEmpty, uid_for_doc_id, blob_for_doc_id, NoUids, NoIds,
       dense, overlay
<1>2. CASE densify_full
  <2>1. \A d \in DocId : KeptSlot(d) <=> uid_for_doc_id(d) # None
    BY IndInvViews DEF KeptSlot, ViewsAgree, uid_for_doc_id, DenseInv, OverlayInv,
       InTranche, MapsTypeOK
  <2>2. \A d \in DocId : /\ uid_for_doc_id(d) \in Uid \cup {None}
                         /\ blob_for_doc_id(d) \in Source \cup {None}
    BY DEF uid_for_doc_id, blob_for_doc_id, MapsTypeOK
  <2>3. \A d \in DocId : reverse'[d] = uid_for_doc_id(d) /\ documents'[d] = blob_for_doc_id(d)
    BY <1>2, <2>1, IndInvViews DEF densify_full, ViewsAgree
  <2>4. \A u \in Uid, d \in DocId : forward'[u] = d <=> uid_for_doc_id(d) = u
    <3> SUFFICES ASSUME NEW u \in Uid, NEW d \in DocId
                 PROVE  forward'[u] = d <=> uid_for_doc_id(d) = u
      OBVIOUS
    <3>1. \A e \in DocId : (KeptSlot(e) /\ uid_for_doc_id(e) = u) <=> uid_for_doc_id(e) = u
      BY <2>1
    <3>2. forward'[u] = IF \E e \in DocId : KeptSlot(e) /\ uid_for_doc_id(e) = u
                        THEN CHOOSE e \in DocId : KeptSlot(e) /\ uid_for_doc_id(e) = u
                        ELSE None
      BY <1>2 DEF densify_full
    <3>3. \A e \in DocId : uid_for_doc_id(e) = u => (uid_for_doc_id(d) = u => e = d)
      BY IndInvViews DEF FstKeysUnique
    <3> HIDE DEF DocId
    <3>4. CASE \E e \in DocId : KeptSlot(e) /\ uid_for_doc_id(e) = u
      BY <3>1, <3>2, <3>3, <3>4
    <3>5. CASE ~\E e \in DocId : KeptSlot(e) /\ uid_for_doc_id(e) = u
      BY <3>1, <3>2, <3>5 DEF DocId
    <3> QED
      BY <3>4, <3>5
  <2>5. MapsTypeOK'
    <3>1. reverse' \in [DocId -> Uid \cup {None}] /\ documents' \in [DocId -> Source \cup {None}]
      BY <1>2, <2>2, <2>3 DEF densify_full
    <3>2. forward' \in [Uid -> DocId \cup {None}]
      <4> HIDE DEF DocId
      <4> QED BY <1>2 DEF densify_full
    <3> QED
      BY <1>2, <3>1, <3>2 DEF densify_full, densify, ClearOverlay, MapsTypeOK, NoIds, NoUids
  <2>6. DenseInv'
    <3>1. \A d \in DocId : uid_for_doc_id(d) = None <=> blob_for_doc_id(d) = None
      BY IndInvViews DEF ViewsAgree
    <3>2. \A d \in DocId : uid_for_doc_id(d) # None => d < next_doc_id
      BY <2>1 DEF KeptSlot
    <3>3. doc_count' = next_doc_id /\ next_doc_id' = next_doc_id
      BY <1>2 DEF densify_full, densify
    <3> QED
      BY <2>3, <2>4, <3>1, <3>2, <3>3 DEF DenseInv, MapsTypeOK
  <2>7. OverlayInv' /\ FreshInv' /\ (OverlayEmpty /\ reverse_dirty = NoUids)'
    BY <1>2 DEF densify_full, ClearOverlay, OverlayInv, FreshInv, NoIds, NoUids, OverlayEmpty
  <2>8. \A d \in DocId : /\ uid_for_doc_id(d)' = reverse'[d]
                         /\ blob_for_doc_id(d)' = documents'[d]
    BY <2>7 DEF uid_for_doc_id, blob_for_doc_id, OverlayEmpty, NoUids
  <2> QED
    BY <2>3, <2>5, <2>6, <2>7, <2>8
<1>3. CASE ~has_old_interference /\ densify_append_only
  <2>1. deleted_since_dense = {} /\ deleted_since_dense' = {}
    BY <1>3 DEF has_old_interference, densify_append_only
  <2>2. \A d \in DocId : InTranche(d) => reverse[d] = None /\ documents[d] = None
    BY DEF InTranche, DenseInv, MapsTypeOK
  <2>3. \A d \in DocId : ~InTranche(d) => reverse_dirty[d] = None /\ documents_dirty[d] = None
    BY <1>3 DEF has_old_interference, InTranche, OverlayInv, MapsTypeOK, DenseInv
  <2>4. \A d \in DocId : reverse'[d] = uid_for_doc_id(d) /\ documents'[d] = blob_for_doc_id(d)
    BY <1>3, <2>1, <2>2, <2>3 DEF densify_append_only, uid_for_doc_id, blob_for_doc_id
  <2>5. \A u \in Uid : forward'[u] = IF forward_dirty[u] # None THEN forward_dirty[u] ELSE forward[u]
    <3> SUFFICES ASSUME NEW u \in Uid
                 PROVE  forward'[u] = IF forward_dirty[u] # None THEN forward_dirty[u] ELSE forward[u]
      OBVIOUS
    <3>1. forward'[u] = IF \E d \in DocId : InTranche(d) /\ reverse_dirty[d] = u
                        THEN CHOOSE d \in DocId : InTranche(d) /\ reverse_dirty[d] = u
                        ELSE forward[u]
      BY <1>3 DEF densify_append_only, merge_forward_fst
    <3>2. \A d \in DocId : (InTranche(d) /\ reverse_dirty[d] = u) <=> forward_dirty[u] = d
      BY DEF OverlayInv
    <3>3. forward_dirty[u] \in DocId \cup {None}
      BY DEF MapsTypeOK
    <3>4. None \notin DocId
      OBVIOUS
    <3> HIDE DEF DocId
    <3>5. CASE forward_dirty[u] = None
      BY <3>1, <3>2, <3>4, <3>5
    <3>6. CASE forward_dirty[u] \in DocId
      <4>1. \A d \in DocId : (InTranche(d) /\ reverse_dirty[d] = u) <=> d = forward_dirty[u]
        BY <3>2
      <4>2. (CHOOSE d \in DocId : InTranche(d) /\ reverse_dirty[d] = u) = forward_dirty[u]
        BY <4>1, <3>6
      <4> QED
        BY <3>1, <3>4, <3>6, <4>1, <4>2
    <3> QED
      BY <3>3, <3>5, <3>6
  <2>6. \A u \in Uid, d \in DocId : forward'[u] = d <=> uid_for_doc_id(d) = u
    BY <2>1, <2>5, IndInvViews DEF ViewsAgree, resolve_uid
  <2>7. MapsTypeOK'
    <3>1. reverse' \in [DocId -> Uid \cup {None}] /\ documents' \in [DocId -> Source \cup {None}]
      BY <1>3 DEF densify_append_only, MapsTypeOK
    <3>2. forward' \in [Uid -> DocId \cup {None}]
      BY <1>3, <2>5 DEF densify_append_only, merge_forward_fst, MapsTypeOK
    <3> QED
      BY <1>3, <2>1, <3>1, <3>2 DEF densify_append_only, densify, MapsTypeOK, NoIds, NoUids
  <2>8. DenseInv'
    <3>1. \A d \in DocId : uid_for_doc_id(d) = None <=> blob_for_doc_id(d) = None
      BY IndInvViews DEF ViewsAgree
    <3>2. \A d \in DocId : uid_for_doc_id(d) # None => d < next_doc_id
      BY DEF uid_for_doc_id, DenseInv, OverlayInv, InTranche, MapsTypeOK
    <3>3. doc_count' = next_doc_id /\ next_doc_id' = next_doc_id
      BY <1>3 DEF densify_append_only, densify
    <3>4. \A d \in DocId : /\ reverse'[d] = None <=> documents'[d] = None
                           /\ reverse'[d] # None => d < doc_count'
      BY <2>4, <3>1, <3>2, <3>3
    <3>5. \A u \in Uid, d \in DocId : forward'[u] = d <=> reverse'[d] = u
      BY <2>4, <2>6
    <3> QED
      BY <3>3, <3>4, <3>5 DEF DenseInv, MapsTypeOK
  <2>9. OverlayInv' /\ FreshInv' /\ (OverlayEmpty /\ reverse_dirty = NoUids)'
    BY <1>3, <2>1 DEF densify_append_only, OverlayInv, FreshInv, NoIds, NoUids, OverlayEmpty
  <2>10. \A d \in DocId : /\ uid_for_doc_id(d)' = reverse'[d]
                          /\ blob_for_doc_id(d)' = documents'[d]
    BY <2>9 DEF uid_for_doc_id, blob_for_doc_id, OverlayEmpty, NoUids
  <2> QED
    BY <2>4, <2>7, <2>8, <2>9, <2>10
<1> QED
  BY <1>1, <1>2, <1>3 DEF densify

-----------------------------------------------------------------------------
(* Invariance.                                                             *)

\* A step that leaves the maps alone keeps the invariant and the reads.
LEMMA SameMaps ==
    ASSUME IndInv, UNCHANGED <<dense, overlay, next_doc_id>>,
           new_doc_ids' \in SUBSET DocId
    PROVE  IndInv' /\ \A d \in DocId : uid_for_doc_id(d)' = uid_for_doc_id(d)
  BY DEF IndInv, MapsTypeOK, DenseInv, OverlayInv, FreshInv, InTranche, dense, overlay,
     uid_for_doc_id

\* The four kinds of step: every action is an upsert, a delete, a densify, or
\* leaves the maps alone.
LEMMA StepKinds ==
    ASSUME IndInv, [Next]_vars
    PROVE  /\ new_doc_ids' \in SUBSET DocId
           /\ \/ \E u \in Uid, s \in Source : upsert_document_deferred(u, s)
              \/ \E u \in Uid : delete_document_deferred(u)
              \/ densify
              \/ UNCHANGED <<dense, overlay, live_count, next_doc_id>>
<1> USE DEF IndInv, MapsTypeOK
<1>1. ASSUME NEW u \in Uid, NEW s \in Source,
             IndexDocument(u, s) \/ CreateDocument(u, s)
      PROVE  new_doc_ids' \in SUBSET DocId /\ upsert_document_deferred(u, s)
  BY <1>1 DEF IndexDocument, CreateDocument, batch
<1>2. ASSUME NEW u \in Uid, NEW s \in Source, BulkIndex(u, s) \/ BulkCreate(u, s)
      PROVE  new_doc_ids' \in SUBSET DocId /\ upsert_document_deferred(u, s)
  <2>1. upsert_document_deferred(u, s)
    BY <1>2 DEF BulkIndex, BulkCreate
  <2>2. ~has_document(u) => next_doc_id \in DocId
    BY <2>1, MaxDocsAssumption DEF upsert_document_deferred, DocId
  <2> QED
    BY <1>2, <2>1, <2>2 DEF BulkIndex, BulkCreate
<1>3. ASSUME NEW u \in Uid, DeleteDocument(u) \/ BulkDelete(u)
      PROVE  new_doc_ids' \in SUBSET DocId /\ delete_document_deferred(u)
  BY <1>3 DEF DeleteDocument, BulkDelete, batch
<1>4. CASE SetMapping \/ BulkBegin
  BY <1>4 DEF SetMapping, BulkBegin, batch
<1>5. CASE Refresh
  BY <1>5 DEF Refresh, batch
<1>6. CASE BulkEnd
  BY <1>6 DEF BulkEnd, maybe_densify_by_budget
<1>7. CASE UNCHANGED vars
  BY <1>7 DEF vars, dense, overlay, batch
<1> QED
  BY <1>1, <1>2, <1>3, <1>4, <1>5, <1>6, <1>7 DEF Next

\* An empty index satisfies the invariant.
LEMMA IndInvInit == Init => IndInv
  BY MaxDocsAssumption, NoneAssumption
     DEF Init, IndInv, MapsTypeOK, DenseInv, OverlayInv, FreshInv, NoIds, NoUids, DocId

\* Every handler preserves the invariant, by the kind of step it takes.
LEMMA IndInvNext == IndInv /\ [Next]_vars => IndInv'
<1> SUFFICES ASSUME IndInv, [Next]_vars PROVE IndInv'
  OBVIOUS
<1>1. new_doc_ids' \in SUBSET DocId
  BY StepKinds
<1>2. ASSUME NEW u \in Uid, NEW s \in Source, upsert_document_deferred(u, s) PROVE IndInv'
  BY <1>1, <1>2, UpsertStep
<1>3. ASSUME NEW u \in Uid, delete_document_deferred(u) PROVE IndInv'
  BY <1>1, <1>3, DeleteStep
<1>4. CASE densify
  BY <1>1, <1>4, DensifyStep
<1>5. CASE UNCHANGED <<dense, overlay, live_count, next_doc_id>>
  BY <1>1, <1>5, SameMaps
<1> QED
  BY <1>2, <1>3, <1>4, <1>5, StepKinds

\* Snapshot and overlays stay consistent (IndInv) through every sequence of
\* writes, bulks, refreshes and densifies of state.rs.
THEOREM IndInvHolds == Spec => []IndInv
<1>1. Init => IndInv
  BY IndInvInit
<1>2. IndInv /\ [Next]_vars => IndInv'
  BY IndInvNext
<1> QED
  BY <1>1, <1>2, PTL DEF Spec

\* resolve_uid, uid_for_doc_id and blob_for_doc_id always agree across overlay
\* and snapshot.
THEOREM ViewsAgreeHolds == Spec => []ViewsAgree
  BY IndInvHolds, IndInvViews, PTL

\* Neither densify_full nor merge_forward_fst hands an FST builder a duplicate
\* key, on which it would panic.
THEOREM FstKeysUniqueHolds == Spec => []FstKeysUnique
  BY IndInvHolds, IndInvViews, PTL

\* upsert_document_deferred never gives a doc id to another document, and no
\* densify moves a document to another doc id.
THEOREM DocIdsNeverReusedHolds == Spec => DocIdsNeverReused
<1> DEFINE Kept == \A d \in DocId : d < next_doc_id =>
                      \/ uid_for_doc_id(d)' = uid_for_doc_id(d)
                      \/ uid_for_doc_id(d)' = None
<1>1. ASSUME IndInv, [Next]_vars PROVE Kept
  <2>1. new_doc_ids' \in SUBSET DocId
    BY <1>1, StepKinds
  <2>2. ASSUME NEW u \in Uid, NEW s \in Source, upsert_document_deferred(u, s) PROVE Kept
    BY <1>1, <2>1, <2>2, UpsertStep, MaxDocsAssumption DEF DocId, IndInv, MapsTypeOK
  <2>3. ASSUME NEW u \in Uid, delete_document_deferred(u) PROVE Kept
    BY <1>1, <2>1, <2>3, DeleteStep
  <2>4. CASE densify
    BY <1>1, <2>1, <2>4, DensifyStep
  <2>5. CASE UNCHANGED <<dense, overlay, live_count, next_doc_id>>
    BY <1>1, <2>1, <2>5, SameMaps
  <2> QED
    BY <1>1, <2>2, <2>3, <2>4, <2>5, StepKinds
<1>2. IndInv /\ [Next]_vars => [Kept]_vars
  BY <1>1
<1> QED
  BY <1>2, IndInvHolds, PTL DEF Spec, DocIdsNeverReused

-----------------------------------------------------------------------------
(* The counter, the flag and the types.                                    *)

\* The doc ids are finitely many.
LEMMA DocIdFinite == IsFiniteSet(DocId) /\ Cardinality(DocId) = MaxDocs
<1>1. IsFiniteSet(DocId)
  BY FS_Interval, MaxDocsAssumption DEF DocId
<1>2. Cardinality(DocId) = IF 0 > MaxDocs - 1 THEN 0 ELSE (MaxDocs - 1) - 0 + 1
  BY FS_Interval, MaxDocsAssumption DEF DocId
<1> QED
  BY <1>1, <1>2, MaxDocsAssumption

\* The live doc ids are finitely many, at most MaxDocs.
LEMMA LiveFinite == IsFiniteSet(Live) /\ Cardinality(Live) \in 0 .. MaxDocs
<1>1. Live \subseteq DocId
  BY DEF Live
<1>2. IsFiniteSet(Live) /\ Cardinality(Live) <= Cardinality(DocId)
  BY <1>1, DocIdFinite, FS_Subset
<1>3. Cardinality(Live) \in Nat
  BY <1>2, FS_CardinalityType
<1> QED
  BY <1>2, <1>3, DocIdFinite, MaxDocsAssumption

\* An empty index counts no document.
LEMMA LiveCountInit == Init => LiveCountExact
<1> SUFFICES ASSUME Init PROVE LiveCountExact
  OBVIOUS
<1>1. Live = {}
  BY DEF Init, Live, uid_for_doc_id, NoUids
<1> QED
  BY <1>1, FS_EmptySet DEF Init, LiveCountExact

\* Each kind of step changes the counter as it changes the live doc ids.
LEMMA LiveCountNext == IndInv /\ LiveCountExact /\ [Next]_vars => LiveCountExact'
<1> SUFFICES ASSUME IndInv, LiveCountExact, [Next]_vars PROVE LiveCountExact'
  OBVIOUS
<1>1. new_doc_ids' \in SUBSET DocId
  BY StepKinds
<1>2. ASSUME NEW u \in Uid, NEW s \in Source, upsert_document_deferred(u, s)
      PROVE  LiveCountExact'
  <2>1. CASE has_document(u)
    <3>1. Live' = Live
      BY <1>1, <1>2, <2>1, UpsertStep DEF Live
    <3> QED
      BY <1>1, <1>2, <2>1, <3>1, UpsertStep DEF LiveCountExact
  <2>2. CASE ~has_document(u)
    <3>1. Live' = Live \cup {next_doc_id} /\ next_doc_id \notin Live
      BY <1>1, <1>2, <2>2, UpsertStep, NoneAssumption DEF Live
    <3>2. Cardinality(Live \cup {next_doc_id}) = Cardinality(Live) + 1
      BY <3>1, LiveFinite, FS_AddElement
    <3> QED
      BY <1>1, <1>2, <2>2, <3>1, <3>2, UpsertStep DEF LiveCountExact
  <2> QED
    BY <2>1, <2>2
<1>3. ASSUME NEW u \in Uid, delete_document_deferred(u) PROVE LiveCountExact'
  <2>1. Live' = Live \ {resolve_uid(u)} /\ resolve_uid(u) \in Live
    BY <1>1, <1>3, DeleteStep, NoneAssumption DEF Live
  <2>2. Cardinality(Live \ {resolve_uid(u)}) = Cardinality(Live) - 1
    BY <2>1, LiveFinite, FS_RemoveElement
  <2> QED
    BY <1>3, <2>1, <2>2 DEF LiveCountExact, delete_document_deferred
<1>4. CASE densify
  BY <1>1, <1>4, DensifyStep DEF Live, LiveCountExact, densify
<1>5. CASE UNCHANGED <<dense, overlay, live_count, next_doc_id>>
  BY <1>1, <1>5, SameMaps DEF Live, LiveCountExact
<1> QED
  BY <1>2, <1>3, <1>4, <1>5, StepKinds

\* live_count, kept incrementally by the mutators of state.rs, is exact.
THEOREM LiveCountExactHolds == Spec => []LiveCountExact
<1>1. Init => LiveCountExact
  BY LiveCountInit
<1>2. IndInv /\ LiveCountExact /\ [Next]_vars => LiveCountExact'
  BY LiveCountNext
<1> QED
  BY <1>1, <1>2, IndInvHolds, PTL DEF Spec

\* Every handler keeps a finalized index drained, or drops the flag.
LEMMA FinalizedNext == IndInv /\ FinalizedInv /\ [Next]_vars => FinalizedInv'
<1> SUFFICES ASSUME IndInv, FinalizedInv, [Next]_vars PROVE FinalizedInv'
  OBVIOUS
<1> DEFINE Drained == OverlayEmpty /\ reverse_dirty = NoUids
<1>1. ASSUME NEW u \in Uid, NEW s \in Source, IndexDocument(u, s) \/ CreateDocument(u, s)
      PROVE  FinalizedInv'
  BY <1>1 DEF IndexDocument, CreateDocument, FinalizedInv, batch
<1>2. ASSUME NEW u \in Uid, NEW s \in Source, BulkIndex(u, s) \/ BulkCreate(u, s)
      PROVE  FinalizedInv'
  <2>1. in_bulk'
    BY <1>2 DEF BulkIndex, BulkCreate
  <2>2. needs_full_rebuild' \/ new_doc_ids' # {}
    <3>1. CASE BulkIndex(u, s) /\ has_document(u)
      BY <3>1 DEF BulkIndex
    <3>2. CASE BulkIndex(u, s) /\ ~has_document(u)
      BY <3>2 DEF BulkIndex
    <3>3. CASE BulkCreate(u, s)
      BY <3>3 DEF BulkCreate
    <3> QED
      BY <1>2, <3>1, <3>2, <3>3
  <2> QED
    BY <2>1, <2>2 DEF FinalizedInv
<1>3. ASSUME NEW u \in Uid, DeleteDocument(u) \/ BulkDelete(u)
      PROVE  FinalizedInv'
  BY <1>3 DEF DeleteDocument, BulkDelete, FinalizedInv, batch
<1>4. CASE SetMapping
  BY <1>4 DEF SetMapping, FinalizedInv, batch
<1>5. CASE BulkBegin
  <2>1. UNCHANGED overlay
    BY <1>5 DEF BulkBegin
  <2>2. Drained => Drained'
    BY <2>1 DEF overlay, OverlayEmpty, NoIds, NoUids
  <2> HIDE DEF Drained
  <2>3. terms_finalized => Drained
    BY <1>5 DEF BulkBegin, FinalizedInv, Drained
  <2> QED
    BY <1>5, <2>2, <2>3 DEF BulkBegin, FinalizedInv, Drained
<1>6. CASE Refresh
  <2>1. new_doc_ids' \in SUBSET DocId
    BY StepKinds
  <2>2. Drained'
    BY <1>6, <2>1, DensifyStep DEF Refresh
  <2> QED
    BY <1>6, <2>2 DEF Refresh, FinalizedInv, batch
<1>7. CASE BulkEnd
  <2>1. CASE Appends
    BY <1>7, <2>1 DEF BulkEnd, Appends, FinalizedInv
  <2>2. CASE ~Appends
    <3>1. UNCHANGED overlay
      BY <1>7, <2>2 DEF BulkEnd
    <3>2. Drained => Drained'
      BY <3>1 DEF overlay, OverlayEmpty, NoIds, NoUids
    <3> HIDE DEF Drained
    <3>3. terms_finalized /\ ~needs_full_rebuild /\ new_doc_ids = {} => Drained
      BY DEF FinalizedInv, Drained
    <3> QED
      BY <1>7, <3>2, <3>3 DEF BulkEnd, FinalizedInv, Drained
  <2> QED
    BY <2>1, <2>2
<1>8. CASE UNCHANGED vars
  BY <1>8 DEF vars, dense, overlay, batch, FinalizedInv, OverlayEmpty, NoIds, NoUids
<1> QED
  BY <1>1, <1>2, <1>3, <1>4, <1>5, <1>6, <1>7, <1>8 DEF Next

\* The debug_assert of finalize_terms_for_refresh never fires.
THEOREM FinalizedDrainedHolds == Spec => []FinalizedDrained
<1>1. Init => FinalizedInv
  BY DEF Init, FinalizedInv
<1>2. IndInv /\ FinalizedInv /\ [Next]_vars => FinalizedInv'
  BY FinalizedNext
<1>3. FinalizedInv => FinalizedDrained
  BY DEF FinalizedInv, FinalizedDrained
<1> QED
  BY <1>1, <1>2, <1>3, IndInvHolds, PTL DEF Spec

\* The Boolean variables stay Boolean.
LEMMA FlagsNext == TypeOK /\ [Next]_vars =>
    /\ terms_finalized' \in BOOLEAN
    /\ in_bulk' \in BOOLEAN
    /\ needs_full_rebuild' \in BOOLEAN
<1> DEFINE Flags == /\ terms_finalized \in BOOLEAN
                    /\ in_bulk \in BOOLEAN
                    /\ needs_full_rebuild \in BOOLEAN
<1> SUFFICES ASSUME Flags, [Next]_vars PROVE Flags'
  BY DEF TypeOK
<1>1. ASSUME NEW u \in Uid, NEW s \in Source, IndexDocument(u, s) \/ CreateDocument(u, s)
      PROVE  Flags'
  BY <1>1 DEF IndexDocument, CreateDocument, batch
<1>2. ASSUME NEW u \in Uid, NEW s \in Source, BulkIndex(u, s) \/ BulkCreate(u, s)
      PROVE  Flags'
  BY <1>2 DEF BulkIndex, BulkCreate
<1>3. ASSUME NEW u \in Uid, DeleteDocument(u) \/ BulkDelete(u) PROVE Flags'
  BY <1>3 DEF DeleteDocument, BulkDelete, batch
<1>4. CASE SetMapping
  BY <1>4 DEF SetMapping, batch
<1>5. CASE Refresh
  BY <1>5 DEF Refresh, batch
<1>6. CASE BulkBegin
  BY <1>6 DEF BulkBegin
<1>7. CASE BulkEnd
  BY <1>7 DEF BulkEnd
<1>8. CASE UNCHANGED vars
  BY <1>8 DEF vars, batch
<1> QED
  BY <1>1, <1>2, <1>3, <1>4, <1>5, <1>6, <1>7, <1>8 DEF Next

\* Every variable keeps its type; the counter stays below the id bound.
THEOREM TypeCorrect == Spec => []TypeOK
<1> DEFINE Flags == /\ terms_finalized \in BOOLEAN
                    /\ in_bulk \in BOOLEAN
                    /\ needs_full_rebuild \in BOOLEAN
<1>1. IndInv /\ LiveCountExact /\ Flags => TypeOK
  BY LiveFinite DEF IndInv, LiveCountExact, TypeOK
<1>2. Init => Flags
  BY DEF Init
<1>3. TypeOK /\ [Next]_vars => Flags'
  BY FlagsNext
<1> HIDE DEF Flags
<1> QED
  BY <1>1, <1>2, <1>3, IndInvHolds, LiveCountExactHolds, PTL DEF Spec

-----------------------------------------------------------------------------
(* Refinement: what callers see is the plain document map.                 *)

\* An upsert writes its own uid's entry of the view and no other.
LEMMA UpsertView ==
    ASSUME IndInv, NEW u \in Uid, NEW s \in Source, upsert_document_deferred(u, s)
    PROVE  View' = [View EXCEPT ![u] = s]
<1> USE MaxDocsAssumption, NoneAssumption DEF IndInv, DocId
<1> DEFINE x == IF has_document(u) THEN resolve_uid(u) ELSE next_doc_id
<1>1. x \in DocId /\ x \notin deleted_since_dense
  <2>1. CASE has_document(u)
    BY <2>1, IndInvViews DEF has_document, resolve_uid, MapsTypeOK, OverlayInv, DenseInv,
       InTranche
  <2>2. CASE ~has_document(u)
    BY <2>2 DEF upsert_document_deferred, MapsTypeOK, OverlayInv, DenseInv
  <2> QED
    BY <2>1, <2>2
<1>2. \A v \in Uid : resolve_uid(v)' = IF v = u THEN x ELSE resolve_uid(v)
  <2>1. CASE has_document(u)
    BY <2>1 DEF upsert_document_deferred, resolve_uid, dense
  <2>2. CASE ~has_document(u)
    <3>1. forward_dirty' = [forward_dirty EXCEPT ![u] = x]
      BY <2>2 DEF upsert_document_deferred
    <3> QED
      BY <1>1, <2>2, <3>1 DEF upsert_document_deferred, resolve_uid, dense, MapsTypeOK
  <2> QED
    BY <2>1, <2>2
<1>3. \A d \in DocId : blob_for_doc_id(d)' = IF d = x THEN s ELSE blob_for_doc_id(d)
  <2>1. documents_dirty' = [documents_dirty EXCEPT ![x] = s]
    BY DEF upsert_document_deferred
  <2> QED
    BY <1>1, <2>1 DEF upsert_document_deferred, blob_for_doc_id, dense, MapsTypeOK
<1>4. \A v \in Uid : v # u /\ has_document(v) => resolve_uid(v) \in DocId /\ resolve_uid(v) # x
  <2>1. \A v \in Uid : has_document(v) =>
            resolve_uid(v) \in DocId /\ uid_for_doc_id(resolve_uid(v)) = v
    BY IndInvViews DEF has_document, resolve_uid, MapsTypeOK, ViewsAgree
  <2>2. ~has_document(u) => uid_for_doc_id(x) = None
    BY <1>1 DEF uid_for_doc_id, DenseInv, OverlayInv, InTranche, MapsTypeOK
  <2> QED
    BY <2>1, <2>2
<1>5. ASSUME NEW v \in Uid PROVE View'[v] = [View EXCEPT ![u] = s][v]
  <2>1. CASE v = u
    BY <1>1, <1>2, <1>3, <2>1 DEF View, has_document
  <2>2. CASE v # u
    BY <1>2, <1>3, <1>4, <2>2 DEF View, has_document
  <2> QED
    BY <2>1, <2>2
<1> QED
  BY <1>5 DEF View

\* A delete clears its own uid's entry of the view and no other.
LEMMA DeleteView ==
    ASSUME IndInv, NEW u \in Uid, delete_document_deferred(u),
           new_doc_ids' \in SUBSET DocId
    PROVE  View' = [View EXCEPT ![u] = None]
<1> USE MaxDocsAssumption, NoneAssumption DEF DocId
<1> DEFINE x == resolve_uid(u)
<1>1. x \in DocId /\ uid_for_doc_id(x) = u /\ IndInv'
  BY DeleteStep
<1>2. \A d \in DocId : uid_for_doc_id(d)' = IF d = x THEN None ELSE uid_for_doc_id(d)
  BY DeleteStep
<1>3. /\ \A v \in Uid, d \in DocId : resolve_uid(v) = d <=> uid_for_doc_id(d) = v
      /\ \A v \in Uid, d \in DocId : resolve_uid(v)' = d <=> uid_for_doc_id(d)' = v
  BY <1>1, IndInvViews, IndInvViewsNext DEF ViewsAgree
<1>4. \A v \in Uid : resolve_uid(v) \in DocId \cup {None} /\ resolve_uid(v)' \in DocId \cup {None}
  BY <1>1 DEF resolve_uid, IndInv, MapsTypeOK
<1>5. \A v \in Uid : v # u => resolve_uid(v) # x
  <2> SUFFICES ASSUME NEW v \in Uid, v # u, resolve_uid(v) = x PROVE FALSE
    OBVIOUS
  <2>1. uid_for_doc_id(x) = v
    BY <1>1, <1>3
  <2> QED
    BY <1>1, <2>1
<1>6. \A v \in Uid : resolve_uid(v)' = IF v = u THEN None ELSE resolve_uid(v)
  <2> SUFFICES ASSUME NEW v \in Uid
               PROVE  resolve_uid(v)' = IF v = u THEN None ELSE resolve_uid(v)
    OBVIOUS
  <2>1. \A d \in DocId : resolve_uid(v)' = d <=> (v # u /\ resolve_uid(v) = d)
    <3> SUFFICES ASSUME NEW d \in DocId
                 PROVE  uid_for_doc_id(d)' = v <=> (v # u /\ uid_for_doc_id(d) = v)
      BY <1>3
    <3>1. CASE d = x
      BY <1>1, <1>2, <3>1
    <3>2. CASE d # x
      <4>1. uid_for_doc_id(d) # u
        BY <1>3, <3>2
      <4> QED
        BY <1>2, <3>2, <4>1
    <3> QED
      BY <3>1, <3>2
  <2>2. None \notin DocId
    OBVIOUS
  <2> HIDE DEF x, DocId
  <2> QED
    BY <1>4, <2>1, <2>2
<1>7. \A d \in DocId : d # x => blob_for_doc_id(d)' = blob_for_doc_id(d)
  BY <1>1 DEF delete_document_deferred, blob_for_doc_id, dense, Tombstone, IndInv, MapsTypeOK
<1>8. ASSUME NEW v \in Uid PROVE View'[v] = [View EXCEPT ![u] = None][v]
  BY <1>4, <1>5, <1>6, <1>7 DEF View, has_document
<1> QED
  BY <1>8 DEF View

\* densify is invisible.
LEMMA DensifyView ==
    ASSUME IndInv, densify, new_doc_ids' \in SUBSET DocId
    PROVE  View' = View
<1>1. IndInv' /\ \A d \in DocId : /\ uid_for_doc_id(d)' = uid_for_doc_id(d)
                                  /\ blob_for_doc_id(d)' = blob_for_doc_id(d)
  BY DensifyStep
<1>2. \A v \in Uid, d \in DocId : resolve_uid(v) = d <=> resolve_uid(v)' = d
  BY <1>1, IndInvViews, IndInvViewsNext DEF ViewsAgree
<1>3. \A v \in Uid : resolve_uid(v) \in DocId \cup {None} /\ resolve_uid(v)' \in DocId \cup {None}
  BY <1>1 DEF resolve_uid, IndInv, MapsTypeOK
<1>4. \A v \in Uid : resolve_uid(v)' = resolve_uid(v)
  BY <1>2, <1>3
<1> QED
  BY <1>1, <1>3, <1>4 DEF View, has_document

\* A step that leaves the maps alone leaves the view alone.
LEMMA SameView ==
    ASSUME UNCHANGED <<dense, overlay, live_count, next_doc_id>>
    PROVE  View' = View
  BY DEF View, has_document, resolve_uid, blob_for_doc_id, dense, overlay

\* Every write handler changes the stored documents by exactly its own write,
\* and refreshes, mapping changes and the two ends of a bulk change none.
THEOREM HandlersExactHolds == Spec => HandlersExact
<1> DEFINE Upserts(u, s) == \/ IndexDocument(u, s) \/ CreateDocument(u, s)
                            \/ BulkIndex(u, s) \/ BulkCreate(u, s)
           Exact == /\ \A u \in Uid, s \in Source :
                          Upserts(u, s) => View' = [View EXCEPT ![u] = s]
                    /\ \A u \in Uid : DeleteDocument(u) \/ BulkDelete(u)
                          => View' = [View EXCEPT ![u] = None]
                    /\ SetMapping \/ Refresh \/ BulkBegin \/ BulkEnd => View' = View
<1>1. ASSUME IndInv, [Next]_vars PROVE Exact
  <2>1. new_doc_ids' \in SUBSET DocId
    BY <1>1, StepKinds
  <2>2. ASSUME NEW u \in Uid, NEW s \in Source, Upserts(u, s)
        PROVE  View' = [View EXCEPT ![u] = s]
    <3>1. upsert_document_deferred(u, s)
      BY <2>2 DEF IndexDocument, CreateDocument, BulkIndex, BulkCreate
    <3> QED
      BY <1>1, <3>1, UpsertView
  <2>3. ASSUME NEW u \in Uid, DeleteDocument(u) \/ BulkDelete(u)
        PROVE  View' = [View EXCEPT ![u] = None]
    <3>1. delete_document_deferred(u)
      BY <2>3 DEF DeleteDocument, BulkDelete
    <3> QED
      BY <1>1, <2>1, <3>1, DeleteView
  <2>4. ASSUME SetMapping \/ Refresh \/ BulkBegin \/ BulkEnd PROVE View' = View
    <3>1. densify \/ UNCHANGED <<dense, overlay, live_count, next_doc_id>>
      BY <2>4 DEF SetMapping, Refresh, BulkBegin, BulkEnd, maybe_densify_by_budget
    <3> QED
      BY <1>1, <2>1, <3>1, DensifyView, SameView
  <2> QED
    BY <2>2, <2>3, <2>4
<1>2. IndInv /\ [Next]_vars => [Exact]_vars
  BY <1>1
<1> QED
  BY <1>2, IndInvHolds, PTL DEF Spec, HandlersExact

\* The id maps implement the document map of DocStore.
THEOREM RefinesDocStore == Spec => ImplementsDocStore
<1>1. Init => Abstract!Init
  BY DEF Init, Abstract!Init, View, has_document, resolve_uid, NoIds
<1>2. ASSUME IndInv, [Next]_vars PROVE [Abstract!Next]_View
  <2>1. new_doc_ids' \in SUBSET DocId
    BY <1>2, StepKinds
  <2>2. ASSUME NEW u \in Uid, NEW s \in Source, upsert_document_deferred(u, s)
        PROVE  Abstract!Next
    BY <1>2, <2>2, UpsertView DEF Abstract!Next, Abstract!Put
  <2>3. ASSUME NEW u \in Uid, delete_document_deferred(u) PROVE Abstract!Next
    BY <1>2, <2>1, <2>3, DeleteView DEF Abstract!Next, Abstract!Delete
  <2>4. CASE densify
    BY <1>2, <2>1, <2>4, DensifyView
  <2>5. CASE UNCHANGED <<dense, overlay, live_count, next_doc_id>>
    BY <2>5, SameView
  <2> QED
    BY <1>2, <2>2, <2>3, <2>4, <2>5, StepKinds
<1>3. IndInv /\ [Next]_vars => [Abstract!Next]_View
  BY <1>2
<1> QED
  BY <1>1, <1>3, IndInvHolds, PTL DEF Spec, ImplementsDocStore, Abstract!Spec
=============================================================================
