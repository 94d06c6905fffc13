------------------------ MODULE InMemoryIndexProofs ------------------------
(***************************************************************************)
(* Proofs about one index as a whole, InMemoryIndex, for every set of uids *)
(* and sources, every flush and densify budget and every merge policy.     *)
(***************************************************************************)
EXTENDS InMemoryIndex, IdMapsProofs, SequenceLemmas

-----------------------------------------------------------------------------
(* The inductive invariant, next to the one of the id maps.                *)

Posting == DocId \X Source

Segment == [doc_base : Nat, doc_count : Nat, live_docs : SUBSET Nat, terms : SUBSET Posting]

SegmentsOK ==
    /\ segments \in Seq(Segment) /\ segments # <<>>
    /\ postings_builder \in SUBSET Posting
    /\ terms_dirty \in BOOLEAN
    /\ next_doc_id_hint \in 0 .. next_doc_id
    /\ flush_budget \in FlushBudgets
    /\ phase \in {"idle", "flush", "merge"}

\* The live docs of a segment are the documents that terms posts.
Posts(seg, terms) ==
    /\ seg.live_docs = {p[1] - seg.doc_base : p \in terms}
    /\ \A p \in terms : p[1] >= seg.doc_base

\* Sealed segments: each ends where the next begins, and posts its live docs.
TileInv ==
    /\ segments[1].doc_base = 0
    /\ \A k \in Sealed :
          /\ segments[k].doc_count > 0
          /\ segments[k + 1].doc_base = segments[k].doc_base + segments[k].doc_count
          /\ \A n \in segments[k].live_docs : n < segments[k].doc_count
          /\ Posts(segments[k], segments[k].terms)

\* The active segment will post its live docs, all below the hint.
ActiveInv ==
    /\ Posts(segments[active], TermsNow)
    /\ segments[active].doc_base <= next_doc_id_hint
    /\ \A p \in TermsNow : p[1] < next_doc_id_hint

\* The builder holds the active segment until a refresh drops it.
BuilderInv ==
    /\ ~terms_finalized => TermsNow = postings_builder
    /\ terms_finalized => ~terms_dirty

\* The rest of a handler runs before a bulk starts; a bulk's doc ids are new
\* to the segments.
LockInv ==
    /\ phase # "idle" => ~in_bulk
    /\ \A d \in new_doc_ids : next_doc_id_hint <= d /\ d < next_doc_id

IxInv ==
    /\ SegmentsOK
    /\ TileInv
    /\ ActiveInv
    /\ BuilderInv
    /\ LockInv

\* The postings are those of the documents, but for what a bulk added.
PostedInv ==
    ~needs_full_rebuild => Indexed = {p \in StoredDocs : p[1] \notin new_doc_ids}

-----------------------------------------------------------------------------
(* The composition keeps the promises of the id maps.                      *)

\* Every handler acts on the id maps as IdMaps says; the steps of the index
\* alone leave them unchanged.
LEMMA IxStep ==
    ASSUME [IxNext]_allVars
    PROVE  [Next]_vars
<1>1. CASE UNCHANGED allVars
  BY <1>1 DEF allVars
<1>2. ASSUME NEW u \in Uid, NEW s \in Source,
             IxIndexDocument(u, s) \/ IxCreateDocument(u, s)
             \/ IxBulkIndex(u, s) \/ IxBulkCreate(u, s)
      PROVE  Next
  BY <1>2 DEF IxIndexDocument, IxCreateDocument, IxBulkIndex, IxBulkCreate, Next
<1>3. ASSUME NEW u \in Uid, IxDeleteDocument(u) \/ IxBulkDelete(u) PROVE Next
  BY <1>3 DEF IxDeleteDocument, IxBulkDelete, Next
<1>4. CASE IxSetMapping \/ IxRefresh \/ IxBulkBegin \/ IxBulkEnd
  BY <1>4 DEF IxSetMapping, IxRefresh, IxBulkBegin, IxBulkEnd, Next
<1>5. CASE EnsureTermsReady \/ IxFlush \/ IxMerge
  BY <1>5 DEF EnsureTermsReady, IxFlush, IxMerge
<1> QED
  BY <1>1, <1>2, <1>3, <1>4, <1>5 DEF IxNext

\* The whole index implements the id maps, so all that is proved of them holds
\* of it too.
THEOREM IxImplementsIdMaps == IxSpec => Spec
<1>1. IxInit => Init
  BY DEF IxInit
<1>2. [IxNext]_allVars => [Next]_vars
  BY IxStep
<1> QED
  BY <1>1, <1>2, PTL DEF IxSpec, Spec

\* What the id maps contribute.
MapsInv == IndInv /\ TypeOK /\ FinalizedInv

LEMMA MapsInvHolds == IxSpec => []MapsInv
<1>1. Init => FinalizedInv
  BY DEF Init, FinalizedInv, OverlayEmpty
<1>2. IndInv /\ FinalizedInv /\ [Next]_vars => FinalizedInv'
  BY FinalizedNext
<1>3. Spec => []FinalizedInv
  BY <1>1, <1>2, IndInvHolds, PTL DEF Spec
<1> QED
  BY <1>3, IxImplementsIdMaps, IndInvHolds, TypeCorrect, PTL DEF MapsInv

-----------------------------------------------------------------------------
(* Segments.                                                               *)

LEMMA SegmentFacts ==
    ASSUME SegmentsOK
    PROVE  /\ active \in Nat \ {0} /\ DOMAIN segments = 1 .. active
           /\ active \in 1 .. active /\ 1 \in 1 .. active
           /\ Sealed \subseteq 1 .. active /\ active \notin Sealed
           /\ \A k \in 1 .. active : k = active \/ k \in Sealed
           /\ \A k \in Sealed : k + 1 \in 1 .. active
           /\ \A k \in 1 .. active :
                 /\ segments[k] \in Segment
                 /\ segments[k].doc_base \in Nat /\ segments[k].doc_count \in Nat
                 /\ segments[k].live_docs \subseteq Nat /\ segments[k].terms \subseteq Posting
           /\ TermsNow \subseteq Posting
           /\ DocId \subseteq Nat
           /\ \A p \in Posting : p[1] \in DocId /\ p[1] \in Nat /\ p[2] \in Source
<1>1. active \in Nat \ {0} /\ DOMAIN segments = 1 .. active
  BY LenProperties, EmptySeq DEF SegmentsOK, active
<1>2. /\ active \in 1 .. active /\ 1 \in 1 .. active
      /\ Sealed \subseteq 1 .. active /\ active \notin Sealed
      /\ \A k \in 1 .. active : k = active \/ k \in Sealed
      /\ \A k \in Sealed : k + 1 \in 1 .. active
  BY <1>1 DEF Sealed
<1>3. \A k \in 1 .. active : segments[k] \in Segment
  BY ElementOfSeq DEF SegmentsOK, active
<1>4. \A x \in Segment : /\ x.doc_base \in Nat /\ x.doc_count \in Nat
                         /\ x.live_docs \subseteq Nat /\ x.terms \subseteq Posting
  BY DEF Segment
<1>5. TermsNow \subseteq Posting
  BY <1>2, <1>3, <1>4 DEF TermsNow, SegmentsOK
<1>6. DocId \subseteq Nat
  BY MaxDocsAssumption DEF DocId
<1>7. \A p \in Posting : p[1] \in DocId /\ p[1] \in Nat /\ p[2] \in Source
  BY <1>6 DEF Posting
<1> QED
  BY <1>1, <1>2, <1>3, <1>4, <1>5, <1>6, <1>7

\* The hint is one past the largest doc id.
LEMMA HintFacts ==
    ASSUME NEW docs \in SUBSET Posting, NEW h \in Nat, NEW n \in Nat, h <= n,
           \A p \in docs : p[1] < n
    PROVE  /\ HintAfter(h, docs) \in h .. n
           /\ \A p \in docs : p[1] < HintAfter(h, docs)
<1> DEFINE S == {h} \cup {p[1] + 1 : p \in docs}
<1>1. \A p \in docs : p[1] \in Nat /\ p[1] + 1 \in S /\ p[1] + 1 \in Nat /\ p[1] + 1 <= n
  BY MaxDocsAssumption DEF Posting, DocId
<1>2. S \in SUBSET Nat /\ S # {} /\ h \in S /\ \A x \in S : x <= n
  BY <1>1
<1>3. HintAfter(h, docs) = Max(S)
  BY DEF HintAfter
<1> HIDE DEF S
<1>4. Max(S) \in S /\ \A x \in S : x <= Max(S)
  BY <1>2, MaxNat
<1>5. Max(S) \in h .. n
  <2> DEFINE m == Max(S)
  <2>1. m \in S /\ h <= m
    BY <1>2, <1>4
  <2> HIDE DEF m
  <2>2. m \in Nat /\ m <= n
    BY <1>2, <2>1
  <2> QED
    BY <2>1, <2>2 DEF m
<1>6. \A p \in docs : p[1] < Max(S)
  BY <1>1, <1>4, <1>5
<1> QED
  BY <1>3, <1>5, <1>6

\* The stored documents are postings of doc ids given out.
LEMMA StoredFacts ==
    MapsTypeOK => StoredDocs \in SUBSET Posting /\ \A p \in StoredDocs : p[1] < next_doc_id
<1> SUFFICES ASSUME MapsTypeOK
             PROVE  StoredDocs \in SUBSET Posting /\ \A p \in StoredDocs : p[1] < next_doc_id
  OBVIOUS
<1>1. \A d \in DocId : blob_for_doc_id(d) \in Source \cup {None}
  BY DEF MapsTypeOK, blob_for_doc_id
<1> QED
  BY <1>1 DEF StoredDocs, Posting

\* The same after a step.
LEMMA StoredFactsNext ==
    MapsTypeOK' => (StoredDocs \in SUBSET Posting /\ \A p \in StoredDocs : p[1] < next_doc_id)'
  BY StoredFacts, PTL

\* Steps that leave the bodies a reader sees leave the stored documents.
LEMMA SameStored ==
    ASSUME UNCHANGED next_doc_id, \A d \in DocId : blob_for_doc_id(d)' = blob_for_doc_id(d)
    PROVE  StoredDocs' = StoredDocs
<1>1. \A d \in DocId : (d < next_doc_id' /\ blob_for_doc_id(d)' # None)
                       <=> (d < next_doc_id /\ blob_for_doc_id(d) # None)
  OBVIOUS
<1>2. {e \in DocId : e < next_doc_id /\ blob_for_doc_id(e) # None}'
      = {e \in DocId : e < next_doc_id /\ blob_for_doc_id(e) # None}
  BY <1>1
<1> QED
  BY <1>2 DEF StoredDocs

\* rebuild_index starts over with one active segment.
LEMMA Rebuilt ==
    ASSUME NEW docs \in SUBSET Posting, next_doc_id' \in Nat,
           \A p \in docs : p[1] < next_doc_id',
           ClearAndAdd(docs), flush_budget \in FlushBudgets, phase = "idle",
           UNCHANGED <<flush_budget, phase>>,
           terms_finalized' = FALSE, new_doc_ids' = {}
    PROVE  /\ IxInv'
           /\ (\A p \in docs : p[2] \notin BlankSources) => Indexed' = docs
<1> DEFINE ok == Accepts(docs, 0, {})
           d == IF ok THEN docs ELSE {}
           x == [doc_base |-> 0, doc_count |-> 0, live_docs |-> Locals(d, 0), terms |-> {}]
<1>1. \A p \in docs : p[1] \in Nat /\ p[1] >= 0 /\ p[1] - 0 = p[1]
  BY MaxDocsAssumption DEF Posting, DocId
<1>2. /\ segments' = <<x>> /\ postings_builder' = d
      /\ next_doc_id_hint' = (IF ok THEN HintAfter(0, docs) ELSE 0)
      /\ terms_dirty' = (IF ok THEN TRUE ELSE FALSE)
  <2>1. Locals({}, 0) = {}
    BY DEF Locals
  <2>2. CASE ok
    <3>1. /\ segments' = <<[EmptySegment(0) EXCEPT !.live_docs = Locals(docs, 0)]>>
          /\ postings_builder' = docs /\ next_doc_id_hint' = HintAfter(0, docs)
          /\ terms_dirty' = TRUE
      BY <2>2 DEF ClearAndAdd
    <3>2. [EmptySegment(0) EXCEPT !.live_docs = Locals(docs, 0)] = x
      BY <2>2 DEF EmptySegment
    <3> QED
      BY <2>2, <3>1, <3>2
  <2>3. CASE ~ok
    <3>1. /\ segments' = <<EmptySegment(0)>> /\ postings_builder' = {}
          /\ next_doc_id_hint' = 0 /\ terms_dirty' = FALSE
      BY <2>3 DEF ClearAndAdd
    <3>2. EmptySegment(0) = x
      BY <2>1, <2>3 DEF EmptySegment
    <3> QED
      BY <2>3, <3>1, <3>2
  <2> QED
    BY <2>2, <2>3
<1>3. HintAfter(0, docs) \in 0 .. next_doc_id' /\ \A p \in docs : p[1] < HintAfter(0, docs)
  <2>1. 0 \in Nat /\ 0 <= next_doc_id'
    OBVIOUS
  <2> QED
    BY <2>1, HintFacts
<1>4. x \in Segment /\ d \in SUBSET Posting
  BY <1>1 DEF Segment, Locals
<1>5. /\ x.doc_base = 0 /\ x.live_docs = Locals(d, 0) /\ x.terms = {}
      /\ segments' \in Seq(Segment) /\ Len(segments') = 1 /\ segments'[1] = x
      /\ segments' # <<>>
  BY <1>2, <1>4
<1> HIDE DEF x
<1>6. active' = 1 /\ Sealed' = {}
  BY <1>5 DEF active, Sealed
<1>7. ok \in BOOLEAN
  BY DEF Accepts
<1>8. TermsNow' = d
  BY <1>2, <1>5, <1>6 DEF TermsNow
<1> HIDE DEF ok
<1>9. SegmentsOK'
  BY <1>2, <1>3, <1>4, <1>5, <1>7 DEF SegmentsOK
<1>10. TileInv'
  BY <1>5, <1>6 DEF TileInv
<1>11. ActiveInv'
  <2>1. Posts(x, d)
    BY <1>1, <1>5 DEF Posts, Locals
  <2>2. \A p \in d : p[1] < next_doc_id_hint'
    BY <1>2, <1>3
  <2>3. 0 <= next_doc_id_hint'
    BY <1>2, <1>3
  <2> HIDE DEF d
  <2> QED
    BY <1>5, <1>6, <1>8, <2>1, <2>2, <2>3 DEF ActiveInv
<1>12. BuilderInv' /\ LockInv'
  BY <1>2, <1>8 DEF BuilderInv, LockInv
<1>13. ASSUME \A p \in docs : p[2] \notin BlankSources PROVE Indexed' = docs
  <2>1. ok
    BY <1>1, <1>13 DEF Accepts, ok
  <2> QED
    BY <1>6, <1>8, <2>1 DEF Indexed
<1> QED
  BY <1>9, <1>10, <1>11, <1>12, <1>13 DEF IxInv

\* A change of the active segment that keeps its base.
LEMMA ActiveChanged ==
    ASSUME SegmentsOK, TileInv, NEW x \in Segment, x.doc_base = segments[active].doc_base,
           segments' = [segments EXCEPT ![active] = x]
    PROVE  /\ segments' \in Seq(Segment) /\ segments' # <<>> /\ active' = active
           /\ Sealed' = Sealed /\ segments'[active] = x
           /\ \A k \in Sealed : segments'[k] = segments[k]
           /\ TileInv'
           /\ UNION {segments[k].terms : k \in Sealed}' = UNION {segments[k].terms : k \in Sealed}
<1>1. /\ segments' \in Seq(Segment) /\ Len(segments') = active /\ segments'[active] = x
      /\ \A k \in 1 .. active : segments'[k] = IF k = active THEN x ELSE segments[k]
  BY SegmentFacts DEF SegmentsOK, active
<1>2. active' = active /\ Sealed' = Sealed /\ segments' # <<>>
  BY <1>1, SegmentFacts DEF active, Sealed
<1>3. \A k \in Sealed : segments'[k] = segments[k]
  BY <1>1, SegmentFacts
<1>4. \A k \in 1 .. active : segments'[k].doc_base = segments[k].doc_base
  BY <1>1
<1>5. TileInv'
  <2>1. segments'[1].doc_base = 0
    BY <1>4, SegmentFacts DEF TileInv
  <2>2. ASSUME NEW k \in Sealed
        PROVE  /\ segments'[k].doc_count > 0
               /\ segments'[k + 1].doc_base = segments'[k].doc_base + segments'[k].doc_count
               /\ \A n \in segments'[k].live_docs : n < segments'[k].doc_count
               /\ Posts(segments'[k], segments'[k].terms)
    BY <1>3, <1>4, SegmentFacts DEF TileInv
  <2> QED
    BY <1>2, <2>1, <2>2 DEF TileInv
<1> QED
  BY <1>1, <1>2, <1>3, <1>5

\* append_to_index adds documents whose ids are at or above the hint; it
\* accepts them unless one has a blank field name.
LEMMA Appended ==
    ASSUME IxInv, next_doc_id \in Nat, NEW docs \in SUBSET Posting,
           \A p \in docs : next_doc_id_hint <= p[1] /\ p[1] < next_doc_id,
           ~terms_finalized, add_documents_with_mapping_deferred(docs),
           phase' = "flush", next_doc_id' = next_doc_id, terms_finalized' = FALSE,
           in_bulk' = FALSE, new_doc_ids' = {}, UNCHANGED flush_budget
    PROVE  /\ IxInv'
           /\ (\A p \in docs : p[2] \notin BlankSources) => Indexed' = Indexed \cup docs
<1> DEFINE a == segments[active]
           ok == Accepts(docs, a.doc_base, a.live_docs)
           x == [a EXCEPT !.live_docs = @ \cup Locals(docs, a.doc_base)]
<1>1. /\ a \in Segment /\ a.doc_base \in Nat /\ a.live_docs \subseteq Nat
      /\ a.doc_base <= next_doc_id_hint /\ next_doc_id_hint \in Nat
      /\ next_doc_id_hint <= next_doc_id
      /\ Posts(a, postings_builder) /\ \A p \in postings_builder : p[1] < next_doc_id_hint
      /\ TermsNow = postings_builder /\ postings_builder \subseteq Posting
      /\ \A p \in Posting : p[1] \in Nat
  BY SegmentFacts DEF IxInv, ActiveInv, BuilderInv, SegmentsOK
<1>2. LockInv'
  BY DEF LockInv
<1>3. CASE ~ok
  <2>1. UNCHANGED <<segments, postings_builder, next_doc_id_hint, terms_dirty>>
    BY <1>3 DEF add_documents_with_mapping_deferred
  <2>2. active' = active /\ Sealed' = Sealed /\ TermsNow' = TermsNow
    BY <2>1 DEF active, Sealed, TermsNow
  <2>3. SegmentsOK' /\ TileInv' /\ ActiveInv' /\ BuilderInv'
    BY <2>1, <2>2 DEF IxInv, SegmentsOK, TileInv, ActiveInv, BuilderInv
  <2>4. ASSUME \A p \in docs : p[2] \notin BlankSources PROVE FALSE
    <3>1. ASSUME NEW p \in docs PROVE p[1] >= a.doc_base /\ p[1] - a.doc_base \notin a.live_docs
      <4>1. p[1] \in Nat /\ next_doc_id_hint <= p[1]
        BY <1>1
      <4>2. p[1] >= a.doc_base
        BY <1>1, <4>1
      <4>3. ASSUME NEW q \in postings_builder, p[1] - a.doc_base = q[1] - a.doc_base PROVE FALSE
        <5>1. q[1] \in Nat /\ q[1] < next_doc_id_hint
          BY <1>1
        <5> HIDE DEF a
        <5> QED
          BY <1>1, <4>1, <4>3, <5>1
      <4> QED
        BY <1>1, <4>2, <4>3 DEF Posts
    <3> QED
      BY <1>3, <2>4, <3>1 DEF Accepts
  <2> QED
    BY <1>2, <2>3, <2>4 DEF IxInv
<1>4. CASE ok
  <2>1. /\ segments' = [segments EXCEPT ![active] = x]
        /\ postings_builder' = postings_builder \cup docs
        /\ next_doc_id_hint' = HintAfter(next_doc_id_hint, docs)
        /\ terms_dirty' = TRUE
    BY <1>4 DEF add_documents_with_mapping_deferred
  <2>2. \A p \in docs : p[1] \in Nat /\ p[1] >= a.doc_base /\ p[1] - a.doc_base \in Nat
    <3>1. \A p \in docs : p[1] \in Nat /\ p[1] >= a.doc_base
      BY <1>1, <1>4 DEF Accepts
    <3> HIDE DEF a
    <3> QED
      BY <1>1, <3>1
  <2>3. Locals(docs, a.doc_base) \subseteq Nat
    BY <2>2 DEF Locals
  <2>4. /\ x \in Segment /\ x.doc_base = a.doc_base
        /\ x.live_docs = a.live_docs \cup Locals(docs, a.doc_base)
    BY <1>1, <2>3 DEF Segment
  <2> HIDE DEF x
  <2>5. /\ segments' \in Seq(Segment) /\ segments' # <<>> /\ active' = active
        /\ Sealed' = Sealed /\ segments'[active] = x
        /\ TileInv'
        /\ UNION {segments[k].terms : k \in Sealed}' = UNION {segments[k].terms : k \in Sealed}
    BY <2>1, <2>4, ActiveChanged DEF IxInv
  <2>6. /\ next_doc_id_hint' \in next_doc_id_hint .. next_doc_id
        /\ \A p \in docs : p[1] < next_doc_id_hint'
    BY <1>1, <2>1, HintFacts
  <2>7. TermsNow' = postings_builder \cup docs
    BY <2>1 DEF TermsNow
  <2>8. SegmentsOK'
    <3>1. next_doc_id_hint' \in 0 .. next_doc_id'
      BY <1>1, <2>6
    <3> QED
      BY <1>1, <2>1, <2>5, <3>1 DEF IxInv, SegmentsOK
  <2>9. ActiveInv'
    <3>1. Posts(x, postings_builder \cup docs)
      <4>1. x.live_docs = {p[1] - x.doc_base : p \in postings_builder \cup docs}
        BY <1>1, <2>4 DEF Posts, Locals
      <4>2. \A p \in postings_builder \cup docs : p[1] >= x.doc_base
        BY <1>1, <2>2, <2>4 DEF Posts
      <4> QED
        BY <4>1, <4>2 DEF Posts
    <3>2. x.doc_base <= next_doc_id_hint'
      BY <1>1, <2>4, <2>6
    <3>3. \A p \in postings_builder \cup docs : p[1] < next_doc_id_hint'
      <4>1. \A p \in postings_builder : p[1] \in Nat /\ p[1] < next_doc_id_hint
        BY <1>1
      <4> QED
        BY <1>1, <2>6, <4>1
    <3> QED
      BY <2>5, <2>7, <3>1, <3>2, <3>3 DEF ActiveInv
  <2>10. BuilderInv'
    BY <2>1, <2>7 DEF BuilderInv
  <2>11. Indexed' = Indexed \cup docs
    BY <1>1, <2>5, <2>7 DEF Indexed
  <2> QED
    BY <1>2, <2>5, <2>8, <2>9, <2>10, <2>11 DEF IxInv
<1> QED
  BY <1>3, <1>4

\* Building the active dictionary, for a search or for a refresh, posts what
\* was to be posted.
LEMMA Materialized ==
    ASSUME IxInv, segments' = materialize_active_segment_terms, terms_dirty' = FALSE,
           UNCHANGED <<next_doc_id_hint, next_doc_id>>
    PROVE  /\ segments' \in Seq(Segment) /\ segments' # <<>> /\ active' = active
           /\ TileInv' /\ ActiveInv' /\ TermsNow' = TermsNow /\ Indexed' = Indexed
<1> DEFINE a == segments[active]
           x == [a EXCEPT !.terms = TermsNow]
<1>1. segments' = [segments EXCEPT ![active] = x]
  BY DEF materialize_active_segment_terms
<1>2. a \in Segment /\ TermsNow \subseteq Posting
  BY SegmentFacts DEF IxInv
<1>3. /\ x \in Segment /\ x.doc_base = a.doc_base /\ x.live_docs = a.live_docs
      /\ x.terms = TermsNow
  BY <1>2 DEF Segment
<1> HIDE DEF x
<1>4. /\ segments' \in Seq(Segment) /\ segments' # <<>> /\ active' = active
      /\ Sealed' = Sealed /\ segments'[active] = x /\ TileInv'
      /\ UNION {segments[k].terms : k \in Sealed}' = UNION {segments[k].terms : k \in Sealed}
  BY <1>1, <1>3, ActiveChanged DEF IxInv
<1>5. TermsNow' = TermsNow
  BY <1>3, <1>4 DEF TermsNow
<1>6. ActiveInv'
  BY <1>3, <1>4, <1>5 DEF IxInv, ActiveInv, Posts
<1>7. Indexed' = Indexed
  BY <1>4, <1>5 DEF Indexed
<1> QED
  BY <1>4, <1>5, <1>6, <1>7

\* Sealing posts what was to be posted and starts at the hint, unless the
\* active segment is empty.
LEMMA SealedOff ==
    ASSUME IxInv, Seal, UNCHANGED next_doc_id
    PROVE  /\ segments' \in Seq(Segment) /\ segments' # <<>>
           /\ TileInv' /\ ActiveInv' /\ Indexed' = Indexed
           /\ next_doc_id_hint > segments[active].doc_base => TermsNow' = {}
<1> DEFINE a == segments[active]
           n == active
           h == next_doc_id_hint
           x == [a EXCEPT !.terms = TermsNow]
           y == [x EXCEPT !.doc_count = h - a.doc_base]
           e == EmptySegment(h)
           t == materialize_active_segment_terms
           u == [t EXCEPT ![n] = y]
<1>1. /\ segments' = start_new_active_segment_if_nonempty(t)
      /\ terms_dirty' = FALSE /\ UNCHANGED <<next_doc_id_hint, next_doc_id>>
  BY DEF Seal
<1>2. /\ n \in Nat \ {0} /\ n \in 1 .. n /\ a \in Segment /\ a.doc_base \in Nat
      /\ TermsNow \subseteq Posting /\ h \in Nat /\ segments \in Seq(Segment)
      /\ \A p \in Posting : p[1] \in Nat
  BY SegmentFacts DEF IxInv, SegmentsOK
<1>3. /\ t = [segments EXCEPT ![n] = x] /\ x \in Segment /\ x.doc_base = a.doc_base
      /\ x.live_docs = a.live_docs /\ x.terms = TermsNow
  BY <1>2 DEF materialize_active_segment_terms, Segment
<1>4. /\ t \in Seq(Segment) /\ Len(t) = n /\ t[n] = x
      /\ \A k \in 1 .. n : t[k] = IF k = n THEN x ELSE segments[k]
  <2> HIDE DEF t, x
  <2> QED
    BY <1>2, <1>3, SegmentFacts DEF IxInv, SegmentsOK, active
<1>5. CASE h <= a.doc_base
  <2>1. segments' = t
    BY <1>1, <1>3, <1>4, <1>5 DEF start_new_active_segment_if_nonempty
  <2>2. ~(h > a.doc_base)
    BY <1>2, <1>5
  <2> QED
    BY <1>1, <2>1, <2>2, Materialized
<1>6. CASE ~(h <= a.doc_base)
  <2>1. segments' = Append(u, e)
    BY <1>1, <1>3, <1>4, <1>6 DEF start_new_active_segment_if_nonempty
  <2>2. h - a.doc_base \in Nat /\ h - a.doc_base > 0
    BY <1>2, <1>6
  <2>3. /\ y \in Segment /\ y.doc_base = a.doc_base /\ y.doc_count = h - a.doc_base
        /\ y.live_docs = a.live_docs /\ y.terms = TermsNow
    <3> HIDE DEF x
    <3> QED
      BY <1>3, <2>2 DEF Segment
  <2>4. e \in Segment /\ e.doc_base = h /\ e.live_docs = {} /\ e.terms = {}
    BY <1>2 DEF EmptySegment, Segment
  <2> HIDE DEF t, x, y, e
  <2>5. /\ u \in Seq(Segment) /\ Len(u) = n
        /\ \A k \in 1 .. n : u[k] = IF k = n THEN y ELSE segments[k]
    BY <1>2, <1>4, <2>3
  <2> HIDE DEF u
  <2>6. /\ segments' \in Seq(Segment) /\ Len(segments') = n + 1
        /\ \A k \in 1 .. n : segments'[k] = u[k]
        /\ segments'[n + 1] = e
    BY <1>2, <2>1, <2>4, <2>5, AppendProperties
  <2>7. /\ active' = n + 1 /\ Sealed' = 1 .. n /\ segments' # <<>>
        /\ Sealed = 1 .. (n - 1)
    BY <1>2, <2>6 DEF active, Sealed
  <2>8. segments'[n] = y /\ \A k \in Sealed : segments'[k] = segments[k] /\ k \in 1 .. n
    BY <1>2, <2>5, <2>6, <2>7
  <2>9. \A k \in Sealed' : k = n \/ k \in Sealed
    BY <1>2, <2>7
  <2> HIDE DEF n, h
  <2>10. \A k \in 1 .. n : segments'[k].doc_base = segments[k].doc_base
    BY <1>2, <2>3, <2>5, <2>6 DEF n
  <2>11. TermsNow' = {}
    BY <1>1, <2>4, <2>6, <2>7 DEF TermsNow
  <2>12. TileInv'
    <3>1. segments'[1].doc_base = 0
      BY <2>10, SegmentFacts DEF IxInv, TileInv, n
    <3>2. ASSUME NEW k \in Sealed
          PROVE  /\ segments'[k].doc_count > 0
                 /\ segments'[k + 1].doc_base = segments'[k].doc_base + segments'[k].doc_count
                 /\ \A m \in segments'[k].live_docs : m < segments'[k].doc_count
                 /\ Posts(segments'[k], segments'[k].terms)
      <4>1. k + 1 \in 1 .. n
        BY SegmentFacts DEF IxInv, n
      <4> QED
        BY <2>8, <2>10, <4>1 DEF IxInv, TileInv
    <3>3. /\ y.doc_count > 0 /\ segments'[n + 1].doc_base = y.doc_base + y.doc_count
          /\ \A m \in y.live_docs : m < y.doc_count
          /\ Posts(y, y.terms)
      <4>1. Posts(a, TermsNow) /\ \A p \in TermsNow : p[1] < h /\ p[1] \in Nat
        BY <1>2 DEF IxInv, ActiveInv, h
      <4>2. ASSUME NEW m \in y.live_docs PROVE m < y.doc_count
        <5>1. PICK p \in TermsNow : m = p[1] - a.doc_base
          BY <2>3, <4>1 DEF Posts
        <5>2. p[1] < h /\ p[1] \in Nat
          BY <4>1
        <5> HIDE DEF a
        <5> QED
          BY <1>2, <2>3, <5>1, <5>2
      <4>3. segments'[n + 1].doc_base = y.doc_base + y.doc_count
        <5> HIDE DEF a
        <5> QED
          BY <1>2, <2>3, <2>4, <2>6
      <4>4. Posts(y, y.terms)
        BY <2>3, <4>1 DEF Posts
      <4> QED
        BY <2>2, <2>3, <4>2, <4>3, <4>4
    <3> QED
      BY <2>8, <2>9, <3>1, <3>2, <3>3 DEF TileInv
  <2>13. ActiveInv'
    <3>1. segments'[active'] = e /\ next_doc_id_hint' = h
      BY <1>1, <2>6, <2>7 DEF h
    <3> QED
      BY <1>2, <2>4, <2>11, <3>1 DEF ActiveInv, Posts, h
  <2>14. Indexed' = Indexed
    <3>1. UNION {segments[k].terms : k \in Sealed}'
             = TermsNow \cup UNION {segments[k].terms : k \in Sealed}
      <4>1. n \in Sealed' /\ Sealed \subseteq Sealed'
        BY <1>2, <2>7, <2>8
      <4> QED
        BY <2>3, <2>8, <2>9, <4>1
    <3> QED
      BY <2>11, <3>1 DEF Indexed
  <2> QED
    BY <2>6, <2>7, <2>11, <2>12, <2>13, <2>14
<1> QED
  BY <1>5, <1>6

-----------------------------------------------------------------------------
(* Merging.                                                                *)

\* Later segments start later.
LEMMA BasesGrow ==
    ASSUME SegmentsOK, TileInv, NEW k \in 1 .. active, NEW l \in 1 .. active, k <= l
    PROVE  segments[k].doc_base <= segments[l].doc_base
<1> DEFINE Bad == {m \in k .. active : ~(segments[k].doc_base <= segments[m].doc_base)}
<1>1. active \in Nat /\ \A m \in 1 .. active : segments[m].doc_base \in Nat
                                              /\ segments[m].doc_count \in Nat
  BY SegmentFacts
<1>2. l \in k .. active /\ Bad \in SUBSET Nat
  BY <1>1
<1> SUFFICES ASSUME Bad # {} PROVE FALSE
  BY <1>2
<1>3. PICK m \in Bad : \A j \in Bad : m <= j
  <2> HIDE DEF Bad
  <2> QED
    BY <1>2, LeastNat
<1>4. m # k
  BY <1>1
<1>5. m - 1 \in k .. active /\ m - 1 \in Sealed /\ m - 1 \in Nat /\ ~(m <= m - 1)
  BY <1>1, <1>4 DEF Sealed
<1>6. segments[k].doc_base <= segments[m - 1].doc_base
  BY <1>3, <1>5
<1>7. segments[m].doc_base = segments[m - 1].doc_base + segments[m - 1].doc_count
  <2>1. (m - 1) + 1 = m
    BY <1>2
  <2> QED
    BY <1>5, <2>1 DEF TileInv
<1>8. m \in 1 .. active /\ m - 1 \in 1 .. active
  BY <1>1, <1>5, SegmentFacts
<1>9. segments[k].doc_base <= segments[m].doc_base
  BY <1>1, <1>6, <1>7, <1>8
<1> QED
  BY <1>9

\* The documents of a run are the doc ids from its first base to its end.
LEMMA RunDocsSum ==
    ASSUME SegmentsOK, TileInv, NEW i \in Sealed, NEW j \in Sealed, i <= j
    PROVE  RunDocs(i, j) = segments[j + 1].doc_base - segments[i].doc_base
<1> DEFINE Step(f) == f = [k \in i .. j |-> IF k = i THEN segments[k].doc_count
                                           ELSE f[k - 1] + segments[k].doc_count]
           g == [k \in i .. j |-> segments[k + 1].doc_base - segments[i].doc_base]
           F == CHOOSE f : Step(f)
<1>0. RunDocs(i, j) = F[j]
  BY DEF RunDocs
<1>1. /\ active \in Nat /\ i \in Nat /\ j \in Nat
      /\ \A k \in 1 .. active : segments[k].doc_base \in Nat /\ segments[k].doc_count \in Nat
      /\ \A k \in i .. j : k \in 1 .. active /\ k + 1 \in 1 .. active /\ k \in Sealed
      /\ \A k \in i .. j : k # i => k - 1 \in i .. j /\ (k - 1) + 1 = k
  BY SegmentFacts DEF Sealed
<1>2. \A k \in i .. j : segments[k + 1].doc_base = segments[k].doc_base + segments[k].doc_count
  BY <1>1 DEF TileInv
<1>3. \A k \in i .. j : g[k] = IF k = i THEN segments[k].doc_count
                               ELSE g[k - 1] + segments[k].doc_count
  <2> SUFFICES ASSUME NEW k \in i .. j
               PROVE  g[k] = IF k = i THEN segments[k].doc_count
                             ELSE g[k - 1] + segments[k].doc_count
    OBVIOUS
  <2>1. g[k] = (segments[k].doc_base + segments[k].doc_count) - segments[i].doc_base
    <3>1. g[k] = segments[k + 1].doc_base - segments[i].doc_base
      OBVIOUS
    <3> HIDE DEF g
    <3> QED
      BY <1>2, <3>1
  <2>2. /\ segments[k].doc_base \in Nat /\ segments[k].doc_count \in Nat
        /\ segments[i].doc_base \in Nat
    BY <1>1
  <2>3. CASE k = i
    BY <2>1, <2>2, <2>3
  <2>4. CASE k # i
    <3>1. g[k - 1] = segments[k].doc_base - segments[i].doc_base
      BY <1>1, <2>4
    <3> HIDE DEF g
    <3> QED
      BY <2>1, <2>2, <2>4, <3>1
  <2> QED
    BY <2>3, <2>4
<1>4. Step(g)
  <2>1. g = [k \in i .. j |-> g[k]]
    OBVIOUS
  <2> HIDE DEF g
  <2> QED
    BY <1>3, <2>1
<1> HIDE DEF g
<1>5. Step(F)
  BY <1>4
<1> HIDE DEF F
<1>6. \A k \in i .. j : F[k] = IF k = i THEN segments[k].doc_count
                               ELSE F[k - 1] + segments[k].doc_count
  BY <1>5
<1> DEFINE Bad == {k \in i .. j : F[k] # g[k]}
<1>7. Bad = {}
  <2> SUFFICES ASSUME Bad # {} PROVE FALSE
    OBVIOUS
  <2>1. Bad \in SUBSET Nat
    BY <1>1
  <2>2. PICK k \in Bad : \A l \in Bad : k <= l
    <3> HIDE DEF Bad
    <3> QED
      BY <2>1, LeastNat
  <2>3. k # i
    BY <1>3, <1>6
  <2>4. k - 1 \in i .. j /\ ~(k <= k - 1)
    BY <1>1, <2>1, <2>3
  <2>5. F[k - 1] = g[k - 1]
    BY <2>2, <2>4
  <2> QED
    BY <1>3, <1>6, <2>3, <2>5
<1>8. j \in i .. j
  BY <1>1
<1>9. F[j] = g[j]
  BY <1>7, <1>8
<1> QED
  BY <1>0, <1>8, <1>9 DEF g

\* The longest eligible run, leftmost on a tie, exists.
LEMMA RunChosen ==
    ASSUME SegmentsOK, CanMerge
    PROVE  /\ find_eligible_merge_run \in EligibleRuns
           /\ \A r \in EligibleRuns : r[1] \in Sealed /\ r[2] \in Sealed /\ r[1] < r[2]
<1>1. /\ active \in Nat /\ Sealed \subseteq Nat /\ \A k \in Sealed : k < active
      /\ MergeFanin \in Nat /\ MergeFanin >= 2 /\ EligibleRuns # {}
  BY SegmentFacts, IndexConstants DEF Sealed, CanMerge
<1>2. ASSUME NEW r \in EligibleRuns
      PROVE  r[1] \in Sealed /\ r[2] \in Sealed /\ r[1] < r[2] /\ r[1] \in Nat /\ r[2] \in Nat
  <2>1. r[1] \in Sealed /\ r[2] \in Sealed /\ r[2] - r[1] + 1 >= MergeFanin
    BY DEF EligibleRuns
  <2>2. r[1] \in Nat /\ r[2] \in Nat
    BY <1>1, <2>1
  <2> QED
    BY <1>1, <2>1, <2>2
<1> DEFINE Short == {active - (r[2] - r[1]) : r \in EligibleRuns}
<1>3. Short \in SUBSET Nat /\ Short # {}
  <2>1. \A r \in EligibleRuns : active - (r[2] - r[1]) \in Nat
    <3> SUFFICES ASSUME NEW r \in EligibleRuns PROVE active - (r[2] - r[1]) \in Nat
      OBVIOUS
    <3>1. r[1] \in Nat /\ r[2] \in Nat /\ r[2] < active /\ r[1] < r[2]
      BY <1>1, <1>2
    <3> QED
      BY <1>1, <3>1
  <2> QED
    BY <1>1, <2>1
<1>4. PICK s \in Short : \A t \in Short : s <= t
  <2> HIDE DEF Short
  <2> QED
    BY <1>3, LeastNat
<1> DEFINE Longest == {r \in EligibleRuns : active - (r[2] - r[1]) = s}
           First == {r[1] : r \in Longest}
<1>5. First \in SUBSET Nat /\ First # {}
  BY <1>2, <1>4
<1>6. PICK i \in First : \A k \in First : i <= k
  <2> HIDE DEF First
  <2> QED
    BY <1>5, LeastNat
<1>7. PICK r \in Longest : r[1] = i
  BY <1>6
<1>8. ASSUME NEW q \in EligibleRuns
      PROVE  \/ r[2] - r[1] > q[2] - q[1]
             \/ r[2] - r[1] = q[2] - q[1] /\ r[1] <= q[1]
  <2>1. active - (r[2] - r[1]) <= active - (q[2] - q[1])
    BY <1>4, <1>7
  <2>2. /\ r[1] \in Nat /\ r[2] \in Nat /\ q[1] \in Nat /\ q[2] \in Nat
    BY <1>2, <1>7
  <2>3. CASE r[2] - r[1] = q[2] - q[1]
    <3>1. q \in Longest
      BY <1>7, <2>3
    <3>2. i <= q[1]
      BY <1>6, <3>1
    <3> QED
      BY <1>7, <2>3, <3>2
  <2>4. CASE r[2] - r[1] # q[2] - q[1]
    BY <1>1, <2>1, <2>2, <2>4
  <2> QED
    BY <2>3, <2>4
<1>9. \E x \in EligibleRuns :
         \A q \in EligibleRuns :
            \/ x[2] - x[1] > q[2] - q[1]
            \/ x[2] - x[1] = q[2] - q[1] /\ x[1] <= q[1]
  BY <1>7, <1>8
<1>10. find_eligible_merge_run \in EligibleRuns
  BY <1>9 DEF find_eligible_merge_run
<1> QED
  BY <1>2, <1>10

\* The merged segment covers the doc ids of its run, and posts the live docs it
\* got by moving those of the run to the first base.
LEMMA MergedFacts ==
    ASSUME SegmentsOK, TileInv, NEW i \in Sealed, NEW j \in Sealed, i <= j
    PROVE  /\ MergedSegment(i, j) \in Segment
           /\ MergedSegment(i, j).doc_base = segments[i].doc_base
           /\ MergedSegment(i, j).doc_count > 0
           /\ MergedSegment(i, j).doc_count = RunDocs(i, j)
           /\ segments[j + 1].doc_base
                 = MergedSegment(i, j).doc_base + MergedSegment(i, j).doc_count
           /\ \A n \in MergedSegment(i, j).live_docs : n < MergedSegment(i, j).doc_count
           /\ Posts(MergedSegment(i, j), MergedSegment(i, j).terms)
           /\ MergedSegment(i, j).live_docs = merge_live_docs(i, j)
           /\ MergedSegment(i, j).terms = UNION {segments[k].terms : k \in i .. j}
<1> DEFINE M == MergedSegment(i, j)
           b == segments[i].doc_base
           c == segments[j + 1].doc_base - b
<1>1. /\ M.doc_base = b /\ M.doc_count = RunDocs(i, j) /\ M.live_docs = merge_live_docs(i, j)
      /\ M.terms = UNION {segments[k].terms : k \in i .. j}
      /\ M = [doc_base |-> b, doc_count |-> RunDocs(i, j), live_docs |-> merge_live_docs(i, j),
              terms |-> UNION {segments[k].terms : k \in i .. j}]
  BY DEF MergedSegment
<1>2. RunDocs(i, j) = c
  BY RunDocsSum
<1>3. /\ active \in Nat /\ i \in Nat /\ j \in Nat
      /\ \A k \in i .. j : k \in 1 .. active /\ k + 1 \in 1 .. active /\ k \in Sealed /\ i <= k
                           /\ k + 1 <= j + 1
      /\ i \in 1 .. active /\ j + 1 \in 1 .. active /\ j \in 1 .. active /\ j \in i .. j
  BY SegmentFacts DEF Sealed
<1>4. \A k \in i .. j :
         /\ b \in Nat /\ segments[k].doc_base \in Nat /\ segments[k].doc_count \in Nat
         /\ segments[k + 1].doc_base \in Nat
         /\ b <= segments[k].doc_base
         /\ segments[k].doc_base + segments[k].doc_count = segments[k + 1].doc_base
         /\ segments[k + 1].doc_base <= segments[j + 1].doc_base
         /\ segments[k].doc_count > 0
         /\ Posts(segments[k], segments[k].terms)
         /\ \A n \in segments[k].live_docs : n \in Nat /\ n < segments[k].doc_count
         /\ segments[k].terms \subseteq Posting
  BY <1>3, SegmentFacts, BasesGrow DEF TileInv
<1>5. segments[j + 1].doc_base \in Nat /\ b \in Nat
  BY <1>3, <1>4
<1> HIDE DEF M, b
<1>6. c \in Nat /\ c > 0 /\ b + c = segments[j + 1].doc_base
  <2>1. /\ b <= segments[j].doc_base /\ segments[j].doc_count > 0
        /\ segments[j].doc_base + segments[j].doc_count = segments[j + 1].doc_base
        /\ segments[j].doc_base \in Nat /\ segments[j].doc_count \in Nat
    BY <1>3, <1>4
  <2> DEFINE bj == segments[j].doc_base
             cj == segments[j].doc_count
             e == segments[j + 1].doc_base
  <2>2. /\ b \in Nat /\ bj \in Nat /\ cj \in Nat /\ e \in Nat
        /\ cj > 0 /\ b <= bj /\ bj + cj = e
    BY <1>5, <2>1
  <2> HIDE DEF bj, cj, e
  <2>3. e - b \in Nat /\ e - b > 0 /\ b + (e - b) = e
    BY <2>2
  <2> QED
    BY <2>3 DEF e
<1>7. ASSUME NEW k \in i .. j, NEW n \in segments[k].live_docs
      PROVE  n + (segments[k].doc_base - b) \in Nat /\ n + (segments[k].doc_base - b) < c
  <2>1. /\ n \in Nat /\ n < segments[k].doc_count
        /\ b \in Nat /\ segments[k].doc_base \in Nat /\ segments[k].doc_count \in Nat
        /\ segments[k + 1].doc_base \in Nat
        /\ b <= segments[k].doc_base
        /\ segments[k].doc_base + segments[k].doc_count = segments[k + 1].doc_base
        /\ segments[k + 1].doc_base <= segments[j + 1].doc_base
    BY <1>4
  <2> DEFINE bk == segments[k].doc_base
             ck == segments[k].doc_count
             e == segments[j + 1].doc_base
  <2>2. /\ n \in Nat /\ b \in Nat /\ bk \in Nat /\ ck \in Nat /\ e \in Nat
        /\ n < ck /\ b <= bk /\ bk + ck <= e
    BY <1>5, <2>1
  <2> HIDE DEF bk, ck, e
  <2>3. n + (bk - b) \in Nat /\ n + (bk - b) < e - b
    BY <2>2
  <2> QED
    BY <2>3 DEF bk, e
<1>8. merge_live_docs(i, j)
      = UNION {{n + (segments[k].doc_base - b) : n \in segments[k].live_docs} : k \in i .. j}
  BY DEF merge_live_docs, b
<1>9. \A n \in M.live_docs : n \in Nat /\ n < c
  <2> SUFFICES ASSUME NEW n \in merge_live_docs(i, j) PROVE n \in Nat /\ n < c
    BY <1>1
  <2>1. PICK k \in i .. j : n \in {m + (segments[k].doc_base - b) : m \in segments[k].live_docs}
    BY <1>8
  <2>2. PICK m \in segments[k].live_docs : n = m + (segments[k].doc_base - b)
    BY <2>1
  <2> QED
    BY <1>7, <2>2
<1>10. M.terms \subseteq Posting
  BY <1>1, <1>4
<1>11. M \in Segment
  BY <1>1, <1>2, <1>5, <1>6, <1>9, <1>10 DEF Segment
<1>12. ASSUME NEW k \in i .. j, NEW p \in segments[k].terms
       PROVE  /\ p[1] >= b
              /\ p[1] - segments[k].doc_base \in segments[k].live_docs
              /\ (p[1] - segments[k].doc_base) + (segments[k].doc_base - b) = p[1] - b
  <2>1. /\ p[1] \in Nat /\ b \in Nat /\ segments[k].doc_base \in Nat /\ b <= segments[k].doc_base
        /\ p[1] >= segments[k].doc_base
        /\ p[1] - segments[k].doc_base \in segments[k].live_docs
    BY <1>4, SegmentFacts DEF Posts
  <2> QED
    BY <2>1
<1>13. M.live_docs = {p[1] - b : p \in M.terms}
  <2>1. ASSUME NEW p \in M.terms PROVE p[1] - b \in M.live_docs
    <3>1. PICK k \in i .. j : p \in segments[k].terms
      BY <1>1
    <3>2. (p[1] - segments[k].doc_base) + (segments[k].doc_base - b)
             \in {n + (segments[k].doc_base - b) : n \in segments[k].live_docs}
      BY <1>12, <3>1
    <3> QED
      BY <1>1, <1>8, <1>12, <3>1, <3>2
  <2>2. ASSUME NEW n \in M.live_docs PROVE \E p \in M.terms : n = p[1] - b
    <3>1. PICK k \in i .. j : n \in {m + (segments[k].doc_base - b) : m \in segments[k].live_docs}
      BY <1>1, <1>8
    <3>2. PICK m \in segments[k].live_docs : n = m + (segments[k].doc_base - b)
      BY <3>1
    <3>3. PICK p \in segments[k].terms : m = p[1] - segments[k].doc_base
      BY <1>4 DEF Posts
    <3>4. p \in M.terms
      BY <1>1
    <3> QED
      BY <1>12, <3>2, <3>3, <3>4
  <2> QED
    BY <2>1, <2>2
<1>14. Posts(M, M.terms)
  BY <1>1, <1>12, <1>13 DEF Posts
<1> QED
  BY <1>1, <1>2, <1>6, <1>9, <1>11, <1>14 DEF M, b

\* Where the segments are after a merge.
LEMMA MergedList ==
    ASSUME SegmentsOK, TileInv, NEW i \in Sealed, NEW j \in Sealed, i <= j,
           segments' = merge_segments_run(i, j)
    PROVE  /\ segments' \in Seq(Segment) /\ segments' # <<>>
           /\ active' = active - (j - i) /\ i \in Sealed'
           /\ Sealed' = 1 .. ((active - 1) - (j - i))
           /\ segments'[active'] = segments[active]
           /\ segments'[i] = MergedSegment(i, j)
           /\ \A k \in 1 .. (i - 1) : segments'[k] = segments[k]
           /\ \A k \in (i + 1) .. active' : segments'[k] = segments[k + (j - i)]
<1> DEFINE n == active
           M == MergedSegment(i, j)
           A == SubSeq(segments, 1, i - 1)
           C == SubSeq(segments, j + 1, n)
<1>1. /\ segments' = (A \o <<M>>) \o C
  BY DEF merge_segments_run, active
<1>2. /\ n \in Nat \ {0} /\ i \in 1 .. (n - 1) /\ j \in i .. (n - 1)
      /\ segments \in Seq(Segment) /\ n = Len(segments)
      /\ \A k \in 1 .. n : segments[k] \in Segment
      /\ M \in Segment
  BY SegmentFacts, MergedFacts DEF Sealed, SegmentsOK, active
<1> HIDE DEF M, n
<1>3. /\ A \in Seq(Segment) /\ Len(A) = i - 1 /\ \A k \in 1 .. (i - 1) : A[k] = segments[k]
  <2>1. \A k \in 1 .. (i - 1) : segments[k] \in Segment
    BY <1>2
  <2>2. 1 \in Int /\ i - 1 \in Int
    BY <1>2
  <2>3. /\ SubSeq(segments, 1, i - 1) \in Seq(Segment)
        /\ Len(SubSeq(segments, 1, i - 1)) = (IF 1 <= i - 1 THEN (i - 1) - 1 + 1 ELSE 0)
        /\ \A k \in 1 .. ((i - 1) - 1 + 1) :
              SubSeq(segments, 1, i - 1)[k] = segments[1 + k - 1]
    BY <1>2, <2>1, <2>2, SubSeqProperties
  <2> QED
    BY <1>2, <2>3
<1>4. /\ C \in Seq(Segment) /\ Len(C) = n - j /\ \A k \in 1 .. (n - j) : C[k] = segments[j + k]
  <2>1. \A k \in (j + 1) .. n : segments[k] \in Segment
    BY <1>2
  <2>2. j + 1 \in Int /\ n \in Int
    BY <1>2
  <2>3. /\ SubSeq(segments, j + 1, n) \in Seq(Segment)
        /\ Len(SubSeq(segments, j + 1, n)) = (IF j + 1 <= n THEN n - (j + 1) + 1 ELSE 0)
        /\ \A k \in 1 .. (n - (j + 1) + 1) :
              SubSeq(segments, j + 1, n)[k] = segments[(j + 1) + k - 1]
    BY <1>2, <2>1, <2>2, SubSeqProperties
  <2> QED
    BY <1>2, <2>3
<1> HIDE DEF A, C
<1> DEFINE B == A \o <<M>>
           s == B \o C
<1>5. /\ B \in Seq(Segment) /\ Len(B) = i
      /\ \A k \in 1 .. i : B[k] = IF k <= i - 1 THEN A[k] ELSE M
  <2>1. <<M>> \in Seq(Segment) /\ Len(<<M>>) = 1 /\ <<M>>[1] = M
    BY <1>2
  <2>2. /\ A \o <<M>> \in Seq(Segment) /\ Len(A \o <<M>>) = Len(A) + Len(<<M>>)
        /\ \A k \in 1 .. Len(A \o <<M>>) :
              (A \o <<M>>)[k] = IF k <= Len(A) THEN A[k] ELSE <<M>>[k - Len(A)]
    BY <1>3, <2>1, ConcatProperties
  <2>3. \A k \in 1 .. i : ~(k <= i - 1) => k - (i - 1) = 1
    BY <1>2
  <2> QED
    BY <1>2, <1>3, <2>1, <2>2, <2>3
<1> HIDE DEF B
<1>6. /\ s \in Seq(Segment) /\ Len(s) = i + (n - j)
      /\ \A k \in 1 .. Len(s) : s[k] = IF k <= i THEN B[k] ELSE C[k - i]
  <2>0. B \in Seq(Segment) /\ C \in Seq(Segment)
    BY <1>4, <1>5
  <2>1. /\ B \o C \in Seq(Segment) /\ Len(B \o C) = Len(B) + Len(C)
        /\ \A k \in 1 .. Len(B) + Len(C) :
              (B \o C)[k] = IF k <= Len(B) THEN B[k] ELSE C[k - Len(B)]
    BY <2>0, ConcatProperties
  <2> HIDE DEF s
  <2>2. s = B \o C
    BY DEF s
  <2> QED
    BY <1>2, <1>4, <1>5, <2>1, <2>2
<1>7. s = segments'
  BY <1>1 DEF B
<1> HIDE DEF s
<1>8. active' = n - (j - i) /\ active' \in Nat /\ active' = Len(s) /\ s # <<>>
  <2>1. active' = Len(s)
    BY <1>7 DEF active
  <2> QED
    BY <1>2, <1>6, <2>1, EmptySeq
<1>9. Sealed' = 1 .. ((n - 1) - (j - i)) /\ i \in Sealed'
  BY <1>2, <1>8 DEF Sealed
<1>10. \A k \in 1 .. (i - 1) : s[k] = segments[k]
  <2>1. \A k \in 1 .. (i - 1) : k \in 1 .. Len(s) /\ k \in 1 .. i /\ k <= i
    BY <1>2, <1>6
  <2> QED
    BY <1>3, <1>5, <1>6, <2>1
<1>11. s[i] = M
  <2>1. i \in 1 .. Len(s) /\ i \in 1 .. i /\ ~(i <= i - 1) /\ i <= i
    BY <1>2, <1>6
  <2> QED
    BY <1>5, <1>6, <2>1
<1>12. \A k \in (i + 1) .. active' : s[k] = segments[k + (j - i)]
  <2> SUFFICES ASSUME NEW k \in (i + 1) .. active' PROVE s[k] = segments[k + (j - i)]
    OBVIOUS
  <2>1. k \in 1 .. Len(s) /\ ~(k <= i) /\ k - i \in 1 .. (n - j) /\ j + (k - i) = k + (j - i)
    BY <1>2, <1>8
  <2> QED
    BY <1>4, <1>6, <2>1
<1>13. s[active'] = segments[n]
  <2>1. active' \in (i + 1) .. active' /\ active' + (j - i) = n
    BY <1>2, <1>8
  <2> QED
    BY <1>12, <2>1
<1> QED
  BY <1>6, <1>7, <1>8, <1>9, <1>10, <1>11, <1>12, <1>13 DEF n, M

\* A turn of the merge loop: the segments still tile the doc ids, and post what
\* they posted.
LEMMA Merging ==
    ASSUME SegmentsOK, TileInv, ActiveInv, MergeStep
    PROVE  /\ segments' \in Seq(Segment) /\ segments' # <<>>
           /\ TileInv' /\ ActiveInv' /\ TermsNow' = TermsNow
           /\ Indexed' = Indexed /\ Searchable' = Searchable
           /\ MergeMaxDocs # NoLimit =>
                 \A k \in 1 .. (active' - 1) :
                    \/ segments'[k].doc_count <= MergeMaxDocs
                    \/ \E l \in Sealed : segments[l] = segments'[k]
<1> DEFINE r == find_eligible_merge_run
           i == r[1]
           j == r[2]
           M == MergedSegment(i, j)
<1>1. /\ segments' = merge_segments_run(i, j)
      /\ UNCHANGED <<postings_builder, terms_dirty, next_doc_id_hint>>
  BY DEF MergeStep
<1>2. r \in EligibleRuns /\ i \in Sealed /\ j \in Sealed /\ i < j
  BY RunChosen DEF MergeStep
<1>3. active \in Nat \ {0} /\ i \in 1 .. (active - 1) /\ j \in i .. (active - 1) /\ i <= j
  BY <1>2, SegmentFacts DEF Sealed
<1> HIDE DEF i, j, r
<1>4. /\ segments' \in Seq(Segment) /\ segments' # <<>>
      /\ active' = active - (j - i) /\ i \in Sealed'
      /\ Sealed' = 1 .. ((active - 1) - (j - i))
      /\ segments'[active'] = segments[active]
      /\ segments'[i] = M
      /\ \A k \in 1 .. (i - 1) : segments'[k] = segments[k]
      /\ \A k \in (i + 1) .. active' : segments'[k] = segments[k + (j - i)]
  BY <1>1, <1>2, <1>3, MergedList
<1>5. /\ M.doc_base = segments[i].doc_base /\ M.doc_count > 0 /\ M.doc_count = RunDocs(i, j)
      /\ segments[j + 1].doc_base = M.doc_base + M.doc_count
      /\ \A n \in M.live_docs : n < M.doc_count
      /\ Posts(M, M.terms) /\ M.terms = UNION {segments[k].terms : k \in i .. j}
  BY <1>2, <1>3, MergedFacts
<1> HIDE DEF M
<1>6. Sealed = 1 .. (active - 1)
  BY DEF Sealed
\* a sealed segment is an old one before the run, the merged one, or one behind it
<1>7. ASSUME NEW k \in Sealed'
      PROVE  \/ /\ k \in 1 .. (i - 1) /\ k \in Sealed /\ segments'[k] = segments[k]
                /\ segments'[k + 1].doc_base = segments[k + 1].doc_base
             \/ k = i /\ segments'[k + 1] = segments[j + 1]
             \/ /\ k + (j - i) \in Sealed /\ segments'[k] = segments[k + (j - i)]
                /\ segments'[k + 1] = segments[(k + (j - i)) + 1]
  <2>1. CASE k \in 1 .. (i - 1)
    <3>1. k \in Sealed /\ (k + 1 \in 1 .. (i - 1) \/ k + 1 = i)
      BY <1>3, <1>6, <2>1
    <3> QED
      BY <1>4, <1>5, <2>1, <3>1
  <2>2. CASE k = i
    <3>1. k + 1 \in (i + 1) .. active' /\ (k + 1) + (j - i) = j + 1
      BY <1>3, <1>4, <2>2
    <3> QED
      BY <1>4, <2>2, <3>1
  <2>3. CASE k \in (i + 1) .. (active' - 1)
    <3>1. /\ k \in (i + 1) .. active' /\ k + 1 \in (i + 1) .. active'
          /\ (k + 1) + (j - i) = (k + (j - i)) + 1 /\ k + (j - i) \in Sealed
      BY <1>3, <1>4, <1>6, <2>3
    <3> QED
      BY <1>4, <3>1
  <2>4. k \in 1 .. (i - 1) \/ k = i \/ k \in (i + 1) .. (active' - 1)
    BY <1>3, <1>4
  <2> QED
    BY <2>1, <2>2, <2>3, <2>4
<1>8. TileInv'
  <2>1. segments'[1].doc_base = 0
    <3>1. CASE i = 1
      BY <1>4, <1>5, <3>1 DEF TileInv
    <3>2. CASE i # 1
      <4>1. 1 \in 1 .. (i - 1)
        BY <1>3, <3>2
      <4> QED
        BY <1>4, <4>1 DEF TileInv
    <3> QED
      BY <3>1, <3>2
  <2>2. ASSUME NEW k \in Sealed'
        PROVE  /\ segments'[k].doc_count > 0
               /\ segments'[k + 1].doc_base = segments'[k].doc_base + segments'[k].doc_count
               /\ \A n \in segments'[k].live_docs : n < segments'[k].doc_count
               /\ Posts(segments'[k], segments'[k].terms)
    BY <1>4, <1>5, <1>7 DEF TileInv
  <2> QED
    BY <2>1, <2>2 DEF TileInv
<1>9. TermsNow' = TermsNow
  BY <1>1, <1>4 DEF TermsNow
<1>10. ActiveInv'
  BY <1>1, <1>4, <1>9 DEF ActiveInv
<1>11. UNION {segments[k].terms : k \in Sealed}' = UNION {segments[k].terms : k \in Sealed}
  <2>1. ASSUME NEW k \in Sealed', NEW p \in segments'[k].terms
        PROVE  \E l \in Sealed : p \in segments[l].terms
    <3>1. CASE k = i
      <4>1. PICK l \in i .. j : p \in segments[l].terms
        BY <1>4, <1>5, <3>1
      <4>2. l \in Sealed
        BY <1>3, <1>6
      <4> QED
        BY <4>1, <4>2
    <3>2. CASE k # i
      BY <1>7, <3>2
    <3> QED
      BY <3>1, <3>2
  <2>2. ASSUME NEW l \in Sealed, NEW p \in segments[l].terms
        PROVE  \E k \in Sealed' : p \in segments'[k].terms
    <3>1. CASE l \in 1 .. (i - 1)
      <4>1. l \in Sealed'
        BY <1>3, <1>4, <3>1
      <4> QED
        BY <1>4, <3>1, <4>1
    <3>2. CASE l \in i .. j
      BY <1>4, <1>5, <3>2
    <3>3. CASE l \in (j + 1) .. (active - 1)
      <4>1. /\ l - (j - i) \in Sealed' /\ l - (j - i) \in (i + 1) .. active'
            /\ (l - (j - i)) + (j - i) = l
        BY <1>3, <1>4, <3>3
      <4> QED
        BY <1>4, <4>1
    <3>4. l \in 1 .. (i - 1) \/ l \in i .. j \/ l \in (j + 1) .. (active - 1)
      BY <1>3, <1>6
    <3> QED
      BY <3>1, <3>2, <3>3, <3>4
  <2> QED
    BY <2>1, <2>2
<1>12. Indexed' = Indexed
  BY <1>9, <1>11 DEF Indexed
<1>13. Searchable' = Searchable
  <2>1. 1 .. active = Sealed \cup {active} /\ (1 .. active)' = Sealed' \cup {active'}
    BY <1>3, <1>4, <1>6
  <2>2. Searchable = segments[active].terms \cup UNION {segments[k].terms : k \in Sealed}
    BY <2>1 DEF Searchable
  <2>3. Searchable' = segments'[active'].terms \cup UNION {segments[k].terms : k \in Sealed}'
    BY <2>1 DEF Searchable
  <2> QED
    BY <1>4, <1>11, <2>2, <2>3
<1>14. ASSUME MergeMaxDocs # NoLimit, NEW k \in 1 .. (active' - 1)
       PROVE  \/ segments'[k].doc_count <= MergeMaxDocs
              \/ \E l \in Sealed : segments[l] = segments'[k]
  <2>1. k \in Sealed'
    BY <1>3, <1>4
  <2>2. RunDocs(i, j) <= MergeMaxDocs
    BY <1>2, <1>14 DEF EligibleRuns, RunFits, i, j
  <2> QED
    BY <1>4, <1>5, <1>7, <2>1, <2>2
<1> QED
  BY <1>4, <1>8, <1>9, <1>10, <1>12, <1>13, <1>14

-----------------------------------------------------------------------------
(* Every step keeps the invariants.                                        *)

\* No document has a blank field name: add_documents rejects nothing.
NoBlanks == Source \cap BlankSources = {}

\* What a step is shown to keep.
Kept == IxInv' /\ (NoBlanks /\ PostedInv => PostedInv')

LEMMA IxInitInv == IxInit => IxInv /\ PostedInv
<1> SUFFICES ASSUME IxInit PROVE IxInv /\ PostedInv
  OBVIOUS
<1> DEFINE e == EmptySegment(0)
<1>1. /\ e \in Segment /\ e.doc_base = 0 /\ e.live_docs = {} /\ e.terms = {}
  BY DEF EmptySegment, Segment
<1>2. segments = <<e>> /\ postings_builder = {} /\ terms_dirty = FALSE
      /\ next_doc_id_hint = 0 /\ flush_budget \in FlushBudgets /\ phase = "idle"
      /\ next_doc_id = 0 /\ in_bulk = FALSE /\ new_doc_ids = {} /\ terms_finalized = FALSE
  BY DEF IxInit, IndexInit, Init
<1> HIDE DEF e
<1>3. segments \in Seq(Segment) /\ segments # <<>> /\ segments[1] = e /\ active = 1 /\ Sealed = {}
  BY <1>1, <1>2 DEF active, Sealed
<1>4. TermsNow = {} /\ Indexed = {}
  BY <1>1, <1>2, <1>3 DEF TermsNow, Indexed
<1>5. SegmentsOK /\ TileInv
  <2>1. {} \in SUBSET Posting /\ 0 \in 0 .. 0
    OBVIOUS
  <2>2. TileInv
    BY <1>1, <1>3 DEF TileInv
  <2> QED
    BY <1>2, <1>3, <2>1, <2>2 DEF SegmentsOK
<1>6. ActiveInv /\ BuilderInv /\ LockInv
  BY <1>1, <1>2, <1>3, <1>4 DEF ActiveInv, BuilderInv, LockInv, Posts
<1>7. StoredDocs = {}
  <2>1. \A d \in DocId : ~(d < next_doc_id)
    BY <1>2, MaxDocsAssumption DEF DocId
  <2> QED
    BY <2>1 DEF StoredDocs
<1> QED
  BY <1>4, <1>5, <1>6, <1>7 DEF IxInv, PostedInv

\* The handlers that end in rebuild_index.
LEMMA RebuildKept ==
    ASSUME IxInv, MapsTypeOK', rebuild_index, phase = "idle",
           terms_finalized' = FALSE, new_doc_ids' = {}
    PROVE  Kept
<1>1. StoredDocs' \in SUBSET Posting /\ \A p \in StoredDocs' : p[1] < next_doc_id'
  BY StoredFactsNext
<1>2. PICK docs \in SUBSET Posting : docs = StoredDocs'
  BY <1>1
<1>3. next_doc_id' \in Nat
  BY MaxDocsAssumption DEF MapsTypeOK
<1>4. /\ ClearAndAdd(docs) /\ UNCHANGED <<flush_budget, phase>>
      /\ flush_budget \in FlushBudgets /\ \A p \in docs : p[1] < next_doc_id'
  BY <1>1, <1>2 DEF rebuild_index, IxInv, SegmentsOK
<1>5. /\ IxInv'
      /\ (\A p \in docs : p[2] \notin BlankSources) => Indexed' = docs
  BY <1>3, <1>4, Rebuilt
<1>6. ASSUME NoBlanks PROVE Indexed' = StoredDocs'
  <2>1. \A p \in docs : p[2] \notin BlankSources
    BY <1>6 DEF NoBlanks, Posting
  <2> QED
    BY <1>2, <1>5, <2>1
<1>7. Indexed' = StoredDocs' => PostedInv'
  BY DEF PostedInv
<1> QED
  BY <1>5, <1>6, <1>7 DEF Kept

\* index_document, create_document, delete_document, set_mapping.
LEMMA WriteKept ==
    ASSUME MapsInv, MapsInv', IxInv, rebuild_index, Unlocked,
           terms_finalized' = FALSE, UNCHANGED batch
    PROVE  Kept
<1>1. phase = "idle" /\ new_doc_ids' = {}
  BY DEF Unlocked, MapsInv, FinalizedInv, batch
<1>2. MapsTypeOK'
  BY DEF MapsInv, TypeOK
<1> QED
  BY <1>1, <1>2, RebuildKept

\* Steps that leave the index alone while the maps take a write.
LEMMA IndexUntouched ==
    ASSUME IxInv, UNCHANGED indexVars, next_doc_id' \in Nat, next_doc_id \in Nat,
           next_doc_id <= next_doc_id', UNCHANGED terms_finalized, LockInv'
    PROVE  IxInv' /\ Indexed' = Indexed /\ TermsNow' = TermsNow
<1>1. UNCHANGED <<segments, postings_builder, terms_dirty, next_doc_id_hint, flush_budget, phase>>
  BY DEF indexVars
<1>2. active' = active /\ Sealed' = Sealed /\ TermsNow' = TermsNow
  BY <1>1 DEF active, Sealed, TermsNow
<1>3. SegmentsOK'
  <2>1. next_doc_id_hint' \in 0 .. next_doc_id'
    BY <1>1 DEF IxInv, SegmentsOK
  <2> QED
    BY <1>1, <2>1 DEF IxInv, SegmentsOK
<1>4. TileInv' /\ ActiveInv' /\ BuilderInv'
  BY <1>1, <1>2 DEF IxInv, TileInv, ActiveInv, BuilderInv
<1>5. Indexed' = Indexed
  BY <1>1, <1>2 DEF Indexed
<1> QED
  BY <1>2, <1>3, <1>4, <1>5 DEF IxInv

\* The documents a bulk adds are new; an update or a delete asks for a rebuild.
LEMMA BulkUpsertKept ==
    ASSUME MapsInv, MapsInv', IxInv, NEW u \in Uid, NEW s \in Source,
           IxBulkIndex(u, s) \/ IxBulkCreate(u, s)
    PROVE  Kept
<1>1. /\ in_bulk /\ upsert_document_deferred(u, s) /\ UNCHANGED <<in_bulk, terms_finalized>>
      /\ UNCHANGED indexVars
      /\ has_document(u) => needs_full_rebuild' /\ new_doc_ids' = new_doc_ids
      /\ ~has_document(u) => /\ needs_full_rebuild' = needs_full_rebuild
                             /\ new_doc_ids' = new_doc_ids \cup {next_doc_id}
  BY DEF IxBulkIndex, IxBulkCreate, BulkIndex, BulkCreate, MapsInv, TypeOK
<1>2. /\ next_doc_id \in Nat /\ next_doc_id' \in Nat /\ MapsTypeOK /\ MapsTypeOK'
      /\ next_doc_id_hint \in 0 .. next_doc_id /\ phase = "idle"
  BY <1>1, MaxDocsAssumption DEF MapsInv, TypeOK, MapsTypeOK, IxInv, SegmentsOK, LockInv
<1>3. CASE has_document(u)
  <2>1. next_doc_id' = next_doc_id
    BY <1>1, <1>3 DEF upsert_document_deferred
  <2>2. LockInv'
    BY <1>1, <1>2, <1>3, <2>1 DEF IxInv, LockInv, indexVars
  <2>3. IxInv'
    BY <1>1, <1>2, <2>1, <2>2, IndexUntouched
  <2> QED
    BY <1>1, <1>3, <2>3 DEF Kept, PostedInv
<1>4. CASE ~has_document(u)
  <2>1. /\ next_doc_id' = next_doc_id + 1 /\ next_doc_id < MaxDocs
        /\ documents_dirty' = [documents_dirty EXCEPT ![next_doc_id] = s]
        /\ UNCHANGED <<documents, deleted_since_dense>>
    BY <1>1, <1>4 DEF upsert_document_deferred, dense
  <2>2. LockInv'
    <3>1. \A d \in new_doc_ids : d \in Nat /\ next_doc_id_hint <= d /\ d < next_doc_id
      BY <1>2, MaxDocsAssumption DEF IxInv, LockInv, MapsTypeOK, DocId
    <3>2. \A d \in new_doc_ids' : next_doc_id_hint <= d /\ d < next_doc_id'
      BY <1>1, <1>2, <1>4, <2>1, <3>1
    <3> QED
      BY <1>1, <1>2, <3>2 DEF LockInv, indexVars
  <2>3. IxInv' /\ Indexed' = Indexed
    BY <1>1, <1>2, <2>1, <2>2, IndexUntouched
  <2>4. ASSUME NEW d \in DocId, d # next_doc_id
        PROVE  blob_for_doc_id(d)' = blob_for_doc_id(d)
    BY <1>2, <2>1, <2>4 DEF blob_for_doc_id, MapsTypeOK
  <2>5. \A d \in DocId : d # next_doc_id => (d < next_doc_id' <=> d < next_doc_id)
    BY <1>2, <2>1, MaxDocsAssumption DEF DocId
  <2>6. {p \in StoredDocs : p[1] \notin new_doc_ids}'
        = {p \in StoredDocs : p[1] \notin new_doc_ids}
    <3>1. \A d \in DocId : d # next_doc_id =>
             ((d < next_doc_id' /\ blob_for_doc_id(d)' # None)
              <=> (d < next_doc_id /\ blob_for_doc_id(d) # None))
      BY <2>4, <2>5
    <3>2. next_doc_id \in DocId /\ ~(next_doc_id < next_doc_id)
      BY <1>2, <2>1, MaxDocsAssumption DEF DocId
    <3>3. ASSUME NEW p \in StoredDocs', p[1] \notin new_doc_ids'
          PROVE  p \in StoredDocs /\ p[1] \notin new_doc_ids
      <4>1. PICK d \in DocId : /\ d < next_doc_id' /\ blob_for_doc_id(d)' # None
                               /\ p = <<d, blob_for_doc_id(d)'>>
        BY <3>3 DEF StoredDocs
      <4>2. d # next_doc_id /\ p[1] = d
        BY <1>1, <1>4, <3>3, <4>1
      <4> QED
        BY <1>1, <1>4, <2>4, <3>1, <3>3, <4>1, <4>2 DEF StoredDocs
    <3>4. ASSUME NEW p \in StoredDocs, p[1] \notin new_doc_ids
          PROVE  p \in StoredDocs' /\ p[1] \notin new_doc_ids'
      <4>1. PICK d \in DocId : /\ d < next_doc_id /\ blob_for_doc_id(d) # None
                               /\ p = <<d, blob_for_doc_id(d)>>
        BY <3>4 DEF StoredDocs
      <4>2. d # next_doc_id /\ p[1] = d
        BY <3>2, <4>1
      <4> QED
        BY <1>1, <1>4, <2>4, <3>1, <3>4, <4>1, <4>2 DEF StoredDocs
    <3> QED
      BY <3>3, <3>4
  <2> QED
    BY <1>1, <1>4, <2>3, <2>6 DEF Kept, PostedInv
<1> QED
  BY <1>3, <1>4

LEMMA BulkDeleteKept ==
    ASSUME MapsInv, MapsInv', IxInv, NEW u \in Uid, IxBulkDelete(u)
    PROVE  Kept
<1>1. /\ in_bulk /\ UNCHANGED <<in_bulk, new_doc_ids, terms_finalized, next_doc_id>>
      /\ UNCHANGED indexVars /\ needs_full_rebuild' = TRUE
  BY DEF IxBulkDelete, BulkDelete, delete_document_deferred
<1>2. next_doc_id \in Nat
  BY MaxDocsAssumption DEF MapsInv, TypeOK, MapsTypeOK
<1>3. LockInv'
  BY <1>1 DEF IxInv, LockInv, indexVars
<1>4. IxInv'
  BY <1>1, <1>2, <1>3, IndexUntouched
<1> QED
  BY <1>1, <1>4 DEF Kept, PostedInv

\* Steps that change neither the maps nor what is to be posted.
LEMMA SamePosted ==
    ASSUME UNCHANGED vars, Indexed' = Indexed, PostedInv
    PROVE  PostedInv'
<1>1. UNCHANGED <<next_doc_id, documents, documents_dirty, deleted_since_dense,
                  needs_full_rebuild, new_doc_ids>>
  BY DEF vars, dense, overlay, batch
<1>2. \A d \in DocId : blob_for_doc_id(d)' = blob_for_doc_id(d)
  BY <1>1 DEF blob_for_doc_id
<1>3. StoredDocs' = StoredDocs
  BY <1>1, <1>2, SameStored
<1> QED
  BY <1>1, <1>3 DEF PostedInv

LEMMA BulkBeginKept ==
    ASSUME MapsInv, MapsInv', IxInv, IxBulkBegin
    PROVE  Kept
<1>1. /\ ~in_bulk /\ phase = "idle" /\ new_doc_ids' = {} /\ needs_full_rebuild' = FALSE
      /\ UNCHANGED <<next_doc_id, documents, documents_dirty, deleted_since_dense, terms_finalized>>
      /\ UNCHANGED indexVars
  BY DEF IxBulkBegin, BulkBegin, Unlocked, dense, overlay
<1>2. next_doc_id \in Nat /\ new_doc_ids = {} /\ ~needs_full_rebuild
  BY <1>1, MaxDocsAssumption DEF MapsInv, TypeOK, MapsTypeOK, FinalizedInv
<1>3. LockInv'
  BY <1>1 DEF LockInv, indexVars
<1>4. IxInv' /\ Indexed' = Indexed
  BY <1>1, <1>2, <1>3, IndexUntouched
<1>5. StoredDocs' = StoredDocs
  <2>1. \A d \in DocId : blob_for_doc_id(d)' = blob_for_doc_id(d)
    BY <1>1 DEF blob_for_doc_id
  <2> QED
    BY <1>1, <2>1, SameStored
<1> QED
  BY <1>1, <1>2, <1>4, <1>5 DEF Kept, PostedInv

\* The end of a bulk: nothing to do, an append, or a rebuild.
LEMMA BulkEndKept ==
    ASSUME MapsInv, MapsInv', IxInv, IxBulkEnd
    PROVE  Kept
<1>1. /\ in_bulk /\ in_bulk' = FALSE /\ needs_full_rebuild' = FALSE /\ new_doc_ids' = {}
      /\ terms_finalized' = (terms_finalized /\ ~needs_full_rebuild /\ new_doc_ids = {})
      /\ IF Appends THEN maybe_densify_by_budget
         ELSE UNCHANGED <<dense, overlay, live_count, next_doc_id>>
  BY DEF IxBulkEnd, BulkEnd
<1>2. /\ phase = "idle" /\ MapsTypeOK /\ MapsTypeOK' /\ next_doc_id \in Nat
      /\ terms_finalized \in BOOLEAN /\ needs_full_rebuild \in BOOLEAN
  BY <1>1, MaxDocsAssumption DEF MapsInv, TypeOK, MapsTypeOK, IxInv, SegmentsOK, LockInv
<1>3. next_doc_id' = next_doc_id /\ StoredDocs' = StoredDocs
  <2>1. CASE densify
    <3>1. next_doc_id' = next_doc_id /\ new_doc_ids' \in SUBSET DocId
      BY <1>1, <2>1 DEF densify
    <3>2. \A d \in DocId : blob_for_doc_id(d)' = blob_for_doc_id(d)
      BY <2>1, <3>1, DensifyStep DEF MapsInv
    <3> QED
      BY <3>1, <3>2, SameStored
  <2>2. CASE UNCHANGED <<dense, overlay, live_count, next_doc_id>>
    <3>1. UNCHANGED <<documents, documents_dirty, deleted_since_dense, next_doc_id>>
      BY <2>2 DEF dense, overlay
    <3>2. \A d \in DocId : blob_for_doc_id(d)' = blob_for_doc_id(d)
      BY <3>1 DEF blob_for_doc_id
    <3> QED
      BY <3>1, <3>2, SameStored
  <2> QED
    BY <1>1, <2>1, <2>2 DEF maybe_densify_by_budget
<1>4. CASE ~needs_full_rebuild /\ new_doc_ids = {} /\ UNCHANGED indexVars
  <2>1. terms_finalized' = terms_finalized /\ LockInv'
    BY <1>1, <1>2, <1>4 DEF LockInv, indexVars
  <2>2. IxInv' /\ Indexed' = Indexed
    BY <1>2, <1>3, <1>4, <2>1, IndexUntouched
  <2> QED
    BY <1>1, <1>3, <1>4, <2>2 DEF Kept, PostedInv
<1>5. CASE /\ Appends
           /\ add_documents_with_mapping_deferred({p \in StoredDocs : p[1] \in new_doc_ids})
           /\ phase' = "flush" /\ UNCHANGED flush_budget
  <2> DEFINE docs == {p \in StoredDocs : p[1] \in new_doc_ids}
  <2>1. ~terms_finalized /\ ~needs_full_rebuild /\ terms_finalized' = FALSE
    BY <1>1, <1>5 DEF Appends
  <2>2. /\ docs \in SUBSET Posting
        /\ \A p \in docs : next_doc_id_hint <= p[1] /\ p[1] < next_doc_id
    BY <1>2, StoredFacts DEF IxInv, LockInv
  <2>3. PICK d \in SUBSET Posting : d = docs
    BY <2>2
  <2>4. /\ \A p \in d : next_doc_id_hint <= p[1] /\ p[1] < next_doc_id
        /\ add_documents_with_mapping_deferred(d)
    BY <1>5, <2>2, <2>3
  <2>5. /\ IxInv'
        /\ (\A p \in d : p[2] \notin BlankSources) => Indexed' = Indexed \cup d
    BY <1>1, <1>2, <1>3, <1>5, <2>1, <2>4, Appended
  <2>6. ASSUME NoBlanks, PostedInv PROVE PostedInv'
    <3>1. \A p \in d : p[2] \notin BlankSources
      BY <2>6 DEF NoBlanks, Posting
    <3>2. Indexed' = StoredDocs
      BY <2>1, <2>3, <2>5, <2>6, <3>1 DEF PostedInv
    <3> QED
      BY <1>1, <1>3, <3>2 DEF PostedInv
  <2> QED
    BY <2>5, <2>6 DEF Kept
<1>6. CASE ~Appends /\ (needs_full_rebuild \/ new_doc_ids # {}) /\ rebuild_index
  <2>1. terms_finalized' = FALSE
    BY <1>1, <1>2, <1>6
  <2> QED
    BY <1>1, <1>2, <1>6, <2>1, RebuildKept
<1> QED
  BY <1>4, <1>5, <1>6 DEF IxBulkEnd

\* A refresh folds the overlays and posts everything.
LEMMA RefreshKept ==
    ASSUME MapsInv, MapsInv', IxInv, IxRefresh
    PROVE  Kept
<1>1. /\ ~in_bulk /\ phase = "idle" /\ densify /\ terms_finalized' = TRUE
      /\ UNCHANGED <<in_bulk, needs_full_rebuild, new_doc_ids>>
      /\ materialize_terms_and_finalize_postings
  BY DEF IxRefresh, Refresh, Unlocked, batch
<1>2. /\ next_doc_id' = next_doc_id /\ new_doc_ids = {} /\ new_doc_ids' \in SUBSET DocId
  BY <1>1 DEF densify, MapsInv, FinalizedInv
<1>3. StoredDocs' = StoredDocs
  <2>1. \A d \in DocId : blob_for_doc_id(d)' = blob_for_doc_id(d)
    BY <1>1, <1>2, DensifyStep DEF MapsInv
  <2> QED
    BY <1>2, <2>1, SameStored
<1>4. /\ postings_builder' = {} /\ terms_dirty' = FALSE /\ phase' \in {"idle", "merge"}
      /\ UNCHANGED <<next_doc_id_hint, flush_budget>>
  BY <1>1 DEF materialize_terms_and_finalize_postings, Seal
<1>5. /\ segments' \in Seq(Segment) /\ segments' # <<>>
      /\ TileInv' /\ ActiveInv' /\ Indexed' = Indexed
  <2>1. CASE Seal
    BY <1>2, <2>1, SealedOff
  <2>2. CASE segments' = materialize_active_segment_terms
    BY <1>2, <1>4, <2>2, Materialized
  <2> QED
    BY <1>1, <2>1, <2>2 DEF materialize_terms_and_finalize_postings
<1>6. SegmentsOK'
  <2>1. {} \in SUBSET Posting /\ phase' \in {"idle", "flush", "merge"}
    BY <1>4
  <2> QED
    BY <1>2, <1>4, <1>5, <2>1 DEF IxInv, SegmentsOK
<1>7. BuilderInv' /\ LockInv'
  BY <1>1, <1>2, <1>4 DEF BuilderInv, LockInv
<1>8. PostedInv => PostedInv'
  BY <1>1, <1>3, <1>5 DEF PostedInv
<1> QED
  BY <1>5, <1>6, <1>7, <1>8 DEF Kept, IxInv

\* A search builds the dictionary and keeps the builder.
LEMMA EnsureKept ==
    ASSUME IxInv, EnsureTermsReady
    PROVE  Kept
<1>1. /\ segments' = materialize_active_segment_terms /\ terms_dirty' = FALSE
      /\ UNCHANGED <<postings_builder, next_doc_id_hint, flush_budget, phase>> /\ UNCHANGED vars
  BY DEF EnsureTermsReady, materialize_terms, materialize_active_segment_terms
<1>2. UNCHANGED <<next_doc_id, in_bulk, new_doc_ids, terms_finalized>>
  BY <1>1 DEF vars, batch
<1>3. /\ segments' \in Seq(Segment) /\ segments' # <<>>
      /\ TileInv' /\ ActiveInv' /\ TermsNow' = TermsNow /\ Indexed' = Indexed
  BY <1>1, <1>2, Materialized
<1>4. SegmentsOK' /\ BuilderInv' /\ LockInv'
  BY <1>1, <1>2, <1>3 DEF IxInv, SegmentsOK, BuilderInv, LockInv
<1> QED
  BY <1>1, <1>3, <1>4, SamePosted DEF Kept, IxInv

\* A builder over its budget is not empty, so the segment it filled is sealed
\* and the next one starts empty.
LEMMA FlushKept ==
    ASSUME IxInv, IxFlush
    PROVE  Kept
<1>1. UNCHANGED <<next_doc_id, in_bulk, new_doc_ids, terms_finalized>> /\ UNCHANGED vars
      /\ phase = "flush" /\ maybe_flush_by_budget
  BY DEF IxFlush, maybe_flush_by_budget, vars, batch
<1>2. CASE ~(flush_budget # NoLimit /\ Cardinality(postings_builder) >= flush_budget)
  <2>1. /\ phase' = "idle"
        /\ UNCHANGED <<segments, postings_builder, terms_dirty, next_doc_id_hint, flush_budget>>
    BY <1>1, <1>2 DEF maybe_flush_by_budget
  <2>2. active' = active /\ Sealed' = Sealed /\ TermsNow' = TermsNow
    BY <2>1 DEF active, Sealed, TermsNow
  <2>3. SegmentsOK' /\ TileInv' /\ ActiveInv' /\ BuilderInv' /\ LockInv'
    BY <1>1, <2>1, <2>2 DEF IxInv, SegmentsOK, TileInv, ActiveInv, BuilderInv, LockInv
  <2>4. Indexed' = Indexed
    BY <2>1, <2>2 DEF Indexed
  <2> QED
    BY <1>1, <2>3, <2>4, SamePosted DEF Kept, IxInv
<1>3. CASE flush_budget # NoLimit /\ Cardinality(postings_builder) >= flush_budget
  <2>1. /\ Seal /\ postings_builder' = {} /\ terms_dirty' = FALSE /\ phase' = "merge"
        /\ UNCHANGED <<next_doc_id_hint, flush_budget>>
    BY <1>1, <1>3 DEF maybe_flush_by_budget, Seal
  <2>2. /\ segments' \in Seq(Segment) /\ segments' # <<>>
        /\ TileInv' /\ ActiveInv' /\ Indexed' = Indexed
        /\ next_doc_id_hint > segments[active].doc_base => TermsNow' = {}
    BY <1>1, <2>1, SealedOff
  <2>3. postings_builder # {}
    <3>1. flush_budget \in Nat \ {0}
      BY <1>3, IndexConstants DEF IxInv, SegmentsOK
    <3>2. Cardinality({}) = 0
      BY FS_EmptySet
    <3> QED
      BY <1>3, <3>1, <3>2
  <2>4. ~terms_finalized => TermsNow' = {}
    <3> SUFFICES ASSUME ~terms_finalized PROVE next_doc_id_hint > segments[active].doc_base
      BY <2>2
    <3>1. PICK p \in postings_builder : TRUE
      BY <2>3
    <3>2. p \in TermsNow /\ p \in Posting
      BY <3>1 DEF IxInv, BuilderInv, SegmentsOK
    <3>3. p[1] >= segments[active].doc_base /\ p[1] < next_doc_id_hint
      BY <3>2 DEF IxInv, ActiveInv, Posts
    <3>4. p[1] \in Nat /\ segments[active].doc_base \in Nat /\ next_doc_id_hint \in Nat
      BY <3>2, SegmentFacts DEF IxInv, SegmentsOK
    <3> QED
      BY <3>3, <3>4
  <2>5. SegmentsOK'
    <3>1. {} \in SUBSET Posting
      OBVIOUS
    <3> QED
      BY <1>1, <2>1, <2>2, <3>1 DEF IxInv, SegmentsOK
  <2>6. BuilderInv' /\ LockInv'
    BY <1>1, <2>1, <2>4 DEF IxInv, BuilderInv, LockInv
  <2> QED
    BY <1>1, <2>2, <2>5, <2>6, SamePosted DEF Kept, IxInv
<1> QED
  BY <1>2, <1>3

LEMMA MergeKept ==
    ASSUME IxInv, IxMerge
    PROVE  Kept
<1>1. /\ UNCHANGED <<next_doc_id, in_bulk, new_doc_ids, terms_finalized>> /\ UNCHANGED vars
      /\ MergeStep \/ MergeDone
  BY DEF IxMerge, vars, batch
<1>2. CASE MergeStep
  <2>1. UNCHANGED <<postings_builder, terms_dirty, next_doc_id_hint, flush_budget, phase>>
    BY <1>2 DEF MergeStep
  <2>2. /\ segments' \in Seq(Segment) /\ segments' # <<>>
        /\ TileInv' /\ ActiveInv' /\ TermsNow' = TermsNow /\ Indexed' = Indexed
    BY <1>2, Merging DEF IxInv
  <2>3. SegmentsOK' /\ BuilderInv' /\ LockInv'
    BY <1>1, <2>1, <2>2 DEF IxInv, SegmentsOK, BuilderInv, LockInv
  <2> QED
    BY <1>1, <2>2, <2>3, SamePosted DEF Kept, IxInv
<1>3. CASE MergeDone
  <2>1. /\ phase' = "idle"
        /\ UNCHANGED <<segments, postings_builder, terms_dirty, next_doc_id_hint, flush_budget>>
    BY <1>3 DEF MergeDone
  <2>2. active' = active /\ Sealed' = Sealed /\ TermsNow' = TermsNow
    BY <2>1 DEF active, Sealed, TermsNow
  <2>3. SegmentsOK' /\ TileInv' /\ ActiveInv' /\ BuilderInv' /\ LockInv'
    BY <1>1, <2>1, <2>2 DEF IxInv, SegmentsOK, TileInv, ActiveInv, BuilderInv, LockInv
  <2>4. Indexed' = Indexed
    BY <2>1, <2>2 DEF Indexed
  <2> QED
    BY <1>1, <2>3, <2>4, SamePosted DEF Kept, IxInv
<1> QED
  BY <1>1, <1>2, <1>3

LEMMA IxStutterKept ==
    ASSUME MapsInv, IxInv, UNCHANGED allVars
    PROVE  Kept
<1>1. UNCHANGED vars /\ UNCHANGED indexVars
  BY DEF allVars
<1>2. UNCHANGED <<next_doc_id, in_bulk, new_doc_ids, terms_finalized>>
  BY <1>1 DEF vars, batch
<1>3. next_doc_id \in Nat /\ LockInv'
  BY <1>1, <1>2, MaxDocsAssumption DEF MapsInv, TypeOK, MapsTypeOK, IxInv, LockInv, indexVars
<1>4. IxInv' /\ Indexed' = Indexed
  BY <1>1, <1>2, <1>3, IndexUntouched
<1> QED
  BY <1>1, <1>4, SamePosted DEF Kept

LEMMA IxNextKept ==
    ASSUME MapsInv, MapsInv', IxInv, [IxNext]_allVars
    PROVE  Kept
<1>1. CASE UNCHANGED allVars
  BY <1>1, IxStutterKept
<1>2. ASSUME NEW u \in Uid, NEW s \in Source, IxIndexDocument(u, s) \/ IxCreateDocument(u, s)
      PROVE  Kept
  <2>1. rebuild_index /\ Unlocked /\ terms_finalized' = FALSE /\ UNCHANGED batch
    BY <1>2 DEF IxIndexDocument, IxCreateDocument, IndexDocument, CreateDocument
  <2> QED
    BY <2>1, WriteKept
<1>3. ASSUME NEW u \in Uid, IxDeleteDocument(u) PROVE Kept
  <2>1. rebuild_index /\ Unlocked /\ terms_finalized' = FALSE /\ UNCHANGED batch
    BY <1>3 DEF IxDeleteDocument, DeleteDocument
  <2> QED
    BY <2>1, WriteKept
<1>4. CASE IxSetMapping
  <2>1. rebuild_index /\ Unlocked /\ terms_finalized' = FALSE /\ UNCHANGED batch
    BY <1>4 DEF IxSetMapping, SetMapping
  <2> QED
    BY <2>1, WriteKept
<1>5. ASSUME NEW u \in Uid, NEW s \in Source, IxBulkIndex(u, s) \/ IxBulkCreate(u, s)
      PROVE  Kept
  BY <1>5, BulkUpsertKept
<1>6. ASSUME NEW u \in Uid, IxBulkDelete(u) PROVE Kept
  BY <1>6, BulkDeleteKept
<1>7. CASE IxBulkBegin
  BY <1>7, BulkBeginKept
<1>8. CASE IxBulkEnd
  BY <1>8, BulkEndKept
<1>9. CASE IxRefresh
  BY <1>9, RefreshKept
<1>10. CASE EnsureTermsReady
  BY <1>10, EnsureKept
<1>11. CASE IxFlush
  BY <1>11, FlushKept
<1>12. CASE IxMerge
  BY <1>12, MergeKept
<1> QED
  BY <1>1, <1>2, <1>3, <1>4, <1>5, <1>6, <1>7, <1>8, <1>9, <1>10, <1>11, <1>12 DEF IxNext

-----------------------------------------------------------------------------
(* The theorems.                                                           *)

\* The inductive invariant of the segments, whatever the documents hold.
THEOREM IxInvHolds == IxSpec => []IxInv
<1>1. IxInit => IxInv
  BY IxInitInv
<1>2. MapsInv /\ MapsInv' /\ IxInv /\ [IxNext]_allVars => IxInv'
  BY IxNextKept DEF Kept
<1> QED
  BY <1>1, <1>2, MapsInvHolds, PTL DEF IxSpec

\* The live docs of a segment are the ids of its postings.
LEMMA PostedLocally ==
    ASSUME NEW seg \in Segment, NEW terms \in SUBSET Posting, Posts(seg, terms)
    PROVE  {n + seg.doc_base : n \in seg.live_docs} = {p[1] : p \in terms}
<1>1. seg.doc_base \in Nat /\ \A p \in terms : p[1] \in Nat
  BY MaxDocsAssumption DEF Segment, Posting, DocId
<1>2. \A p \in terms : (p[1] - seg.doc_base) + seg.doc_base = p[1]
  BY <1>1
<1>3. seg.live_docs = {p[1] - seg.doc_base : p \in terms}
  BY DEF Posts
<1>4. \A n \in seg.live_docs : n + seg.doc_base \in {p[1] : p \in terms}
  BY <1>2, <1>3
<1>5. \A p \in terms : p[1] \in {n + seg.doc_base : n \in seg.live_docs}
  <2> SUFFICES ASSUME NEW p \in terms PROVE \E n \in seg.live_docs : p[1] = n + seg.doc_base
    OBVIOUS
  <2>1. p[1] - seg.doc_base \in seg.live_docs
    BY <1>3
  <2> QED
    BY <1>2, <2>1
<1> QED
  BY <1>4, <1>5

\* Live docs and postings name the same documents.
LEMMA LiveArePosted == IxInv => LiveDocsArePosted
<1> SUFFICES ASSUME IxInv PROVE doc_ids = {p[1] : p \in Indexed}
  BY DEF LiveDocsArePosted
<1> DEFINE T(k) == IF k = active THEN TermsNow ELSE segments[k].terms
<1>1. SegmentsOK /\ TileInv /\ ActiveInv
  BY DEF IxInv
<1>2. \A k \in 1 .. active : T(k) \in SUBSET Posting /\ segments[k] \in Segment
                             /\ Posts(segments[k], T(k))
  BY <1>1, SegmentFacts DEF TileInv, ActiveInv
<1>3. \A k \in 1 .. active :
         {n + segments[k].doc_base : n \in segments[k].live_docs} = {p[1] : p \in T(k)}
  BY <1>2, PostedLocally
<1>4. /\ active \in 1 .. active /\ active \notin Sealed
      /\ \A k : k \in 1 .. active <=> k = active \/ k \in Sealed
  BY <1>1, SegmentFacts
<1>5. Indexed = UNION {T(k) : k \in 1 .. active}
  <2>1. \A k \in Sealed : T(k) = segments[k].terms
    BY <1>4
  <2>2. T(active) = TermsNow
    OBVIOUS
  <2>3. \A x : x \in Indexed <=> \E k \in 1 .. active : x \in T(k)
    BY <1>4, <2>1, <2>2 DEF Indexed
  <2> HIDE DEF T
  <2> QED
    BY <2>3
<1> HIDE DEF T
<1>6. ASSUME NEW d \in doc_ids PROVE d \in {p[1] : p \in Indexed}
  <2>1. PICK k \in 1 .. active : d \in {n + segments[k].doc_base : n \in segments[k].live_docs}
    BY <1>6 DEF doc_ids
  <2> QED
    BY <1>3, <1>5, <2>1
<1>7. ASSUME NEW p \in Indexed PROVE p[1] \in doc_ids
  <2>1. PICK k \in 1 .. active : p \in T(k)
    BY <1>5
  <2>2. p[1] \in {n + segments[k].doc_base : n \in segments[k].live_docs}
    BY <1>3, <2>1
  <2> QED
    BY <2>2 DEF doc_ids
<1> QED
  BY <1>6, <1>7

\* The segments partition the doc ids, and live docs, postings and segment
\* bounds agree in each, whatever was sealed and merged, also when a rebuild
\* was refused.
THEOREM SegmentsSoundHolds == IxSpec => []SegmentsSound
<1>1. IxInv => SegmentsSound
  <2> SUFFICES ASSUME IxInv PROVE SegmentsSound
    OBVIOUS
  <2>1. IndexTypeOK
    <3>1. SegmentsOK /\ next_doc_id_hint \in Nat
      BY DEF IxInv, SegmentsOK
    <3>2. active >= 1
      BY <3>1, SegmentFacts
    <3> QED
      BY <3>1, <3>2, SegmentFacts DEF IndexTypeOK, SegmentsOK
  <2>2. SegmentsTile
    <3>1. \A k \in Sealed : \A p \in segments[k].terms :
             p[1] - segments[k].doc_base \in segments[k].live_docs
      BY DEF IxInv, TileInv, Posts
    <3> QED
      BY <3>1 DEF IxInv, TileInv, SegmentsTile
  <2> QED
    BY <2>1, <2>2, LiveArePosted DEF SegmentsSound
<1> QED
  BY <1>1, IxInvHolds, PTL

\* A merge keeps every posting and every live doc, and respects the cap.
THEOREM MergesSoundHolds == IxSpec => MergesSound
<1>1. ASSUME MapsInv, MapsInv', IxInv, [IxNext]_allVars
      PROVE  [MergeStep => Searchable' = Searchable /\ doc_ids' = doc_ids]_indexVars
  <2> SUFFICES ASSUME MergeStep PROVE Searchable' = Searchable /\ doc_ids' = doc_ids
    OBVIOUS
  <2>1. Indexed' = Indexed /\ Searchable' = Searchable
    BY <1>1, Merging DEF IxInv
  <2>2. IxInv'
    BY <1>1, IxNextKept DEF Kept
  <2>3. LiveDocsArePosted /\ LiveDocsArePosted'
    BY <1>1, <2>2, LiveArePosted, PTL
  <2> QED
    BY <2>1, <2>3 DEF LiveDocsArePosted
<1>2. ASSUME IxInv
      PROVE  [MergeStep /\ MergeMaxDocs # NoLimit =>
                 \A k \in 1 .. (active' - 1) :
                     \/ segments'[k].doc_count <= MergeMaxDocs
                     \/ \E i \in Sealed : segments[i] = segments'[k]]_indexVars
  BY <1>2, Merging DEF IxInv
<1>3. IxSpec => MergeLosesNothing
  BY <1>1, IxInvHolds, MapsInvHolds, PTL DEF IxSpec, MergeLosesNothing
<1>4. IxSpec => MergeRespectsCap
  BY <1>2, IxInvHolds, PTL DEF MergeRespectsCap
<1> QED
  BY <1>3, <1>4 DEF MergesSound

\* Without documents the index refuses, its postings are those of the stored
\* documents.
LEMMA PostedHolds ==
    ASSUME NoBlanks
    PROVE  IxSpec => []PostedInv
<1>1. IxInit => PostedInv
  BY IxInitInv
<1>2. MapsInv /\ MapsInv' /\ IxInv /\ PostedInv /\ [IxNext]_allVars => PostedInv'
  BY IxNextKept DEF Kept
<1> QED
  BY <1>1, <1>2, IxInvHolds, MapsInvHolds, PTL DEF IxSpec

\* Outside a bulk every stored document is posted.
LEMMA AllPosted == MapsInv /\ PostedInv => PostingsMatchDocs
  BY DEF MapsInv, FinalizedInv, PostedInv, PostingsMatchDocs, Unlocked

\* A batch that is appended starts where the active segment ends.
LEMMA AppendsFit ==
    ASSUME NoBlanks
    PROVE  MapsInv /\ IxInv => AppendsAccepted
<1> SUFFICES ASSUME MapsInv, IxInv, NEW p \in StoredDocs, p[1] \in new_doc_ids
             PROVE  /\ p[1] >= segments[active].doc_base
                    /\ p[1] - segments[active].doc_base \notin segments[active].live_docs
                    /\ p[2] \notin BlankSources
  BY DEF AppendsAccepted, Accepts
<1> DEFINE base == segments[active].doc_base
<1>1. SegmentsOK /\ MapsTypeOK
  BY DEF IxInv, MapsInv, TypeOK
<1>2. /\ p \in Posting /\ p[1] \in Nat /\ p[2] \in Source
      /\ base \in Nat /\ next_doc_id_hint \in Nat /\ TermsNow \subseteq Posting
      /\ \A q \in TermsNow : q[1] \in Nat
  <2>1. next_doc_id_hint \in Nat
    BY <1>1 DEF SegmentsOK
  <2> QED
    BY <1>1, <2>1, SegmentFacts, StoredFacts
<1>3. base <= next_doc_id_hint /\ next_doc_id_hint <= p[1]
  BY DEF IxInv, ActiveInv, LockInv
<1>4. \A q \in TermsNow : q[1] < next_doc_id_hint
  BY DEF IxInv, ActiveInv
<1>5. segments[active].live_docs = {q[1] - base : q \in TermsNow}
  BY DEF IxInv, ActiveInv, Posts
<1>6. p[2] \notin BlankSources
  BY <1>2 DEF NoBlanks
<1> HIDE DEF base
<1>7. p[1] >= base /\ \A q \in TermsNow : p[1] - base # q[1] - base
  BY <1>2, <1>3, <1>4
<1> QED
  BY <1>5, <1>6, <1>7 DEF base

\* The postings follow the id maps through every write path: none is lost or
\* stale, no append is refused, and the builder can rebuild what it holds.
THEOREM PostingsExactHolds ==
    ASSUME NoBlanks
    PROVE  IxSpec => []PostingsExact
<1>1. IxInv => BuilderComplete
  BY DEF IxInv, BuilderInv, ActiveInv, Posts, BuilderComplete
<1>2. MapsInv /\ IxInv /\ PostedInv => PostingsExact
  BY <1>1, AllPosted, AppendsFit DEF PostingsExact
<1> QED
  BY <1>2, IxInvHolds, MapsInvHolds, PostedHolds, PTL

\* A search over built dictionaries, after a refresh in particular, misses no
\* document.
THEOREM SearchesCompleteHolds ==
    ASSUME NoBlanks
    PROVE  IxSpec => []SearchesComplete
<1>1. IxInv /\ ~terms_dirty => Searchable = Indexed
  <2> SUFFICES ASSUME IxInv, ~terms_dirty PROVE Searchable = Indexed
    OBVIOUS
  <2>1. TermsNow = segments[active].terms
    BY DEF TermsNow
  <2>2. \A k : k \in 1 .. active <=> k = active \/ k \in Sealed
    BY SegmentFacts DEF IxInv
  <2> QED
    BY <2>1, <2>2 DEF Searchable, Indexed
<1>2. IxInv /\ terms_finalized => ~terms_dirty
  BY DEF IxInv, BuilderInv
<1>3. MapsInv /\ IxInv /\ PostedInv => SearchesComplete
  BY <1>1, <1>2, AllPosted
     DEF SearchesComplete, CleanMeansComplete, RefreshedSeesAll, PostingsMatchDocs
<1> QED
  BY <1>3, IxInvHolds, MapsInvHolds, PostedHolds, PTL
=============================================================================
