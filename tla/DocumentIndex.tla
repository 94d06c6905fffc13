--------------------------- MODULE DocumentIndex ---------------------------
(***************************************************************************)
(* The segmented inverted index of surch-index (document_index.rs): one    *)
(* active segment fed by a postings builder, sealed by a memory budget or  *)
(* by a refresh, and sealed segments merged by a tiered policy.            *)
(*                                                                         *)
(* A document's postings are represented by the pair <<doc id, source>>:   *)
(* all of a document's terms enter and leave a dictionary together.  The   *)
(* live-docs bitset of a segment is indexed locally (doc id - doc_base),   *)
(* postings are global, as in the code.                                    *)
(*                                                                         *)
(* The operations are called by InMemoryIndex under the store write lock.  *)
(* `phase` names the part of a handler still to run before the lock is     *)
(* released: the budget check ("flush") and the merge loop ("merge").      *)
(***************************************************************************)
EXTENDS Integers, Sequences, FiniteSetsExt

CONSTANTS
    NoLimit,        \* an unset budget or cap
    BlankSources,   \* sources with a blank field name
    FlushBudgets,   \* values of SURCH_FLUSH_BUDGET_BYTES, counted in documents
    MergeFanin,     \* SURCH_MERGE_FANIN
    MergeMaxDocs,   \* SURCH_MERGE_MAX_DOCS
    SizeRatio       \* SIZE_RATIO, 10 in the code

ASSUME IndexConstants ==
    /\ FlushBudgets \subseteq {NoLimit} \cup (Nat \ {0})
    /\ MergeMaxDocs = NoLimit \/ MergeMaxDocs \in Nat \ {0}
    /\ MergeFanin \in Nat
    /\ SizeRatio \in Nat \ {0}

VARIABLES
    segments,           \* sealed segments in doc id order, then the active one
    postings_builder,   \* postings of the active segment's documents
    terms_dirty,        \* the active dictionary is behind the builder
    next_doc_id_hint,   \* 1 + the largest doc id indexed since the last clear
    flush_budget,       \* read from the environment when the index is made
    phase

indexVars ==
    <<segments, postings_builder, terms_dirty, next_doc_id_hint, flush_budget, phase>>

EmptySegment(base) ==
    [doc_base |-> base, doc_count |-> 0, live_docs |-> {}, terms |-> {}]

active == Len(segments)
Sealed == 1 .. (active - 1)

IndexTypeOK ==
    /\ active >= 1
    /\ \A k \in 1 .. active :
          /\ segments[k].doc_base \in Nat /\ segments[k].doc_count \in Nat
          /\ segments[k].live_docs \subseteq Nat
    /\ terms_dirty \in BOOLEAN
    /\ next_doc_id_hint \in Nat
    /\ flush_budget \in FlushBudgets
    /\ phase \in {"idle", "flush", "merge"}

IndexInit ==
    /\ segments = <<EmptySegment(0)>>
    /\ postings_builder = {}
    /\ terms_dirty = FALSE
    /\ next_doc_id_hint = 0
    /\ flush_budget \in FlushBudgets
    /\ phase = "idle"

-----------------------------------------------------------------------------
(* Adding documents.                                                       *)

\* The validation pass: one bad document rejects the whole batch.
Accepts(docs, base, live) ==
    \A p \in docs : /\ p[1] >= base
                    /\ p[1] - base \notin live
                    /\ p[2] \notin BlankSources

Locals(docs, base) == {p[1] - base : p \in docs}

\* Mutant: one past the end.
HintTooFar(hint, docs) == Max({hint} \cup {p[1] + 2 : p \in docs})

HintAfter(hint, docs) == Max({hint} \cup {p[1] + 1 : p \in docs})

\* Mutant: the dictionary is not marked behind.
AddForgetsDirty(docs) ==
    LET base == segments[active].doc_base
    IN  IF Accepts(docs, base, segments[active].live_docs)
        THEN /\ segments' = [segments EXCEPT
                                ![active].live_docs = @ \cup Locals(docs, base)]
             /\ postings_builder' = postings_builder \cup docs
             /\ next_doc_id_hint' = HintAfter(next_doc_id_hint, docs)
             /\ UNCHANGED terms_dirty
        ELSE UNCHANGED <<segments, postings_builder, next_doc_id_hint, terms_dirty>>

\* The callers drop the error: a rejected batch leaves no trace.
add_documents_with_mapping_deferred(docs) ==
    LET base == segments[active].doc_base
    IN  IF Accepts(docs, base, segments[active].live_docs)
        THEN /\ segments' = [segments EXCEPT
                                ![active].live_docs = @ \cup Locals(docs, base)]
             /\ postings_builder' = postings_builder \cup docs
             /\ next_doc_id_hint' = HintAfter(next_doc_id_hint, docs)
             /\ terms_dirty' = TRUE
        ELSE UNCHANGED <<segments, postings_builder, next_doc_id_hint, terms_dirty>>

\* clear, followed by one deferred add: the body of rebuild_index.
ClearAndAdd(docs) ==
    IF Accepts(docs, 0, {})
    THEN /\ segments' = <<[EmptySegment(0) EXCEPT !.live_docs = Locals(docs, 0)]>>
         /\ postings_builder' = docs
         /\ next_doc_id_hint' = HintAfter(0, docs)
         /\ terms_dirty' = TRUE
    ELSE /\ segments' = <<EmptySegment(0)>>
         /\ postings_builder' = {}
         /\ next_doc_id_hint' = 0
         /\ terms_dirty' = FALSE

-----------------------------------------------------------------------------
(* Materializing and sealing.                                              *)

TermsNow == IF terms_dirty THEN postings_builder ELSE segments[active].terms

\* Mutant: a search that drops the builder.
MaterializeDropsBuilder ==
    /\ segments' = [segments EXCEPT ![active].terms = TermsNow]
    /\ terms_dirty' = FALSE
    /\ postings_builder' = {}
    /\ UNCHANGED next_doc_id_hint

\* A search keeps the builder for the appends to come.
materialize_terms ==
    /\ segments' = [segments EXCEPT ![active].terms = TermsNow]
    /\ terms_dirty' = FALSE
    /\ UNCHANGED <<postings_builder, next_doc_id_hint>>

\* Mutant: a seal that skips the pending build.
SealSkipsBuild == segments

\* A seal drops it.
materialize_active_segment_terms ==
    [segments EXCEPT ![active].terms = TermsNow]

\* Mutant: the next base counts the live documents, not the doc ids.
StartAfterLiveDocs(segs) ==
    LET base == segs[active].doc_base
    IN  IF next_doc_id_hint <= base THEN segs
        ELSE Append([segs EXCEPT ![active].doc_count = next_doc_id_hint - base],
                    EmptySegment(base + Cardinality(segs[active].live_docs)))

start_new_active_segment_if_nonempty(segs) ==
    LET base == segs[active].doc_base
    IN  IF next_doc_id_hint <= base THEN segs
        ELSE Append([segs EXCEPT ![active].doc_count = next_doc_id_hint - base],
                    EmptySegment(next_doc_id_hint))

Seal ==
    /\ segments' = start_new_active_segment_if_nonempty(materialize_active_segment_terms)
    /\ postings_builder' = {}
    /\ terms_dirty' = FALSE
    /\ phase' = "merge"
    /\ UNCHANGED <<next_doc_id_hint, flush_budget>>

maybe_flush_by_budget ==
    /\ phase = "flush"
    /\ IF flush_budget # NoLimit /\ Cardinality(postings_builder) >= flush_budget
       THEN Seal
       ELSE /\ phase' = "idle"
            /\ UNCHANGED <<segments, postings_builder, terms_dirty, next_doc_id_hint, flush_budget>>

\* The index half of a refresh; without a budget the segment stays in place.
materialize_terms_and_finalize_postings ==
    IF flush_budget # NoLimit
    THEN Seal
    ELSE /\ segments' = materialize_active_segment_terms
         /\ postings_builder' = {}
         /\ terms_dirty' = FALSE
         /\ UNCHANGED <<next_doc_id_hint, flush_budget, phase>>

-----------------------------------------------------------------------------
(* Tiered merge of adjacent sealed segments.                               *)

\* The documents of a run, added up from its first segment on.
RunDocs(i, j) ==
    LET upto[k \in i .. j] == IF k = i THEN segments[k].doc_count
                              ELSE upto[k - 1] + segments[k].doc_count
    IN  upto[j]

\* Mutant: no cap.
RunFitsUncapped(i, j) ==
    LET sizes == {segments[k].doc_count : k \in i .. j}
    IN  Max(sizes) <= SizeRatio * Min(sizes)

RunFits(i, j) ==
    LET sizes == {segments[k].doc_count : k \in i .. j}
    IN  /\ Max(sizes) <= SizeRatio * Min(sizes)
        /\ MergeMaxDocs # NoLimit => RunDocs(i, j) <= MergeMaxDocs

\* Mutant: runs one segment too short.
RunsTooShort == {r \in Sealed \X Sealed :
                    r[1] <= r[2] /\ r[2] - r[1] + 2 >= MergeFanin /\ RunFits(r[1], r[2])}

\* Runs <<first, last>> the policy may merge.
EligibleRuns == {r \in Sealed \X Sealed :
                    r[2] - r[1] + 1 >= MergeFanin /\ RunFits(r[1], r[2])}

\* The longest one, leftmost on a tie.
find_eligible_merge_run ==
    CHOOSE r \in EligibleRuns :
        \A q \in EligibleRuns :
            \/ r[2] - r[1] > q[2] - q[1]
            \/ r[2] - r[1] = q[2] - q[1] /\ r[1] <= q[1]

\* Mutant: bitsets joined without the shift to the new base.
MergeWithoutShift(i, j) == UNION {segments[k].live_docs : k \in i .. j}

merge_live_docs(i, j) ==
    UNION {{n + (segments[k].doc_base - segments[i].doc_base) :
                n \in segments[k].live_docs} : k \in i .. j}

\* Mutant: the dictionary of the first segment only; a size off by one.
MergedFirstTerms(i, j) ==
    [doc_base |-> segments[i].doc_base,
     doc_count |-> RunDocs(i, j),
     live_docs |-> merge_live_docs(i, j),
     terms |-> segments[i].terms]

MergedBaseOff(i, j) ==
    [doc_base |-> segments[i].doc_base - 1,
     doc_count |-> RunDocs(i, j),
     live_docs |-> merge_live_docs(i, j),
     terms |-> UNION {segments[k].terms : k \in i .. j}]

MergedSegment(i, j) ==
    [doc_base |-> segments[i].doc_base,
     doc_count |-> RunDocs(i, j),
     live_docs |-> merge_live_docs(i, j),
     terms |-> UNION {segments[k].terms : k \in i .. j}]

merge_segments_run(i, j) ==
    SubSeq(segments, 1, i - 1) \o <<MergedSegment(i, j)>>
        \o SubSeq(segments, j + 1, Len(segments))

CanMerge == MergeFanin >= 2 /\ EligibleRuns # {}

\* One turn of the while loop of maybe_merge_after_seal.
MergeStep ==
    /\ phase = "merge"
    /\ CanMerge
    /\ LET r == find_eligible_merge_run
       IN  segments' = merge_segments_run(r[1], r[2])
    /\ UNCHANGED <<postings_builder, terms_dirty, next_doc_id_hint, flush_budget, phase>>

MergeDone ==
    /\ phase = "merge"
    /\ ~CanMerge
    /\ phase' = "idle"
    /\ UNCHANGED <<segments, postings_builder, terms_dirty, next_doc_id_hint, flush_budget>>

-----------------------------------------------------------------------------
(* What readers see.                                                       *)

\* The postings in the term dictionaries.
Searchable == UNION {segments[k].terms : k \in 1 .. active}

\* doc_ids(): the live-docs bitsets translated back to global ids.
doc_ids == UNION {{n + segments[k].doc_base : n \in segments[k].live_docs} :
                     k \in 1 .. active}

\* What the dictionaries will hold once the active one is materialized.
Indexed == TermsNow \cup UNION {segments[k].terms : k \in Sealed}

-----------------------------------------------------------------------------
(* Properties of the segments alone.                                       *)

\* Sealed segments tile the doc ids without gap or overlap, and each answers
\* only for its own range: a reader may find a document's segment by doc_base.
SegmentsTile ==
    /\ segments[1].doc_base = 0
    /\ \A k \in Sealed :
          /\ segments[k].doc_count > 0
          /\ segments[k + 1].doc_base = segments[k].doc_base + segments[k].doc_count
          /\ \A n \in segments[k].live_docs : n < segments[k].doc_count
          /\ \A p \in segments[k].terms : p[1] - segments[k].doc_base \in segments[k].live_docs

\* Live docs and postings name the same documents, across merges that rebase
\* the first and copy the second.
LiveDocsArePosted == doc_ids = {p[1] : p \in Indexed}

\* A merge keeps every posting and every live doc, whatever run it picks.
MergeLosesNothing ==
    [][MergeStep => Searchable' = Searchable /\ doc_ids' = doc_ids]_indexVars

\* A merge never builds a segment beyond the configured number of documents.
MergeRespectsCap ==
    [][MergeStep /\ MergeMaxDocs # NoLimit =>
          \A k \in 1 .. (active' - 1) :
              \/ segments'[k].doc_count <= MergeMaxDocs
              \/ \E i \in Sealed : segments[i] = segments'[k]]_indexVars

\* The segments partition the doc ids, and live docs, postings and segment
\* bounds agree in each, whatever was sealed and merged.
SegmentsSound == IndexTypeOK /\ SegmentsTile /\ LiveDocsArePosted

\* A merge loses nothing and respects the cap.
MergesSound == MergeLosesNothing /\ MergeRespectsCap
=============================================================================
