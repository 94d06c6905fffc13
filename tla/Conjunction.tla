---------------------------- MODULE Conjunction ----------------------------
(***************************************************************************)
(* How surch intersects posting lists.  The rarest list drives; the others *)
(* follow with cursors that only move forward.  Five walks exist:          *)
(*   "ram"        conjunction_hits_internal over PostingsBlockSkipIter;    *)
(*   "disk"       conjunction_hits_disk, segment by segment, over cursors  *)
(*                that read blocks from a file;                            *)
(*   "fused"      fused_conjunction_scores, which also collects the        *)
(*                frequencies, with galloping cursors;                     *)
(*   "fused_disk" the same over the segments of the file;                  *)
(*   "executor"   BooleanQueryExecutor::run_leapfrog of surch-search;      *)
(* and "matches" is conjunction_of_matches, which tests membership.        *)
(* Reading a block may fail.  A frequency is represented by the document   *)
(* whose posting it was read from.                                         *)
(***************************************************************************)
EXTENDS Integers, Sequences, FiniteSets, SequencesExt

CONSTANTS
    NumDocs,        \* doc ids are 1..NumDocs
    SegmentEnd,     \* the last doc of the first of two segments
    BlockSize,      \* postings per block
    SkipInterval,   \* blocks per entry of the top layer (SKIP_INTERVAL)
    Query           \* a sequence of sets of requests: mode; lists, the postings of each clause;
                    \* roaring, whether they have bitmaps; all, whether the first
                    \* two tokens of "matches" are an AND; bad, what cannot be
                    \* read: <<clause, segment, block>>, block -1 for the opening

Doc == 1 .. NumDocs
None == 0           \* no document: an exhausted cursor

IsAscending(s) == \A i, j \in DOMAIN s : i < j => s[i] < s[j]

\* Every clause has its postings in ascending order; "matches" has the two
\* tokens of its first clause.
IsRequest(r) ==
    /\ r.mode \in {"ram", "disk", "fused", "fused_disk", "executor", "matches"}
    /\ r.lists \in Seq(Seq(Doc)) \ {<<>>}
    /\ \A c \in DOMAIN r.lists : IsAscending(r.lists[c])
    /\ r.mode = "matches" => Len(r.lists) >= 2
    /\ r.roaring \in BOOLEAN /\ r.all \in BOOLEAN

ASSUME SizeAssumption ==
    /\ NumDocs \in Nat /\ SegmentEnd \in Nat
    /\ BlockSize \in Nat \ {0} /\ SkipInterval \in Nat \ {0}

ASSUME QueryAssumption == \A i \in DOMAIN Query : \A r \in Query[i] : IsRequest(r)

VARIABLES
    q,              \* the request
    phase,          \* "begin", "driver", "probe", "done"
    status,         \* "ok", "declined" (None) or "merged" (the materialised fallback)
    seg,            \* segment being walked
    order,          \* the clauses, the one with the fewest postings first
    pos,            \* clause -> postings consumed
    skip,           \* clause -> block position of the skip-list cursor
    cur,            \* clause -> document the cursor stands on, held between targets
    stream,         \* the documents the driver has still to propose
    target,         \* the document the driver proposes
    probe,          \* index in order of the follower to ask next
    read,           \* clause -> document whose frequency was read
    out             \* the hits: <<document, frequencies>>

vars == <<q, phase, status, seg, order, pos, skip, cur, stream, target, probe, read, out>>

Clause == DOMAIN q.lists
OnDisk == q.mode \in {"disk", "fused_disk"}

\* The elements of s that are in S, in the order of s.
Filter(s, S) == FlattenSeq([i \in DOMAIN s |-> IF s[i] \in S THEN <<s[i]>> ELSE <<>>])

\* The documents of a segment; in memory there is one segment.
SegmentDocs(s) == {d \in Doc : ~OnDisk \/ (s = 1 <=> d <= SegmentEnd)}

\* The postings of a clause in a segment.
segment_docs(c, s) == Filter(q.lists[c], SegmentDocs(s))

docs(c) == segment_docs(c, seg)

-----------------------------------------------------------------------------
(* Cursors.  Positions and blocks count from 0, as in the code.            *)

num_blocks(s) == (Len(s) + BlockSize - 1) \div BlockSize
block_max(s, b) == s[Min({(b + 1) * BlockSize, Len(s)})]

\* The top layer: the last entry that is still wholly before the target.
top_jump(s, p, t) ==
    Max({k \in p \div SkipInterval .. (num_blocks(s) - 1) \div SkipInterval :
            \A j \in p \div SkipInterval + 1 .. k : block_max(s, j * SkipInterval) < t})

\* BlockSkipCursor::advance_to from block p: jump, then scan the bottom layer.
skip_advance(s, p, t) ==
    LET from == Max({p, top_jump(s, p, t) * SkipInterval})
    IN  IF p >= num_blocks(s) THEN num_blocks(s)
        ELSE Min({b \in from .. num_blocks(s) - 1 : block_max(s, b) >= t} \cup {num_blocks(s)})

\* The exponential bound, doubled while the posting there is too small.
gallop_bound(s, t) ==
    LET double[h \in 1 .. 2 * Len(s) + 1] ==
            IF h >= Len(s) \/ s[h + 1] >= t THEN h ELSE double[2 * h]
    IN  double[1]

\* partition_point in the last interval: the offset of the first posting >= t.
gallop(s, t) ==
    LET lo == gallop_bound(s, t) \div 2
        hi == Min({gallop_bound(s, t), Len(s)})
    IN  Min({j \in lo .. hi : j = hi \/ s[j + 1] >= t})

Rest(s, p) == SubSeq(s, p + 1, Len(s))

\* What advancing a cursor gives: the document, where the cursor then stands,
\* and whether a block could not be read.
Advanced(d, p, k) == [doc |-> d, pos |-> p, skip |-> k, error |-> FALSE]

\* PostingsBlockSkipIter::advance_to returns and consumes.
ram_advance(c, t) ==
    LET s      == docs(c)
        landed == skip_advance(s, skip[c], t)
        jumps  == block_max(s, pos[c] \div BlockSize) < t
        p      == IF jumps THEN Max({pos[c], landed * BlockSize}) ELSE pos[c]
        k      == IF jumps THEN landed ELSE skip[c]
        found  == p + gallop(Rest(s, p), t)
    IN  IF pos[c] >= Len(s) \/ (jumps /\ landed = num_blocks(s))
        THEN Advanced(None, pos[c], skip[c])
        ELSE IF found >= Len(s) THEN Advanced(None, Len(s), k)
        ELSE Advanced(s[found + 1], found + 1, k)

Bad(c, p) == <<c, seg, p \div BlockSize>> \in q.bad

\* DiskPostingsCursor::advance_to_with_status: the block directory leads to the
\* block, whose load fails or whose content must match the directory.
disk_advance(c, t) ==
    LET s     == docs(c)
        block == Min({b \in skip[c] .. num_blocks(s) : b = num_blocks(s) \/ block_max(s, b) >= t})
        p     == Max({pos[c], block * BlockSize})
        found == p + gallop(Rest(s, p), t)
    IN  IF block = num_blocks(s) \/ found >= Len(s) THEN Advanced(None, pos[c], num_blocks(s))
        ELSE [Advanced(s[found + 1], found + 1, found \div BlockSize)
                EXCEPT !.error = Bad(c, found)]

\* The galloping cursor of the fused walk stays on the posting it finds.
gallop_advance(c, t) ==
    LET s     == docs(c)
        found == pos[c] + gallop(Rest(s, pos[c]), t)
    IN  Advanced(IF found < Len(s) THEN s[found + 1] ELSE None, found, skip[c])

advance_to(c, t) ==
    CASE q.mode \in {"ram", "executor"} -> ram_advance(c, t)
      [] q.mode = "fused"               -> gallop_advance(c, t)
      [] OTHER                          -> disk_advance(c, t)

-----------------------------------------------------------------------------
(* The walk.                                                               *)

Init ==
    /\ \E i \in DOMAIN Query : q \in Query[i]
    /\ phase = "begin" /\ status = "ok" /\ seg = 1
    /\ order = <<>> /\ stream = <<>> /\ target = None /\ probe = 1
    /\ pos = [c \in Clause |-> 0]
    /\ skip = [c \in Clause |-> 0]
    /\ cur = [c \in Clause |-> None]
    /\ read = [c \in Clause |-> None]
    /\ out = <<>>

Ascending(S) == Filter([d \in Doc |-> d], S)
Common(lists) == {d \in Doc : \A c \in DOMAIN lists : d \in ToSet(lists[c])}
Hits(S) == LET ds == Ascending(S) IN [i \in DOMAIN ds |-> <<ds[i], [c \in Clause |-> ds[i]]>>]

Finish(st, hits) ==
    /\ phase' = "done" /\ status' = st /\ out' = hits
    /\ UNCHANGED <<q, seg, order, pos, skip, cur, stream, target, probe, read>>

Missing == \E c \in Clause : q.lists[c] = <<>>

\* segmented_postings_checked cannot open a list.
Unopenable(c) == OnDisk /\ \E b \in q.bad : b[1] = c /\ b[3] = -1

\* The terms are opened in the order of the clauses: one without postings makes
\* the AND empty, unless one before it cannot be opened.
MissingTerm ==
    /\ phase = "begin" /\ q.mode # "matches"
    /\ \E c \in Clause : q.lists[c] = <<>> /\ \A b \in Clause : b <= c => ~Unopenable(b)
    /\ Finish("ok", <<>>)

\* The lossy read of a term: segments that cannot be read are left out.
decode_from_segment(c) ==
    {d \in ToSet(q.lists[c]) :
        \A b \in q.bad : b[1] = c => (b[2] = 1) # (d <= SegmentEnd)}

\* conjunction_hits_merged.
conjunction_hits_merged == Hits({d \in Doc : \A c \in Clause : d \in decode_from_segment(c)})

\* Mutant: a fused walk that answers with what it had when a read failed.
fail_partial == IF q.mode = "fused_disk" THEN Finish("ok", out)
                ELSE Finish("merged", conjunction_hits_merged)

\* A read error: the fused walk declines, recall falls back to whole lists.
fail == IF q.mode = "fused_disk" THEN Finish("declined", <<>>)
        ELSE Finish("merged", conjunction_hits_merged)

\* A list cannot be opened, and those before it have postings.
OpenError ==
    /\ phase = "begin" /\ seg = 1 /\ q.mode # "matches"
    /\ \E c \in Clause : Unopenable(c) /\ \A b \in Clause : b < c => q.lists[b] # <<>>
    /\ fail

\* Two lists with bitmaps are intersected word by word.
Roaring == q.roaring /\ ~OnDisk /\ q.mode # "executor" /\ Len(q.lists) = 2

RoaringHits ==
    /\ phase = "begin" /\ q.mode = "ram" /\ Roaring /\ ~Missing
    /\ Finish("ok", Hits(Common(q.lists)))

\* The clauses with no posting in the segment, then those with one, and so on:
\* the stable sort by document frequency.
ByDocFreq ==
    FlattenSeq([n \in 1 .. NumDocs + 1 |->
        Filter([c \in Clause |-> c], {c \in Clause : Len(docs(c)) = n - 1})])

Holds == q.mode \in {"ram", "disk", "fused_disk"}

\* One segment begins: the cursors are fresh, the followers take their first
\* posting.  In the fused walk over bitmaps every clause is a follower.
BeginSegment ==
    LET o     == ByDocFreq
        first == IF q.mode = "fused" /\ Roaring THEN 1 ELSE 2
        fresh(c) == Advanced(None, 0, 0)
        start == [c \in Clause |-> IF Holds /\ c # o[1]
                    THEN [Advanced(docs(c)[1], 1, 0) EXCEPT !.error = OnDisk /\ Bad(c, 0)]
                    ELSE fresh(c)]
    IN  /\ phase = "begin" /\ q.mode # "matches" /\ ~Missing
        /\ ~(q.mode = "ram" /\ Roaring)
        /\ OnDisk => \A b \in q.bad : b[3] # -1
        /\ \A c \in Clause : docs(c) # <<>>
        /\ IF \E c \in Clause : start[c].error THEN fail
           ELSE /\ order' = o
                /\ pos' = [c \in Clause |-> start[c].pos]
                /\ skip' = [c \in Clause |-> 0]
                /\ cur' = [c \in Clause |-> start[c].doc]
                /\ stream' = IF first = 1 THEN Ascending(Common(q.lists)) ELSE docs(o[1])
                /\ probe' = first
                /\ phase' = "driver"
                /\ UNCHANGED <<q, status, seg, target, read, out>>

\* A clause absent from a segment empties that segment only.
SkipSegment ==
    /\ phase = "begin" /\ OnDisk /\ ~Missing
    /\ \A b \in q.bad : b[3] # -1
    /\ \E c \in Clause : docs(c) = <<>>
    /\ IF seg = 1 THEN seg' = 2 /\ UNCHANGED phase ELSE phase' = "done" /\ UNCHANGED seg
    /\ UNCHANGED <<q, status, order, pos, skip, cur, stream, target, probe, read, out>>

FirstFollower == IF q.mode = "fused" /\ Roaring THEN 1 ELSE 2

NextTarget ==
    LET d == order[1]
    IN  /\ phase = "driver" /\ stream # <<>>
        /\ IF OnDisk /\ Bad(d, Len(docs(d)) - Len(stream)) THEN fail
           ELSE /\ target' = Head(stream)
                /\ stream' = Tail(stream)
                /\ read' = [read EXCEPT ![d] = target']
                /\ probe' = FirstFollower
                /\ phase' = "probe"
                /\ UNCHANGED <<q, status, seg, order, pos, skip, cur, out>>

\* The document whose frequency the cursor of c reads at position p.
freq_at(c, p) == docs(c)[IF q.mode = "fused" THEN p + 1 ELSE p]

\* Mutant: the cursor is advanced whatever document it stands on.
ask_afresh(c) == advance_to(c, target)

\* A follower is asked for the target.  A cursor that consumes what it returns
\* is only advanced when the document it stands on is behind the target.
ask(c) ==
    IF Holds /\ ~(cur[c] # None /\ cur[c] < target)
    THEN Advanced(cur[c], pos[c], skip[c])
    ELSE advance_to(c, target)

Probe ==
    LET c == order[probe]
        a == ask(c)
    IN  /\ phase = "probe" /\ probe <= Len(order)
        /\ IF a.error THEN fail
           ELSE /\ pos' = [pos EXCEPT ![c] = a.pos]
                /\ skip' = [skip EXCEPT ![c] = a.skip]
                /\ cur' = [cur EXCEPT ![c] = a.doc]
                /\ IF a.doc = target
                   THEN /\ read' = [read EXCEPT ![c] = freq_at(c, a.pos)]
                        /\ probe' = probe + 1
                        /\ UNCHANGED phase
                   ELSE phase' = "driver" /\ UNCHANGED <<read, probe>>
                /\ UNCHANGED <<q, status, seg, order, stream, target, out>>

Emit ==
    /\ phase = "probe" /\ probe > Len(order)
    /\ out' = Append(out, <<target, read>>)
    /\ phase' = "driver"
    /\ UNCHANGED <<q, status, seg, order, pos, skip, cur, stream, target, probe, read>>

EndSegment ==
    /\ phase = "driver" /\ stream = <<>>
    /\ IF OnDisk /\ seg = 1 THEN seg' = 2 /\ phase' = "begin" ELSE phase' = "done" /\ UNCHANGED seg
    /\ UNCHANGED <<q, status, order, pos, skip, cur, stream, target, probe, read, out>>

-----------------------------------------------------------------------------
(* conjunction_of_matches: the clause with the smallest estimate is made   *)
(* a set, the others are asked for membership.                             *)

\* The first two lists are the tokens of one clause; each other is a clause.
Clauses ==
    <<[all |-> q.all, tokens |-> {1, 2}]>>
        \o [i \in 1 .. Len(q.lists) - 2 |-> [all |-> FALSE, tokens |-> {i + 2}]]

\* A token nobody has makes an AND empty and is left out of an OR.
Present(cl) == {t \in cl.tokens : q.lists[t] # <<>>}
Empty(cl) == Present(cl) = {} \/ (cl.all /\ Present(cl) # cl.tokens)

ClauseDocs(cl) ==
    {d \in Doc : IF cl.all THEN \A t \in Present(cl) : d \in ToSet(q.lists[t])
                           ELSE \E t \in Present(cl) : d \in ToSet(q.lists[t])}

estimate(cl) ==
    IF cl.all THEN Min({Len(q.lists[t]) : t \in Present(cl)})
    ELSE Cardinality(UNION {{t} \X DOMAIN q.lists[t] : t \in Present(cl)})

conjunction_of_matches ==
    LET some == DOMAIN Clauses
        least == {i \in some : \A j \in some : estimate(Clauses[i]) <= estimate(Clauses[j])}
        driver == Min(least)
    IN  /\ phase = "begin" /\ q.mode = "matches"
        /\ IF \E i \in some : Empty(Clauses[i]) THEN Finish("ok", <<>>)
           ELSE Finish("ok", Hits({d \in ClauseDocs(Clauses[driver]) :
                                     \A i \in some \ {driver} : d \in ClauseDocs(Clauses[i])}))

Next ==
    \/ MissingTerm \/ OpenError \/ RoaringHits \/ BeginSegment \/ SkipSegment
    \/ NextTarget \/ Probe \/ Emit \/ EndSegment
    \/ conjunction_of_matches

Spec == Init /\ [][Next]_vars

-----------------------------------------------------------------------------
(* Properties.                                                             *)

\* The documents every clause has, with the frequencies of their own postings.
Expected ==
    IF q.mode # "matches" THEN Hits(Common(q.lists))
    ELSE LET a == ToSet(q.lists[1])  b == ToSet(q.lists[2])
         IN  Hits({d \in IF q.all THEN a \cap b ELSE a \cup b :
                      \A c \in Clause \ {1, 2} : d \in ToSet(q.lists[c])})

\* Whatever is held, skipped or galloped over, and however the postings fall
\* into blocks and segments, a walk whose reads succeed finds the documents
\* that are in every list, in ascending order, each with its own frequencies.
ConjunctionExact ==
    phase = "done" /\ q.bad = {} /\ q.mode # "executor" => status = "ok" /\ out = Expected

\* A block that cannot be read never turns into a partial score list: the fused
\* walk declines or is exact.  Recall never invents a document.
CorruptionContained ==
    phase = "done" =>
        /\ q.mode = "fused_disk" => status = "declined" \/ out = Expected
        /\ ToSet(out) \subseteq ToSet(Expected)

\* The executor "returns documents present in every clause" (execution.rs).
ExecutorComplete ==
    phase = "done" /\ q.mode = "executor" => out = Expected
=============================================================================
