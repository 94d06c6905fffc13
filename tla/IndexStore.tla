----------------------------- MODULE IndexStore -----------------------------
(***************************************************************************)
(* The durable store of surch-store: a write-ahead log and immutable       *)
(* segment files behind IndexStore (index_store.rs, wal.rs,                *)
(* segment_store.rs).  Every file write goes through write_atomic (temp    *)
(* file, fsync, rename), so it is one step; the process may crash, and an  *)
(* I/O call may fail, between any two of them.                             *)
(*                                                                         *)
(* A record is its sequence number and the write it carries.  Writes are   *)
(* numbered in the order they were appended, across restarts, which the    *)
(* code does not do: the number is there for the properties.               *)
(***************************************************************************)
EXTENDS Integers, SequencesExt, FiniteSetsExt

CONSTANTS
    MergeThreshold,     \* IndexStoreConfig.merge_threshold
    KeepRecent,         \* IndexStoreConfig.keep_recent_segments
    NoFile,             \* no segment file under this id
    MaxWrites,          \* bound on appended records
    MaxSegments,        \* bound on segment ids
    MaxFailures,        \* bound on failing I/O calls
    MaxCrashes          \* bound on crashes

ASSUME StoreConstants ==
    /\ MergeThreshold \in Nat /\ KeepRecent \in Nat
    /\ MaxWrites \in Nat /\ MaxSegments \in Nat
    /\ MaxFailures \in Nat /\ MaxCrashes \in Nat
    /\ NoFile \notin Seq([sequence : 1 .. MaxWrites, write : 1 .. MaxWrites])

SegId == 1 .. MaxSegments

VARIABLES
    \* on disk
    wal_file,           \* records in the WAL file
    seg_files,          \* segment id -> its records, or NoFile
    \* in the process
    pc,                 \* "down", or the call that runs next; "idle" between calls
    entries,            \* WriteAheadLog.entries
    next_sequence,      \* WriteAheadLog.next_sequence, the last number given
    segments,           \* SegmentStore.segments, as ids
    next_segment_id,
    drained,            \* entries taken by flush_wal, not yet in a segment
    sources,            \* merged segments whose files are still to be removed
    \* history
    writes,             \* records appended so far
    flushed,            \* writes whose append_entries succeeded
    torn,               \* a merge was cut short with its output on disk
    failures, crashes

disk == <<wal_file, seg_files>>
memory == <<entries, next_sequence, segments, next_segment_id, drained, sources>>
history == <<writes, flushed, torn>>
budget == <<failures, crashes>>
vars == <<disk, pc, memory, history, budget>>

Record == [sequence : 1 .. MaxWrites, write : 1 .. MaxWrites]

\* The writes and the sequence numbers in a set of segment files.
RecordsOf(ids) == UNION {ToSet(seg_files[i]) : i \in ids}
WritesOf(ids) == {r.write : r \in RecordsOf(ids)}
Files == {i \in SegId : seg_files[i] # NoFile}

TypeOK ==
    /\ wal_file \in Seq(Record) /\ entries \in Seq(Record) /\ drained \in Seq(Record)
    /\ \A i \in SegId : seg_files[i] = NoFile \/ seg_files[i] \in Seq(Record)
    /\ pc \in {"down", "retain", "idle", "append", "merge", "remove"}
    /\ next_sequence \in 0 .. MaxWrites
    /\ segments \in Seq(SegId) /\ sources \in Seq(SegId)
    /\ next_segment_id \in 1 .. (MaxSegments + 1)
    /\ flushed \subseteq 1 .. writes
    /\ torn \in BOOLEAN

Init ==
    /\ wal_file = <<>> /\ seg_files = [i \in SegId |-> NoFile]
    /\ pc = "down"
    /\ entries = <<>> /\ next_sequence = 0
    /\ segments = <<>> /\ next_segment_id = 1
    /\ drained = <<>> /\ sources = <<>>
    /\ writes = 0 /\ flushed = {} /\ torn = FALSE
    /\ failures = 0 /\ crashes = 0

-----------------------------------------------------------------------------
(* Opening: IndexStore::open and recover_from_disk.                        *)

\* The number new and retain_entries_greater_than go on from.
last_sequence(recs) == IF recs = <<>> THEN 0 ELSE Last(recs).sequence

max_sequence(recs) == Max({0} \cup {r.sequence : r \in recs})

\* The records of recs above the number n, in their order.
greater_than(recs, n) ==
    FlattenSeq([k \in DOMAIN recs |-> IF recs[k].sequence > n THEN <<recs[k]>> ELSE <<>>])

\* read_segment_metadata and sort_segments: the files on disk, by name.
read_segment_metadata == FlattenSeq([i \in SegId |-> IF i \in Files THEN <<i>> ELSE <<>>])

\* Mutant: the number of files instead of the largest id.
next_id_by_count(ids) == 1 + Cardinality(ids)

next_id_after(ids) == 1 + Max({0} \cup ids)

\* Mutant: the last persisted record is copied again.
replay_at_least == greater_than(wal_file, max_sequence(RecordsOf(Files)) - 1)

\* The WAL records recovery has to copy: those above every persisted number.
replay_records == greater_than(wal_file, max_sequence(RecordsOf(Files)))

\* open reads the WAL and the segments and writes the records to replay as a
\* segment of their own, without a merge.  The WAL file still holds them.
Open ==
    /\ pc = "down"
    /\ entries' = wal_file
    /\ next_sequence' = last_sequence(wal_file)
    /\ LET next == next_id_after(Files)
       IN  \/ /\ replay_records = <<>>
              /\ segments' = read_segment_metadata
              /\ next_segment_id' = next
              /\ UNCHANGED seg_files
           \/ /\ replay_records # <<>>
              /\ next \in SegId
              /\ seg_files' = [seg_files EXCEPT ![next] = replay_records]
              /\ segments' = Append(read_segment_metadata, next)
              /\ next_segment_id' = next + 1
    /\ flushed' = flushed \cup {r.write : r \in ToSet(replay_records)}
    /\ pc' = "retain"
    /\ drained' = <<>> /\ sources' = <<>>
    /\ UNCHANGED <<wal_file, writes, torn, budget>>

\* recover_from_disk ends by dropping the persisted records from the WAL.
retain_entries_greater_than ==
    /\ pc = "retain"
    /\ LET kept == greater_than(entries, max_sequence(RecordsOf(ToSet(segments))))
       IN  /\ entries' = kept
           /\ wal_file' = kept
           /\ next_sequence' = last_sequence(kept)
    /\ pc' = "idle"
    /\ UNCHANGED <<seg_files, segments, next_segment_id, drained, sources, history, budget>>

-----------------------------------------------------------------------------
(* append_index, append_delete: in memory only.                            *)

\* Mutants: a sequence number that starts at zero, or does not advance.
append_from_zero ==
    /\ pc = "idle"
    /\ writes < MaxWrites
    /\ writes' = writes + 1
    /\ entries' = Append(entries, [sequence |-> next_sequence, write |-> writes + 1])
    /\ next_sequence' = next_sequence + 1
    /\ UNCHANGED <<disk, pc, segments, next_segment_id, drained, sources,
                   flushed, torn, budget>>

append_same_sequence ==
    /\ pc = "idle"
    /\ writes < MaxWrites
    /\ writes' = writes + 1
    /\ entries' = Append(entries, [sequence |-> next_sequence + 1, write |-> writes + 1])
    /\ UNCHANGED <<disk, pc, next_sequence, segments, next_segment_id, drained,
                   sources, flushed, torn, budget>>

append ==
    /\ pc = "idle"
    /\ writes < MaxWrites
    /\ writes' = writes + 1
    /\ entries' = Append(entries, [sequence |-> next_sequence + 1, write |-> writes + 1])
    /\ next_sequence' = next_sequence + 1
    /\ UNCHANGED <<disk, pc, segments, next_segment_id, drained, sources,
                   flushed, torn, budget>>

-----------------------------------------------------------------------------
(* flush_wal, one step per file operation.                                 *)

\* wal.flush and drain_entries; nothing more to do for an empty batch.
flush_wal ==
    /\ pc = "idle"
    /\ wal_file' = entries
    /\ drained' = entries
    /\ entries' = <<>>
    /\ pc' = IF entries = <<>> THEN "idle" ELSE "append"
    /\ UNCHANGED <<seg_files, next_sequence, segments, next_segment_id, sources,
                   history, budget>>

append_entries ==
    /\ pc = "append"
    /\ next_segment_id \in SegId
    /\ seg_files' = [seg_files EXCEPT ![next_segment_id] = drained]
    /\ segments' = Append(segments, next_segment_id)
    /\ next_segment_id' = next_segment_id + 1
    /\ flushed' = flushed \cup {r.write : r \in ToSet(drained)}
    /\ drained' = <<>>
    /\ pc' = IF Len(segments') > MergeThreshold THEN "merge" ELSE "idle"
    /\ UNCHANGED <<wal_file, entries, next_sequence, sources, writes, torn, budget>>

\* How many segments flush_wal asks to merge, and how many are merged.
merge_count ==
    Min({Max({Len(segments) - KeepRecent, 1}), Len(segments) - 1})

\* Mutant: a merge of two segments is taken for none.
to_merge_above_two ==
    LET safe_to_merge == Min({Max({KeepRecent, 1}), Len(segments) - 1})
    IN  IF merge_count <= 2 \/ Len(segments) <= 1 THEN 0
        ELSE Min({merge_count, Len(segments) - safe_to_merge})

to_merge ==
    LET safe_to_merge == Min({Max({KeepRecent, 1}), Len(segments) - 1})
    IN  IF merge_count < 2 \/ Len(segments) <= 1 THEN 0
        ELSE Min({merge_count, Len(segments) - safe_to_merge})

\* A listed segment without a file makes the read fail, and the merge with it.
CanRead(n) == \A k \in 1 .. n : segments[k] \in Files

\* Mutant: the last source is removed but not copied.
merge_skips_last ==
    /\ pc = "merge"
    /\ IF to_merge = 0 \/ ~CanRead(to_merge)
       THEN /\ pc' = "idle"
            /\ UNCHANGED <<seg_files, next_segment_id, sources>>
       ELSE /\ next_segment_id \in SegId
            /\ seg_files' = [seg_files EXCEPT ![next_segment_id] =
                                FlattenSeq([k \in 1 .. (to_merge - 1) |->
                                               seg_files[segments[k]]])]
            /\ next_segment_id' = next_segment_id + 1
            /\ sources' = SubSeq(segments, 1, to_merge)
            /\ pc' = "remove"
    /\ UNCHANGED <<wal_file, entries, next_sequence, segments, drained, history, budget>>

\* merge_oldest_segments writes the merged segment ...
merge_oldest_segments ==
    /\ pc = "merge"
    /\ IF to_merge = 0 \/ ~CanRead(to_merge)
       THEN /\ pc' = "idle"
            /\ UNCHANGED <<seg_files, next_segment_id, sources>>
       ELSE /\ next_segment_id \in SegId
            /\ seg_files' = [seg_files EXCEPT ![next_segment_id] =
                                FlattenSeq([k \in 1 .. to_merge |-> seg_files[segments[k]]])]
            /\ next_segment_id' = next_segment_id + 1
            /\ sources' = SubSeq(segments, 1, to_merge)
            /\ pc' = "remove"
    /\ UNCHANGED <<wal_file, entries, next_sequence, segments, drained, history, budget>>

\* ... removes the sources one by one ...
remove_source ==
    /\ pc = "remove"
    /\ sources # <<>>
    /\ seg_files' = [seg_files EXCEPT ![Head(sources)] = NoFile]
    /\ sources' = Tail(sources)
    /\ UNCHANGED <<wal_file, pc, entries, next_sequence, segments, next_segment_id,
                   drained, history, budget>>

\* Mutant: the last source stays in the list.
merge_commit_keeps_source ==
    /\ pc = "remove"
    /\ sources = <<>>
    /\ segments' = <<next_segment_id - 1>> \o SubSeq(segments, to_merge, Len(segments))
    /\ pc' = "idle"
    /\ UNCHANGED <<disk, entries, next_sequence, next_segment_id, drained, sources,
                   history, budget>>

\* ... and only then replaces them in the list.
merge_commit ==
    /\ pc = "remove"
    /\ sources = <<>>
    /\ segments' = <<next_segment_id - 1>> \o SubSeq(segments, to_merge + 1, Len(segments))
    /\ pc' = "idle"
    /\ UNCHANGED <<disk, entries, next_sequence, next_segment_id, drained, sources,
                   history, budget>>

-----------------------------------------------------------------------------
(* Failures.                                                               *)

\* A failing write_atomic or remove_file ends the call with an error; the
\* drained entries are dropped, the id stays used, the list is untouched.
IoError ==
    /\ pc \in {"append", "merge", "remove"}
    /\ pc = "remove" => sources # <<>>
    /\ pc = "merge" => to_merge > 0 /\ CanRead(to_merge)
    /\ failures < MaxFailures
    /\ failures' = failures + 1
    /\ next_segment_id' = IF pc = "remove" THEN next_segment_id ELSE next_segment_id + 1
    /\ next_segment_id' \in 1 .. (MaxSegments + 1)
    /\ torn' = (torn \/ pc = "remove")
    /\ drained' = <<>> /\ sources' = <<>>
    /\ pc' = "idle"
    /\ UNCHANGED <<disk, entries, next_sequence, segments, writes, flushed, crashes>>

Crash ==
    /\ pc # "down"
    /\ crashes < MaxCrashes
    /\ crashes' = crashes + 1
    /\ torn' = (torn \/ (pc = "remove" /\ sources # <<>>))
    /\ pc' = "down"
    /\ entries' = <<>> /\ drained' = <<>> /\ segments' = <<>> /\ sources' = <<>>
    /\ next_sequence' = 0 /\ next_segment_id' = 1
    /\ UNCHANGED <<disk, writes, flushed, failures>>

Next ==
    \/ Open \/ retain_entries_greater_than
    \/ append \/ flush_wal \/ append_entries
    \/ merge_oldest_segments \/ remove_source \/ merge_commit
    \/ IoError \/ Crash

Spec == Init /\ [][Next]_vars

-----------------------------------------------------------------------------
(* Properties.                                                             *)

\* A write that reached a segment is never lost again: not by a merge, by a
\* crash between the merged write and the removals, nor by a failed removal.
FlushedSurvives == flushed \subseteq WritesOf(Files)

\* A segment file is never overwritten: rename would replace it silently, so
\* every id given is above the ids on disk, merges and restarts included.
SegmentsImmutable ==
    [][\A i \in Files : seg_files'[i] \in {seg_files[i], NoFile}]_vars

\* open never meets a WAL that read_file calls corrupt.
WalReadable ==
    \A k \in 1 .. Len(wal_file) :
        wal_file[k].sequence > (IF k = 1 THEN 0 ELSE wal_file[k - 1].sequence)

\* Recovery copies nothing twice, wherever the crash fell between a segment's
\* write and the WAL's: only a merge cut short leaves duplicates.
NothingTwice ==
    ~torn /\ pc # "remove" =>
        \A i, j \in Files : \A k \in 1 .. Len(seg_files[i]), l \in 1 .. Len(seg_files[j]) :
            seg_files[i][k].write = seg_files[j][l].write => i = j /\ k = l

\* The segments the process lists can be read, and none on disk is unlisted,
\* except after a merge cut short.
ListMatchesDisk ==
    ~torn /\ pc \notin {"down", "remove"} => ToSet(segments) = Files

\* A flush that ends without an error leaves the number of segments within
\* the merge policy's bound.
PolicyBound ==
    [][(/\ pc \in {"append", "merge", "remove"} /\ pc' = "idle"
        /\ failures' = failures /\ ~torn)
       => Len(segments') <= Max({MergeThreshold, Max({KeepRecent, 1}) + 1})]_vars

\* The test index_store_replays_pending_wal_entries: records left in the WAL
\* file are in the segments once the store is open again.
PendingReplayed ==
    [][pc = "down" /\ pc' # "down" =>
          {r.write : r \in ToSet(wal_file)} \subseteq WritesOf(Files)']_vars

\* A write that reached a segment is in exactly one record on disk, through
\* merges, crashes, failed removals and replays of the WAL, except for the
\* duplicates of a merge cut short.
FlushedExactlyOnce == FlushedSurvives /\ NothingTwice

\* What the next open reads is well formed, and the running process lists the
\* segments that are there.
DiskSound == TypeOK /\ WalReadable /\ ListMatchesDisk

\* Segment files are written once, and their number stays within the policy.
SegmentsManaged == SegmentsImmutable /\ PolicyBound
=============================================================================
