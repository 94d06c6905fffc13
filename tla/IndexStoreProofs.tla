-------------------------- MODULE IndexStoreProofs --------------------------
(***************************************************************************)
(* Proofs about IndexStore, for every merge policy and any number of       *)
(* writes, segments, failing calls and crashes.                            *)
(***************************************************************************)
EXTENDS IndexStore, SequenceLemmas

-----------------------------------------------------------------------------
(* The inductive invariant.                                                *)

\* Of two records of the WAL, the first is earlier in both numberings.
Earlier == {p \in Record \X Record : /\ p[1].sequence < p[2].sequence
                                     /\ p[1].write < p[2].write}

\* Two records that carry different writes.
Apart == {p \in Record \X Record : p[1].write # p[2].write}

Distinct(ids) == \A k, l \in DOMAIN ids : ids[k] = ids[l] => k = l

AllRecords == ToSet(wal_file) \cup ToSet(entries) \cup ToSet(drained) \cup RecordsOf(Files)

\* The files that stay when the running merge has removed its sources.
Kept == Files \ ToSet(sources)

\* The segments the running merge copies, and the file it writes.
Merged == {segments[k] : k \in 1 .. to_merge}
Output == next_segment_id - 1

StateOK ==
    /\ wal_file \in Seq(Record) /\ entries \in Seq(Record) /\ drained \in Seq(Record)
    /\ seg_files \in [SegId -> Seq(Record) \cup {NoFile}]
    /\ pc \in {"down", "retain", "idle", "append", "merge", "remove"}
    /\ writes \in 0 .. MaxWrites /\ next_sequence \in 0 .. writes
    /\ segments \in Seq(SegId) /\ sources \in Seq(SegId)
    /\ next_segment_id \in 1 .. (MaxSegments + 1)
    /\ flushed \subseteq 1 .. writes
    /\ torn \in BOOLEAN /\ failures \in Nat

\* A write has one number, and numbers grow along the WAL.
RecordsInv ==
    /\ \A r \in AllRecords : r.sequence <= writes /\ r.write <= writes
    /\ \A r, s \in AllRecords : r.write = s.write => r = s
    /\ Pairwise(wal_file, Earlier) /\ Pairwise(entries, Earlier) /\ Pairwise(drained, Earlier)
    /\ \A r \in ToSet(entries) : r.sequence <= next_sequence

\* What waits in memory is in no segment.
PendingInv ==
    /\ pc # "append" => drained = <<>>
    /\ pc = "append" => entries = <<>>
    /\ pc = "down" => entries = <<>>
    /\ pc # "retain" => \A r \in ToSet(entries) \cup ToSet(drained) : r \notin RecordsOf(Files)

\* Ids on disk and in the list are below the next one; recovery lists every
\* file, and so does the running process unless a merge was cut short.
IdsInv ==
    /\ pc # "down" => \A i \in Files \cup ToSet(segments) : i < next_segment_id
    /\ Distinct(segments)
    /\ pc = "retain" => ToSet(segments) = Files
    /\ ~torn /\ pc \notin {"down", "remove"} => ToSet(segments) = Files

\* While sources are removed, the output is complete and stays.
MergeInv ==
    /\ pc # "remove" => sources = <<>>
    /\ pc = "remove" =>
          /\ to_merge \in 1 .. (Len(segments) - 1)
          /\ Output \in Files /\ Output \notin ToSet(segments)
          /\ ToSet(sources) \subseteq Merged
          /\ ~torn => Kept = {Output} \cup (ToSet(segments) \ Merged)

\* The files that stay hold every flushed write, and hold none twice.
FilesInv ==
    /\ flushed \subseteq WritesOf(Kept)
    /\ ~torn =>
          /\ \A i \in Kept : Pairwise(seg_files[i], Apart)
          /\ \A i, j \in Kept : i # j =>
                \A r \in ToSet(seg_files[i]), s \in ToSet(seg_files[j]) : r.write # s.write

Inv ==
    /\ StateOK
    /\ RecordsInv
    /\ PendingInv
    /\ IdsInv
    /\ MergeInv
    /\ FilesInv

-----------------------------------------------------------------------------
(* The operators of the store.                                             *)

\* retain_entries_greater_than and the replay keep the records above a number,
\* in their order.
LEMMA GreaterThan ==
    ASSUME NEW recs \in Seq(Record), NEW n \in Int
    PROVE  /\ greater_than(recs, n) \in Seq(Record)
           /\ ToSet(greater_than(recs, n)) = {r \in ToSet(recs) : r.sequence > n}
           /\ \A R : Pairwise(recs, R) => Pairwise(greater_than(recs, n), R)
<1> DEFINE q == [k \in DOMAIN recs |-> IF recs[k].sequence > n THEN <<recs[k]>> ELSE <<>>]
<1>1. /\ Len(recs) \in Nat /\ DOMAIN recs = 1 .. Len(recs)
      /\ \A k \in 1 .. Len(recs) : recs[k] \in Record
  BY LenProperties, ElementOfSeq
<1>2. q \in Seq(Seq(Record)) /\ Len(q) = Len(recs)
  <2>1. \A k \in 1 .. Len(recs) : q[k] \in Seq(Record)
    BY <1>1
  <2>2. q \in [1 .. Len(recs) -> Seq(Record)]
    BY <1>1, <2>1
  <2> QED
    BY <1>1, <2>2, LenProperties
<1>3. greater_than(recs, n) = FlattenSeq(q)
  BY DEF greater_than
<1>4. \A k \in 1 .. Len(recs) :
         ToSet(q[k]) = IF recs[k].sequence > n THEN {recs[k]} ELSE {}
  BY <1>1 DEF ToSet
<1>5. ASSUME NEW R, Pairwise(recs, R) PROVE PartsPairwise(q, R)
  <2>1. \A k \in 1 .. Len(recs) : Pairwise(q[k], R)
    <3> SUFFICES ASSUME NEW k \in 1 .. Len(recs) PROVE Pairwise(q[k], R)
      OBVIOUS
    <3>1. Len(q[k]) \in {0, 1}
      BY <1>1
    <3> QED
      BY <3>1 DEF Pairwise
  <2>2. ASSUME NEW k \in 1 .. Len(recs), NEW l \in 1 .. Len(recs), k < l,
               NEW x \in ToSet(q[k]), NEW y \in ToSet(q[l])
        PROVE  <<x, y>> \in R
    <3>1. x = recs[k] /\ y = recs[l]
      <4> HIDE DEF q
      <4> QED
        BY <1>4, <2>2
    <3> QED
      BY <1>5, <2>2, <3>1 DEF Pairwise
  <2> HIDE DEF q
  <2> QED
    BY <1>2, <2>1, <2>2 DEF PartsPairwise
<1> HIDE DEF q
<1>6. ToSet(FlattenSeq(q)) = {r \in ToSet(recs) : r.sequence > n}
  <2>1. ToSet(FlattenSeq(q)) = UNION {ToSet(q[k]) : k \in 1 .. Len(recs)}
    BY <1>2, FlattenSeqProperties
  <2>2. ToSet(recs) = {recs[k] : k \in 1 .. Len(recs)}
    BY <1>1 DEF ToSet
  <2>3. ASSUME NEW r \in ToSet(FlattenSeq(q)) PROVE r \in ToSet(recs) /\ r.sequence > n
    <3>1. PICK k \in 1 .. Len(recs) : r \in ToSet(q[k])
      BY <2>1
    <3> QED
      BY <1>4, <2>2, <3>1
  <2>4. ASSUME NEW r \in ToSet(recs), r.sequence > n PROVE r \in ToSet(FlattenSeq(q))
    <3>1. PICK k \in 1 .. Len(recs) : r = recs[k]
      BY <2>2
    <3>2. r \in ToSet(q[k])
      BY <1>4, <2>4, <3>1
    <3> QED
      BY <2>1, <3>2
  <2> QED
    BY <2>3, <2>4
<1> QED
  BY <1>2, <1>3, <1>5, <1>6, FlattenSeqProperties

\* The largest persisted number.
LEMMA MaxSequence ==
    ASSUME NEW recs \in SUBSET Record
    PROVE  /\ max_sequence(recs) \in Nat
           /\ \A r \in recs : r.sequence <= max_sequence(recs)
<1> DEFINE S == {0} \cup {r.sequence : r \in recs}
<1>1. S \in SUBSET Nat /\ S # {} /\ \A x \in S : x <= MaxWrites
  BY StoreConstants DEF Record
<1>2. Max(S) \in S /\ \A x \in S : x <= Max(S)
  <2> HIDE DEF S
  <2> QED
    BY <1>1, MaxNat, StoreConstants
<1> QED
  BY <1>1, <1>2 DEF max_sequence

\* The number appends go on from is the last and largest of the WAL.
LEMMA LastSequence ==
    ASSUME NEW recs \in Seq(Record), Pairwise(recs, Earlier),
           NEW w \in Nat, \A r \in ToSet(recs) : r.sequence <= w
    PROVE  /\ last_sequence(recs) \in 0 .. w
           /\ \A r \in ToSet(recs) : r.sequence <= last_sequence(recs)
<1>0. \A r \in Record : r.sequence \in Nat
  BY StoreConstants DEF Record
<1>1. /\ Len(recs) \in Nat /\ DOMAIN recs = 1 .. Len(recs)
      /\ \A k \in 1 .. Len(recs) : recs[k] \in Record /\ recs[k].sequence \in Nat
  BY <1>0, LenProperties, ElementOfSeq
<1>2. CASE recs = <<>>
  BY <1>2 DEF last_sequence, ToSet
<1>3. CASE recs # <<>>
  <2>1. Len(recs) \in 1 .. Len(recs) /\ last_sequence(recs) = recs[Len(recs)].sequence
    BY <1>1, <1>3, EmptySeq DEF last_sequence, Last
  <2>2. last_sequence(recs) \in 0 .. w
    BY <1>1, <2>1 DEF ToSet
  <2>3. ASSUME NEW k \in 1 .. Len(recs) PROVE recs[k].sequence <= recs[Len(recs)].sequence
    <3>0. k = Len(recs) \/ k < Len(recs)
      BY <1>1
    <3>1. CASE k = Len(recs)
      BY <1>1, <3>1
    <3>2. CASE k < Len(recs)
      <4>1. <<recs[k], recs[Len(recs)]>> \in Earlier
        BY <2>1, <3>2 DEF Pairwise
      <4> QED
        BY <1>1, <2>1, <4>1 DEF Earlier
    <3> QED
      BY <3>0, <3>1, <3>2
  <2> QED
    BY <1>1, <2>1, <2>2, <2>3 DEF ToSet
<1> QED
  BY <1>2, <1>3

\* Recovery lists every file once.
LEMMA ListedFiles ==
    /\ read_segment_metadata \in Seq(SegId)
    /\ ToSet(read_segment_metadata) = Files
    /\ Distinct(read_segment_metadata)
<1> DEFINE q == [i \in SegId |-> IF i \in Files THEN <<i>> ELSE <<>>]
           Below == {p \in SegId \X SegId : p[1] < p[2]}
<1>1. MaxSegments \in Nat /\ SegId = 1 .. MaxSegments
  BY StoreConstants DEF SegId
<1>2. q \in Seq(Seq(SegId)) /\ Len(q) = MaxSegments
  <2>1. \A i \in SegId : q[i] \in Seq(SegId)
    OBVIOUS
  <2>2. q \in [1 .. MaxSegments -> Seq(SegId)]
    BY <1>1, <2>1
  <2> QED
    BY <1>1, <2>2, LenProperties
<1>3. \A i \in SegId : ToSet(q[i]) = IF i \in Files THEN {i} ELSE {}
  BY DEF ToSet
<1>4. PartsPairwise(q, Below)
  <2>1. \A i \in SegId : Pairwise(q[i], Below)
    <3> SUFFICES ASSUME NEW i \in SegId PROVE Pairwise(q[i], Below)
      OBVIOUS
    <3>1. Len(q[i]) \in {0, 1}
      OBVIOUS
    <3> QED
      BY <3>1 DEF Pairwise
  <2>2. ASSUME NEW i \in SegId, NEW j \in SegId, i < j,
               NEW x \in ToSet(q[i]), NEW y \in ToSet(q[j])
        PROVE  <<x, y>> \in Below
    <3>1. x = i /\ y = j
      BY <1>3
    <3> QED
      BY <2>2, <3>1
  <2> HIDE DEF q
  <2> QED
    BY <1>1, <1>2, <2>1, <2>2 DEF PartsPairwise
<1>5. read_segment_metadata = FlattenSeq(q)
  BY DEF read_segment_metadata
<1> HIDE DEF q
<1> DEFINE s == FlattenSeq(q)
<1>6. /\ s \in Seq(SegId) /\ Pairwise(s, Below)
      /\ ToSet(s) = UNION {ToSet(q[i]) : i \in 1 .. MaxSegments}
  BY <1>2, <1>4, FlattenSeqProperties
<1>7. ToSet(s) = Files
  <2> HIDE DEF s
  <2>1. Files \subseteq SegId
    BY DEF Files
  <2>2. ASSUME NEW i \in ToSet(s) PROVE i \in Files
    <3>1. PICK j \in 1 .. MaxSegments : i \in ToSet(q[j])
      BY <1>6
    <3> QED
      BY <1>1, <1>3, <3>1
  <2>3. ASSUME NEW i \in Files PROVE i \in ToSet(s)
    <3>1. i \in 1 .. MaxSegments /\ i \in ToSet(q[i])
      BY <1>1, <1>3, <2>1
    <3> QED
      BY <1>6, <3>1
  <2> QED
    BY <2>2, <2>3
<1>8. Distinct(s)
  <2> HIDE DEF s
  <2>1. Len(s) \in Nat /\ DOMAIN s = 1 .. Len(s)
    BY <1>6, LenProperties
  <2>2. ASSUME NEW k \in 1 .. Len(s), NEW l \in 1 .. Len(s), k < l PROVE s[k] # s[l]
    <3>1. <<s[k], s[l]>> \in Below
      BY <1>6, <2>2 DEF Pairwise
    <3> QED
      BY <1>1, <3>1
  <2> QED
    BY <2>1, <2>2 DEF Distinct
<1> QED
  BY <1>5, <1>6, <1>7, <1>8

\* The next id is above every file.
LEMMA NextId ==
    /\ next_id_after(Files) \in 1 .. (MaxSegments + 1)
    /\ \A i \in Files : i < next_id_after(Files)
    /\ next_id_after(Files) \notin Files
<1> DEFINE S == {0} \cup Files
<1>1. /\ MaxSegments \in Nat /\ Files \subseteq 1 .. MaxSegments
      /\ S \in SUBSET Nat /\ S # {} /\ \A x \in S : x <= MaxSegments
      /\ Files \subseteq S
  BY StoreConstants DEF Files, SegId
<1>2. Max(S) \in S /\ \A x \in S : x <= Max(S)
  <2> HIDE DEF S
  <2> QED
    BY <1>1, MaxNat
<1>3. next_id_after(Files) = 1 + Max(S)
  BY DEF next_id_after
<1> HIDE DEF S
<1>4. Max(S) \in Nat /\ Max(S) <= MaxSegments
  BY <1>1, <1>2
<1>5. \A i \in Files : i \in Nat /\ i <= Max(S)
  BY <1>1, <1>2
<1> QED
  BY <1>1, <1>3, <1>4, <1>5

-----------------------------------------------------------------------------
(* What a step does to the files.                                          *)

LEMMA FileFacts ==
    ASSUME StateOK
    PROVE  /\ Files \subseteq SegId /\ SegId \subseteq Nat \ {0} /\ RecordsOf(Files) \subseteq Record
           /\ \A i \in Files : seg_files[i] \in Seq(Record) /\ ToSet(seg_files[i]) \subseteq Record
           /\ \A r \in Record : r.sequence \in Nat \ {0} /\ r.write \in Nat \ {0}
           /\ \A t \in Seq(Record) : ToSet(t) \subseteq Record
           /\ ToSet(segments) \subseteq SegId /\ ToSet(sources) \subseteq SegId
           /\ ToSet(<<>>) = {}
<1>1. \A t \in Seq(Record) : ToSet(t) \subseteq Record
  BY DEF ToSet
<1>2. Files \subseteq SegId /\ \A i \in Files : seg_files[i] \in Seq(Record)
  BY DEF Files, StateOK
<1>3. RecordsOf(Files) \subseteq Record
  BY <1>1, <1>2 DEF RecordsOf
<1>4. \A r \in Record : r.sequence \in Nat \ {0} /\ r.write \in Nat \ {0}
  BY StoreConstants DEF Record
<1>5. SegId \subseteq Nat \ {0}
  BY StoreConstants DEF SegId
<1>6. ToSet(segments) \subseteq SegId /\ ToSet(sources) \subseteq SegId /\ ToSet(<<>>) = {}
  BY DEF ToSet, StateOK
<1> QED
  BY <1>1, <1>2, <1>3, <1>4, <1>5, <1>6

\* write_atomic of a new segment.
LEMMA NewFile ==
    ASSUME StateOK, NEW n \in SegId, n \notin Files, NEW v \in Seq(Record),
           seg_files' = [seg_files EXCEPT ![n] = v]
    PROVE  /\ Files' = Files \cup {n}
           /\ RecordsOf(Files)' = RecordsOf(Files) \cup ToSet(v)
           /\ seg_files' \in [SegId -> Seq(Record) \cup {NoFile}]
           /\ \A i \in Files : seg_files'[i] = seg_files[i]
           /\ seg_files'[n] = v
<1>1. v # NoFile
  BY StoreConstants DEF Record
<1>2. /\ seg_files' \in [SegId -> Seq(Record) \cup {NoFile}]
      /\ \A i \in SegId : seg_files'[i] = IF i = n THEN v ELSE seg_files[i]
  BY DEF StateOK
<1>3. Files' = Files \cup {n}
  BY <1>1, <1>2 DEF Files
<1>4. Files \subseteq SegId
  BY DEF Files
<1>5. RecordsOf(Files)' = RecordsOf(Files) \cup ToSet(v)
  BY <1>2, <1>3, <1>4 DEF RecordsOf
<1> QED
  BY <1>2, <1>3, <1>4, <1>5

\* Steps that leave the files alone.
LEMMA SameFiles ==
    ASSUME UNCHANGED seg_files
    PROVE  /\ Files' = Files /\ RecordsOf(Files)' = RecordsOf(Files)
           /\ ToSet(sources') = ToSet(sources) =>
                 Kept' = Kept /\ WritesOf(Kept)' = WritesOf(Kept)
  BY DEF Files, RecordsOf, WritesOf, Kept

\* Files that stay, with a list of sources that stays, keep their invariant.
LEMMA SameFilesInv ==
    ASSUME FilesInv, UNCHANGED <<seg_files, flushed, torn>>, ToSet(sources') = ToSet(sources)
    PROVE  FilesInv'
  BY SameFiles DEF FilesInv

\* No new record is made: the numbering stays sound.
LEMMA SameRecords ==
    ASSUME RecordsInv, UNCHANGED writes, AllRecords' \subseteq AllRecords,
           Pairwise(wal_file', Earlier), Pairwise(entries', Earlier),
           Pairwise(drained', Earlier),
           \A r \in ToSet(entries') : r.sequence <= next_sequence'
    PROVE  RecordsInv'
<1>1. \A r \in AllRecords' : r.sequence <= writes' /\ r.write <= writes'
  BY DEF RecordsInv
<1>2. \A r, t \in AllRecords' : r.write = t.write => r = t
  BY DEF RecordsInv
<1> QED
  BY <1>1, <1>2 DEF RecordsInv

LEMMA EmptyPairwise == \A R : Pairwise(<<>>, R)
  BY DEF Pairwise

-----------------------------------------------------------------------------
(* Every step keeps the invariant.                                         *)

LEMMA InitInv == Init => Inv
<1> SUFFICES ASSUME Init PROVE Inv
  OBVIOUS
<1>1. Files = {} /\ ToSet(<<>>) = {} /\ DOMAIN <<>> = {}
  BY DEF Init, Files, ToSet
<1>2. AllRecords = {} /\ RecordsOf(Files) = {}
  BY <1>1 DEF Init, AllRecords, RecordsOf
<1>3. StateOK
  <2>1. <<>> \in Seq(Record) /\ <<>> \in Seq(SegId)
    OBVIOUS
  <2>2. seg_files \in [SegId -> Seq(Record) \cup {NoFile}]
    BY DEF Init
  <2>3. 0 \in 0 .. MaxWrites /\ 0 \in 0 .. 0 /\ 1 \in 1 .. (MaxSegments + 1)
    BY StoreConstants
  <2> QED
    BY <2>1, <2>2, <2>3 DEF Init, StateOK
<1>4. RecordsInv /\ PendingInv
  BY <1>1, <1>2, EmptyPairwise DEF Init, RecordsInv, PendingInv
<1>5. IdsInv /\ MergeInv
  BY <1>1 DEF Init, IdsInv, MergeInv, Distinct
<1>6. FilesInv
  BY <1>1 DEF Init, FilesInv, Kept
<1> QED
  BY <1>3, <1>4, <1>5, <1>6 DEF Inv

\* The record appended carries a write no record carries yet.
LEMMA AppendInv ==
    ASSUME Inv, append
    PROVE  Inv'
<1> DEFINE new == [sequence |-> next_sequence + 1, write |-> writes + 1]
<1>1. /\ pc = "idle" /\ pc' = pc /\ writes' = writes + 1 /\ writes < MaxWrites
      /\ entries' = Append(entries, new) /\ next_sequence' = next_sequence + 1
      /\ UNCHANGED <<wal_file, seg_files, segments, next_segment_id, drained, sources,
                     flushed, torn, failures>>
  BY DEF append, disk, budget
<1>2. new \in Record /\ new.sequence = next_sequence + 1 /\ new.write = writes + 1
  BY <1>1, StoreConstants DEF Inv, StateOK, Record
<1> HIDE DEF new
<1>3. /\ wal_file \in Seq(Record) /\ entries \in Seq(Record) /\ drained \in Seq(Record)
      /\ writes \in Nat /\ next_sequence \in 0 .. writes
  BY StoreConstants DEF Inv, StateOK
<1>4. StateOK'
  <2>1. entries' \in Seq(Record)
    BY <1>1, <1>2, <1>3
  <2>2. writes' \in 0 .. MaxWrites /\ next_sequence' \in 0 .. writes'
    BY <1>1, <1>3, StoreConstants
  <2>3. flushed' \subseteq 1 .. writes'
    BY <1>1, <1>3 DEF Inv, StateOK
  <2> QED
    BY <1>1, <2>1, <2>2, <2>3 DEF Inv, StateOK
<1>5. ToSet(entries') = ToSet(entries) \cup {new}
  <2>1. /\ Len(entries) \in Nat /\ DOMAIN entries = 1 .. Len(entries)
        /\ Len(entries') = Len(entries) + 1 /\ DOMAIN entries' = 1 .. Len(entries')
        /\ \A k \in 1 .. Len(entries) : entries'[k] = entries[k]
        /\ entries'[Len(entries')] = new
    BY <1>1, <1>2, <1>3, LenProperties, AppendProperties
  <2> QED
    BY <2>1 DEF ToSet
<1>6. Files' = Files /\ RecordsOf(Files)' = RecordsOf(Files)
  BY <1>1, SameFiles
<1>7. AllRecords' = AllRecords \cup {new}
  BY <1>1, <1>5, <1>6 DEF AllRecords
<1>8. \A r \in AllRecords : r \in Record /\ r.write <= writes /\ r.sequence <= writes
  BY <1>3, FileFacts DEF Inv, RecordsInv, AllRecords
<1>9. \A r \in AllRecords : r \in Record /\ r.write # new.write /\ r # new
                            /\ r.write <= writes' /\ r.sequence <= writes'
  BY <1>1, <1>2, <1>3, <1>8, FileFacts DEF Inv
<1>10. RecordsInv'
  <2>1. \A r \in AllRecords' : r.sequence <= writes' /\ r.write <= writes'
    BY <1>1, <1>2, <1>3, <1>7, <1>9
  <2>2. \A r, s \in AllRecords' : r.write = s.write => r = s
    BY <1>7, <1>9 DEF Inv, RecordsInv
  <2>3. \A r \in ToSet(entries') : r.sequence <= next_sequence'
    <3>1. \A r \in ToSet(entries) : r.sequence <= next_sequence /\ r.sequence \in Nat
      BY <1>8, FileFacts DEF Inv, RecordsInv, AllRecords
    <3> QED
      BY <1>1, <1>2, <1>3, <1>5, <3>1
  <2>4. Pairwise(entries', Earlier)
    <3>1. /\ Len(entries) \in Nat /\ DOMAIN entries = 1 .. Len(entries)
          /\ Len(entries') = Len(entries) + 1
          /\ \A k \in 1 .. Len(entries) : entries'[k] = entries[k]
          /\ entries'[Len(entries')] = new
      BY <1>1, <1>2, <1>3, LenProperties, AppendProperties
    <3>2. ASSUME NEW k \in 1 .. Len(entries) PROVE <<entries[k], new>> \in Earlier
      <4>1. entries[k] \in ToSet(entries) /\ entries[k] \in AllRecords
        BY <3>1 DEF ToSet, AllRecords
      <4>2. entries[k].sequence <= next_sequence /\ entries[k].write <= writes
        BY <4>1, <1>8 DEF Inv, RecordsInv
      <4>3. entries[k] \in Record /\ entries[k].sequence \in Nat /\ entries[k].write \in Nat
        BY <4>1, <1>8, FileFacts DEF Inv
      <4> QED
        BY <1>2, <1>3, <4>2, <4>3 DEF Earlier
    <3> QED
      BY <3>1, <3>2 DEF Pairwise, Inv, RecordsInv
  <2> QED
    BY <1>1, <2>1, <2>2, <2>3, <2>4 DEF Inv, RecordsInv
<1>11. PendingInv'
  <2>1. new \notin RecordsOf(Files)
    BY <1>9 DEF AllRecords
  <2> QED
    BY <1>1, <1>5, <1>6, <2>1 DEF Inv, PendingInv
<1>12. IdsInv' /\ MergeInv'
  BY <1>1, <1>6 DEF Inv, IdsInv, MergeInv, Distinct
<1>13. FilesInv'
  BY <1>1, SameFilesInv DEF Inv
<1> QED
  BY <1>4, <1>10, <1>11, <1>12, <1>13 DEF Inv

LEMMA FlushInv ==
    ASSUME Inv, flush_wal
    PROVE  Inv'
<1>1. /\ pc = "idle" /\ wal_file' = entries /\ drained' = entries /\ entries' = <<>>
      /\ pc' = IF entries = <<>> THEN "idle" ELSE "append"
      /\ UNCHANGED <<seg_files, next_sequence, segments, next_segment_id, sources,
                     writes, flushed, torn, failures>>
  BY DEF flush_wal, history, budget
<1>2. Files' = Files /\ RecordsOf(Files)' = RecordsOf(Files) /\ ToSet(<<>>) = {}
  BY <1>1, SameFiles, FileFacts DEF Inv
<1>3. StateOK'
  BY <1>1 DEF Inv, StateOK
<1>4. RecordsInv'
  <2>1. AllRecords' \subseteq AllRecords
    BY <1>1, <1>2 DEF AllRecords
  <2>2. Pairwise(entries, Earlier)
    BY DEF Inv, RecordsInv
  <2> QED
    BY <1>1, <1>2, <2>1, <2>2, EmptyPairwise, SameRecords DEF Inv
<1>5. PendingInv'
  BY <1>1, <1>2 DEF Inv, PendingInv
<1>6. IdsInv' /\ MergeInv'
  BY <1>1, <1>2 DEF Inv, IdsInv, MergeInv, Distinct
<1>7. FilesInv'
  BY <1>1, SameFilesInv DEF Inv
<1> QED
  BY <1>3, <1>4, <1>5, <1>6, <1>7 DEF Inv

\* What recovery drops from the WAL is in the segments, and what it keeps is
\* above every persisted number.
LEMMA RetainInv ==
    ASSUME Inv, retain_entries_greater_than
    PROVE  Inv'
<1> DEFINE kept == greater_than(entries, max_sequence(RecordsOf(ToSet(segments))))
<1>1. /\ pc = "retain" /\ pc' = "idle" /\ entries' = kept /\ wal_file' = kept
      /\ next_sequence' = last_sequence(kept)
      /\ UNCHANGED <<seg_files, segments, next_segment_id, drained, sources,
                     writes, flushed, torn, failures>>
  BY DEF retain_entries_greater_than, history, budget
<1>2. Files' = Files /\ RecordsOf(Files)' = RecordsOf(Files) /\ ToSet(<<>>) = {}
  BY <1>1, SameFiles, FileFacts DEF Inv
<1>3. ToSet(segments) = Files /\ drained = <<>>
  BY <1>1 DEF Inv, IdsInv, PendingInv
<1>4. /\ RecordsOf(Files) \in SUBSET Record /\ entries \in Seq(Record)
      /\ \A r \in Record : r.sequence \in Nat
  BY FileFacts DEF Inv, StateOK
<1> DEFINE n == max_sequence(RecordsOf(ToSet(segments)))
<1>5. n \in Nat /\ \A r \in RecordsOf(Files) : r.sequence <= n
  BY <1>3, <1>4, MaxSequence
<1>6. /\ kept \in Seq(Record) /\ ToSet(kept) = {r \in ToSet(entries) : r.sequence > n}
      /\ Pairwise(entries, Earlier) => Pairwise(kept, Earlier)
  <2>1. kept = greater_than(entries, n)
    OBVIOUS
  <2>2. n \in Int
    BY <1>5
  <2> HIDE DEF kept, n
  <2>3. /\ greater_than(entries, n) \in Seq(Record)
        /\ ToSet(greater_than(entries, n)) = {r \in ToSet(entries) : r.sequence > n}
        /\ \A R : Pairwise(entries, R) => Pairwise(greater_than(entries, n), R)
    BY <1>4, <2>2, GreaterThan
  <2> QED
    BY <2>1, <2>3
<1> HIDE DEF kept, n
<1>7. \A r \in ToSet(kept) : r \notin RecordsOf(Files)
  BY <1>4, <1>5, <1>6
<1>8. Pairwise(kept, Earlier) /\ ToSet(kept) \subseteq ToSet(entries)
  BY <1>6 DEF Inv, RecordsInv
<1>9. /\ last_sequence(kept) \in 0 .. writes
      /\ \A r \in ToSet(kept) : r.sequence <= last_sequence(kept)
  <2>1. writes \in Nat
    BY StoreConstants DEF Inv, StateOK
  <2>2. \A r \in ToSet(kept) : r.sequence <= writes
    BY <1>8 DEF Inv, RecordsInv, AllRecords
  <2> QED
    BY <1>6, <1>8, <2>1, <2>2, LastSequence
<1>10. StateOK'
  BY <1>1, <1>6, <1>9 DEF Inv, StateOK
<1>11. RecordsInv'
  <2>1. AllRecords' \subseteq AllRecords
    BY <1>1, <1>2, <1>8 DEF AllRecords
  <2>2. Pairwise(drained', Earlier)
    BY <1>1 DEF Inv, RecordsInv
  <2> QED
    BY <1>1, <1>8, <1>9, <2>1, <2>2, SameRecords DEF Inv
<1>12. PendingInv'
  BY <1>1, <1>2, <1>3, <1>7 DEF Inv, PendingInv
<1>13. IdsInv' /\ MergeInv'
  BY <1>1, <1>2 DEF Inv, IdsInv, MergeInv, Distinct
<1>14. FilesInv'
  BY <1>1, SameFilesInv DEF Inv
<1> QED
  BY <1>10, <1>11, <1>12, <1>13, <1>14 DEF Inv

-----------------------------------------------------------------------------
(* Failures.                                                               *)

\* A call that fails leaves the files; what a merge still had to remove is
\* there twice from now on.
LEMMA IoErrorInv ==
    ASSUME Inv, IoError
    PROVE  Inv'
<1>1. /\ pc \in {"append", "merge", "remove"} /\ pc' = "idle"
      /\ next_segment_id' = (IF pc = "remove" THEN next_segment_id ELSE next_segment_id + 1)
      /\ next_segment_id' \in 1 .. (MaxSegments + 1)
      /\ torn' = (torn \/ pc = "remove")
      /\ drained' = <<>> /\ sources' = <<>> /\ failures' = failures + 1
      /\ UNCHANGED <<wal_file, seg_files, entries, next_sequence, segments, writes, flushed>>
  BY DEF IoError, disk
<1>2. /\ Files' = Files /\ RecordsOf(Files)' = RecordsOf(Files) /\ ToSet(<<>>) = {}
      /\ Files \subseteq SegId /\ SegId \subseteq Nat /\ ToSet(segments) \subseteq SegId
  BY <1>1, SameFiles, FileFacts DEF Inv
<1>3. StateOK'
  BY <1>1 DEF Inv, StateOK
<1>4. RecordsInv'
  <2>1. AllRecords' \subseteq AllRecords
    BY <1>1, <1>2 DEF AllRecords
  <2> QED
    BY <1>1, <2>1, EmptyPairwise, SameRecords DEF Inv, RecordsInv
<1>5. PendingInv'
  BY <1>1, <1>2 DEF Inv, PendingInv
<1>6. IdsInv' /\ MergeInv'
  <2>1. next_segment_id \in Nat /\ next_segment_id' \in Nat /\ next_segment_id <= next_segment_id'
    BY <1>1 DEF Inv, StateOK
  <2>2. \A i \in Files \cup ToSet(segments) : i \in Nat /\ i < next_segment_id
    BY <1>1, <1>2 DEF Inv, IdsInv
  <2>3. \A i \in Files' \cup ToSet(segments') : i < next_segment_id'
    BY <1>1, <1>2, <2>1, <2>2
  <2> QED
    BY <1>1, <1>2, <2>3 DEF Inv, IdsInv, MergeInv, Distinct
<1>7. FilesInv'
  <2>1. CASE pc = "remove"
    <3>1. torn' /\ Kept \subseteq Kept'
      BY <1>1, <1>2, <2>1 DEF Kept
    <3>2. WritesOf(Kept) \subseteq WritesOf(Kept)'
      BY <1>1, <3>1 DEF WritesOf, RecordsOf
    <3> QED
      BY <1>1, <3>1, <3>2 DEF Inv, FilesInv
  <2>2. CASE pc # "remove"
    <3>1. sources = <<>> /\ UNCHANGED torn
      BY <1>1, <2>2 DEF Inv, MergeInv, StateOK
    <3> QED
      BY <1>1, <3>1, SameFilesInv DEF Inv
  <2> QED
    BY <2>1, <2>2
<1> QED
  BY <1>3, <1>4, <1>5, <1>6, <1>7 DEF Inv

LEMMA CrashInv ==
    ASSUME Inv, Crash
    PROVE  Inv'
<1>1. /\ pc' = "down" /\ torn' = (torn \/ (pc = "remove" /\ sources # <<>>))
      /\ entries' = <<>> /\ drained' = <<>> /\ segments' = <<>> /\ sources' = <<>>
      /\ next_sequence' = 0 /\ next_segment_id' = 1
      /\ UNCHANGED <<wal_file, seg_files, writes, flushed, failures>>
  BY DEF Crash, disk
<1>2. Files' = Files /\ RecordsOf(Files)' = RecordsOf(Files) /\ ToSet(<<>>) = {}
  BY <1>1, SameFiles, FileFacts DEF Inv
<1>3. StateOK'
  <2>1. <<>> \in Seq(Record) /\ <<>> \in Seq(SegId)
    OBVIOUS
  <2>2. 0 \in 0 .. writes /\ 1 \in 1 .. (MaxSegments + 1)
    BY StoreConstants DEF Inv, StateOK
  <2> QED
    BY <1>1, <2>1, <2>2 DEF Inv, StateOK
<1>4. RecordsInv'
  <2>1. AllRecords' \subseteq AllRecords
    BY <1>1, <1>2 DEF AllRecords
  <2> QED
    BY <1>1, <1>2, <2>1, EmptyPairwise, SameRecords DEF Inv, RecordsInv
<1>5. PendingInv'
  BY <1>1, <1>2 DEF PendingInv
<1>6. IdsInv' /\ MergeInv'
  <2>1. DOMAIN segments' = {}
    BY <1>1
  <2> QED
    BY <1>1, <2>1 DEF IdsInv, MergeInv, Distinct
<1>7. FilesInv'
  <2>1. CASE pc = "remove" /\ sources # <<>>
    <3>1. torn' /\ Kept \subseteq Kept'
      BY <1>1, <1>2, <2>1 DEF Kept
    <3>2. WritesOf(Kept) \subseteq WritesOf(Kept)'
      BY <1>1, <3>1 DEF WritesOf, RecordsOf
    <3> QED
      BY <1>1, <3>1, <3>2 DEF Inv, FilesInv
  <2>2. CASE ~(pc = "remove" /\ sources # <<>>)
    <3>1. sources = <<>> /\ UNCHANGED torn
      BY <1>1, <2>2 DEF Inv, MergeInv, StateOK
    <3> QED
      BY <1>1, <3>1, SameFilesInv DEF Inv
  <2> QED
    BY <2>1, <2>2
<1> QED
  BY <1>3, <1>4, <1>5, <1>6, <1>7 DEF Inv

-----------------------------------------------------------------------------
(* New segments.                                                           *)

LEMMA AppendSegment ==
    ASSUME NEW ids \in Seq(SegId), NEW n \in SegId, Distinct(ids), n \notin ToSet(ids)
    PROVE  /\ Append(ids, n) \in Seq(SegId) /\ Distinct(Append(ids, n))
           /\ ToSet(Append(ids, n)) = ToSet(ids) \cup {n}
           /\ Len(Append(ids, n)) = Len(ids) + 1
<1> DEFINE t == Append(ids, n)
<1>1. /\ t \in Seq(SegId) /\ Len(ids) \in Nat /\ DOMAIN ids = 1 .. Len(ids)
      /\ Len(t) = Len(ids) + 1 /\ DOMAIN t = 1 .. Len(t)
      /\ \A k \in 1 .. Len(ids) : t[k] = ids[k]
      /\ t[Len(t)] = n
  BY LenProperties, AppendProperties
<1> HIDE DEF t
<1>2. \A k \in 1 .. Len(t) : k \in 1 .. Len(ids) \/ k = Len(t)
  BY <1>1
<1>3. ToSet(t) = ToSet(ids) \cup {n}
  BY <1>1, <1>2 DEF ToSet
<1>4. Distinct(t)
  <2>1. \A k \in 1 .. Len(ids) : ids[k] # n
    BY <1>1 DEF ToSet
  <2> QED
    BY <1>1, <1>2, <2>1 DEF Distinct
<1> QED
  BY <1>1, <1>3, <1>4 DEF t

\* A segment of records that no segment holds yet.
LEMMA NewSegment ==
    ASSUME Inv, sources = <<>>, sources' = <<>>, UNCHANGED torn,
           NEW n \in SegId, n \notin Files, NEW v \in Seq(Record), Pairwise(v, Earlier),
           ToSet(v) \subseteq AllRecords, ToSet(v) \cap RecordsOf(Files) = {},
           seg_files' = [seg_files EXCEPT ![n] = v],
           flushed' = flushed \cup {r.write : r \in ToSet(v)}
    PROVE  FilesInv' /\ flushed' \subseteq 1 .. writes
<1>1. /\ Files' = Files \cup {n} /\ \A i \in Files : seg_files'[i] = seg_files[i]
      /\ seg_files'[n] = v /\ RecordsOf(Files)' = RecordsOf(Files) \cup ToSet(v)
  BY NewFile DEF Inv
<1>2. Kept = Files /\ Kept' = Files' /\ ToSet(v) \subseteq Record
  BY FileFacts DEF Inv, Kept
<1>3. flushed' \subseteq WritesOf(Kept)'
  <2>1. flushed \subseteq WritesOf(Files)
    BY <1>2 DEF Inv, FilesInv
  <2> QED
    BY <1>1, <1>2, <2>1 DEF WritesOf
<1>4. ~torn' => \A i \in Kept' : Pairwise(seg_files'[i], Apart)
  <2>1. Pairwise(v, Apart)
    <3>1. /\ \A r \in Record : r.write \in Nat
          /\ \A k \in 1 .. Len(v) : v[k] \in Record
      BY FileFacts, ElementOfSeq DEF Inv
    <3>2. ASSUME NEW k \in 1 .. Len(v), NEW l \in 1 .. Len(v), k < l
          PROVE  <<v[k], v[l]>> \in Apart
      <4>1. <<v[k], v[l]>> \in Earlier
        BY <3>2 DEF Pairwise
      <4>2. v[k].write < v[l].write
        BY <4>1 DEF Earlier
      <4> QED
        BY <3>1, <4>2 DEF Apart
    <3> QED
      BY <3>2 DEF Pairwise
  <2> QED
    BY <1>1, <1>2, <2>1 DEF Inv, FilesInv
<1>5. ~torn' => \A i, j \in Kept' : i # j =>
         \A r \in ToSet(seg_files'[i]), s \in ToSet(seg_files'[j]) : r.write # s.write
  <2>1. \A i \in Files : \A r \in ToSet(seg_files[i]) : r \in RecordsOf(Files)
    BY DEF RecordsOf
  <2>2. \A i \in Files : \A r \in ToSet(seg_files[i]), s \in ToSet(v) : r.write # s.write
    BY <2>1 DEF Inv, RecordsInv, AllRecords
  <2> QED
    BY <1>1, <1>2, <2>2 DEF Inv, FilesInv
<1>6. flushed' \subseteq 1 .. writes
  <2>1. \A r \in ToSet(v) : r.write \in 1 .. writes
    BY <1>2, FileFacts, StoreConstants DEF Inv, StateOK, RecordsInv
  <2> QED
    BY <2>1 DEF Inv, StateOK
<1> QED
  BY <1>3, <1>4, <1>5, <1>6 DEF FilesInv

\* The drained records become a segment of their own.
LEMMA AppendEntriesInv ==
    ASSUME Inv, append_entries
    PROVE  Inv'
<1>1. /\ pc = "append" /\ next_segment_id \in SegId
      /\ seg_files' = [seg_files EXCEPT ![next_segment_id] = drained]
      /\ segments' = Append(segments, next_segment_id)
      /\ next_segment_id' = next_segment_id + 1
      /\ flushed' = flushed \cup {r.write : r \in ToSet(drained)}
      /\ drained' = <<>> /\ pc' \in {"merge", "idle"}
      /\ UNCHANGED <<wal_file, entries, next_sequence, sources, writes, torn, failures>>
  BY DEF append_entries, budget
<1>2. /\ next_segment_id \notin Files /\ next_segment_id \notin ToSet(segments)
      /\ entries = <<>> /\ sources = <<>> /\ drained \in Seq(Record)
      /\ Pairwise(drained, Earlier) /\ ToSet(drained) \cap RecordsOf(Files) = {}
      /\ segments \in Seq(SegId) /\ Distinct(segments)
      /\ ToSet(<<>>) = {} /\ SegId \subseteq Nat
  <2>1. \A i \in Files \cup ToSet(segments) : i < next_segment_id /\ i \in Nat
    BY <1>1, FileFacts DEF Inv, IdsInv
  <2> QED
    BY <1>1, <2>1, FileFacts DEF Inv, StateOK, RecordsInv, IdsInv, PendingInv, MergeInv
<1>3. FilesInv' /\ flushed' \subseteq 1 .. writes
  <2>1. ToSet(drained) \subseteq AllRecords
    BY DEF AllRecords
  <2> QED
    BY <1>1, <1>2, <2>1, NewSegment
<1>4. /\ Files' = Files \cup {next_segment_id}
      /\ RecordsOf(Files)' = RecordsOf(Files) \cup ToSet(drained)
      /\ seg_files' \in [SegId -> Seq(Record) \cup {NoFile}]
  BY <1>1, <1>2, NewFile DEF Inv
<1>5. /\ segments' \in Seq(SegId) /\ Distinct(segments')
      /\ ToSet(segments') = ToSet(segments) \cup {next_segment_id}
  BY <1>1, <1>2, AppendSegment
<1>6. StateOK'
  <2>1. next_segment_id' \in 1 .. (MaxSegments + 1)
    BY <1>1, StoreConstants DEF SegId
  <2>2. pc' \in {"down", "retain", "idle", "append", "merge", "remove"}
    BY <1>1
  <2> QED
    BY <1>1, <1>3, <1>4, <1>5, <2>1, <2>2 DEF Inv, StateOK
<1>7. RecordsInv'
  <2>1. AllRecords' \subseteq AllRecords
    BY <1>1, <1>2, <1>4 DEF AllRecords
  <2> QED
    BY <1>1, <2>1, EmptyPairwise, SameRecords DEF Inv, RecordsInv
<1>8. PendingInv'
  BY <1>1, <1>2 DEF PendingInv
<1>9. IdsInv'
  <2>1. \A i \in Files' \cup ToSet(segments') : i < next_segment_id'
    <3>1. \A i \in Files \cup ToSet(segments) : i < next_segment_id /\ i \in Nat
      BY <1>1, FileFacts DEF Inv, IdsInv
    <3> QED
      BY <1>1, <1>2, <1>4, <1>5, <3>1
  <2> QED
    BY <1>1, <1>4, <1>5, <2>1 DEF Inv, IdsInv
<1>10. MergeInv'
  BY <1>1, <1>2 DEF MergeInv
<1> QED
  BY <1>3, <1>6, <1>7, <1>8, <1>9, <1>10 DEF Inv

\* The records replayed are in no segment: they are above every persisted
\* number, and a write has one number.
LEMMA OpenInv ==
    ASSUME Inv, Open
    PROVE  Inv'
<1> DEFINE n == next_id_after(Files)
           v == replay_records
           listed == read_segment_metadata
<1>1. /\ pc = "down" /\ pc' = "retain" /\ entries' = wal_file
      /\ next_sequence' = last_sequence(wal_file)
      /\ flushed' = flushed \cup {r.write : r \in ToSet(v)}
      /\ drained' = <<>> /\ sources' = <<>>
      /\ UNCHANGED <<wal_file, writes, torn, failures>>
  BY DEF Open, budget
<1>2. \/ v = <<>> /\ segments' = listed /\ next_segment_id' = n /\ UNCHANGED seg_files
      \/ /\ n \in SegId /\ seg_files' = [seg_files EXCEPT ![n] = v]
         /\ segments' = Append(listed, n) /\ next_segment_id' = n + 1
  BY DEF Open
<1>3. /\ sources = <<>> /\ drained = <<>> /\ wal_file \in Seq(Record)
      /\ Pairwise(wal_file, Earlier) /\ ToSet(<<>>) = {}
      /\ writes \in Nat /\ \A r \in ToSet(wal_file) : r.sequence <= writes
      /\ RecordsOf(Files) \in SUBSET Record /\ \A r \in Record : r.sequence \in Nat
      /\ Files \subseteq SegId /\ SegId \subseteq Nat
  BY <1>1, FileFacts, StoreConstants
     DEF Inv, StateOK, RecordsInv, PendingInv, MergeInv, AllRecords
<1>4. /\ v \in Seq(Record) /\ Pairwise(v, Earlier) /\ ToSet(v) \subseteq ToSet(wal_file)
      /\ ToSet(v) \cap RecordsOf(Files) = {}
  <2> DEFINE m == max_sequence(RecordsOf(Files))
  <2>1. v = greater_than(wal_file, m)
    BY DEF replay_records
  <2>2. m \in Int /\ m \in Nat /\ \A r \in RecordsOf(Files) : r.sequence <= m
    BY <1>3, MaxSequence
  <2> HIDE DEF v, m
  <2>3. /\ greater_than(wal_file, m) \in Seq(Record)
        /\ ToSet(greater_than(wal_file, m)) = {r \in ToSet(wal_file) : r.sequence > m}
        /\ \A R : Pairwise(wal_file, R) => Pairwise(greater_than(wal_file, m), R)
    BY <1>3, <2>2, GreaterThan
  <2>4. ToSet(v) = {r \in ToSet(wal_file) : r.sequence > m}
    BY <2>1, <2>3
  <2>5. ASSUME NEW r \in ToSet(v), r \in RecordsOf(Files) PROVE FALSE
    <3>1. r.sequence > m /\ r.sequence <= m /\ r.sequence \in Nat
      BY <1>3, <2>2, <2>4, <2>5
    <3> QED
      BY <2>2, <3>1
  <2> QED
    BY <1>3, <2>1, <2>3, <2>4, <2>5
<1>5. /\ n \in 1 .. (MaxSegments + 1) /\ n \notin Files /\ \A i \in Files : i < n
      /\ listed \in Seq(SegId) /\ ToSet(listed) = Files /\ Distinct(listed)
  BY NextId, ListedFiles
<1>6. /\ last_sequence(wal_file) \in 0 .. writes
      /\ \A r \in ToSet(wal_file) : r.sequence <= last_sequence(wal_file)
  BY <1>3, LastSequence
<1> HIDE DEF n, v, listed
<1>7. /\ FilesInv' /\ flushed' \subseteq 1 .. writes
      /\ seg_files' \in [SegId -> Seq(Record) \cup {NoFile}]
      /\ segments' \in Seq(SegId) /\ Distinct(segments') /\ ToSet(segments') = Files'
      /\ RecordsOf(Files)' \subseteq RecordsOf(Files) \cup ToSet(v)
      /\ next_segment_id' \in 1 .. (MaxSegments + 1)
      /\ \A i \in Files' : i < next_segment_id'
  <2>1. CASE v = <<>> /\ segments' = listed /\ next_segment_id' = n /\ UNCHANGED seg_files
    <3>1. Files' = Files /\ RecordsOf(Files)' = RecordsOf(Files)
      BY <2>1, SameFiles
    <3>2. flushed' = flushed
      BY <1>1, <1>3, <2>1
    <3>3. FilesInv'
      BY <1>1, <1>3, <2>1, <3>2, SameFilesInv DEF Inv
    <3> QED
      BY <1>5, <2>1, <3>1, <3>2, <3>3 DEF Inv, StateOK
  <2>2. CASE /\ n \in SegId /\ seg_files' = [seg_files EXCEPT ![n] = v]
             /\ segments' = Append(listed, n) /\ next_segment_id' = n + 1
    <3>1. FilesInv' /\ flushed' \subseteq 1 .. writes
      <4>1. ToSet(v) \subseteq AllRecords
        BY <1>4 DEF AllRecords
      <4> QED
        BY <1>1, <1>3, <1>4, <1>5, <2>2, <4>1, NewSegment
    <3>2. /\ Files' = Files \cup {n}
          /\ RecordsOf(Files)' = RecordsOf(Files) \cup ToSet(v)
          /\ seg_files' \in [SegId -> Seq(Record) \cup {NoFile}]
      BY <1>4, <1>5, <2>2, NewFile DEF Inv
    <3>3. /\ segments' \in Seq(SegId) /\ Distinct(segments')
          /\ ToSet(segments') = Files \cup {n}
      BY <1>5, <2>2, AppendSegment
    <3>4. next_segment_id' \in 1 .. (MaxSegments + 1)
      BY <2>2, StoreConstants DEF SegId
    <3>5. \A i \in Files' : i < next_segment_id'
      BY <1>3, <1>5, <2>2, <3>2
    <3> QED
      BY <3>1, <3>2, <3>3, <3>4, <3>5
  <2> QED
    BY <1>2, <2>1, <2>2
<1>8. StateOK'
  BY <1>1, <1>3, <1>6, <1>7 DEF Inv, StateOK
<1>9. RecordsInv'
  <2>1. AllRecords' \subseteq AllRecords
    BY <1>1, <1>3, <1>4, <1>7 DEF AllRecords
  <2> QED
    BY <1>1, <1>3, <1>6, <2>1, EmptyPairwise, SameRecords DEF Inv
<1>10. PendingInv' /\ IdsInv' /\ MergeInv'
  BY <1>1, <1>7 DEF PendingInv, IdsInv, MergeInv
<1> QED
  BY <1>7, <1>8, <1>9, <1>10 DEF Inv

-----------------------------------------------------------------------------
(* Merging.                                                                *)

\* The arithmetic of flush_wal and merge_oldest_segments: a merge leaves a
\* segment out, and leaves no more of them than the policy allows.
LEMMA ToMerge ==
    ASSUME StateOK
    PROVE  /\ Len(segments) \in Nat /\ to_merge \in Nat
           /\ to_merge # 0 => /\ to_merge \in 1 .. (Len(segments) - 1)
                              /\ \/ Len(segments) - to_merge <= KeepRecent
                                 \/ Len(segments) - to_merge <= 1
           /\ to_merge = 0 => Len(segments) <= 2 \/ Len(segments) <= KeepRecent + 1
<1> DEFINE L == Len(segments)
           more == Max({L - KeepRecent, 1})
           keep == Max({KeepRecent, 1})
           safe == Min({keep, L - 1})
<1>1. L \in Nat /\ KeepRecent \in Nat
  BY StoreConstants, LenProperties DEF StateOK
<1> HIDE DEF L
<1>2. /\ more = (IF L - KeepRecent >= 1 THEN L - KeepRecent ELSE 1)
      /\ keep = (IF KeepRecent >= 1 THEN KeepRecent ELSE 1)
  BY <1>1, MaxMinTwo
<1>3. merge_count = Min({more, L - 1})
  BY DEF merge_count, L
<1>4. to_merge = IF merge_count < 2 \/ L <= 1 THEN 0 ELSE Min({merge_count, L - safe})
  BY DEF to_merge, L
<1> HIDE DEF more, keep
<1>5. more \in Int /\ keep \in Int
  BY <1>1, <1>2
<1>6. /\ merge_count = (IF more <= L - 1 THEN more ELSE L - 1)
      /\ safe = (IF keep <= L - 1 THEN keep ELSE L - 1)
  <2>1. L - 1 \in Int
    BY <1>1
  <2>2. Min({more, L - 1}) = IF more <= L - 1 THEN more ELSE L - 1
    BY <1>5, <2>1, MaxMinTwo
  <2>3. Min({keep, L - 1}) = IF keep <= L - 1 THEN keep ELSE L - 1
    BY <1>5, <2>1, MaxMinTwo
  <2> QED
    BY <1>3, <2>2, <2>3
<1> HIDE DEF safe
<1>7. merge_count \in Int /\ safe \in Int /\ L - safe \in Int
  BY <1>1, <1>5, <1>6
<1>8. Min({merge_count, L - safe}) = IF merge_count <= L - safe THEN merge_count ELSE L - safe
  BY <1>7, MaxMinTwo
<1>9. /\ L \in Nat /\ to_merge \in Nat
      /\ to_merge # 0 => /\ to_merge \in 1 .. (L - 1)
                         /\ L - to_merge <= KeepRecent \/ L - to_merge <= 1
      /\ to_merge = 0 => L <= 2 \/ L <= KeepRecent + 1
  BY <1>1, <1>2, <1>4, <1>5, <1>6, <1>7, <1>8
<1> QED
  BY <1>9 DEF L

\* The merged segments are listed; those that stay are listed after them.
LEMMA MergedListed ==
    ASSUME StateOK, Distinct(segments), to_merge \in 1 .. (Len(segments) - 1)
    PROVE  /\ Merged \subseteq ToSet(segments)
           /\ ToSet(segments) \ Merged
              = {segments[k] : k \in (to_merge + 1) .. Len(segments)}
           /\ ToSet(SubSeq(segments, 1, to_merge)) = Merged
           /\ SubSeq(segments, 1, to_merge) \in Seq(SegId)
<1> DEFINE m == to_merge
           t == SubSeq(segments, 1, m)
<1>1. /\ Len(segments) \in Nat /\ DOMAIN segments = 1 .. Len(segments)
      /\ segments \in Seq(SegId) /\ m \in 1 .. (Len(segments) - 1)
      /\ Merged = {segments[k] : k \in 1 .. m}
  BY LenProperties DEF StateOK, Merged
<1>2. ToSet(segments) = {segments[k] : k \in 1 .. Len(segments)}
  BY <1>1 DEF ToSet
<1>3. \A k, l \in 1 .. Len(segments) : segments[k] = segments[l] => k = l
  BY <1>1 DEF Distinct
<1> HIDE DEF m
<1>4. \A k : /\ k \in 1 .. m => k \in 1 .. Len(segments) /\ k \notin (m + 1) .. Len(segments)
             /\ k \in (m + 1) .. Len(segments) => k \in 1 .. Len(segments) /\ k \notin 1 .. m
             /\ k \in 1 .. Len(segments) => k \in 1 .. m \/ k \in (m + 1) .. Len(segments)
  BY <1>1
<1>5. ToSet(segments) \ Merged = {segments[k] : k \in (m + 1) .. Len(segments)}
  <2>1. ASSUME NEW x \in ToSet(segments), x \notin Merged
        PROVE  x \in {segments[k] : k \in (m + 1) .. Len(segments)}
    BY <1>1, <1>2, <1>4, <2>1
  <2>2. ASSUME NEW k \in (m + 1) .. Len(segments)
        PROVE  segments[k] \in ToSet(segments) /\ segments[k] \notin Merged
    <3>1. k \in 1 .. Len(segments) /\ k \notin 1 .. m
      BY <1>4
    <3>2. ASSUME NEW l \in 1 .. m, segments[k] = segments[l] PROVE FALSE
      <4>1. l \in 1 .. Len(segments)
        BY <1>4
      <4>2. k = l
        BY <1>3, <3>1, <3>2, <4>1
      <4> QED
        BY <3>1, <4>2
    <3> QED
      BY <1>1, <1>2, <3>1, <3>2
  <2> QED
    BY <2>1, <2>2
<1>6. /\ t \in Seq(SegId) /\ Len(t) = m /\ DOMAIN t = 1 .. m
      /\ \A k \in 1 .. m : t[k] = segments[k]
  BY <1>1
<1>7. ToSet(t) = Merged
  <2> HIDE DEF t
  <2> QED
    BY <1>1, <1>6 DEF ToSet
<1>8. Merged \subseteq ToSet(segments)
  BY <1>1, <1>2, <1>4
<1> QED
  BY <1>5, <1>6, <1>7, <1>8 DEF m

\* The merged segment holds exactly the records of its sources, none of them
\* twice, before the first source is removed.
LEMMA MergeStepInv ==
    ASSUME Inv, merge_oldest_segments
    PROVE  Inv'
<1>1. /\ pc = "merge"
      /\ UNCHANGED <<wal_file, entries, next_sequence, segments, drained,
                     writes, flushed, torn, failures>>
  BY DEF merge_oldest_segments, history, budget
<1>2. sources = <<>> /\ drained = <<>> /\ ToSet(<<>>) = {}
  BY <1>1, FileFacts DEF Inv, MergeInv, PendingInv
<1>3. CASE pc' = "idle" /\ UNCHANGED <<seg_files, next_segment_id, sources>>
  <2>1. Files' = Files /\ RecordsOf(Files)' = RecordsOf(Files)
    BY <1>3, SameFiles
  <2>2. StateOK'
    BY <1>1, <1>3 DEF Inv, StateOK
  <2>3. RecordsInv'
    BY <1>1, <1>3, <2>1 DEF Inv, RecordsInv, AllRecords
  <2>4. PendingInv' /\ IdsInv' /\ MergeInv'
    BY <1>1, <1>2, <1>3, <2>1 DEF Inv, PendingInv, IdsInv, MergeInv, Distinct
  <2>5. FilesInv'
    BY <1>1, <1>3, SameFilesInv DEF Inv
  <2> QED
    BY <2>2, <2>3, <2>4, <2>5 DEF Inv
<1>4. CASE ~(to_merge = 0 \/ ~CanRead(to_merge))
  <2> DEFINE m == to_merge
             n == next_segment_id
             q == [k \in 1 .. m |-> seg_files[segments[k]]]
             v == FlattenSeq(q)
  <2>1. /\ n \in SegId /\ seg_files' = [seg_files EXCEPT ![n] = v]
        /\ next_segment_id' = n + 1 /\ pc' = "remove"
        /\ sources' = SubSeq(segments, 1, m)
    BY <1>4 DEF merge_oldest_segments
  <2>2. m \in 1 .. (Len(segments) - 1) /\ Len(segments) \in Nat
    BY <1>4, ToMerge DEF Inv
  <2>3. Merged = {segments[k] : k \in 1 .. m} /\ Merged \subseteq Files
    BY <1>4 DEF Merged, CanRead
  <2>4. to_merge' = m /\ Merged' = Merged
    BY <1>1 DEF to_merge, merge_count, Merged
  <2>5. /\ Merged \subseteq ToSet(segments) /\ sources' \in Seq(SegId)
        /\ ToSet(sources') = Merged
    BY <2>1, <2>2, MergedListed DEF Inv, IdsInv
  <2>6. /\ n \notin Files /\ n \notin ToSet(segments)
        /\ \A i \in Files \cup ToSet(segments) : i \in Nat /\ i < n
    <3>1. \A i \in Files \cup ToSet(segments) : i < n /\ i \in Nat
      BY <1>1, FileFacts DEF Inv, IdsInv
    <3> QED
      BY <2>1, <3>1
  <2>7. q \in Seq(Seq(Record)) /\ Len(q) = m
    <3>1. \A k \in 1 .. m : q[k] \in Seq(Record)
      BY <2>3, FileFacts DEF Inv
    <3>2. q \in [1 .. m -> Seq(Record)] /\ m \in Nat
      BY <2>2, <3>1
    <3> QED
      BY <3>2, LenProperties
  <2>8. \A k \in 1 .. m : q[k] = seg_files[segments[k]]
    OBVIOUS
  <2> HIDE DEF q
  <2>9. /\ v \in Seq(Record)
        /\ ToSet(v) = UNION {ToSet(q[k]) : k \in 1 .. m}
        /\ PartsPairwise(q, Apart) => Pairwise(v, Apart)
    BY <2>7, FlattenSeqProperties
  <2> HIDE DEF v
  <2>10. ToSet(v) = RecordsOf(Merged)
    <3>1. {ToSet(q[k]) : k \in 1 .. m} = {ToSet(seg_files[i]) : i \in Merged}
      BY <2>3, <2>8
    <3> QED
      BY <2>9, <3>1 DEF RecordsOf
  <2>11. /\ Files' = Files \cup {n} /\ RecordsOf(Files)' = RecordsOf(Files) \cup ToSet(v)
         /\ seg_files' \in [SegId -> Seq(Record) \cup {NoFile}]
         /\ \A i \in Files : seg_files'[i] = seg_files[i]
         /\ seg_files'[n] = v
    BY <2>1, <2>6, <2>9, NewFile DEF Inv
  <2>12. RecordsOf(Files)' = RecordsOf(Files)
    BY <2>3, <2>10, <2>11 DEF RecordsOf
  <2>13. StateOK'
    <3>1. next_segment_id' \in 1 .. (MaxSegments + 1)
      BY <2>1, StoreConstants DEF SegId
    <3> QED
      BY <1>1, <2>1, <2>5, <2>11, <3>1 DEF Inv, StateOK
  <2>14. RecordsInv'
    BY <1>1, <2>12 DEF Inv, RecordsInv, AllRecords
  <2>15. PendingInv'
    BY <1>1, <2>1, <2>12 DEF Inv, PendingInv
  <2>16. IdsInv'
    <3>1. \A i \in Files' \cup ToSet(segments') : i < next_segment_id'
      BY <1>1, <2>1, <2>6, <2>11, FileFacts DEF Inv
    <3> QED
      BY <1>1, <2>1, <3>1 DEF Inv, IdsInv, Distinct
  <2>17. Kept' = (Files \ Merged) \cup {n} /\ Kept = Files
    BY <1>2, <2>3, <2>5, <2>6, <2>11 DEF Kept
  <2>18. MergeInv'
    <3>1. Output' = n
      BY <2>1, FileFacts DEF Inv, Output
    <3>2. ~torn' => Kept' = {Output'} \cup (ToSet(segments') \ Merged')
      BY <1>1, <2>4, <2>17, <3>1 DEF Inv, IdsInv
    <3> QED
      BY <1>1, <2>1, <2>2, <2>4, <2>5, <2>6, <2>11, <3>1, <3>2 DEF MergeInv
  <2>19. FilesInv'
    <3>1. flushed' \subseteq WritesOf(Kept)'
      <4>1. RecordsOf(Files) \subseteq RecordsOf(Kept)'
        BY <2>3, <2>10, <2>11, <2>17 DEF RecordsOf
      <4>2. flushed \subseteq WritesOf(Files)
        BY <2>17 DEF Inv, FilesInv
      <4> QED
        BY <1>1, <4>1, <4>2 DEF WritesOf
    <3> SUFFICES ASSUME ~torn
                 PROVE  /\ \A i \in Kept' : Pairwise(seg_files'[i], Apart)
                        /\ \A i, j \in Kept' : i # j =>
                              \A r \in ToSet(seg_files'[i]), s \in ToSet(seg_files'[j]) :
                                 r.write # s.write
      BY <1>1, <3>1 DEF FilesInv
    <3>2. /\ \A i \in Files : Pairwise(seg_files[i], Apart)
          /\ \A i, j \in Files : i # j =>
                \A r \in ToSet(seg_files[i]), s \in ToSet(seg_files[j]) : r.write # s.write
      BY <2>17 DEF Inv, FilesInv
    <3>3. PartsPairwise(q, Apart)
      <4>1. \A k \in 1 .. m : segments[k] \in Files /\ Pairwise(q[k], Apart)
        BY <2>3, <2>8, <3>2
      <4>2. ASSUME NEW k \in 1 .. m, NEW l \in 1 .. m, k < l,
                   NEW x \in ToSet(q[k]), NEW y \in ToSet(q[l])
            PROVE  <<x, y>> \in Apart
        <5>1. segments[k] # segments[l]
          <6>1. k \in 1 .. Len(segments) /\ l \in 1 .. Len(segments) /\ k # l
            BY <2>2, <4>2
          <6>2. DOMAIN segments = 1 .. Len(segments)
            BY LenProperties DEF Inv, StateOK
          <6> QED
            BY <6>1, <6>2 DEF Inv, IdsInv, Distinct
        <5>2. x \in Record /\ y \in Record
          BY <2>8, <4>1, FileFacts DEF Inv
        <5>3. x.write # y.write
          BY <2>8, <3>2, <4>1, <5>1
        <5> QED
          BY <5>2, <5>3 DEF Apart
      <4> QED
        BY <2>7, <4>1, <4>2 DEF PartsPairwise
    <3>4. \A i \in Files \ Merged : \A r \in ToSet(seg_files[i]), s \in ToSet(v) :
             r.write # s.write
      <4> SUFFICES ASSUME NEW i \in Files \ Merged, NEW r \in ToSet(seg_files[i]),
                          NEW s \in ToSet(v)
                   PROVE  r.write # s.write
        OBVIOUS
      <4>1. PICK j \in Merged : s \in ToSet(seg_files[j])
        BY <2>10 DEF RecordsOf
      <4> QED
        BY <2>3, <3>2, <4>1
    <3>5. \A i \in Kept' : i = n \/ i \in Files \ Merged
      BY <2>17
    <3>6. \A i \in Kept' : Pairwise(seg_files'[i], Apart)
      BY <2>9, <2>11, <3>2, <3>3, <3>5
    <3>7. ASSUME NEW i \in Kept', NEW j \in Kept', i # j,
                 NEW r \in ToSet(seg_files'[i]), NEW s \in ToSet(seg_files'[j])
          PROVE  r.write # s.write
      <4>1. CASE i = n
        BY <2>11, <3>4, <3>5, <3>7, <4>1
      <4>2. CASE j = n
        BY <2>11, <3>4, <3>5, <3>7, <4>2
      <4>3. CASE i # n /\ j # n
        BY <2>11, <3>2, <3>5, <3>7, <4>3
      <4> QED
        BY <4>1, <4>2, <4>3
    <3> QED
      BY <3>6, <3>7
  <2> QED
    BY <2>13, <2>14, <2>15, <2>16, <2>18, <2>19 DEF Inv
<1> QED
  BY <1>3, <1>4 DEF merge_oldest_segments

\* A source goes; what stays is what was to stay.
LEMMA RemoveInv ==
    ASSUME Inv, remove_source
    PROVE  Inv'
<1> DEFINE h == Head(sources)
<1>1. /\ pc = "remove" /\ pc' = pc /\ sources # <<>> /\ sources' = Tail(sources)
      /\ seg_files' = [seg_files EXCEPT ![h] = NoFile]
      /\ UNCHANGED <<wal_file, entries, next_sequence, segments, next_segment_id, drained,
                     writes, flushed, torn, failures>>
  BY DEF remove_source, history, budget
<1>2. sources' \in Seq(SegId) /\ ToSet(sources) = {h} \cup ToSet(sources') /\ h \in SegId
  <2>1. /\ sources \in Seq(SegId) /\ Len(sources) \in Nat /\ Len(sources) # 0
        /\ DOMAIN sources = 1 .. Len(sources) /\ h = sources[1]
    BY <1>1, LenProperties, EmptySeq DEF Inv, StateOK
  <2>2. /\ sources' \in Seq(SegId) /\ Len(sources') = Len(sources) - 1
        /\ \A k \in 1 .. Len(sources') : sources'[k] = sources[k + 1]
    BY <1>1, <2>1, HeadTailProperties
  <2>3. DOMAIN sources' = 1 .. Len(sources')
    BY <2>2, LenProperties
  <2> HIDE DEF h
  <2>4. \A k \in 1 .. Len(sources) : k = 1 \/ (k - 1 \in 1 .. Len(sources') /\ (k - 1) + 1 = k)
    BY <2>1, <2>2
  <2>5. 1 \in 1 .. Len(sources) /\ \A k \in 1 .. Len(sources') : k + 1 \in 1 .. Len(sources)
    BY <2>1, <2>2
  <2>6. ToSet(sources) \subseteq {h} \cup ToSet(sources')
    <3> SUFFICES ASSUME NEW k \in 1 .. Len(sources)
                 PROVE  sources[k] = h \/ sources[k] \in ToSet(sources')
      BY <2>1 DEF ToSet
    <3>1. CASE k = 1
      BY <2>1, <3>1
    <3>2. CASE k # 1
      <4>1. sources[k] = sources'[k - 1] /\ k - 1 \in DOMAIN sources'
        BY <2>2, <2>3, <2>4, <3>2
      <4> QED
        BY <4>1 DEF ToSet
    <3> QED
      BY <3>1, <3>2
  <2>7. {h} \cup ToSet(sources') \subseteq ToSet(sources)
    BY <2>1, <2>2, <2>3, <2>5 DEF ToSet
  <2>8. h \in SegId
    BY <2>1, <2>5, ElementOfSeq
  <2> QED
    BY <2>2, <2>6, <2>7, <2>8
<1> HIDE DEF h
<1>3. /\ seg_files' \in [SegId -> Seq(Record) \cup {NoFile}]
      /\ \A i \in SegId : seg_files'[i] = IF i = h THEN NoFile ELSE seg_files[i]
  BY <1>1, <1>2 DEF Inv, StateOK
<1>4. Files' = Files \ {h} /\ Files \subseteq SegId
  BY <1>3 DEF Files
<1>5. \A i \in Files' : seg_files'[i] = seg_files[i]
  BY <1>3, <1>4
<1>6. RecordsOf(Files)' \subseteq RecordsOf(Files)
  BY <1>4, <1>5 DEF RecordsOf
<1>7. Kept' = Kept /\ Kept \subseteq Files'
  BY <1>2, <1>4 DEF Kept
<1>8. WritesOf(Kept)' = WritesOf(Kept)
  BY <1>5, <1>7 DEF WritesOf, RecordsOf
<1>9. StateOK'
  BY <1>1, <1>2, <1>3 DEF Inv, StateOK
<1>10. RecordsInv'
  <2>1. AllRecords' \subseteq AllRecords
    BY <1>1, <1>6 DEF AllRecords
  <2> QED
    BY <1>1, <2>1, SameRecords DEF Inv, RecordsInv
<1>11. PendingInv' /\ IdsInv'
  BY <1>1, <1>4, <1>6 DEF Inv, PendingInv, IdsInv, Distinct
<1>12. MergeInv'
  <2>1. to_merge' = to_merge /\ Merged' = Merged /\ Output' = Output
    BY <1>1 DEF to_merge, merge_count, Merged, Output
  <2>2. /\ to_merge \in 1 .. (Len(segments) - 1)
        /\ Output \in Files /\ Output \notin ToSet(segments)
        /\ ToSet(sources) \subseteq Merged
        /\ ~torn => Kept = {Output} \cup (ToSet(segments) \ Merged)
    BY <1>1 DEF Inv, MergeInv
  <2>3. Merged \subseteq ToSet(segments)
    BY <2>2, MergedListed DEF Inv, IdsInv
  <2>4. Output \in Files'
    BY <1>2, <1>4, <2>2, <2>3
  <2> QED
    BY <1>1, <1>2, <1>7, <2>1, <2>2, <2>4 DEF MergeInv
<1>13. FilesInv'
  BY <1>1, <1>5, <1>7, <1>8 DEF Inv, FilesInv
<1> QED
  BY <1>9, <1>10, <1>11, <1>12, <1>13 DEF Inv

\* The list a merge leaves.
LEMMA CommittedList ==
    ASSUME Inv, merge_commit
    PROVE  /\ segments' \in Seq(SegId) /\ Distinct(segments')
           /\ ToSet(segments') = {Output} \cup (ToSet(segments) \ Merged)
           /\ Len(segments') = 1 + (Len(segments) - to_merge)
<1> DEFINE m == to_merge
           L == Len(segments)
           t == SubSeq(segments, m + 1, L)
<1>1. /\ segments' = <<Output>> \o t /\ pc = "remove"
  BY DEF merge_commit, Output
<1>2. /\ m \in 1 .. (L - 1) /\ L \in Nat /\ segments \in Seq(SegId)
      /\ Output \in SegId /\ Output \notin ToSet(segments) /\ DOMAIN segments = 1 .. L
      /\ \A k, l \in 1 .. L : segments[k] = segments[l] => k = l
  <2>1. L \in Nat /\ segments \in Seq(SegId) /\ DOMAIN segments = 1 .. L
    BY LenProperties DEF Inv, StateOK
  <2>2. m \in 1 .. (L - 1) /\ Output \in SegId /\ Output \notin ToSet(segments)
    BY <1>1, FileFacts DEF Inv, MergeInv
  <2>3. \A k, l \in 1 .. L : segments[k] = segments[l] => k = l
    BY <2>1 DEF Inv, IdsInv, Distinct
  <2> QED
    BY <2>1, <2>2, <2>3
<1>3. ToSet(segments) \ Merged = {segments[k] : k \in (m + 1) .. L}
  BY <1>2, MergedListed DEF Inv, IdsInv
<1> HIDE DEF m, L
<1>4. /\ t \in Seq(SegId) /\ Len(t) = L - m
      /\ \A k \in 1 .. (L - m) : t[k] = segments[m + k]
  <2>1. \A k \in (m + 1) .. L : segments[k] \in SegId
    <3>1. \A k \in (m + 1) .. L : k \in 1 .. L
      BY <1>2
    <3> QED
      BY <1>2, <3>1, ElementOfSeq DEF L
  <2>2. m + 1 \in Int /\ L \in Int
    BY <1>2
  <2>3. /\ SubSeq(segments, m + 1, L) \in Seq(SegId)
        /\ Len(SubSeq(segments, m + 1, L)) = (IF m + 1 <= L THEN L - (m + 1) + 1 ELSE 0)
        /\ \A k \in 1 .. (L - (m + 1) + 1) :
              SubSeq(segments, m + 1, L)[k] = segments[(m + 1) + k - 1]
    BY <2>1, <2>2, <1>2, SubSeqProperties DEF L
  <2> QED
    BY <1>2, <2>3
<1> HIDE DEF t
<1> DEFINE s == segments'
<1>5. /\ s \in Seq(SegId) /\ Len(s) = 1 + (L - m) /\ DOMAIN s = 1 .. Len(s)
      /\ s[1] = Output /\ \A k \in 2 .. Len(s) : s[k] = t[k - 1]
  <2>1. <<Output>> \in Seq(SegId) /\ Len(<<Output>>) = 1 /\ <<Output>>[1] = Output
    BY <1>2
  <2>2. /\ <<Output>> \o t \in Seq(SegId) /\ Len(<<Output>> \o t) = 1 + Len(t)
        /\ \A k \in 1 .. Len(<<Output>> \o t) :
              (<<Output>> \o t)[k] = IF k <= 1 THEN <<Output>>[k] ELSE t[k - 1]
    BY <1>4, <2>1, ConcatProperties
  <2>3. s = <<Output>> \o t
    BY <1>1
  <2> HIDE DEF s
  <2>4. /\ s \in Seq(SegId) /\ Len(s) = 1 + (L - m)
        /\ \A k \in 1 .. Len(s) : s[k] = IF k <= 1 THEN <<Output>>[k] ELSE t[k - 1]
    BY <1>4, <2>2, <2>3
  <2>5. DOMAIN s = 1 .. Len(s)
    BY <2>4, LenProperties
  <2> QED
    BY <1>2, <2>1, <2>4, <2>5
<1> HIDE DEF s
<1>6. \A k \in 2 .. Len(s) : k + m - 1 \in (m + 1) .. L /\ s[k] = segments[k + m - 1]
  BY <1>2, <1>4, <1>5
<1>7. \A k \in 1 .. Len(s) : k = 1 \/ k \in 2 .. Len(s)
  BY <1>2, <1>5
<1>8. \A k \in (m + 1) .. L : k - m + 1 \in 2 .. Len(s) /\ (k - m + 1) + m - 1 = k
  BY <1>2, <1>5
<1>9. ToSet(s) = {Output} \cup {segments[k] : k \in (m + 1) .. L}
  <2>1. ToSet(s) = {s[k] : k \in 1 .. Len(s)}
    BY <1>5 DEF ToSet
  <2>2. ASSUME NEW k \in 1 .. Len(s)
        PROVE  s[k] \in {Output} \cup {segments[j] : j \in (m + 1) .. L}
    BY <1>5, <1>6, <1>7
  <2>3. ASSUME NEW j \in (m + 1) .. L PROVE segments[j] \in ToSet(s)
    <3>1. j - m + 1 \in 1 .. Len(s) /\ s[j - m + 1] = segments[j]
      BY <1>2, <1>5, <1>6, <1>8
    <3> QED
      BY <2>1, <3>1
  <2>4. Output \in ToSet(s)
    <3>1. 1 \in 1 .. Len(s)
      BY <1>2, <1>5
    <3> QED
      BY <1>5, <2>1, <3>1
  <2> QED
    BY <2>1, <2>2, <2>3, <2>4
<1>10. Distinct(s)
  <2> SUFFICES ASSUME NEW k \in 1 .. Len(s), NEW l \in 1 .. Len(s), s[k] = s[l]
               PROVE  k = l
    BY <1>5 DEF Distinct
  <2>1. \A j \in 2 .. Len(s) : s[j] # Output
    <3> SUFFICES ASSUME NEW j \in 2 .. Len(s) PROVE s[j] \in ToSet(segments)
      BY <1>2
    <3>1. j + m - 1 \in 1 .. L
      BY <1>2, <1>6
    <3> QED
      BY <1>2, <1>6, <3>1 DEF ToSet
  <2>2. CASE k = 1 \/ l = 1
    BY <1>5, <1>7, <2>1, <2>2
  <2>3. CASE k \in 2 .. Len(s) /\ l \in 2 .. Len(s)
    <3>1. k + m - 1 \in 1 .. L /\ l + m - 1 \in 1 .. L
      BY <1>2, <1>6, <2>3
    <3>2. k + m - 1 = l + m - 1
      BY <1>2, <1>6, <2>3, <3>1
    <3> QED
      BY <1>2, <3>2
  <2> QED
    BY <1>7, <2>2, <2>3
<1> QED
  BY <1>3, <1>5, <1>9, <1>10 DEF s, m, L

LEMMA CommitInv ==
    ASSUME Inv, merge_commit
    PROVE  Inv'
<1>1. /\ pc = "remove" /\ pc' = "idle" /\ sources = <<>>
      /\ UNCHANGED <<wal_file, seg_files, entries, next_sequence, next_segment_id, drained,
                     sources, writes, flushed, torn, failures>>
  BY DEF merge_commit, disk, history, budget
<1>2. /\ segments' \in Seq(SegId) /\ Distinct(segments')
      /\ ToSet(segments') = {Output} \cup (ToSet(segments) \ Merged)
  BY CommittedList
<1>3. Files' = Files /\ RecordsOf(Files)' = RecordsOf(Files) /\ Kept = Files
  BY <1>1, SameFiles, FileFacts DEF Inv, Kept
<1>4. StateOK'
  BY <1>1, <1>2 DEF Inv, StateOK
<1>5. RecordsInv' /\ PendingInv'
  BY <1>1, <1>3 DEF Inv, RecordsInv, PendingInv, AllRecords
<1>6. IdsInv'
  BY <1>1, <1>2, <1>3 DEF Inv, IdsInv, MergeInv
<1>7. MergeInv'
  BY <1>1 DEF MergeInv
<1>8. FilesInv'
  BY <1>1, SameFilesInv DEF Inv
<1> QED
  BY <1>4, <1>5, <1>6, <1>7, <1>8 DEF Inv

-----------------------------------------------------------------------------
(* The theorems.                                                           *)

LEMMA StutterInv ==
    ASSUME Inv, UNCHANGED vars
    PROVE  Inv'
<1>1. UNCHANGED <<wal_file, seg_files, pc, entries, next_sequence, segments, next_segment_id,
                  drained, sources, writes, flushed, torn, failures>>
  BY DEF vars, disk, memory, history, budget
<1>2. Files' = Files /\ RecordsOf(Files)' = RecordsOf(Files) /\ Kept' = Kept
  BY <1>1, SameFiles
<1>3. to_merge' = to_merge /\ Merged' = Merged /\ Output' = Output
  BY <1>1 DEF to_merge, merge_count, Merged, Output
<1>4. StateOK' /\ RecordsInv' /\ PendingInv'
  BY <1>1, <1>2 DEF Inv, StateOK, RecordsInv, PendingInv, AllRecords
<1>5. IdsInv' /\ MergeInv'
  BY <1>1, <1>2, <1>3 DEF Inv, IdsInv, MergeInv, Distinct
<1>6. FilesInv'
  BY <1>1, SameFilesInv DEF Inv
<1> QED
  BY <1>4, <1>5, <1>6 DEF Inv

\* The inductive invariant holds of every reachable state.
THEOREM InvHolds == Spec => []Inv
<1>1. Init => Inv
  BY InitInv
<1>2. ASSUME Inv, [Next]_vars PROVE Inv'
  BY <1>2, OpenInv, RetainInv, AppendInv, FlushInv, AppendEntriesInv, MergeStepInv,
     RemoveInv, CommitInv, IoErrorInv, CrashInv, StutterInv DEF Next
<1>3. Inv /\ [Next]_vars => Inv'
  BY <1>2
<1> QED
  BY <1>1, <1>3, PTL DEF Spec

\* A write that append_entries put into a segment is on disk, in one record,
\* through every merge, crash, failed call and replay of the WAL.
THEOREM FlushedExactlyOnceHolds == Spec => []FlushedExactlyOnce
<1>1. ASSUME Inv PROVE FlushedSurvives
  <2>1. WritesOf(Kept) \subseteq WritesOf(Files)
    BY DEF WritesOf, RecordsOf, Kept
  <2> QED
    BY <1>1, <2>1 DEF Inv, FilesInv, FlushedSurvives
<1>2. ASSUME Inv PROVE NothingTwice
  <2> SUFFICES ASSUME ~torn, pc # "remove", NEW i \in Files, NEW j \in Files,
                      NEW k \in 1 .. Len(seg_files[i]), NEW l \in 1 .. Len(seg_files[j]),
                      seg_files[i][k].write = seg_files[j][l].write
               PROVE  i = j /\ k = l
    BY DEF NothingTwice
  <2>1. Kept = Files
    BY <1>2, FileFacts DEF Inv, MergeInv, Kept
  <2>2. \A x \in Files : /\ Len(seg_files[x]) \in Nat
                         /\ DOMAIN seg_files[x] = 1 .. Len(seg_files[x])
    BY <1>2, FileFacts, LenProperties DEF Inv
  <2>3. seg_files[i][k] \in ToSet(seg_files[i]) /\ seg_files[j][l] \in ToSet(seg_files[j])
    BY <2>2 DEF ToSet
  <2>4. i = j
    BY <1>2, <2>1, <2>3 DEF Inv, FilesInv
  <2>5. ASSUME NEW a \in 1 .. Len(seg_files[i]), NEW b \in 1 .. Len(seg_files[i]), a < b
        PROVE  seg_files[i][a].write # seg_files[i][b].write
    <3>1. Pairwise(seg_files[i], Apart)
      BY <1>2, <2>1 DEF Inv, FilesInv
    <3>2. <<seg_files[i][a], seg_files[i][b]>> \in Apart
      BY <2>5, <3>1 DEF Pairwise
    <3> QED
      BY <3>2 DEF Apart
  <2>6. l \in 1 .. Len(seg_files[i]) /\ k \in Nat /\ l \in Nat
    BY <2>2, <2>4
  <2>7. ~(k < l) /\ ~(l < k)
    BY <2>4, <2>5, <2>6
  <2> QED
    BY <2>4, <2>6, <2>7
<1>3. Inv => FlushedExactlyOnce
  BY <1>1, <1>2 DEF FlushedExactlyOnce
<1> QED
  BY <1>3, InvHolds, PTL

\* What the next open reads is well formed: the records of the WAL are
\* numbered upwards, and the process lists the segments that are there.
THEOREM DiskSoundHolds == Spec => []DiskSound
<1>1. ASSUME Inv PROVE TypeOK
  <2>1. MaxWrites \in Nat /\ writes \in 0 .. MaxWrites /\ next_sequence \in 0 .. writes
    BY <1>1, StoreConstants DEF Inv, StateOK
  <2>2. next_sequence \in 0 .. MaxWrites
    BY <2>1
  <2> QED
    BY <1>1, <2>2 DEF Inv, StateOK, TypeOK
<1>2. ASSUME Inv PROVE WalReadable
  <2> SUFFICES ASSUME NEW k \in 1 .. Len(wal_file)
               PROVE  wal_file[k].sequence > (IF k = 1 THEN 0 ELSE wal_file[k - 1].sequence)
    BY DEF WalReadable
  <2>1. /\ wal_file \in Seq(Record) /\ Len(wal_file) \in Nat
        /\ \A j \in 1 .. Len(wal_file) : wal_file[j].sequence \in Nat \ {0}
    BY <1>2, FileFacts, LenProperties, ElementOfSeq DEF Inv, StateOK
  <2>2. CASE k # 1
    <3>1. k - 1 \in 1 .. Len(wal_file) /\ k - 1 < k
      BY <2>1, <2>2
    <3>2. <<wal_file[k - 1], wal_file[k]>> \in Earlier
      BY <1>2, <3>1 DEF Inv, RecordsInv, Pairwise
    <3>3. wal_file[k - 1].sequence < wal_file[k].sequence
      BY <3>2 DEF Earlier
    <3> QED
      BY <2>1, <2>2, <3>1, <3>3
  <2> QED
    BY <2>1, <2>2
<1>3. Inv => ListMatchesDisk
  BY DEF Inv, IdsInv, ListMatchesDisk
<1>4. Inv => DiskSound
  BY <1>1, <1>2, <1>3 DEF DiskSound
<1> QED
  BY <1>4, InvHolds, PTL

\* No file operation overwrites a segment.
LEMMA Immutable ==
    ASSUME Inv, Next
    PROVE  \A i \in Files : seg_files'[i] \in {seg_files[i], NoFile}
<1>1. seg_files \in [SegId -> Seq(Record) \cup {NoFile}] /\ Files \subseteq SegId
  BY FileFacts DEF Inv, StateOK
<1>2. ASSUME NEW n, NEW v, n \notin Files, seg_files' = [seg_files EXCEPT ![n] = v]
      PROVE  \A i \in Files : seg_files'[i] \in {seg_files[i], NoFile}
  BY <1>1, <1>2
<1>3. pc # "down" => next_segment_id \notin Files
  <2>1. pc # "down" => \A i \in Files : i < next_segment_id /\ i \in Nat
    BY FileFacts DEF Inv, IdsInv
  <2>2. next_segment_id \in Nat
    BY DEF Inv, StateOK
  <2> QED
    BY <2>1, <2>2
<1>4. CASE Open
  BY <1>2, <1>4, NextId DEF Open
<1>5. CASE append_entries
  BY <1>2, <1>3, <1>5 DEF append_entries
<1>6. CASE merge_oldest_segments
  BY <1>2, <1>3, <1>6 DEF merge_oldest_segments
<1>7. CASE remove_source
  BY <1>1, <1>7 DEF remove_source
<1>8. CASE UNCHANGED seg_files
  BY <1>8
<1> QED
  BY <1>4, <1>5, <1>6, <1>7, <1>8
     DEF Next, retain_entries_greater_than, append, flush_wal, merge_commit, IoError, Crash, disk

\* A flush that ends well has merged enough.
LEMMA Bounded ==
    ASSUME Inv, Next, pc \in {"append", "merge", "remove"}, pc' = "idle",
           failures' = failures, ~torn
    PROVE  Len(segments') <= Max({MergeThreshold, Max({KeepRecent, 1}) + 1})
<1> DEFINE keep == Max({KeepRecent, 1})
           bound == Max({MergeThreshold, keep + 1})
<1>1. /\ MergeThreshold \in Nat /\ KeepRecent \in Nat
      /\ keep = IF KeepRecent >= 1 THEN KeepRecent ELSE 1
  BY StoreConstants, MaxMinTwo
<1> HIDE DEF keep
<1>2. bound = IF MergeThreshold >= keep + 1 THEN MergeThreshold ELSE keep + 1
  <2>1. MergeThreshold \in Int /\ keep + 1 \in Int
    BY <1>1
  <2> QED
    BY <2>1, MaxMinTwo
<1> HIDE DEF bound
<1>3. /\ Len(segments) \in Nat /\ to_merge \in Nat
      /\ to_merge # 0 => /\ to_merge \in 1 .. (Len(segments) - 1)
                         /\ \/ Len(segments) - to_merge <= KeepRecent
                            \/ Len(segments) - to_merge <= 1
      /\ to_merge = 0 => Len(segments) <= 2 \/ Len(segments) <= KeepRecent + 1
  BY ToMerge DEF Inv
<1>4. CASE append_entries
  <2>1. segments' \in Seq(SegId)
    BY <1>4, AppendEntriesInv DEF Inv, StateOK
  <2>2. Len(segments') \in Nat
    BY <2>1, LenProperties
  <2>3. ~(Len(segments') > MergeThreshold)
    BY <1>4 DEF append_entries
  <2> QED
    BY <1>1, <1>2, <2>2, <2>3 DEF bound, keep
<1>5. CASE merge_oldest_segments
  <2>1. pc = "merge" /\ UNCHANGED segments /\ (to_merge = 0 \/ ~CanRead(to_merge))
    BY <1>5 DEF merge_oldest_segments
  <2>2. ToSet(segments) = Files
    BY <2>1 DEF Inv, IdsInv
  <2>3. to_merge = 0
    <3> SUFFICES ASSUME to_merge # 0 PROVE CanRead(to_merge)
      BY <2>1
    <3>1. DOMAIN segments = 1 .. Len(segments)
      BY LenProperties DEF Inv, StateOK
    <3>2. \A k \in 1 .. to_merge : k \in 1 .. Len(segments)
      BY <1>3
    <3> QED
      BY <2>2, <3>1, <3>2 DEF CanRead, ToSet
  <2>4. Len(segments) <= 2 \/ Len(segments) <= KeepRecent + 1
    BY <1>3, <2>3
  <2>5. Len(segments) <= bound
    BY <1>1, <1>2, <1>3, <2>4
  <2> QED
    BY <2>1, <2>5 DEF bound, keep
<1>6. CASE merge_commit
  <2>1. pc = "remove" /\ to_merge \in 1 .. (Len(segments) - 1)
    BY <1>6 DEF merge_commit, Inv, MergeInv
  <2>2. Len(segments') = 1 + (Len(segments) - to_merge)
    BY <1>6, CommittedList
  <2>3. Len(segments) - to_merge <= KeepRecent \/ Len(segments) - to_merge <= 1
    BY <1>3, <2>1
  <2>4. Len(segments') <= bound
    BY <1>1, <1>2, <1>3, <2>1, <2>2, <2>3
  <2> QED
    BY <2>4 DEF bound, keep
<1>7. CASE IoError
  BY <1>7 DEF IoError, Inv, StateOK
<1>8. CASE Crash \/ Open \/ retain_entries_greater_than \/ append \/ flush_wal \/ remove_source
  BY <1>8 DEF Crash, Open, retain_entries_greater_than, append, flush_wal, remove_source
<1> QED
  BY <1>4, <1>5, <1>6, <1>7, <1>8 DEF Next

\* Segment files are written once, and a flush without an error leaves no more
\* segments than flush_wal's merge policy allows.
THEOREM SegmentsManagedHolds == Spec => SegmentsManaged
<1>1. ASSUME Inv, [Next]_vars
      PROVE  [\A i \in Files : seg_files'[i] \in {seg_files[i], NoFile}]_vars
  BY <1>1, Immutable
<1>2. ASSUME Inv, [Next]_vars
      PROVE  [(/\ pc \in {"append", "merge", "remove"} /\ pc' = "idle"
               /\ failures' = failures /\ ~torn)
              => Len(segments') <= Max({MergeThreshold, Max({KeepRecent, 1}) + 1})]_vars
  BY <1>2, Bounded
<1>3. Spec => SegmentsImmutable
  BY <1>1, InvHolds, PTL DEF Spec, SegmentsImmutable
<1>4. Spec => PolicyBound
  BY <1>2, InvHolds, PTL DEF Spec, PolicyBound
<1> QED
  BY <1>3, <1>4 DEF SegmentsManaged
=============================================================================
