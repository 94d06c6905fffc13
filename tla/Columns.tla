------------------------------ MODULE Columns -------------------------------
(***************************************************************************)
(* What a segment keeps per document besides postings (document_index.rs): *)
(* the columns of sub-field values, a dictionary and one code per          *)
(* document, spilled to a file when the segment is sealed and streamed     *)
(* into a new one when segments are merged; and the field lengths,         *)
(* quantised to one byte (SmallFloat).                                     *)
(*                                                                         *)
(* The file is that of TermDictionary: cells, an offset, a byte or a code  *)
(* each, and calls that fail.  A value is a sequence of bytes, paths and   *)
(* fields are numbers.  A segment is a record of doc_count,                *)
(* subfield_values, subfield_segment and field_stats; the documents of an  *)
(* index follow one another, so a segment's base is the sum of the counts  *)
(* before it.                                                              *)
(***************************************************************************)
EXTENDS TermDictionary
LOCAL INSTANCE Integers
LOCAL INSTANCE Sequences
LOCAL INSTANCE SequencesExt
LOCAL INSTANCE FiniteSetsExt
LOCAL INSTANCE Functions
LOCAL INSTANCE TLC

Indices(s) == [k \in DOMAIN s |-> k]
DocBase(segments, k) == MapThenSumSet(LAMBDA j : segments[j].doc_count, 1 .. k - 1)

-----------------------------------------------------------------------------
(* One column.                                                             *)

ABSENT == Codec!MaxWord
\* dict[code] out of range.
Panic == <<-1>>

NoColumn == [dict |-> <<>>, codes |-> <<>>, intern_index |-> NoKeys, disk |-> None]

intern(column, value) ==
    IF value \in DOMAIN column.intern_index THEN column
    ELSE [column EXCEPT !.dict = Append(@, value), !.intern_index = @ @@ (value :> Len(column.dict))]

set(column, doc_id, value) ==
    LET c     == intern(column, value)
        codes == [i \in 1 .. Max({Len(c.codes), doc_id + 1}) |-> IF i \in DOMAIN c.codes THEN c.codes[i] ELSE ABSENT]
    IN  [c EXCEPT !.codes = [codes EXCEPT ![doc_id + 1] = c.intern_index[value]]]

get(column, doc_id) ==
    LET code == IF doc_id + 1 \in DOMAIN column.codes THEN column.codes[doc_id + 1] ELSE ABSENT
    IN  IF code = ABSENT THEN None ELSE Some(IF code + 1 \in DOMAIN column.dict THEN column.dict[code + 1] ELSE Panic)

\* iter: pairs of document and value.
Pairs(column) == {<<d, get(column, d)[1]>> : d \in {x \in 0 .. Len(column.codes) - 1 : get(column, x) # None}}

finalize(column) == [column EXCEPT !.intern_index = NoKeys]

DictCells(dict) ==
    [n \in 1 .. Len(dict) + 1 |-> <<"offset", Len(FlattenSeq(SubSeq(dict, 1, n - 1)))>>] \o ByteCells(FlattenSeq(dict))
CodeCells(codes) == [i \in DOMAIN codes |-> <<"code", codes[i]>>]

SubfieldColumnDisk(base, dict, codes_base, codes_len) ==
    [dict_offsets_base |-> base, dict_len |-> Len(dict), dict_bytes_base |-> base + Len(dict) + 1,
     dict_bytes_len |-> Len(FlattenSeq(dict)), codes_base |-> codes_base, codes_len |-> codes_len]

\* One append for the column; it stays in memory if that fails.
spill(column, store) ==
    LET header == DictCells(column.dict)
        r      == append(store, header \o CodeCells(column.codes))
    IN  IF column.disk # None \/ column.dict = <<>> THEN [spilled |-> FALSE, column |-> column, store |-> store]
        ELSE IF r.at = None THEN [spilled |-> FALSE, column |-> column, store |-> r.segment]
        ELSE [spilled |-> TRUE, store |-> r.segment,
              column |-> [column EXCEPT !.dict = <<>>, !.codes = <<>>,
                                        !.disk = Some(SubfieldColumnDisk(r.at[1], column.dict, r.at[1] + Len(header), Len(column.codes)))]]

read(store, offset, length) == Slice(store.cells, offset, offset + length)

read_spilled_dict(disk, store) ==
    LET offsets == read(store, disk.dict_offsets_base, disk.dict_len + 1)
        bytes   == read(store, disk.dict_bytes_base, disk.dict_bytes_len)
        entries == [n \in 1 .. disk.dict_len |-> Slice(bytes[1], offsets[1][n][2], offsets[1][n + 1][2])]
    IN  IF offsets = None \/ bytes = None THEN None
        ELSE IF \E n \in DOMAIN entries : entries[n] = None THEN None
        ELSE Some([n \in DOMAIN entries |-> [i \in DOMAIN entries[n][1] |-> entries[n][1][i][2]]])

read_spilled_codes(disk, store) ==
    LET cells == read(store, disk.codes_base, disk.codes_len)
    IN  IF cells = None THEN None ELSE Some([i \in DOMAIN cells[1] |-> cells[1][i][2]])

read_spilled(disk, store) ==
    LET dict  == read_spilled_dict(disk, store)
        codes == read_spilled_codes(disk, store)
    IN  IF dict = None \/ codes = None THEN None ELSE Some([NoColumn EXCEPT !.dict = dict[1], !.codes = codes[1]])

\* A column that cannot be read is empty.
materialized(column, store) ==
    IF column.disk = None THEN column
    ELSE IF store = None THEN NoColumn
    ELSE LET r == read_spilled(column.disk[1], store[1]) IN IF r = None THEN NoColumn ELSE r[1]

dict_only(column, store) ==
    IF column.disk = None THEN Some(column.dict) ELSE IF store = None THEN None ELSE read_spilled_dict(column.disk[1], store[1])
codes_only(column, store) ==
    IF column.disk = None THEN Some(column.codes) ELSE IF store = None THEN None ELSE read_spilled_codes(column.disk[1], store[1])

-----------------------------------------------------------------------------
(* Sealing and merging.                                                    *)

\* Columns spilled one after another while there is a file.
SpillAll(columns, store) ==
    LET step(a, p) == LET r == spill(finalize(a.columns[p]), a.store[1])
                      IN  IF a.store = None THEN [a EXCEPT !.columns[p] = finalize(@)]
                          ELSE [columns |-> [a.columns EXCEPT ![p] = r.column], store |-> Some(r.store), any |-> a.any \/ r.spilled]
    IN  FoldLeft(step, [columns |-> columns, store |-> store, any |-> FALSE], Numbers(DOMAIN columns))

\* Mutant: sealed again, a segment takes a new file.
SpillsAgain(segment, disk_enabled) ==
    disk_enabled /\ \E p \in DOMAIN segment.subfield_values :
                        segment.subfield_values[p].disk = None /\ segment.subfield_values[p].dict # <<>>

\* A segment that has a file keeps it: the columns in it know their places.
needs_spill(segment, disk_enabled) ==
    /\ disk_enabled /\ segment.subfield_segment = None
    /\ \E p \in DOMAIN segment.subfield_values : segment.subfield_values[p].disk = None /\ segment.subfield_values[p].dict # <<>>

seal_subfield_columns(segment, disk_enabled, faults) ==
    LET r == SpillAll(segment.subfield_values, IF needs_spill(segment, disk_enabled) THEN try_new(faults) ELSE None)
    IN  [segment EXCEPT !.subfield_values = r.columns, !.subfield_segment = IF r.any THEN r.store ELSE @]

merge_subfield_column_resident(run, path) ==
    LET of(k) == IF path \in DOMAIN run[k].subfield_values
                 THEN materialized(run[k].subfield_values[path], run[k].subfield_segment) ELSE NoColumn
        docs == FlattenSeq([k \in DOMAIN run |-> [d \in 1 .. run[k].doc_count |-> <<k, d - 1>>]])
        step(column, kd) == LET v == get(of(kd[1]), kd[2])
                            IN  IF v = None THEN column ELSE set(column, DocBase(run, kd[1]) + kd[2], v[1])
    IN  FoldLeft(step, NoColumn, docs)

\* Mutant: the codes are kept as they are.
KeepSourceCodes(source_codes, doc_count, remap) ==
    [local \in 1 .. doc_count |-> IF local \in DOMAIN source_codes THEN source_codes[local] ELSE ABSENT]

translate_source_codes(source_codes, doc_count, remap) ==
    LET code(local) == IF local \in DOMAIN source_codes THEN source_codes[local] ELSE ABSENT
    IN  [local \in 1 .. doc_count |->
            IF code(local) = ABSENT \/ code(local) + 1 \notin DOMAIN remap THEN ABSENT ELSE remap[code(local) + 1]]

write_subfield_dict_header(dict, store) == append(store, DictCells(dict))
append_codes_chunk(codes, store) == append(store, CodeCells(codes))

\* First the dictionaries of all sources, then their codes, one append each;
\* no column if anything fails, and what was written is left in the file.
merge_subfield_column_streamed(run, path, store) ==
    LET has(k)   == path \in DOMAIN run[k].subfield_values
        dicts    == [k \in DOMAIN run |-> IF has(k) THEN dict_only(run[k].subfield_values[path], run[k].subfield_segment) ELSE Some(<<>>)]
        merged   == FoldLeft(intern, NoColumn, FlattenSeq([k \in DOMAIN run |-> dicts[k][1]]))
        remap(k) == [n \in DOMAIN dicts[k][1] |-> merged.intern_index[dicts[k][1][n]]]
        header   == write_subfield_dict_header(merged.dict, store)
        codes(k) == IF has(k) THEN codes_only(run[k].subfield_values[path], run[k].subfield_segment) ELSE Some(<<>>)
        step(a, k) ==
            LET r == append_codes_chunk(translate_source_codes(codes(k)[1], run[k].doc_count, remap(k)), a.store)
            IN  IF ~a.ok THEN a ELSE IF codes(k) = None THEN [a EXCEPT !.ok = FALSE]
                ELSE [ok |-> r.at # None, store |-> r.segment, bases |-> a.bases \o r.at]
        chunks   == FoldLeft(step, [ok |-> TRUE, store |-> header.segment, bases |-> <<>>], Indices(run))
    IN  IF (\E k \in DOMAIN run : dicts[k] = None) \/ merged.dict = <<>> THEN [column |-> None, store |-> store]
        ELSE IF header.at = None THEN [column |-> None, store |-> header.segment]
        ELSE IF ~chunks.ok THEN [column |-> None, store |-> chunks.store]
        ELSE [column |-> Some([NoColumn EXCEPT !.disk =
                             Some(SubfieldColumnDisk(header.at[1], merged.dict, chunks.bases[1], DocBase(run, Len(run) + 1)))]),
              store |-> chunks.store]

\* What could not be streamed is merged in memory and spilled at the end.
merge_subfield_values(run, disk_enabled, faults) ==
    LET paths == Numbers(UNION {DOMAIN run[k].subfield_values : k \in DOMAIN run})
        step(a, p) == LET s == merge_subfield_column_streamed(run, p, a.store[1])
                          resident == p :> merge_subfield_column_resident(run, p)
                      IN  IF a.store = None THEN [a EXCEPT !.columns = @ @@ resident]
                          ELSE [columns |-> a.columns @@ (IF s.column = None THEN resident ELSE p :> s.column[1]), store |-> Some(s.store)]
        merged == FoldLeft(step, [columns |-> NoKeys, store |-> IF disk_enabled THEN try_new(faults) ELSE None], paths)
        r      == SpillAll(merged.columns, merged.store)
    IN  [subfield_values |-> r.columns,
         subfield_segment |-> IF \E p \in DOMAIN r.columns : r.columns[p].disk # None THEN r.store ELSE None]

subfield_projection(segments, path) ==
    LET with == {k \in DOMAIN segments : path \in DOMAIN segments[k].subfield_values}
        of(k) == Pairs(materialized(segments[k].subfield_values[path], segments[k].subfield_segment))
    IN  IF with = {} THEN None ELSE Some(UNION {{<<DocBase(segments, k) + dv[1], dv[2]>> : dv \in of(k)} : k \in with})

subfield_value(segments, path, doc_id) ==
    LET k == IF Len(segments) = 1 THEN 1 ELSE Max({x \in DOMAIN segments : DocBase(segments, x) <= doc_id})
    IN  IF path \notin DOMAIN segments[k].subfield_values THEN None
        ELSE get(materialized(segments[k].subfield_values[path], segments[k].subfield_segment), doc_id - DocBase(segments, k))

-----------------------------------------------------------------------------
(* Field lengths.                                                          *)

NUM_FREE_VALUES == 24

long_to_int4(value) ==
    LET num_bits == Min({n \in 0 .. 30 : value < 2 ^ n})
        shift    == num_bits - 4
    IN  IF num_bits < 4 THEN value ELSE ((value \div (2 ^ shift)) % 8) + 8 * (shift + 1)
int4_to_long(encoded) == IF encoded \div 8 = 0 THEN encoded % 8 ELSE ((encoded % 8) + 8) * 2 ^ (encoded \div 8 - 1)

int_to_byte4(value) == IF value < NUM_FREE_VALUES THEN value ELSE NUM_FREE_VALUES + long_to_int4(value - NUM_FREE_VALUES)
byte4_to_int(byte) == IF byte < NUM_FREE_VALUES THEN byte ELSE NUM_FREE_VALUES + int4_to_long(byte - NUM_FREE_VALUES)

NoStats == [doc_count |-> 0, total_terms |-> 0, doc_len_dense |-> <<>>, min_doc_len |-> 0]

\* The smallest of some lengths, 0 if there is none.
LeastOf(S) == IF S \ {0} = {} THEN 0 ELSE Min(S \ {0})

\* A second length of a document replaces the first, as far as its byte tells.
record_doc_len(stats, doc_id, doc_len, norms_enabled) ==
    LET idx   == doc_id + 1
        dense == [i \in 1 .. Max({Len(stats.doc_len_dense), idx}) |-> IF i \in DOMAIN stats.doc_len_dense THEN stats.doc_len_dense[i] ELSE 0]
        new   == [dense EXCEPT ![idx] = int_to_byte4(doc_len)]
        previous      == byte4_to_int(dense[idx])
        reconstructed == byte4_to_int(new[idx])
    IN  IF doc_len = 0 THEN stats
        ELSE IF ~norms_enabled THEN [stats EXCEPT !.doc_count = @ + 1]
        ELSE [doc_count     |-> stats.doc_count + (IF dense[idx] = 0 THEN 1 ELSE 0),
              total_terms   |-> Max({stats.total_terms - previous, 0}) + doc_len,
              doc_len_dense |-> new,
              min_doc_len   |-> IF stats.min_doc_len = 0 \/ reconstructed < stats.min_doc_len THEN reconstructed
                                ELSE IF previous = stats.min_doc_len /\ reconstructed > previous
                                THEN LeastOf({byte4_to_int(new[i]) : i \in DOMAIN new})
                                ELSE stats.min_doc_len]

doc_len_of(stats, doc_id) == IF doc_id + 1 \in DOMAIN stats.doc_len_dense THEN byte4_to_int(stats.doc_len_dense[doc_id + 1]) ELSE 0

\* The sums and the least length over the segments that have the field.
field_stats_aggregated(segments, field) ==
    LET with == {k \in DOMAIN segments : field \in DOMAIN segments[k].field_stats}
    IN  IF with = {} THEN None
        ELSE Some([doc_count   |-> MapThenSumSet(LAMBDA k : segments[k].field_stats[field].doc_count, with),
                   total_terms |-> MapThenSumSet(LAMBDA k : segments[k].field_stats[field].total_terms, with),
                   min_doc_len |-> LeastOf({segments[k].field_stats[field].min_doc_len : k \in with})])

\* Mutant: the bytes of a source are not filled up.
UnpaddedLengths(segment, field) ==
    IF field \in DOMAIN segment.field_stats THEN segment.field_stats[field].doc_len_dense ELSE [i \in 1 .. segment.doc_count |-> 0]

\* The bytes of a source, one for every document.
PaddedLengths(segment, field) ==
    LET own == IF field \in DOMAIN segment.field_stats THEN segment.field_stats[field].doc_len_dense ELSE <<>>
    IN  [i \in 1 .. segment.doc_count |-> IF i \in DOMAIN own THEN own[i] ELSE 0]

merge_field_stats(run) ==
    [field \in UNION {DOMAIN run[k].field_stats : k \in DOMAIN run} |->
        field_stats_aggregated(run, field)[1]
        @@ [doc_len_dense |-> FlattenSeq([k \in DOMAIN run |-> PaddedLengths(run[k], field)])]]

-----------------------------------------------------------------------------
(* Whole segments.                                                         *)

\* merge_analyzed: values are <<path, document, value>> and lengths <<field,
\* document, length, norms>>, in the order in which documents are added.
Written(doc_count, values, lengths) ==
    LET column(a, x) == (x[1] :> set(IF x[1] \in DOMAIN a THEN a[x[1]] ELSE NoColumn, x[2], x[3])) @@ a
        stats(a, x)  == (x[1] :> record_doc_len(IF x[1] \in DOMAIN a THEN a[x[1]] ELSE NoStats, x[2], x[3], x[4])) @@ a
    IN  [doc_count |-> doc_count, subfield_segment |-> None,
         subfield_values |-> FoldLeft(column, NoKeys, values), field_stats |-> FoldLeft(stats, NoKeys, lengths)]

merge_segments_run(run, disk_enabled, faults) ==
    [doc_count |-> DocBase(run, Len(run) + 1), field_stats |-> merge_field_stats(run)]
    @@ merge_subfield_values(run, disk_enabled, faults)
=============================================================================
