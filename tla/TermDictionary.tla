--------------------------- MODULE TermDictionary ---------------------------
(***************************************************************************)
(* The term dictionary of a segment and the file its postings live in      *)
(* (postings.rs): building it from what was added, merging dictionaries,   *)
(* the readers that lose an error and the ones that report it, and the     *)
(* digests (P2) that attest the metadata in the file.  With the disk flag  *)
(* the file is the only copy of the postings; without it the file is a     *)
(* shadow of the flat arrays in memory.                                    *)
(*                                                                         *)
(* The file is a sequence of cells.  A payload byte and a directory entry  *)
(* take one cell, the entry of a term takes two, so that an entry can lie  *)
(* on two pages.  Positions count from 0.  Fields and terms are numbers in *)
(* the order of their names.  A digest is the tuple it is computed from:   *)
(* two different inputs never collide.                                     *)
(*                                                                         *)
(* faults holds the calls of the file system that fail: 0 the creation of  *)
(* the file, n its n-th append; calls is what the appends were given.      *)
(***************************************************************************)
EXTENDS JsonValue
LOCAL INSTANCE Integers
LOCAL INSTANCE Sequences
LOCAL INSTANCE SequencesExt
LOCAL INSTANCE FiniteSetsExt
LOCAL INSTANCE Functions

CONSTANTS GroupBits, WordBits, ForBlockSize,
          P2_INTEGRITY_PAGE_LEN     \* cells of a page

Codec == INSTANCE PostingsCodec

Numbers(S) == SetToSortSeq(S, <)

\* SubSeq of an array: slice.get(start .. end).
Slice(s, start, end) == IF start <= end /\ end <= Len(s) THEN Some(SubSeq(s, start + 1, end)) ELSE None

-----------------------------------------------------------------------------
(* The file.                                                               *)

try_new(faults) == IF 0 \in faults THEN None ELSE Some([cells |-> <<>>, next_offset |-> 0, calls |-> <<>>, faults |-> faults])

append(segment, cells) ==
    LET called == [segment EXCEPT !.calls = Append(@, cells)]
    IN  IF Len(called.calls) \in segment.faults THEN [at |-> None, segment |-> called]
        ELSE [at |-> Some(segment.next_offset),
              segment |-> [called EXCEPT !.cells = @ \o cells, !.next_offset = @ + Len(cells)]]

contains_range(segment, offset, length) == offset + length <= segment.next_offset

\* The file may have become shorter than what was appended.  read, the form
\* that loses the error, is asked for nothing but what was appended.
read_checked(segment, offset, length) ==
    IF contains_range(segment, offset, length) THEN Slice(segment.cells, offset, offset + length) ELSE None

ByteCells(bytes) == [i \in DOMAIN bytes |-> <<"byte", bytes[i]>>]
\* Cells of another kind are no payload.
BytesOf(cells) == IF \A i \in DOMAIN cells : cells[i][1] = "byte" THEN [i \in DOMAIN cells |-> cells[i][2]] ELSE <<>>

BLOCK_DIR_ENTRY_ENCODED_LEN == 1
encode_block_dir_entry(e) == <<<<"directory", e.offset, e.count, e.max_doc_id>>>>
decode_block_dir_entries(cells) == [i \in DOMAIN cells |-> [offset |-> cells[i][2], count |-> cells[i][3], max_doc_id |-> cells[i][4]]]

TERM_ENTRY_ENCODED_LEN == 2
encode_term_entry(e) == <<<<"postings", e.postings_offset, e.postings_len, e.postings_count>>, <<"blocks", e.block_dir_offset, e.block_dir_count>>>>
decode_term_entry(cells) ==
    [postings_offset |-> cells[1][2], postings_len |-> cells[1][3], postings_count |-> cells[1][4],
     block_dir_offset |-> cells[2][2], block_dir_count |-> cells[2][3]]

-----------------------------------------------------------------------------
(* The digests of the metadata.                                            *)

P2_INTEGRITY_DIGEST_LEN == 1
P2VerifiedRegionLen == 1

IntegrityBytes(digests, fields) == digests * P2_INTEGRITY_DIGEST_LEN + fields * 2 * P2VerifiedRegionLen

with_max_bytes(max) == [max_bytes |-> max, digests |-> <<>>, protected_fields |-> 0, fallback_fields |-> 0]

p2_digest_count(len) == (len + P2_INTEGRITY_PAGE_LEN - 1) \div P2_INTEGRITY_PAGE_LEN

can_publish(p2, directory_len, entries_len) ==
    IntegrityBytes(Len(p2.digests) + p2_digest_count(directory_len) + p2_digest_count(entries_len), p2.protected_fields + 1) <= p2.max_bytes

p2_digest_page(region, page_index, page) == <<region.kind, region.field_ordinal, region.data_base, region.data_len, page_index, page>>

\* The cells of page p (from 0) of a region.
PageEnd(region, p) == Min({(p + 1) * P2_INTEGRITY_PAGE_LEN, region.data_len})

p2_digest_region(kind, field_ordinal, data_base, data, digest_start) ==
    LET region == [kind |-> kind, field_ordinal |-> field_ordinal, data_base |-> data_base, data_len |-> Len(data),
                   digest_start |-> digest_start, digest_count |-> p2_digest_count(Len(data))]
    IN  [region |-> region,
         digests |-> [p \in 1 .. region.digest_count |->
                         p2_digest_page(region, p - 1, SubSeq(data, (p - 1) * P2_INTEGRITY_PAGE_LEN + 1, PageEnd(region, p - 1)))]]

\* The builder with the digests of the field, unless they exceed its bytes.
publish(p2, directory, entries) ==
    LET digests == p2.digests \o directory.digests \o entries.digests
    IN  IF IntegrityBytes(Len(digests), p2.protected_fields + 1) > p2.max_bytes THEN None
        ELSE Some([p2 EXCEPT !.digests = digests, !.protected_fields = @ + 1])

\* Mutant: only the first page is compared.
ReadAfterFirstPage(segment, region, digests, base, len) ==
    LET p     == (base - region.data_base) \div P2_INTEGRITY_PAGE_LEN
        cells == read_checked(segment, region.data_base + p * P2_INTEGRITY_PAGE_LEN, PageEnd(region, p) - p * P2_INTEGRITY_PAGE_LEN)
        range == read_checked(segment, base, len)
    IN  IF len = 0 \/ base < region.data_base \/ base + len > region.data_base + region.data_len THEN Err("Corrupt")
        ELSE IF cells = None \/ range = None THEN Err("Corrupt")
        ELSE IF p2_digest_page(region, p, cells[1]) # digests[region.digest_start + p + 1] THEN Err("Corrupt")
        ELSE Ok(range[1])

\* Cells are handed out only after every page they lie on was found unchanged.
read_verified_range(segment, region, digests, base, len) ==
    LET start == base - region.data_base
        first == start \div P2_INTEGRITY_PAGE_LEN
        last  == (start + len - 1) \div P2_INTEGRITY_PAGE_LEN
        from  == first * P2_INTEGRITY_PAGE_LEN
        cells == read_checked(segment, region.data_base + from, PageEnd(region, last) - from)
        page(p) == SubSeq(cells[1], p * P2_INTEGRITY_PAGE_LEN - from + 1, PageEnd(region, p) - from)
    IN  IF len = 0 \/ base < region.data_base \/ base + len > region.data_base + region.data_len THEN Err("Corrupt")
        ELSE IF cells = None THEN Err("Corrupt")
        ELSE IF \E p \in first .. last : p2_digest_page(region, p, page(p)) # digests[region.digest_start + p + 1] THEN Err("Corrupt")
        ELSE Ok(SubSeq(cells[1], start - from + 1, start - from + len))

-----------------------------------------------------------------------------
(* The metadata of a field: in the file, or kept in memory.                *)

keep_term_directory_resident(channels, disk_enabled, segment, p2) ==
    [tables  |-> [channels |-> channels, term_entries_directory |-> None, p2_integrity |-> None],
     segment |-> segment,
     p2      |-> IF disk_enabled /\ channels.segment_descriptors # <<>> THEN [p2 EXCEPT !.fallback_fields = @ + 1] ELSE p2]

NoChannels == [segment_descriptors |-> <<>>, offsets |-> <<>>, block_offsets |-> <<>>, block_directory |-> <<>>, block_dir_offsets |-> <<>>]

TermEntryOf(channels, block_dir_base, i) ==
    [postings_offset  |-> channels.segment_descriptors[i][1],
     postings_len     |-> channels.segment_descriptors[i][2],
     postings_count   |-> channels.offsets[i + 1] - channels.offsets[i],
     block_dir_offset |-> block_dir_base + channels.block_dir_offsets[i] * BLOCK_DIR_ENTRY_ENCODED_LEN,
     block_dir_count  |-> channels.block_dir_offsets[i + 1] - channels.block_dir_offsets[i]]

\* Two appends and the digests of both regions, all or nothing: whatever
\* fails, the field keeps its tables in memory and the file stays in use.
persist_or_keep_term_directory(channels, disk_enabled, segment, field_ordinal, p2) ==
    LET resident(s) == keep_term_directory_resident(channels, disk_enabled, s, p2)
        directory == FlattenSeq([i \in DOMAIN channels.block_directory |-> encode_block_dir_entry(channels.block_directory[i])])
        d         == append(segment[1], directory)
        entries   == FlattenSeq([i \in DOMAIN channels.segment_descriptors |-> encode_term_entry(TermEntryOf(channels, d.at[1], i))])
        e         == append(d.segment, entries)
        dRegion   == p2_digest_region("Directory", field_ordinal, d.at[1], directory, Len(p2.digests))
        eRegion   == p2_digest_region("Entries", field_ordinal, e.at[1], entries, Len(p2.digests) + Len(dRegion.digests))
        published == publish(p2, dRegion, eRegion)
    IN  IF ~disk_enabled \/ channels.segment_descriptors = <<>> \/ segment = None THEN resident(segment)
        ELSE IF d.at = None \/ ~can_publish(p2, Len(directory), Len(entries)) THEN resident(Some(d.segment))
        ELSE IF e.at = None \/ published = None THEN resident(Some(e.segment))
        ELSE [tables  |-> [channels |-> NoChannels,
                           term_entries_directory |-> Some(<<e.at[1], Len(channels.segment_descriptors)>>),
                           p2_integrity |-> Some([entries |-> eRegion.region, directory |-> dRegion.region])],
              segment |-> Some(e.segment),
              p2      |-> published[1]]

-----------------------------------------------------------------------------
(* One field.                                                              *)

build_block_metas(freqs) == [b \in 1 .. Codec!NumChunks(Len(freqs)) |-> Max(ToSet(Codec!Chunk(freqs, b)))]

NewField(disk_enabled) ==
    [disk_enabled |-> disk_enabled, terms |-> <<>>,
     doc_ids_flat |-> <<>>, freqs_flat |-> <<>>, postings_counts |-> <<>>, block_metas_flat |-> <<>>,
     offsets |-> <<0>>, block_offsets |-> IF disk_enabled THEN <<>> ELSE <<0>>,
     segment_descriptors |-> <<>>, field_payload |-> <<>>,
     block_directory |-> <<>>, block_dir_offsets |-> IF disk_enabled THEN <<0>> ELSE <<>>,
     postings_skipped_terms |-> 0]

\* The payload of a term goes behind those of the terms before it; a list that
\* is not increasing has none.
encode_and_store(acc, doc_ids, freqs) ==
    LET encoded == Codec!encode_postings_blocked(doc_ids, freqs)
    IN  IF ~Codec!validate_strictly_increasing(doc_ids)
        THEN [acc EXCEPT !.segment_descriptors = Append(@, <<0, 0>>), !.postings_skipped_terms = @ + 1]
        ELSE [acc EXCEPT !.segment_descriptors = Append(@, <<Len(acc.field_payload), Len(encoded.payload)>>),
                         !.field_payload = @ \o encoded.payload,
                         !.block_directory = @ \o (IF acc.disk_enabled THEN encoded.directory ELSE <<>>)]

push_term(acc, term, doc_ids, freqs) ==
    LET a == [encode_and_store(acc, doc_ids, freqs) EXCEPT !.terms = Append(@, term), !.offsets = Append(@, Last(@) + Len(doc_ids))]
        metas == build_block_metas(freqs)
    IN  IF acc.disk_enabled THEN [a EXCEPT !.block_dir_offsets = Append(@, Len(a.block_directory))]
        ELSE [a EXCEPT !.postings_counts = Append(@, Len(doc_ids)),
                       !.doc_ids_flat = @ \o doc_ids,
                       !.freqs_flat = @ \o freqs,
                       !.block_metas_flat = @ \o metas,
                       !.block_offsets = Append(@, Len(acc.block_metas_flat) + Len(metas))]

\* Mutant: a failed append leaves the descriptors and the file.
FlushKeepsDescriptors(acc, segment) ==
    LET r == append(segment[1], ByteCells(acc.field_payload))
    IN  IF acc.field_payload = <<>> \/ segment = None THEN [acc |-> acc, segment |-> segment]
        ELSE [acc |-> [acc EXCEPT !.segment_descriptors =
                           [i \in DOMAIN @ |-> IF @[i][2] = 0 THEN @[i] ELSE <<@[i][1] + (IF r.at = None THEN 0 ELSE r.at[1]), @[i][2]>>]],
              segment |-> Some(r.segment)]

\* One append for the payloads of the field.  If it fails, no term of the field
\* is covered and the file is given up.
flush_payload(acc, segment) ==
    LET r == append(segment[1], ByteCells(acc.field_payload))
        uncovered == [acc EXCEPT !.segment_descriptors = [i \in DOMAIN @ |-> <<0, 0>>]]
    IN  IF acc.field_payload = <<>> \/ segment = None THEN [acc |-> uncovered, segment |-> segment]
        ELSE IF r.at = None THEN [acc |-> uncovered, segment |-> None]
        ELSE [acc |-> [acc EXCEPT !.segment_descriptors = [i \in DOMAIN @ |-> IF @[i][2] = 0 THEN @[i] ELSE <<@[i][1] + r.at[1], @[i][2]>>]],
              segment |-> Some(r.segment)]

finish(acc, segment, field_ordinal, p2) ==
    LET f == flush_payload(acc, segment)
        channels == [c \in DOMAIN NoChannels |-> f.acc[c]]
        r == persist_or_keep_term_directory(channels, acc.disk_enabled, f.segment, field_ordinal, p2)
    IN  [field |-> r.tables @@ [terms |-> acc.terms, doc_ids_flat |-> acc.doc_ids_flat, freqs_flat |-> acc.freqs_flat,
                                postings_counts |-> acc.postings_counts, block_metas_flat |-> acc.block_metas_flat],
         segment |-> r.segment, p2 |-> r.p2, skipped |-> acc.postings_skipped_terms]

-----------------------------------------------------------------------------
(* Building and merging dictionaries.  What was added is a sequence of     *)
(* records: field, term, doc_id and the number of positions.               *)

freq_from_positions(positions) == IF positions = 0 THEN 1 ELSE positions

\* The postings of a term sorted by document, and runs of one document summed.
dedup_merge_postings(ps) ==
    FoldLeft(LAMBDA a, p :
                 IF a # <<>> /\ Last(a)[1] = p[1]
                 THEN [a EXCEPT ![Len(a)] = <<p[1], Min({Last(a)[2] + p[2], Codec!MaxWord})>>]
                 ELSE Append(a, p), <<>>, ps)

SortedByDoc(added, f, t) ==
    LET own    == {i \in DOMAIN added : added[i].field = f /\ added[i].term = t}
        sorted == SetToSortSeq(own, LAMBDA i, j : added[i].doc_id < added[j].doc_id \/ (added[i].doc_id = added[j].doc_id /\ i < j))
    IN  [k \in DOMAIN sorted |-> <<added[sorted[k]].doc_id, freq_from_positions(added[sorted[k]].positions)>>]

\* The fields one after another into one file: postings(f, t) are the ids and
\* the frequencies of a term.
Dictionary(fields, terms(_), postings(_, _), disk_enabled, max_bytes, faults) ==
    LET step(a, i) ==
            LET f == fields[i]
                acc == FoldLeft(LAMBDA x, t : LET p == postings(f, t) IN push_term(x, t, p[1], p[2]), NewField(disk_enabled), terms(f))
                r == finish(acc, a.postings_segment, i - 1, a.p2)
            IN  [fields |-> a.fields @@ [x \in {f} |-> r.field], postings_segment |-> r.segment, p2 |-> r.p2, skipped |-> a.skipped + r.skipped]
        empty == [fields |-> [x \in {} |-> NoKeys], postings_segment |-> try_new(faults), p2 |-> with_max_bytes(max_bytes), skipped |-> 0]
        built == FoldLeft(step, empty, [i \in DOMAIN fields |-> i])
    IN  [fields |-> built.fields, postings_segment |-> built.postings_segment, disk_enabled |-> disk_enabled,
         p2_integrity |-> built.p2, postings_skipped_terms |-> built.skipped]

build_with_disk_flag_and_p2_integrity_limit(added, disk_enabled, max_bytes, faults) ==
    Dictionary(Numbers({added[i].field : i \in DOMAIN added}),
               LAMBDA f : Numbers({added[i].term : i \in {j \in DOMAIN added : added[j].field = f}}),
               LAMBDA f, t : LET ps == dedup_merge_postings(SortedByDoc(added, f, t))
                             IN  <<[k \in DOMAIN ps |-> ps[k][1]], [k \in DOMAIN ps |-> ps[k][2]]>>,
               disk_enabled, max_bytes, faults)

-----------------------------------------------------------------------------
(* The entry of a term, from memory or from the file.                      *)

IndexOf(field, t) == CHOOSE i \in DOMAIN field.terms : field.terms[i] = t
HasTerm(dict, f, t) == f \in DOMAIN dict.fields /\ \E i \in DOMAIN dict.fields[f].terms : dict.fields[f].terms[i] = t

MAX_POSTINGS_PER_PAYLOAD_BYTE == 8

validate(entry) ==
    IF entry.postings_len = 0 THEN (IF entry.postings_offset = 0 THEN Err("MissingCoverage") ELSE Err("Corrupt"))
    ELSE IF \/ entry.postings_count = 0
            \/ (entry.postings_count + MAX_POSTINGS_PER_PAYLOAD_BYTE - 1) \div MAX_POSTINGS_PER_PAYLOAD_BYTE > entry.postings_len
    THEN Err("Corrupt") ELSE Ok(entry)

\* In memory without the disk flag there is no directory of blocks.
ResidentEntry(channels, i) ==
    LET blocks == IF i + 1 \in DOMAIN channels.block_dir_offsets
                  THEN <<channels.block_dir_offsets[i], channels.block_dir_offsets[i + 1] - channels.block_dir_offsets[i]>> ELSE <<0, 0>>
    IN  [postings_offset |-> channels.segment_descriptors[i][1], postings_len |-> channels.segment_descriptors[i][2],
         postings_count |-> channels.offsets[i + 1] - channels.offsets[i], block_dir_offset |-> blocks[1], block_dir_count |-> blocks[2]]

term_entry_checked(field, i, segment) ==
    IF field.term_entries_directory = None THEN Ok(ResidentEntry(field.channels, i))
    ELSE IF segment = None THEN Err("MissingCoverage")
    ELSE LET cells == read_checked(segment[1], field.term_entries_directory[1][1] + (i - 1) * TERM_ENTRY_ENCODED_LEN, TERM_ENTRY_ENCODED_LEN)
         IN  IF cells = None THEN Err("Io") ELSE Ok(decode_term_entry(cells[1]))

\* The same without the reason.
term_entry(field, i, segment) == LET r == term_entry_checked(field, i, segment) IN IF IsOk(r) THEN Some(r.ok) ELSE None

block_directory_entries_checked(field, entry, segment) ==
    IF entry.block_dir_count = 0 THEN Ok(None)
    ELSE IF field.term_entries_directory # None
    THEN LET cells == read_checked(segment[1], entry.block_dir_offset, entry.block_dir_count * BLOCK_DIR_ENTRY_ENCODED_LEN)
         IN  IF cells = None THEN Err("Io") ELSE Ok(Some(decode_block_dir_entries(cells[1])))
    ELSE LET own == Slice(field.channels.block_directory, entry.block_dir_offset, entry.block_dir_offset + entry.block_dir_count)
         IN  IF own = None THEN Err("Corrupt") ELSE Ok(own)

block_directory_entries(field, entry, segment) ==
    LET r == block_directory_entries_checked(field, entry, segment) IN IF IsOk(r) THEN r.ok ELSE None

term_entry_p2_verified(field, i, segment, digests) ==
    IF field.p2_integrity = None THEN Err("MissingCoverage")
    ELSE LET region == field.p2_integrity[1].entries
             r == read_verified_range(segment, region, digests, region.data_base + (i - 1) * TERM_ENTRY_ENCODED_LEN, TERM_ENTRY_ENCODED_LEN)
         IN  IF IsOk(r) THEN Ok(decode_term_entry(r.ok)) ELSE r

block_directory_p2_verified(field, entry, expected_blocks, segment, digests) ==
    IF field.p2_integrity = None THEN Err("MissingCoverage")
    ELSE IF entry.block_dir_count # expected_blocks THEN Err("Corrupt")
    ELSE LET r == read_verified_range(segment, field.p2_integrity[1].directory, digests, entry.block_dir_offset,
                                      entry.block_dir_count * BLOCK_DIR_ENTRY_ENCODED_LEN)
         IN  IF IsOk(r) THEN Ok(decode_block_dir_entries(r.ok)) ELSE r

p2_directory_has_expected_shape(directory, total_count, payload_len) ==
    /\ total_count > 0 /\ Len(directory) = Codec!NumChunks(total_count)
    /\ directory[1].offset = 0 /\ Last(directory).offset < payload_len
    /\ \A b \in DOMAIN directory : directory[b].count = Min({ForBlockSize, total_count - (b - 1) * ForBlockSize})
    /\ \A b \in 1 .. Len(directory) - 1 : directory[b].offset < directory[b + 1].offset /\ directory[b].max_doc_id < directory[b + 1].max_doc_id

-----------------------------------------------------------------------------
(* Whole lists.  Postings are a pair: doc ids and frequencies.             *)

decode_postings_payload_checked(cells, count) ==
    LET bytes == BytesOf(cells)
        r     == Codec!decode_postings_blocked(bytes, count)
    IN  IF ~r.ok \/ ~Codec!validate_strictly_increasing(r.docs) THEN Err("Corrupt")
        ELSE IF Codec!encode_postings_blocked(r.docs, r.freqs).payload # bytes THEN Err("Corrupt")
        ELSE Ok(<<r.docs, r.freqs>>)

\* The payload an entry names, decoded and encoded again.
checked_payload(segment, entry) ==
    IF ~IsOk(validate(entry)) THEN validate(entry)
    ELSE IF segment = None THEN Err("MissingCoverage")
    ELSE LET cells == read_checked(segment[1], entry.postings_offset, entry.postings_len)
         IN  IF cells = None THEN Err("Io") ELSE decode_postings_payload_checked(cells[1], entry.postings_count)

decode_from_segment_checked(dict, f, t) ==
    IF ~HasTerm(dict, f, t) THEN Ok(None)
    ELSE LET field == dict.fields[f]
             entry == term_entry_checked(field, IndexOf(field, t), dict.postings_segment)
             r     == checked_payload(dict.postings_segment, entry.ok)
         IN  IF ~IsOk(entry) THEN entry ELSE IF ~IsOk(r) THEN r ELSE Ok(Some(r.ok))

\* What the file has of a term, nothing if anything is wrong.
decode_from_segment(dict, f, t) ==
    IF ~HasTerm(dict, f, t) THEN None
    ELSE LET field   == dict.fields[f]
             segment == dict.postings_segment
             entry   == term_entry(field, IndexOf(field, t), segment)
             cells   == read_checked(segment[1], entry[1].postings_offset, entry[1].postings_len)
             r       == Codec!decode_postings_blocked(BytesOf(cells[1]), entry[1].postings_count)
         IN  IF entry = None THEN None
             ELSE IF entry[1].postings_len = 0 \/ segment = None THEN None
             ELSE IF cells = None THEN None ELSE IF ~r.ok THEN None ELSE Some(<<r.docs, r.freqs>>)

\* The flat arrays: lookup_with_block_metas, and its checked form.
lookup_with_block_metas(dict, f, t) ==
    IF ~HasTerm(dict, f, t) THEN None
    ELSE LET field == dict.fields[f]
             i     == IndexOf(field, t)
             c     == field.channels
             docs  == Slice(field.doc_ids_flat, c.offsets[i], c.offsets[i + 1])
             freqs == Slice(field.freqs_flat, c.offsets[i], c.offsets[i + 1])
             metas == Slice(field.block_metas_flat, c.block_offsets[i], c.block_offsets[i + 1])
         IN  IF c.block_offsets = <<>> \/ docs = None \/ freqs = None \/ metas = None THEN None
             ELSE Some([doc_ids |-> docs[1], freqs |-> freqs[1], block_metas |-> metas[1]])

lookup_with_block_metas_checked(dict, f, t) ==
    LET list == lookup_with_block_metas(dict, f, t)
        docs == list[1].doc_ids
    IN  IF ~HasTerm(dict, f, t) THEN Ok(None)
        ELSE IF list = None THEN Err("Corrupt")
        ELSE IF \/ docs = <<>> \/ Len(docs) # dict.fields[f].postings_counts[IndexOf(dict.fields[f], t)] \/ Len(list[1].freqs) # Len(docs)
                \/ ~Codec!validate_strictly_increasing(docs) \/ Len(list[1].block_metas) # Codec!NumChunks(Len(docs))
        THEN Err("Corrupt") ELSE Ok(list)

\* What a merge takes from a source: nothing if the source cannot be read.
source_postings(dict, f, t) ==
    LET read == IF dict.disk_enabled THEN decode_from_segment(dict, f, t)
                ELSE LET list == lookup_with_block_metas(dict, f, t) IN IF list = None THEN None ELSE Some(<<list[1].doc_ids, list[1].freqs>>)
    IN  IF read = None THEN <<<<>>, <<>>>> ELSE read[1]

merge_term_dictionaries(sources, disk_enabled, max_bytes, faults) ==
    Dictionary(Numbers(UNION {DOMAIN sources[s].fields : s \in DOMAIN sources}),
               LAMBDA f : Numbers(UNION {ToSet(sources[s].fields[f].terms) : s \in {x \in DOMAIN sources : f \in DOMAIN sources[x].fields}}),
               LAMBDA f, t : LET ps == [s \in DOMAIN sources |-> source_postings(sources[s], f, t)]
                             IN  <<FlattenSeq([s \in DOMAIN ps |-> ps[s][1]]), FlattenSeq([s \in DOMAIN ps |-> ps[s][2]])>>,
               disk_enabled, max_bytes, faults)

-----------------------------------------------------------------------------
(* Cursors over the file.                                                  *)

Cursor(segment, entry, directory) ==
    [segment |-> segment, base |-> entry.postings_offset, len |-> entry.postings_len, directory |-> directory, doc_freq |-> entry.postings_count]

\* open: the directory is read off the payload.
disk_cursor(dict, f, t) ==
    IF ~HasTerm(dict, f, t) THEN None
    ELSE LET field     == dict.fields[f]
             segment   == dict.postings_segment
             entry     == term_entry(field, IndexOf(field, t), segment)
             directory == block_directory_entries(field, entry[1], segment)
             cells     == read_checked(segment[1], entry[1].postings_offset, entry[1].postings_len)
             own       == Codec!decode_postings_blocked(BytesOf(cells[1]), entry[1].postings_count)
         IN  IF entry = None THEN None
             ELSE IF entry[1].postings_len = 0 \/ segment = None THEN None
             ELSE IF directory # None THEN Some(Cursor(segment[1], entry[1], directory[1]))
             ELSE IF cells = None THEN None ELSE IF ~own.ok THEN None ELSE Some(Cursor(segment[1], entry[1], own.directory))

\* The directory is the one the payload has, whatever the file says of it.
disk_cursor_checked(dict, f, t) ==
    IF ~HasTerm(dict, f, t) THEN Ok(None)
    ELSE LET field == dict.fields[f]
             entry == term_entry_checked(field, IndexOf(field, t), dict.postings_segment)
             r     == checked_payload(dict.postings_segment, entry.ok)
         IN  IF ~IsOk(entry) THEN entry ELSE IF ~IsOk(r) THEN r
             ELSE Ok(Some(Cursor(dict.postings_segment[1], entry.ok, Codec!encode_postings_blocked(r.ok[1], r.ok[2]).directory)))

\* The directory is the attested one; the payload is not read.
disk_cursor_p2_checked(dict, f, t) ==
    IF ~HasTerm(dict, f, t) THEN Ok(None)
    ELSE IF dict.postings_segment = None THEN Err("MissingCoverage")
    ELSE LET field     == dict.fields[f]
             segment   == dict.postings_segment[1]
             digests   == dict.p2_integrity.digests
             entry     == term_entry_p2_verified(field, IndexOf(field, t), segment, digests)
             directory == block_directory_p2_verified(field, entry.ok, Codec!NumChunks(entry.ok.postings_count), segment, digests)
         IN  IF ~IsOk(entry) THEN entry
             ELSE IF ~IsOk(validate(entry.ok)) THEN validate(entry.ok)
             ELSE IF ~contains_range(segment, entry.ok.postings_offset, entry.ok.postings_len) THEN Err("Corrupt")
             ELSE IF ~IsOk(directory) THEN directory
             ELSE IF ~p2_directory_has_expected_shape(directory.ok, entry.ok.postings_count, entry.ok.postings_len) THEN Err("Corrupt")
             ELSE Ok(Some(Cursor(segment, entry.ok, directory.ok)))

decoded_block_matches_directory(cursor, b, docs) ==
    LET entry == cursor.directory[b]
    IN  /\ docs # <<>> /\ Len(docs) = entry.count /\ Last(docs) = entry.max_doc_id
        /\ b = 1 \/ docs[1] > cursor.directory[b - 1].max_doc_id
        /\ Codec!validate_strictly_increasing(docs)

\* Block b, read where the directory says it lies.
load_block(cursor, b) ==
    LET start == cursor.directory[b].offset
        end   == IF b < Len(cursor.directory) THEN cursor.directory[b + 1].offset ELSE cursor.len
        cells == read_checked(cursor.segment, cursor.base + start, end - start)
        r     == Codec!decode_block_at(BytesOf(cells[1]), 0, cursor.directory[b].count)
    IN  IF end < start THEN Err("Error") ELSE IF cells = None THEN Err("Error")
        ELSE IF ~r.ok \/ ~decoded_block_matches_directory(cursor, b, r.docs) THEN Err("Error")
        ELSE Ok(<<r.docs, r.freqs>>)

\* A fresh cursor advanced to a target: blocks that end before it are skipped
\* unread, the first other one has the document, and None is Exhausted.
advance_to_with_status(cursor, target) ==
    LET ahead == {b \in DOMAIN cursor.directory : cursor.directory[b].max_doc_id >= target}
        block == load_block(cursor, Min(ahead))
        found == {k \in DOMAIN block.ok[1] : block.ok[1][k] >= target}
    IN  IF ahead = {} THEN Ok(None)
        ELSE IF ~IsOk(block) THEN block
        ELSE Ok(Some(<<block.ok[1][Min(found)], block.ok[2][Min(found)]>>))

\* advance_to_with_status from the start to Exhausted: the postings of every
\* block, or the error of one.
advance_to_the_end(cursor) ==
    LET blocks == [b \in DOMAIN cursor.directory |-> load_block(cursor, b)]
    IN  IF \E b \in DOMAIN blocks : ~IsOk(blocks[b]) THEN Err("Error")
        ELSE Ok(<<FlattenSeq([b \in DOMAIN blocks |-> blocks[b].ok[1]]), FlattenSeq([b \in DOMAIN blocks |-> blocks[b].ok[2]])>>)

-----------------------------------------------------------------------------
(* An index: a sequence of dictionaries (document_index.rs).               *)

integrity_bytes(dict) == IntegrityBytes(Len(dict.p2_integrity.digests), dict.p2_integrity.protected_fields)

\* Mutant: the segments that are not replaced do not count.
BudgetForgetsTheRest(segments, excluded, max_bytes) == max_bytes

\* What is left for the segment that replaces the excluded ones.
p2_integrity_budget_excluding(segments, excluded, max_bytes) ==
    LET used == MapThenSumSet(LAMBDA s : integrity_bytes(segments[s]), DOMAIN segments \ excluded)
    IN  IF used > max_bytes THEN 0 ELSE max_bytes - used

\* The lists of the segments one behind the other, or the first error.
Joined(lists) ==
    LET bad   == {s \in DOMAIN lists : ~IsOk(lists[s])}
        found == SelectSeq(lists, LAMBDA r : r.ok # None)
    IN  IF bad # {} THEN lists[Min(bad)]
        ELSE IF found = <<>> THEN Ok(None)
        ELSE Ok(Some(<<FlattenSeq([s \in DOMAIN found |-> found[s].ok[1][1]]), FlattenSeq([s \in DOMAIN found |-> found[s].ok[1][2]])>>))

RamList(r) == IF ~IsOk(r) THEN r ELSE IF r.ok = None THEN r ELSE Ok(Some(<<r.ok[1].doc_ids, r.ok[1].freqs>>))

index_decode_from_segment_checked(segments, f, t) ==
    LET disk(s) == s.disk_enabled \/ Len(segments) = 1
    IN  Joined([i \in DOMAIN segments |-> IF disk(segments[i]) THEN decode_from_segment_checked(segments[i], f, t)
                                          ELSE RamList(lookup_with_block_metas_checked(segments[i], f, t))])

index_decode_from_segment(segments, f, t) ==
    LET disk(s) == s.disk_enabled \/ Len(segments) = 1
        ram(s)  == LET list == lookup_with_block_metas(s, f, t) IN IF list = None THEN None ELSE Some(<<list[1].doc_ids, list[1].freqs>>)
    IN  Joined([i \in DOMAIN segments |-> Ok(IF disk(segments[i]) THEN decode_from_segment(segments[i], f, t) ELSE ram(segments[i]))]).ok

\* A field without digests anywhere in the index, or too many digests, and the
\* whole read declines; so it does on the first error of a segment.
segmented_postings_checked(segments, f, t, max_bytes) ==
    LET bytes == MapThenSumSet(LAMBDA s : integrity_bytes(segments[s]), DOMAIN segments)
        list(s) == IF ~s.disk_enabled THEN RamList(lookup_with_block_metas_checked(s, f, t))
                   ELSE LET c == disk_cursor_p2_checked(s, f, t)
                        IN  IF ~IsOk(c) THEN c ELSE IF c.ok = None THEN c
                            ELSE LET r == advance_to_the_end(c.ok[1]) IN IF IsOk(r) THEN Ok(Some(r.ok)) ELSE r
    IN  IF bytes > max_bytes \/ \E s \in DOMAIN segments : segments[s].p2_integrity.fallback_fields # 0 THEN Err("Corrupt")
        ELSE Joined([i \in DOMAIN segments |-> list(segments[i])])
=============================================================================
