--------------------------- MODULE PostingsCodec ---------------------------
(***************************************************************************)
(* The block codec of surch-codec (postings_block.rs) as operators: varint *)
(* integers, bit packing, the choice of an encoding for the doc ids and    *)
(* the frequencies of a block, the payload of a term and its directory.    *)
(*                                                                         *)
(* Byte and word sizes are parameters, so that overflow and every encoding *)
(* are reached with small numbers: a varint byte carries GroupBits bits    *)
(* and a continuation flag (7 in the code), a value has WordBits bits      *)
(* (32).  A read is a record: ok, the values, and the position after them; *)
(* positions count from 0.                                                 *)
(***************************************************************************)
LOCAL INSTANCE Integers
LOCAL INSTANCE Sequences
LOCAL INSTANCE FiniteSets
LOCAL INSTANCE SequencesExt

CONSTANTS GroupBits, WordBits, ForBlockSize

ByteBits == GroupBits + 1
MaxGroups == (WordBits + GroupBits - 1) \div GroupBits
MaxWord == 2 ^ WordBits - 1

Failed == [ok |-> FALSE, vals |-> <<>>, next |-> 0]

\* u32::checked_add.
Overflows(v) == v > MaxWord

-----------------------------------------------------------------------------
(* Variable-length integers.                                               *)

bit_width(v) == CHOOSE w \in 0 .. WordBits : v < 2 ^ w /\ (w = 0 \/ v >= 2 ^ (w - 1))

varint_len_for_bits(bits) == Max({1, (bits + GroupBits - 1) \div GroupBits})

write_varint(v) ==
    LET n == varint_len_for_bits(bit_width(v))
    IN  [i \in 1 .. n |->
            ((v \div 2 ^ (GroupBits * (i - 1))) % 2 ^ GroupBits) + (IF i < n THEN 2 ^ GroupBits ELSE 0)]

\* A reader that accepts any bits in the last group.
read_varint_unchecked(bytes, p) ==
    LET ends == {i \in p + 1 .. Min({Len(bytes), p + MaxGroups}) : bytes[i] < 2 ^ GroupBits}
        n    == Min(ends) - p
    IN  IF ends = {} THEN Failed
        ELSE [ok |-> TRUE, next |-> p + n,
              vals |-> <<FoldLeft(LAMBDA a, i : a + (bytes[p + i] % 2 ^ GroupBits) * 2 ^ (GroupBits * (i - 1)),
                                  0, [i \in 1 .. n |-> i])>>]

\* End of input, a continuation past the last group and a last group with bits
\* beyond the word are errors.
read_varint(bytes, p) ==
    LET r == read_varint_unchecked(bytes, p)
    IN  IF ~r.ok \/ Overflows(r.vals[1]) THEN Failed ELSE r

\* k of them in a row.
read_varints(bytes, p, k) ==
    FoldLeft(LAMBDA a, i :
                 LET r == read_varint(bytes, a.next)
                 IN  IF a.ok /\ r.ok THEN [r EXCEPT !.vals = a.vals \o @] ELSE Failed,
             [ok |-> TRUE, vals |-> <<>>, next |-> p], [i \in 1 .. k |-> i])

WriteVarints(vs) == FlattenSeq([i \in DOMAIN vs |-> write_varint(vs[i])])

-----------------------------------------------------------------------------
(* Bit packing: values of one width, least significant bit first.          *)

packed_len(count, width) == (count * width + ByteBits - 1) \div ByteBits

\* Bit b (from 0) of the packed values.
PackedBit(vs, width, b) ==
    IF b >= Len(vs) * width THEN 0
    ELSE (vs[(b \div width) + 1] \div 2 ^ (b % width)) % 2

SumBits(bit(_), n) == FoldLeft(LAMBDA a, i : a + bit(i - 1) * 2 ^ (i - 1), 0, [i \in 1 .. n |-> i])

pack_bits(vs, width) ==
    [j \in 1 .. packed_len(Len(vs), width) |->
        SumBits(LAMBDA b : PackedBit(vs, width, (j - 1) * ByteBits + b), ByteBits)]

unpack_bits(bytes, p, count, width) ==
    LET len == packed_len(count, width)
        bit(b) == (bytes[p + (b \div ByteBits) + 1] \div 2 ^ (b % ByteBits)) % 2
    IN  IF p + len > Len(bytes) THEN Failed
        ELSE [ok |-> TRUE, next |-> p + len,
              vals |-> [i \in 1 .. count |-> SumBits(LAMBDA b : bit((i - 1) * width + b), width)]]

read_byte(bytes, p) ==
    IF p >= Len(bytes) THEN Failed ELSE [ok |-> TRUE, vals |-> <<bytes[p + 1]>>, next |-> p + 1]

read_width(bytes, p) ==
    LET r == read_byte(bytes, p)
    IN  IF r.ok /\ r.vals[1] \in 1 .. WordBits THEN r ELSE Failed

-----------------------------------------------------------------------------
(* One block.                                                              *)

Deltas(docs) == [i \in 1 .. Len(docs) - 1 |-> docs[i + 1] - docs[i]]

VarintCost(vs) == FoldLeft(LAMBDA a, v : a + varint_len_for_bits(bit_width(v)), 0, vs)

Exceptions(ds, w) == SelectSeq([i \in DOMAIN ds |-> i], LAMBDA i : bit_width(ds[i]) > w)

PatchedCost(ds, w) ==
    2 + packed_len(Len(ds), w)
      + FoldLeft(LAMBDA a, i : a + 1 + varint_len_for_bits(bit_width(ds[i])), 0, Exceptions(ds, w))

\* plan_doc_channel: varint unless a patched width, the narrowest of the
\* cheapest, or the full width is strictly cheaper.
plan_doc_channel(ds) ==
    LET wmax    == Max({bit_width(ds[i]) : i \in DOMAIN ds})
        narrow  == 1 .. wmax - 1
        bestw   == CHOOSE w \in narrow : \A x \in narrow :
                       PatchedCost(ds, w) < PatchedCost(ds, x)
                       \/ (PatchedCost(ds, w) = PatchedCost(ds, x) /\ w <= x)
        patched == narrow # {} /\ PatchedCost(ds, bestw) < VarintCost(ds)
        best    == IF patched THEN PatchedCost(ds, bestw) ELSE VarintCost(ds)
    IN  IF ds = <<>> THEN [mode |-> 0, width |-> 0]
        ELSE IF 1 + packed_len(Len(ds), wmax) < best THEN [mode |-> 1, width |-> wmax]
        ELSE IF patched THEN [mode |-> 2, width |-> bestw]
        ELSE [mode |-> 0, width |-> 0]

FreqWidth(fs) == Max({bit_width(fs[i]) : i \in DOMAIN fs} \cup {1})

\* 0 all ones, 1 constant, 2 packed, 3 varint.
freq_mode(fs) ==
    IF \A i \in DOMAIN fs : fs[i] = 1 THEN 0
    ELSE IF \A i \in DOMAIN fs : fs[i] = fs[1] THEN 1
    ELSE IF VarintCost(fs) < 1 + packed_len(Len(fs), FreqWidth(fs)) THEN 3 ELSE 2

\* The doc ids of a block without the values that do not fit its width.
DocChannel(ds, plan) ==
    CASE plan.mode = 0 -> WriteVarints(ds)
      [] plan.mode = 1 -> <<plan.width>> \o pack_bits(ds, plan.width)
      [] plan.mode = 2 ->
            LET ex == Exceptions(ds, plan.width)
            IN  <<plan.width, Len(ex)>>
                \o pack_bits([i \in DOMAIN ds |-> IF bit_width(ds[i]) > plan.width THEN 0 ELSE ds[i]],
                             plan.width)
                \o FlattenSeq([k \in DOMAIN ex |-> <<ex[k] - 1>> \o write_varint(ds[ex[k]])])

FreqChannel(fs, mode) ==
    CASE mode = 0 -> <<>>
      [] mode = 1 -> write_varint(fs[1])
      [] mode = 2 -> <<FreqWidth(fs)>> \o pack_bits(fs, FreqWidth(fs))
      [] mode = 3 -> WriteVarints(fs)

\* encode_block_into: a header, the first doc id as it is, the two channels.
encode_block(docs, freqs) ==
    LET plan == plan_doc_channel(Deltas(docs))
        fm   == freq_mode(freqs)
    IN  <<plan.mode + 4 * fm>> \o write_varint(docs[1])
        \o DocChannel(Deltas(docs), plan) \o FreqChannel(freqs, fm)

\* The exceptions of a patched channel: positions grow, and each replaces a
\* hole by a value the width could not hold.
read_exceptions(bytes, r, width, k) ==
    LET step(a, i) ==
            LET ix == read_byte(bytes, a.next)
                v  == read_varint(bytes, ix.next)
                at == ix.vals[1] + 1
            IN  IF ~a.ok \/ ~ix.ok \/ ~v.ok THEN [a EXCEPT !.ok = FALSE]
                ELSE IF at > Len(a.vals) \/ at <= a.last THEN [a EXCEPT !.ok = FALSE]
                ELSE IF v.vals[1] < 2 ^ width \/ a.vals[at] # 0 THEN [a EXCEPT !.ok = FALSE]
                ELSE [ok |-> TRUE, next |-> v.next, last |-> at, vals |-> [a.vals EXCEPT ![at] = v.vals[1]]]
        r1 == FoldLeft(step, [ok |-> r.ok, next |-> r.next, last |-> 0, vals |-> r.vals], [i \in 1 .. k |-> i])
    IN  IF r1.ok THEN [ok |-> TRUE, vals |-> r1.vals, next |-> r1.next] ELSE Failed

read_deltas(bytes, p, mode, count) ==
    LET w == read_width(bytes, p)
        e == read_byte(bytes, w.next)
    IN  CASE mode = 0 -> read_varints(bytes, p, count)
          [] mode = 1 -> IF w.ok THEN unpack_bits(bytes, w.next, count, w.vals[1]) ELSE Failed
          [] mode = 2 ->
               IF ~w.ok \/ w.vals[1] >= WordBits \/ ~e.ok \/ e.vals[1] \notin 1 .. count THEN Failed
               ELSE read_exceptions(bytes, unpack_bits(bytes, e.next, count, w.vals[1]),
                                    w.vals[1], e.vals[1])
          [] OTHER -> Failed

read_freqs(bytes, p, mode, count) ==
    LET w == read_width(bytes, p)
        c == read_varint(bytes, p)
    IN  CASE mode = 0 -> [ok |-> TRUE, vals |-> [i \in 1 .. count |-> 1], next |-> p]
          [] mode = 1 -> IF c.ok /\ c.vals[1] # 1
                         THEN [c EXCEPT !.vals = [i \in 1 .. count |-> c.vals[1]]] ELSE Failed
          [] mode = 2 -> IF w.ok THEN unpack_bits(bytes, w.next, count, w.vals[1]) ELSE Failed
          [] mode = 3 -> read_varints(bytes, p, count)

PrefixSums(first, ds) ==
    FoldLeft(LAMBDA a, d : Append(a, a[Len(a)] + d), <<first>>, ds)

BadBlock == [ok |-> FALSE, docs |-> <<>>, freqs |-> <<>>, next |-> 0]

\* decode_block_at.
decode_block_at(bytes, p, count) ==
    LET h  == read_byte(bytes, p)
        f  == read_varint(bytes, h.next)
        d  == read_deltas(bytes, f.next, h.vals[1] % 4, count - 1)
        ds == PrefixSums(f.vals[1], d.vals)
        fr == read_freqs(bytes, d.next, h.vals[1] \div 4, count)
    IN  IF count = 0 THEN [ok |-> TRUE, docs |-> <<>>, freqs |-> <<>>, next |-> p]
        ELSE IF ~h.ok \/ h.vals[1] > 15 THEN BadBlock
        ELSE IF ~f.ok \/ ~d.ok THEN BadBlock
        ELSE IF (\E i \in DOMAIN d.vals : d.vals[i] = 0) \/ Overflows(ds[Len(ds)]) THEN BadBlock
        ELSE IF ~fr.ok THEN BadBlock
        ELSE [ok |-> TRUE, docs |-> ds, freqs |-> fr.vals, next |-> fr.next]

-----------------------------------------------------------------------------
(* The payload of a term.                                                  *)

Chunk(s, b) == SubSeq(s, (b - 1) * ForBlockSize + 1, Min({b * ForBlockSize, Len(s)}))
NumChunks(n) == (n + ForBlockSize - 1) \div ForBlockSize

\* encode_postings_blocked_with_directory: blocks of at most ForBlockSize
\* postings, each at the offset its directory entry names.
encode_postings_blocked(docs, freqs) ==
    FoldLeft(LAMBDA a, b :
                 [payload   |-> a.payload \o encode_block(Chunk(docs, b), Chunk(freqs, b)),
                  directory |-> Append(a.directory,
                                       [offset |-> Len(a.payload), count |-> Len(Chunk(docs, b)),
                                        max_doc_id |-> Last(Chunk(docs, b))])],
             [payload |-> <<>>, directory |-> <<>>],
             [b \in 1 .. NumChunks(Len(docs)) |-> b])

\* decode_postings_blocked and block_directory walk the blocks one after another.
decode_postings_blocked(bytes, total) ==
    FoldLeft(LAMBDA a, b :
                 LET n == Min({ForBlockSize, total - (b - 1) * ForBlockSize})
                     r == decode_block_at(bytes, a.next, n)
                 IN  IF ~a.ok \/ ~r.ok THEN [a EXCEPT !.ok = FALSE]
                     ELSE [ok |-> TRUE, next |-> r.next, docs |-> a.docs \o r.docs, freqs |-> a.freqs \o r.freqs,
                           directory |-> Append(a.directory, [offset |-> a.next, count |-> n,
                                                              max_doc_id |-> Last(r.docs)])],
             [ok |-> TRUE, next |-> 0, docs |-> <<>>, freqs |-> <<>>, directory |-> <<>>],
             [b \in 1 .. NumChunks(total) |-> b])

-----------------------------------------------------------------------------
(* The unblocked format: the length, every delta from 0, every frequency.  *)

validate_strictly_increasing(docs) == \A i \in 1 .. Len(docs) - 1 : docs[i] < docs[i + 1]

encode_doc_ids_delta_varint(docs) ==
    write_varint(Len(docs)) \o (IF docs = <<>> THEN <<>> ELSE WriteVarints(<<docs[1]>> \o Deltas(docs)))

encode_postings_doc_id_freq(docs, freqs) == encode_doc_ids_delta_varint(docs) \o WriteVarints(freqs)

\* decode_doc_ids_delta_varint, and DocIdDeltaCursor stepped to its end.
decode_doc_ids_delta_varint(bytes) ==
    LET n  == read_varint(bytes, 0)
        d  == read_varints(bytes, n.next, n.vals[1])
        ds == PrefixSums(d.vals[1], Tail(d.vals))
    IN  IF ~n.ok THEN Failed
        ELSE IF n.vals[1] = 0 THEN [n EXCEPT !.vals = <<>>]
        ELSE IF ~d.ok \/ (\E i \in 2 .. Len(d.vals) : d.vals[i] = 0) \/ Overflows(ds[Len(ds)]) THEN Failed
        ELSE [ok |-> TRUE, vals |-> ds, next |-> d.next]

decode_postings_doc_id_freq(bytes) ==
    LET d == decode_doc_ids_delta_varint(bytes)
        f == read_varints(bytes, d.next, Len(d.vals))
    IN  IF d.ok /\ f.ok THEN [ok |-> TRUE, docs |-> d.vals, freqs |-> f.vals, next |-> f.next] ELSE BadBlock

\* The block boundaries a reader finds in that format: smallest and largest
\* doc id and largest frequency of each run of ForBlockSize postings.
inspect_postings_blocks(bytes) ==
    LET r == decode_postings_doc_id_freq(bytes)
    IN  [b \in 1 .. NumChunks(Len(r.docs)) |->
            [posting_count |-> Len(Chunk(r.docs, b)), min_doc_id |-> Head(Chunk(r.docs, b)),
             max_doc_id |-> Last(Chunk(r.docs, b)), max_term_freq |-> Max(ToSet(Chunk(r.freqs, b)))]]
=============================================================================
