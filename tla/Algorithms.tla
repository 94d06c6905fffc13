----------------------------- MODULE Algorithms -----------------------------
(***************************************************************************)
(* The pure algorithms of the engine against what they are meant to        *)
(* compute: an input is chosen, one step answers it, and the properties    *)
(* say that what the code's operators make of the input in that step is    *)
(* what a reference definition demands.                                    *)
(*                                                                         *)
(* A search input names a corpus, the clauses of its query, the way they   *)
(* are combined and a page; its JSON body goes through the parser.         *)
(***************************************************************************)
EXTENDS SearchPaths, Cron
LOCAL INSTANCE Integers
LOCAL INSTANCE Sequences
LOCAL INSTANCE FiniteSets
LOCAL INSTANCE SequencesExt
LOCAL INSTANCE FiniteSetsExt
LOCAL INSTANCE Functions
LOCAL INSTANCE TLC

CONSTANTS
    Corpora,        \* a sequence of corpora
    Leaves,         \* a sequence of JSON queries without parts
    Inputs,         \* a sequence of sets of inputs
    GroupBits, WordBits, ForBlockSize,
    DictionaryBlockSize, P2_INTEGRITY_PAGE_LEN

Codec == INSTANCE PostingsCodec
Dict == INSTANCE Columns WITH ForBlockSize <- DictionaryBlockSize

VARIABLES input, answered
vars == <<input, answered>>

-----------------------------------------------------------------------------
(* The body of a search.                                                   *)

Named(k, v) == Obj([x \in {k} |-> v])

BoolBody(parts, msm) ==
    Named("bool", Obj([b \in {p[1] : p \in Range(parts)} |->
                          LET own == SelectSeq(parts, LAMBDA p : p[1] = b) IN Arr([i \in DOMAIN own |-> own[i][2]])]
                      @@ IF msm = None THEN NoKeys ELSE [x \in {"minimum_should_match"} |-> Num(msm[1])]))

Boosted(body, boost) == IF boost = None THEN body
                        ELSE Named("function_score", Obj([x \in {"query", "boost"} |-> IF x = "query" THEN body ELSE Num(boost[1])]))

\* One clause, a bool of clauses in their buckets, or a bool around a bool of
\* the last two.
QueryBody(i) ==
    LET parts == [k \in DOMAIN i.clauses |-> <<i.clauses[k][1], Leaves[i.clauses[k][2]]>>]
        n     == Len(parts)
    IN  CASE i.shape = "leaf" -> parts[1][2]
          [] i.shape = "bool" -> BoolBody(parts, i.msm)
          [] i.shape = "nested" ->
                BoolBody(Append(SubSeq(parts, 1, n - 2), <<"should", Boosted(BoolBody(SubSeq(parts, n - 1, n), i.msm), i.boost)>>), i.msm)

SearchBody(i) == Obj([k \in {"query", "from", "size"} |->
    CASE k = "query" -> QueryBody(i) [] k = "from" -> Num(i.from) [] k = "size" -> Num(i.size)])

-----------------------------------------------------------------------------
(* One step per kind of input.                                             *)

Init == answered = FALSE /\ \E i \in DOMAIN Inputs : input \in Inputs[i]

Step(kind) == ~answered /\ input.kind = kind /\ answered' = TRUE /\ UNCHANGED input

Next ==
    \/ Step("codec") \/ Step("dictionary") \/ Step("columns") \/ Step("wildcard") \/ Step("fuzzy") \/ Step("analyze")
    \/ Step("search") \/ Step("count") \/ Step("highlight")
    \/ Step("mapping") \/ Step("date") \/ Step("cron")

Spec == Init /\ [][Next]_vars

Answers(kind) == answered' /\ input.kind = kind

-----------------------------------------------------------------------------
(* Postings.                                                               *)

Increasing(S) == InIdOrder(S)

\* A payload, what is read back from it, and from it with one byte replaced or
\* cut off.
EncodeAndDecode(i) ==
    LET docs    == Increasing(i.docs)
        freqs   == [k \in DOMAIN docs |-> i.freqs[((k - 1) % Len(i.freqs)) + 1]]
        blocked == Codec!encode_postings_blocked(docs, freqs)
        plain   == Codec!encode_postings_doc_id_freq(docs, freqs)
        read(b) == Codec!decode_postings_blocked(b, Len(docs))
        values  == 0 .. 2 ^ (GroupBits + 1) - 1
    IN  [docs |-> docs, freqs |-> freqs, directory |-> blocked.directory, length |-> Len(blocked.payload),
         read |-> read(blocked.payload), plain |-> Codec!decode_postings_doc_id_freq(plain),
         blocks |-> Codec!inspect_postings_blocks(plain),
         cut |-> {read(SubSeq(blocked.payload, 1, n)).ok : n \in 0 .. Len(blocked.payload) - 1},
         damaged |-> IF ~i.damage THEN {}
                     ELSE {read([blocked.payload EXCEPT ![at] = b]) : at \in DOMAIN blocked.payload, b \in values}]

ReadsBack(r) ==
    LET whole == [ok |-> TRUE, docs |-> r.docs, freqs |-> r.freqs]
        seen(x) == [ok |-> x.ok, docs |-> x.docs, freqs |-> x.freqs]
        word == 0 .. 2 ^ WordBits - 1
    IN  /\ seen(r.read) = whole /\ seen(r.plain) = whole
        /\ r.read.directory = r.directory /\ r.read.next = r.length
        /\ \A b \in DOMAIN r.blocks :
               /\ r.blocks[b].posting_count = r.directory[b].count
               /\ r.blocks[b].max_doc_id = r.directory[b].max_doc_id
        /\ TRUE \notin r.cut
        /\ \A x \in r.damaged : x.ok =>
               /\ \A b \in DOMAIN x.directory : LET block == Codec!Chunk(x.docs, b)
                                              IN  \A k \in 1 .. Len(block) - 1 : block[k] < block[k + 1]
               /\ Range(x.docs) \cup Range(x.freqs) \subseteq word

\* The block codec (postings_block.rs): what is written is read back, block by
\* block at the offsets of the directory; a payload that was cut is refused;
\* and one with a wrong byte is refused or yields strictly increasing ids and
\* frequencies that fit the word, never ids a search would trip over.
CodecFaithful == [][Answers("codec") => ReadsBack(EncodeAndDecode(input))]_vars

-----------------------------------------------------------------------------
(* Dictionaries: segments are built one after another, each with the calls *)
(* of the file system that fail for it, and a run of them may be merged.   *)

Built(i) ==
    FoldLeft(LAMBDA a, k : Append(a, Dict!build_with_disk_flag_and_p2_integrity_limit(
                                         i.segments[k], i.disk, Dict!p2_integrity_budget_excluding(a, {}, i.max), i.faults[k])),
             <<>>, [k \in DOMAIN i.segments |-> k])

Merged(i, built) ==
    LET from == i.run[1]
        to   == i.run[2]
        new  == Dict!merge_term_dictionaries(SubSeq(built, from, to), i.disk,
                                             Dict!p2_integrity_budget_excluding(built, from .. to, i.max), i.faults[Len(built) + 1])
    IN  IF i.run = None THEN built ELSE SubSeq(built, 1, from - 1) \o <<new>> \o SubSeq(built, to + 1, Len(built))

\* What was added for a term, by definition.
Posted(added, f, t) ==
    LET own(d) == {k \in DOMAIN added : added[k].field = f /\ added[k].term = t /\ added[k].doc_id = d}
        docs   == Increasing({added[k].doc_id : k \in {x \in DOMAIN added : added[x].field = f /\ added[x].term = t}})
        times(k) == IF added[k].positions = 0 THEN 1 ELSE added[k].positions
    IN  <<docs, [n \in DOMAIN docs |-> MapThenSumSet(times, own(docs[n]))]>>

\* A list is right, or the read has failed; an absent term is never an error
\* that was lost.
RightOrFailed(r, whole, known) ==
    IsOk(r) => IF known THEN r.ok = Some(whole) /\ whole[1] # <<>> ELSE r.ok = None

Walk(cursor) == IF ~IsOk(cursor) THEN cursor ELSE IF cursor.ok = None THEN cursor
                ELSE LET r == Dict!advance_to_the_end(cursor.ok[1]) IN IF IsOk(r) THEN Ok(Some(r.ok)) ELSE r

TermReadsRight(i, built, segments, f, t) ==
    LET lost(k) == i.disk /\ built[k].postings_segment = None
        inRun(k) == i.run # None /\ k \in i.run[1] .. i.run[2]
        lists   == [k \in DOMAIN built |-> IF inRun(k) /\ lost(k) THEN <<<<>>, <<>>>> ELSE Posted(i.segments[k], f, t)]
        whole   == <<FlattenSeq([k \in DOMAIN lists |-> lists[k][1]]), FlattenSeq([k \in DOMAIN lists |-> lists[k][2]])>>
        known   == \E k \in DOMAIN built : Dict!HasTerm(built[k], f, t)
        readable == known /\ \A s \in DOMAIN segments : segments[s].postings_segment # None /\ \A k \in DOMAIN built : ~(inRun(k) /\ lost(k))
        checked == Dict!index_decode_from_segment_checked(segments, f, t)
        p2      == Dict!segmented_postings_checked(segments, f, t, i.max)
    IN  /\ RightOrFailed(checked, whole, known) /\ RightOrFailed(p2, whole, known)
        /\ Len(segments) = 1 => RightOrFailed(Walk(Dict!disk_cursor_checked(segments[1], f, t)), whole, known)
        /\ ~i.disk => IsOk(p2) /\ (Len(segments) > 1 => IsOk(checked) /\ Dict!index_decode_from_segment(segments, f, t) = checked.ok)
        /\ readable => checked = Ok(Some(whole)) /\ Dict!index_decode_from_segment(segments, f, t) = Some(whole)
        /\ readable /\ Len(segments) = 1 => Walk(Ok(Dict!disk_cursor(segments[1], f, t))) = checked
        /\ readable /\ (\A s \in DOMAIN segments : segments[s].p2_integrity.fallback_fields = 0) => IsOk(p2)

\* One cell altered, two neighbours swapped, or the file cut before a cell.
Damages(cells) ==
    {[cells EXCEPT ![n][k] = v] : n \in DOMAIN cells, k \in {2}, v \in 0 .. 7}
    \cup {[cells EXCEPT ![n][Len(cells[n])] = v] : n \in DOMAIN cells, v \in 0 .. 4}
    \cup {[cells EXCEPT ![n] = cells[n + 1], ![n + 1] = cells[n]] : n \in {x \in 1 .. Len(cells) - 1 : cells[x][1] = cells[x + 1][1]}}
    \cup {SubSeq(cells, 1, n) : n \in 0 .. Len(cells) - 1}

DamageDetected(i, dict, f, t) ==
    LET whole == Posted(i.segments[1], f, t)
        cells == dict.postings_segment[1].cells
        hurt(c) == [dict EXCEPT !.postings_segment[1].cells = c]
        only(c, kind) == Len(c) = Len(cells) /\ \A n \in DOMAIN c : c[n] # cells[n] => c[n][1] = kind
        \* What a cursor finds from a target on, by definition.
        from(x) == LET ahead == {k \in DOMAIN whole[1] : whole[1][k] >= x}
                   IN  IF ahead = {} THEN None ELSE Some(<<whole[1][Min(ahead)], whole[2][Min(ahead)]>>)
        maxima(p) == [b \in 1 .. Dict!Codec!NumChunks(Len(p[1])) |-> Last(Dict!Codec!Chunk(p[1], b))]
    IN  \A c \in Damages(cells) :
            LET p2      == Dict!segmented_postings_checked(<<hurt(c)>>, f, t, i.max)
                checked == Walk(Dict!disk_cursor_checked(hurt(c), f, t))
                cursor  == Dict!disk_cursor_p2_checked(hurt(c), f, t)
            IN  /\ IsOk(cursor) /\ ~only(c, "byte") =>
                       \A x \in 0 .. Last(whole[1]) + 1 : LET r == Dict!advance_to_with_status(cursor.ok[1], x) IN IsOk(r) => r.ok = from(x)
                /\ IsOk(p2) => /\ p2.ok # None /\ maxima(p2.ok[1]) = maxima(whole) /\ Len(p2.ok[1][1]) = Len(whole[1])
                               /\ ~only(c, "byte") => p2.ok[1] = whole
                /\ IsOk(checked) => /\ checked.ok # None /\ Codec!validate_strictly_increasing(checked.ok[1][1])
                                    /\ ~IsStrictPrefix(checked.ok[1][1], whole[1])
                /\ only(c, "directory") => checked = Ok(Some(whole))

\* The file of a segment is given up only if it could not be created or a call
\* that fails was to write payloads.
FileKept(i, k, dict) ==
    LET log == Dict!build_with_disk_flag_and_p2_integrity_limit(i.segments[k], i.disk, dict.p2_integrity.max_bytes, {}).postings_segment[1].calls
    IN  (\A n \in i.faults[k] : n > Len(log) \/ (n > 0 /\ log[n] # <<>> /\ log[n][1][1] # "byte")) /\ Cardinality(i.faults[k]) <= 1
            => dict.postings_segment # None

StoredFaithfully(i) ==
    LET built    == Built(i)
        segments == Merged(i, built)
        named    == UNION {{<<a.field, a.term>> : a \in Range(i.segments[k])} : k \in DOMAIN i.segments}
    IN  /\ MapThenSumSet(LAMBDA s : Dict!integrity_bytes(segments[s]), DOMAIN segments) <= i.max
        /\ \A ft \in named \cup {<<1, 9>>, <<9, 1>>} : TermReadsRight(i, built, segments, ft[1], ft[2])
        /\ \A k \in DOMAIN built : FileKept(i, k, built[k])
        /\ i.damage => \A ft \in named : DamageDetected(i, segments[1], ft[1], ft[2])

-----------------------------------------------------------------------------
(* Columns: segments are written, sealed twice, lose their files or not,   *)
(* and a run of them may be merged.                                        *)

Sealed(i) ==
    [k \in DOMAIN i.segments |->
        LET s == i.segments[k]
        IN  FoldLeft(LAMBDA a, f : Dict!seal_subfield_columns(a, i.disk, f), Dict!Written(s.doc_count, s.values, s.lengths), i.seals[k])]

FilesLost(i, sealed) ==
    [k \in DOMAIN sealed |->
        IF k \in i.lost /\ sealed[k].subfield_segment # None THEN [sealed[k] EXCEPT !.subfield_segment[1].cells = <<>>] ELSE sealed[k]]

RunMerged(i, segments) ==
    LET from == i.run[1]
        to   == i.run[2]
        new  == Dict!merge_segments_run(SubSeq(segments, from, to), i.disk, i.faults)
    IN  IF i.run = None THEN segments ELSE SubSeq(segments, 1, from - 1) \o <<new>> \o SubSeq(segments, to + 1, Len(segments))

\* Document and last value of every document of a path whose column was not in
\* a file that is lost, by definition.
KeptValues(i, sealed, p) ==
    LET kept(k) == ~(k \in i.lost /\ p \in DOMAIN sealed[k].subfield_values /\ sealed[k].subfield_values[p].disk # None)
        own(k)  == {n \in DOMAIN i.segments[k].values : i.segments[k].values[n][1] = p}
        last(k) == {n \in own(k) : \A m \in own(k) : i.segments[k].values[m][2] = i.segments[k].values[n][2] => m <= n}
    IN  UNION {{<<Dict!DocBase(i.segments, k) + i.segments[k].values[n][2], i.segments[k].values[n][3]>> : n \in last(k)} :
               k \in {x \in DOMAIN sealed : kept(x)}}

\* What a byte makes of a length, by definition: the largest length a byte
\* stands for that is not above it.
ByteLengths == {Dict!byte4_to_int(b) : b \in 0 .. 255}
Quantised(n) == Max({v \in ByteLengths : v <= n})

ColumnsKept(i) ==
    LET sealed   == Sealed(i)
        segments == RunMerged(i, FilesLost(i, sealed))
        total    == Dict!DocBase(i.segments, Len(i.segments) + 1)
        lengths(f) == UNION {{<<Dict!DocBase(i.segments, k) + x[2], x[3], x[4]>> : x \in {y \in Range(i.segments[k].lengths) : y[1] = f}} :
                             k \in DOMAIN i.segments}
        stored(f)  == {x \in lengths(f) : x[3]}
        base(k)    == Dict!DocBase(segments, k)
    IN  /\ \A p \in 1 .. 3 :
               LET kept == KeptValues(i, sealed, p)
               IN  /\ Dict!subfield_projection(segments, p)
                          = IF \A k \in DOMAIN sealed : p \notin {x[1] : x \in Range(i.segments[k].values)} THEN None ELSE Some(kept)
                   /\ \A d \in 0 .. total - 1 : ToSet(Dict!subfield_value(segments, p, d)) = {dv[2] : dv \in {x \in kept : x[1] = d}}
        /\ \A f \in 1 .. 3 :
               /\ Dict!field_stats_aggregated(segments, f)
                      = IF lengths(f) = {} THEN None
                        ELSE Some([doc_count |-> Cardinality(lengths(f)), total_terms |-> MapThenSumSet(LAMBDA x : x[2], stored(f)),
                                   min_doc_len |-> IF stored(f) = {} THEN 0 ELSE Min({Quantised(x[2]) : x \in stored(f)})])
               /\ \A k \in {x \in DOMAIN segments : f \in DOMAIN segments[x].field_stats}, d \in 0 .. total - 1 :
                      d \in base(k) .. base(k + 1) - 1 =>
                          LET own == {x \in stored(f) : x[1] = d}
                          IN  Dict!doc_len_of(segments[k].field_stats[f], d - base(k)) = IF own = {} THEN 0 ELSE Quantised((CHOOSE x \in own : TRUE)[2])

\* What an index keeps of its documents (postings.rs, document_index.rs).
\* Dictionaries: whatever append fails, a checked read and an attested (P2)
\* read of a term give its postings or an error, never a part of them and
\* never absence; a failure to store the metadata or a budget that is used up
\* loses nothing; without the disk flag nothing is lost at all; the digests
\* stay within their budget.  An attested read of a damaged file is right or
\* fails unless the damage is in a payload, and then it keeps the number of
\* postings and the largest document of every block; a damaged directory does
\* not disturb the checked cursor.  A merge keeps what its readable sources
\* have, and a source whose file was given up contributes nothing.
\* Columns: whatever append fails and however often a segment is sealed, the
\* projection of a sub-field and its value for one document are the last
\* values written, except those of columns in files that are lost, and a merge
\* changes neither them, nor the counts, sums and least length of a field, nor
\* the quantised length of any document.
StorageFaithful ==
    [][(Answers("dictionary") => StoredFaithfully(input)) /\ (Answers("columns") => ColumnsKept(input))]_vars

-----------------------------------------------------------------------------
(* Patterns, words and tokens.                                             *)

\* Patterns by definition: a star stands for any number of characters.
Matches(pattern, text) ==
    LET m[i \in 0 .. Len(pattern), j \in 0 .. Len(text)] ==
            IF i = 0 THEN j = 0
            ELSE IF pattern[i] = "*" THEN m[i - 1, j] \/ (j > 0 /\ m[i, j - 1])
            ELSE j > 0 /\ pattern[i] \in {"?", text[j]} /\ m[i - 1, j - 1]
    IN  m[Len(pattern), Len(text)]

Alphabet == {"a", "b", "t"}

\* The words one insertion, deletion or replacement away, and one swap away.
OneEdit(w) ==
    {RemoveAt(w, i) : i \in DOMAIN w} \cup {[w EXCEPT ![i] = x] : i \in DOMAIN w, x \in Alphabet}
        \cup {InsertAt(w, i, x) : i \in 1 .. Len(w) + 1, x \in Alphabet}
OneSwap(w) == {[w EXCEPT ![i] = w[i + 1], ![i + 1] = w[i]] : i \in 1 .. Len(w) - 1}
Steps(S) == S \cup UNION {OneEdit(w) \cup OneSwap(w) : w \in S}
PlainSteps(S) == S \cup UNION {OneEdit(w) : w \in S}

FuzzyExact(left, right, fuzziness) ==
    LET n       == edits_for_term_len(fuzziness, Len(left))
        matches == fuzzy_token_matches(left, right, fuzziness)
        near(step(_)) == IF n = 0 THEN {left} ELSE IF n = 1 THEN step({left}) ELSE step(step({left}))
    IN  /\ matches => right \in near(Steps)
        /\ right \in near(PlainSteps) => matches
        /\ n > 0 /\ right \in OneSwap(left) => matches

\* _analyze over several texts: the offsets of a token delimit it in the texts
\* put together, tokens follow one another, and the stop analyzer keeps every
\* word but the stop words at the position it has for the simple one.
TokensFaithful(body) ==
    IsOk(handle_analyze(body)) =>
        LET r      == parse_analyze_request(body).ok
            whole  == FlattenSeq(r.texts)
            ts     == handle_analyze(body).ok
            simple == handle_analyze(Obj([k \in {"analyzer", "text"} |-> IF k = "text" THEN Str(whole) ELSE Str("simple")])).ok
        IN  /\ \A k \in DOMAIN ts : to_lowercase(ts[k].token) = to_lowercase(SubSeq(whole, ts[k].start_offset + 1, ts[k].end_offset))
            /\ \A k \in 1 .. Len(ts) - 1 : ts[k].end_offset <= ts[k + 1].start_offset /\ ts[k].position < ts[k + 1].position
            /\ r.analyzer = "stop" /\ Len(r.texts) = 1 =>
                   ts = SelectSeq(simple, LAMBDA x : x.token \notin ENGLISH_STOP_WORDS)

\* wildcard_pattern_matches with its single point of return accepts exactly the
\* texts of the pattern; fuzzy_token_matches accepts no word further away than
\* its edits, every word that many plain edits away, and every single swap; and
\* tokens are where the text has them.
MatchersExact ==
    [][/\ Answers("wildcard") => wildcard_pattern_matches(input.pattern, input.text) = Matches(input.pattern, input.text)
       /\ Answers("fuzzy") => FuzzyExact(input.left, input.right, input.fuzziness)
       /\ Answers("analyze") => TokensFaithful(input.body)]_vars

-----------------------------------------------------------------------------
(* Searches and counts.                                                    *)

HitIds(answer) == {answer.hits[i][1] : i \in DOMAIN answer.hits}

\* The answer of run_search, and the documents the scan of the sources selects.
SearchAgrees(i, c, r) ==
    IsOk(r) =>
        LET answer == run_search(c, r.ok)
            scan   == {d \in DOMAIN c.docs : query_matches(c.mapping, c.docs[d], r.ok.query[1])}
        IN  /\ answer.total = Cardinality(scan)
            /\ HitIds(answer) \subseteq scan
            /\ i.from = 0 /\ i.size >= Cardinality(scan) => HitIds(answer) = scan

CountAgrees(c, q) ==
    LET r == parse_count_request(Named("query", q))
    IN  IsOk(r) => count_handler(<<c>>, r.ok.query[1], r.ok.track_total_hits)
                       = Cardinality({d \in DOMAIN c.docs : query_matches(c.mapping, c.docs[d], parse_search_query(q).ok)})

PathsAgree(c, r) == IsOk(r) => run_search(c, r.ok) = general_path(c, r.ok)

\* A search that reads the postings, whatever path it takes, and a count select
\* the documents whose source matches: candidate_set_is_exact may skip the
\* source only when the postings already decide (search.rs, count.rs).  And the
\* top-k path, the exact bool path and the fused conjunctions answer with the
\* hits, the scores, their order, the total and the best score of the general
\* path (run_search).
PlansAgree ==
    [][/\ Answers("search") => LET c == Corpora[input.corpus]
                                  r == parse_search_request(SearchBody(input))
                              IN  SearchAgrees(input, c, r) /\ PathsAgree(c, r)
       /\ Answers("count") => CountAgrees(Corpora[input.corpus], QueryBody(input))]_vars

-----------------------------------------------------------------------------
(* Highlights, mappings, dates and schedules.                              *)

HighlightRight(i) ==
    LET q == [kind |-> "match", field |-> "t", value |-> i.value, operator |-> "or"]
        r == [fields |-> {"t"}, fragment_size |-> i.fragment_size, number_of_fragments |-> None]
        spans == Range(highlight_spans_for_query(i.text, q, "t"))
        fragments == OrElse(highlight_field_fragments(i.text, q, "t", r), <<>>)
        bytes == Bytes(i.text)
        marks(f) == {<<p.from, p.to>> : p \in {x \in Range(f) : x.marked}}
        shown == UNION {marks(f) : f \in Range(fragments)}
    IN  /\ \A f \in Range(fragments) :
               /\ \A k \in DOMAIN f : is_char_boundary(bytes, f[k].from) /\ is_char_boundary(bytes, f[k].to)
               /\ \A k \in 1 .. Len(f) - 1 : f[k].to = f[k + 1].from
               /\ \A m \in marks(f) : \E s \in spans : s[1] <= m[1] /\ m[2] <= s[2]
        /\ \A s \in spans : s \in shown
                            \/ s[2] - s[1] > OrElse(i.fragment_size, Len(bytes))
                            \/ Len(fragments) >= DEFAULT_HIGHLIGHT_FRAGMENT_COUNT

\* Highlighting: a fragment is a run of the text cut between characters, its
\* marks are matches, and as long as fragments are left every match that fits a
\* fragment is shown whole in one (render_cluster_fragment).
HighlightFaithful == [][Answers("highlight") => HighlightRight(input)]_vars

ReadAgain(m) ==
    LET again == from_properties_value(as_value(m))
        explicit(fm) == [fm EXCEPT !.date_format = IF fm.type = "date" THEN Some(OrElse(@, DefaultDateFormat)) ELSE None]
        whole(fm) == [explicit(fm) EXCEPT !.fields = [s \in DOMAIN @ |-> explicit(@[s])]]
    IN  IsOk(again) /\ again.ok.fields = [f \in DOMAIN m.fields |-> whole(m.fields[f])]

\* A mapping that was accepted and written out (GET _mapping, mapping.json of a
\* snapshot) is read back as the same fields; only the default date format
\* becomes explicit.
MappingRoundTrip ==
    [][Answers("mapping") => LET m == from_properties_value(Named("x", input.field)) IN IsOk(m) => ReadAgain(m.ok)]_vars

\* The two calendars of search.rs agree, the closed form is undone by its
\* inverse, and the week of a date starts on the Monday at most six days before.
CalendarsAgree(c) ==
    LET added  == parse_yyyymmdd_to_days(CivilText(c))
        closed == days_from_civil(c.year, c.month, c.day)
        week   == bucket_key_for_date(Str(CivilText(c)), "week")[1]
        monday == days_from_civil(week.year, week.month, week.day)
        firstMonday1970 == 4
    IN  added # None =>
            /\ added[1] = closed + 719162
            /\ civil_from_days(closed) = c
            /\ closed - monday \in 0 .. 6
            /\ (monday - firstMonday1970) % 7 = 0

\* The instant a schedule fires next is the first one after the given one that
\* all of its fields admit; there is none only if four years have none.
NextFireIsFirst(s, after) ==
    LET next  == next_fire_after(s, after)
        last  == IF next = None THEN Instant(after.day + SearchDays, after.sec) ELSE next[1]
        days  == {d \in after.day .. last.day : /\ Month(Instant(d, 0)) \in s.months
                                               /\ DayOfMonth(Instant(d, 0)) \in s.days_of_month
                                               /\ DayOfWeek(Instant(d, 0)) \in s.days_of_week}
        times == {3600 * h + 60 * m + x : h \in s.hours, m \in s.minutes, x \in s.seconds}
        fires == {Instant(d, t) : d \in days, t \in times}
    IN  /\ next # None => next[1] \in fires
        /\ \A t \in fires : Before(after, t) => ~Before(t, last)

\* Dates and instants are computed as the calendar has them: the days of
\* search.rs, and the next instant of a schedule of slm/cron.rs.
DatesAgree ==
    [][/\ Answers("date") => CalendarsAgree(input.date)
       /\ Answers("cron") => LET s == parse(input.fields) IN IsOk(s) => NextFireIsFirst(s.ok, input.after)]_vars
=============================================================================
