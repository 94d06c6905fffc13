------------------------------ MODULE Response ------------------------------
(***************************************************************************)
(* What surch-api makes of the documents a search selected: their order,   *)
(* the page, the aggregations with the cursor of a composite, the filtered *)
(* source and the highlighted fragments.                                   *)
(*                                                                         *)
(* A selected document is [id, source, score].  Projections maps the paths *)
(* of stored sub-fields to the text stored for each document.              *)
(***************************************************************************)
EXTENDS Query
LOCAL INSTANCE Integers
LOCAL INSTANCE Sequences
LOCAL INSTANCE FiniteSets
LOCAL INSTANCE SequencesExt
LOCAL INSTANCE FiniteSetsExt
LOCAL INSTANCE Functions

\* x behind the elements that it does not precede.
Placed(out, x, precedes(_, _)) ==
    LET n == Cardinality({i \in DOMAIN out : ~precedes(x, out[i])})
    IN  SubSeq(out, 1, n) \o <<x>> \o SubSeq(out, n + 1, Len(out))

\* slice::sort_by.
StableSort(s, precedes(_, _)) == FoldLeft(LAMBDA out, x : Placed(out, x, precedes), <<>>, s)

Take(s, n) == SubSeq(s, 1, IF n < Len(s) THEN n ELSE Len(s))
Skip(s, n) == SubSeq(s, n + 1, Len(s))

-----------------------------------------------------------------------------
(* Order and page.                                                         *)

\* What a document stores for a sub-field: the first term of its last value.
subfield_values(c, d, p) ==
    LET texts == IF Path(p)[1] \in DOMAIN c.docs[d] THEN scalar_values(c.docs[d][Path(p)[1]]) ELSE <<>>
    IN  SelectSeq([i \in DOMAIN texts |-> FirstTerm(IndexedTerms(c.mapping, Path(p), texts[i]))], LAMBDA t : t # <<>>)

\* The columns of the sub-field paths a request sorts or aggregates by.
collect_subfield_projections(c, paths) ==
    LET holders(p) == {d \in DOMAIN c.docs : subfield_values(c, d, p) # <<>>}
    IN  [p \in {p \in paths : Len(Path(p)) = 2 /\ holders(p) # {}} |->
            [d \in holders(p) |-> Last(subfield_values(c, d, p))]]

lookup_sort_value(source, f) ==
    LET parent == Path(f)[1]
    IN  IF f \in DOMAIN source THEN Some(source[f])
        ELSE IF Len(Path(f)) = 2 /\ parent \in DOMAIN source THEN Some(source[parent]) ELSE None

aggregation_value(doc, f, projections) ==
    IF f \notin DOMAIN projections THEN lookup_sort_value(doc.source, f)
    ELSE IF doc.id \in DOMAIN projections[f] THEN Some(Str(projections[f][doc.id])) ELSE None

\* Values of two kinds, and values that are neither numbers, texts nor
\* booleans, count as equal.
ValueLess(a, b) ==
    \/ is_number(a) /\ is_number(b) /\ as_f64(a) < as_f64(b)
    \/ is_string(a) /\ is_string(b) /\ TextLess(a.str, b.str)
    \/ is_boolean(a) /\ is_boolean(b) /\ ~a.bool /\ b.bool

\* A missing value comes last in either order.
compare_field(a, b, order) ==
    IF a = None \/ b = None THEN a # None /\ b = None
    ELSE IF order = "asc" THEN ValueLess(a[1], b[1]) ELSE ValueLess(b[1], a[1])

\* A sub-field without a column is read from its parent, through its normalizer.
normalize_sort_value(m, f, v) ==
    IF v # None /\ is_string(v[1]) /\ Len(Path(f)) = 2 /\ FieldResolves(m, Path(f)) /\ resolve_field(m, Path(f)).normalizer # None
    THEN Some(Str(FirstTerm(terms(resolve_field(m, Path(f)).normalizer[1], v[1].str)))) ELSE v

SortValue(m, doc, f, projections) ==
    IF f \in DOMAIN projections THEN aggregation_value(doc, f, projections)
    ELSE normalize_sort_value(m, f, lookup_sort_value(doc.source, f))

compare_sort_clause(m, x, y, clause, projections) ==
    IF clause.field = "_score" THEN IF clause.order = "asc" THEN x.score < y.score ELSE x.score > y.score
    ELSE compare_field(SortValue(m, x, clause.field, projections), SortValue(m, y, clause.field, projections), clause.order)

sort_scored_documents(m, docs, clauses, scoring, projections) ==
    LET before(x, y, i) == compare_sort_clause(m, x, y, clauses[i], projections)
        less(x, y) ==
            IF clauses = <<>> THEN scoring /\ x.score > y.score
            ELSE \E i \in DOMAIN clauses : before(x, y, i) /\ \A j \in 1 .. i - 1 : ~before(x, y, j) /\ ~before(y, x, j)
    IN  StableSort(docs, less)

paginate_hits(request, docs) == Take(Skip(docs, OrElse(request.from, 0)), OrElse(request.size, 10))

resolve_total_hits(total, mode, cap) ==
    LET capped(limit) == IF total <= limit THEN [value |-> total, relation |-> "eq"] ELSE [value |-> limit, relation |-> "gte"]
    IN  IF mode = None THEN Some(capped(cap))
        ELSE IF mode[1].kind = "exact" THEN Some(capped(total))
        ELSE IF mode[1].kind = "disabled" THEN None ELSE Some(capped(mode[1].limit))

compute_max_score(docs, scoring) == IF ~scoring \/ docs = <<>> THEN None ELSE Some(Max({d.score : d \in Range(docs)}))

filter_source_fields(source, includes, excludes) ==
    Restrict(source, {k \in DOMAIN source : (includes = <<>> \/ k \in Range(includes)) /\ k \notin Range(excludes)})

apply_source_filter(source, filter) ==
    IF filter = None THEN Some(source)
    ELSE CASE filter[1].kind = "disabled" -> None
           [] filter[1].kind = "includes" -> Some(filter_source_fields(source, filter[1].includes, <<>>))
           [] filter[1].kind = "filter" -> Some(filter_source_fields(source, filter[1].includes, filter[1].excludes))

-----------------------------------------------------------------------------
(* Aggregations.                                                           *)

\* TermsKey: booleans, then numbers by their digits, then texts, then the rest.
TermsKey(v) ==
    CASE is_boolean(v) -> <<1, IF v.bool THEN <<"1">> ELSE <<"0">>>>
      [] is_number(v) -> <<2, NumberText(v)>>
      [] is_string(v) -> <<3, v.str>>
      [] OTHER -> <<4, <<>>>>

KeyLess(a, b) == a[1] < b[1] \/ (a[1] = b[1] /\ TextLess(a[2], b[2]))

KeysLess(a, b) == \E i \in DOMAIN a : KeyLess(a[i], b[i]) /\ \A j \in 1 .. i - 1 : a[j] = b[j]

\* The values of a field: the items of an array, else the value; no nulls.
FieldValues(doc, f, projections) ==
    LET v == aggregation_value(doc, f, projections)
    IN  IF v = None THEN <<>>
        ELSE SelectSeq(IF is_array(v[1]) THEN v[1].arr ELSE <<v[1]>>, LAMBDA x : ~is_null(x))

AllValues(docs, f, projections) == FlattenSeq([i \in DOMAIN docs |-> FieldValues(docs[i], f, projections)])

\* How often each key occurs; the first value with a key stands for it.
Tally(values, key(_)) ==
    [k \in {key(v) : v \in Range(values)} |->
        [value |-> SelectSeq(values, LAMBDA v : key(v) = k)[1], doc_count |-> Len(SelectSeq(values, LAMBDA v : key(v) = k))]]

\* A map's entries in the order of its keys (BTreeMap).
InOrder(keys, less(_, _)) == FoldSet(LAMBDA k, out : Placed(out, k, less), <<>>, keys)

compute_terms_aggregation(docs, f, size, projections) ==
    LET counts == Tally(AllValues(docs, f, projections), TermsKey)
        keys   == InOrder(DOMAIN counts, KeyLess)
        precedes(a, b) == a.doc_count > b.doc_count \/ (a.doc_count = b.doc_count /\ ValueLess(a.value, b.value))
    IN  Take(StableSort([i \in DOMAIN keys |-> counts[keys[i]]], precedes), size)

compute_cardinality_aggregation(docs, f, projections) == Cardinality({TermsKey(v) : v \in Range(AllValues(docs, f, projections))})

CivilLess(a, b) ==
    \/ a.year < b.year
    \/ a.year = b.year /\ (a.month < b.month \/ (a.month = b.month /\ a.day < b.day))

compute_date_histogram_aggregation(docs, f, interval, projections) ==
    LET dated  == SelectSeq(AllValues(docs, f, projections), LAMBDA v : bucket_key_for_date(v, interval) # None)
        counts == Tally(dated, LAMBDA v : bucket_key_for_date(v, interval)[1])
        keys   == InOrder(DOMAIN counts, CivilLess)
    IN  [i \in DOMAIN keys |-> [value |-> keys[i], doc_count |-> counts[keys[i]].doc_count]]

\* The digits of a bucket's date.
CivilText(c) == LET four == Numeral[10000 + c.year] md == Numeral[10000 + c.month * 100 + c.day] IN Tail(four) \o Tail(md)

\* The value of one source of a composite for a document: the first item of an
\* array, the bucket of a date; <<>> leaves the document out.
CompositeValue(doc, source, projections) ==
    LET vs == FieldValues(doc, source.field, projections)
    IN  IF vs = <<>> THEN None
        ELSE IF source.kind = "terms" THEN Some(vs[1])
        ELSE LET day == bucket_key_for_date(vs[1], source.calendar_interval)
             IN  IF day = None THEN None ELSE Some(Str(CivilText(day[1])))

\* Mutant: the page starts with the bucket of the cursor.
AfterCursorAgain(key, cursor) == ~KeysLess(key, cursor)

AfterCursor(key, cursor) == KeysLess(cursor, key)

\* The buckets behind the cursor, and the cursor for the next page.
compute_composite_aggregation(docs, sources, size, after, projections) ==
    LET value(d) == [i \in DOMAIN sources |-> CompositeValue(d, sources[i].source, projections)]
        present  == SelectSeq(docs, LAMBDA d : \A i \in DOMAIN sources : value(d)[i] # None)
        values   == [n \in DOMAIN present |-> [i \in DOMAIN sources |-> value(present[n])[i][1]]]
        counts   == Tally(values, LAMBDA v : [i \in DOMAIN sources |-> TermsKey(v[i])])
        keys     == InOrder(DOMAIN counts, KeysLess)
        cursor   == [i \in DOMAIN sources |->
                        TermsKey(IF sources[i].name \in DOMAIN after[1] THEN after[1][sources[i].name] ELSE Null)]
        filtered == SelectSeq(keys, LAMBDA k : after = None \/ AfterCursor(k, cursor))
        page     == Take(filtered, size)
        named(k) == [n \in {sources[i].name : i \in DOMAIN sources} |->
                        counts[k].value[CHOOSE i \in DOMAIN sources : sources[i].name = n]]
        buckets  == [n \in DOMAIN page |-> [key |-> named(page[n]), doc_count |-> counts[page[n]].doc_count]]
    IN  [buckets |-> buckets,
         after_key |-> IF Len(buckets) = size /\ Len(filtered) > size /\ buckets # <<>> THEN Some(Last(buckets).key) ELSE None]

compute_aggregations(specs, docs, projections) ==
    [n \in DOMAIN specs |->
        LET a == specs[n]
        IN  CASE a.kind = "terms" -> compute_terms_aggregation(docs, a.field, a.size, projections)
              [] a.kind = "date_histogram" -> compute_date_histogram_aggregation(docs, a.field, a.calendar_interval, projections)
              [] a.kind = "cardinality" -> compute_cardinality_aggregation(docs, a.field, projections)
              [] a.kind = "composite" -> compute_composite_aggregation(docs, a.sources, a.size, a.after, projections)]

-----------------------------------------------------------------------------
(* Highlighting.  Offsets count bytes: an accented letter takes two.       *)

Bytes(t) == FlattenSeq([i \in DOMAIN t |-> IF t[i] \in {"e^", "E^", "ae"} THEN <<t[i], "~">> ELSE <<t[i]>>])
is_char_boundary(bytes, i) == i = Len(bytes) \/ bytes[i + 1] # "~"

\* The tokens of a text with their byte offsets.
text_token_spans(t) ==
    LET tokens == RunTokens(normalize_text(t), IsSolid, Unchanged)
        offset(i) == Len(Bytes(SubSeq(t, 1, i)))
    IN  [k \in DOMAIN tokens |-> [start |-> offset(tokens[k].start_offset), end |-> offset(tokens[k].end_offset),
                                  normalized |-> tokens[k].term]]

SpansOf(tokens, ks) == {<<tokens[k].start, tokens[k].end>> : k \in ks}

exact_token_spans(tokens, wanted) == SpansOf(tokens, {k \in DOMAIN tokens : tokens[k].normalized \in wanted})

phrase_token_spans(tokens, q) ==
    SpansOf(tokens, {k \in DOMAIN tokens : \E i \in 0 .. Len(tokens) - Len(q) :
                        /\ k \in i + 1 .. i + Len(q)
                        /\ \A j \in DOMAIN q : tokens[i + j].normalized = q[j]})

fuzzy_token_spans(tokens, q, fuzziness) ==
    SpansOf(tokens, {k \in DOMAIN tokens : \E x \in Range(q) : fuzzy_token_matches(x, tokens[k].normalized, fuzziness)})

prefix_token_spans(tokens, prefix) ==
    SpansOf(tokens, {k \in DOMAIN tokens : prefix # <<>> /\ StartsWith(tokens[k].normalized, normalize_text(prefix))})

wildcard_token_spans(tokens, pattern) ==
    SpansOf(tokens, {k \in DOMAIN tokens :
        pattern # <<>> /\ wildcard_pattern_matches(normalize_wildcard_pattern(pattern), tokens[k].normalized)})

\* The spans of a query on a field; a prohibited clause is highlighted too.
RECURSIVE SpanSet(_, _, _)
SpanSet(tokens, q, f) ==
    CASE q.kind \in {"match", "match_phrase", "term", "terms", "fuzzy", "prefix", "wildcard"} /\ q.field # f -> {}
      [] q.kind = "match" -> exact_token_spans(tokens, Range(tokenize_for_search(q.value)))
      [] q.kind = "match_phrase" -> phrase_token_spans(tokens, tokenize_for_search(q.value))
      [] q.kind = "term" -> exact_token_spans(tokens, {normalize_text(q.value)})
      [] q.kind = "terms" -> exact_token_spans(tokens, {normalize_text(v) : v \in Range(q.values)})
      [] q.kind = "fuzzy" -> fuzzy_token_spans(tokens, tokenize_for_search(q.value), q.fuzziness)
      [] q.kind = "prefix" -> prefix_token_spans(tokens, q.value)
      [] q.kind = "wildcard" -> wildcard_token_spans(tokens, q.value)
      [] q.kind = "multi_match" -> IF f \in Range(q.fields) THEN exact_token_spans(tokens, Range(tokenize_for_search(q.value))) ELSE {}
      [] q.kind = "bool" -> UNION {SpanSet(tokens, cl, f) : cl \in Range(q.must \o q.filter \o q.must_not \o q.should)}
      [] OTHER -> {}

SpanLess(a, b) == a[1] < b[1] \/ (a[1] = b[1] /\ a[2] < b[2])
highlight_spans_for_query(t, q, f) == InOrder(SpanSet(text_token_spans(t), q, f), SpanLess)

\* The pieces of a rendered region: <<marked, bytes>>, without the empty ones that have no mark.
render_highlight_region(bytes, start, end, spans) ==
    LET piece(a, from, to, marked) == IF from < to \/ marked THEN Append(a, [marked |-> marked, from |-> from, to |-> to]) ELSE a
        step(a, s) == IF s[1] < a.cursor THEN a
                      ELSE [cursor |-> s[2], out |-> piece(piece(a.out, a.cursor, s[1], FALSE), s[1], s[2], TRUE)]
        all == FoldLeft(step, [cursor |-> start, out |-> <<>>], spans)
    IN  piece(all.out, all.cursor, end, FALSE)

previous_char_boundary(bytes, i) == Max({j \in 0 .. i : is_char_boundary(bytes, j)})
next_char_boundary(bytes, i) == Min({j \in i .. Len(bytes) : is_char_boundary(bytes, j)})

SaturatingSub(a, b) == IF a < b THEN 0 ELSE a - b
Least2(a, b) == IF a < b THEN a ELSE b

\* Mutant: the window starts at the centre of the cluster.
window_at_centre(bytes, from, to, fragment_size) ==
    LET start == (from + to) \div 2
    IN  <<previous_char_boundary(bytes, start), next_char_boundary(bytes, Least2(start + fragment_size, Len(bytes)))>>

\* fragment_size bytes around the centre of the cluster, moved back at the end
\* of the text and widened to whole characters.
window(bytes, from, to, fragment_size) ==
    LET around == SaturatingSub((from + to) \div 2, fragment_size \div 2)
        end    == Least2(around + fragment_size, Len(bytes))
        start  == IF end = Len(bytes) THEN SaturatingSub(Len(bytes), fragment_size) ELSE around
    IN  <<previous_char_boundary(bytes, start), next_char_boundary(bytes, end)>>

render_cluster_fragment(bytes, spans, fragment_size) ==
    LET w == window(bytes, spans[1][1], Max({s[2] : s \in Range(spans)}), fragment_size)
        clip == [i \in DOMAIN spans |-> <<Max({spans[i][1], w[1]}), Least2(spans[i][2], w[2])>>]
        shown == SelectSeq(clip, LAMBDA s : s[1] < s[2])
    IN  render_highlight_region(bytes, w[1], w[2], IF shown = <<>> THEN <<<<w[1], w[1]>>>> ELSE shown)

\* Spans that follow each other within fragment_size share a fragment.
Clusters(spans, fragment_size) ==
    LET joins(cluster, s) == s[1] <= Max({x[2] : x \in Range(cluster)}) \/ s[2] - cluster[1][1] <= fragment_size
        step(a, s) == IF a # <<>> /\ joins(Last(a), s) THEN [a EXCEPT ![Len(a)] = Append(@, s)] ELSE Append(a, <<s>>)
    IN  FoldLeft(step, <<>>, spans)

build_highlight_fragments(bytes, spans, fragment_size, max_fragments) ==
    LET kept == Take(Clusters(spans, fragment_size), max_fragments)
    IN  [i \in DOMAIN kept |-> render_cluster_fragment(bytes, kept[i], fragment_size)]

CONSTANTS DEFAULT_HIGHLIGHT_FRAGMENT_SIZE, DEFAULT_HIGHLIGHT_FRAGMENT_COUNT

highlight_field_fragments(t, q, f, request) ==
    LET spans == highlight_spans_for_query(t, q, f)
    IN  IF spans = <<>> THEN None
        ELSE IF request.fragment_size = None /\ request.number_of_fragments = None
        THEN Some(<<render_highlight_region(Bytes(t), 0, Len(Bytes(t)), spans)>>)
        ELSE Some(build_highlight_fragments(Bytes(t), spans, OrElse(request.fragment_size, DEFAULT_HIGHLIGHT_FRAGMENT_SIZE),
                                            OrElse(request.number_of_fragments, DEFAULT_HIGHLIGHT_FRAGMENT_COUNT)))

build_highlight(source, q, request) ==
    [f \in {f \in request.fields : /\ field_text(source, f) # None
                                   /\ highlight_field_fragments(field_text(source, f)[1], q, f, request) # None} |->
        highlight_field_fragments(field_text(source, f)[1], q, f, request)[1]]

build_hit(doc, request, scoring) ==
    [id |-> doc.id,
     score |-> IF scoring THEN Some(doc.score) ELSE None,
     source |-> apply_source_filter(doc.source, request.source),
     highlight |-> IF request.highlight = None \/ request.query = None THEN None
                   ELSE Some(build_highlight(doc.source, request.query[1], request.highlight[1]))]
=============================================================================
