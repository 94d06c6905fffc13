------------------------------- MODULE Query --------------------------------
(***************************************************************************)
(* How surch-api decides which documents a query selects.  It has two ways *)
(* that must agree: query_matches reads the stored source, and             *)
(* posting_candidate_ids reads the postings and may skip the source        *)
(* altogether (candidate_set_is_exact).  _count has a third.               *)
(*                                                                         *)
(* A corpus is [mapping, docs]: docs is a function from ids to sources, a  *)
(* source a function from field names to JSON values.                      *)
(***************************************************************************)
EXTENDS Mapping, QueryParse, Dates
LOCAL INSTANCE Integers
LOCAL INSTANCE Sequences
LOCAL INSTANCE FiniteSets
LOCAL INSTANCE SequencesExt
LOCAL INSTANCE Functions

\* The dotted field name of the inputs, taken apart.
Path(f) == IF f = "t.k" THEN <<"t", "k">> ELSE <<f>>

field_text(source, f) == IF f \in DOMAIN source /\ is_scalar(source[f]) THEN Some(ScalarText(source[f])) ELSE None

StartsWith(t, p) == Len(p) <= Len(t) /\ SubSeq(t, 1, Len(p)) = p

-----------------------------------------------------------------------------
(* Reading the source.                                                     *)

SourceTokens(m, source, f) ==
    LET path == Path(f)
        text == field_text(source, IF Len(path) = 2 /\ FieldResolves(m, path) THEN path[1] ELSE f)
    IN  IF text = None THEN <<>> ELSE field_tokens_for_source(m, path, text[1])

tokens_match(query_tokens, field_tokens, operator) ==
    IF operator = "or" THEN Range(query_tokens) \cap Range(field_tokens) # {}
    ELSE Range(query_tokens) \subseteq Range(field_tokens)

field_matches_with_mapping(m, source, f, value, operator) ==
    LET q == normalized_terms_for_field(m, value, Path(f))
        s == SourceTokens(m, source, f)
    IN  q # <<>> /\ s # <<>> /\ tokens_match(q, s, operator)

\* The same without the mapping, for _count.
field_matches(source, f, value, operator) ==
    LET q == tokenize_for_search(value)
        t == field_text(source, f)
    IN  q # <<>> /\ t # None /\ tokenize_for_search(t[1]) # <<>> /\ tokens_match(q, tokenize_for_search(t[1]), operator)

match_phrase_field_matches(m, source, f, value) ==
    LET q == normalized_terms_for_field(m, value, Path(f))
        s == SourceTokens(m, source, f)
    IN  q # <<>> /\ \E i \in 0 .. Len(s) - Len(q) : SubSeq(s, i + 1, i + Len(q)) = q

\* Only the first term of the value counts.
term_field_matches_with_mapping(m, source, f, value) ==
    LET c    == custom_search_terms_for_field(m, value, Path(f))
        term == IF c # None /\ c[1] # <<>> THEN c[1][1] ELSE normalized_term_for_field(m, value, Path(f))
    IN  term # <<>> /\ term \in Range(SourceTokens(m, source, f))

\* Whether some folded token of the field passes a test.
SomeToken(source, f, test(_)) ==
    LET t == field_text(source, f)
    IN  t # None /\ \E token \in Range(tokenize_for_search(t[1])) : test(token)

prefix_field_matches(source, f, prefix) ==
    LET p == normalize_text(prefix) IN p # <<>> /\ SomeToken(source, f, LAMBDA x : StartsWith(x, p))

wildcard_field_matches(source, f, pattern) ==
    LET p == normalize_wildcard_pattern(pattern)
    IN  p # <<>> /\ SomeToken(source, f, LAMBDA x : wildcard_pattern_matches(p, x))

fuzzy_field_matches(source, f, value, fuzziness) ==
    LET q == tokenize_for_search(value)
    IN  /\ q # <<>>
        /\ field_text(source, f) # None
        /\ \A i \in DOMAIN q : SomeToken(source, f, LAMBDA x : fuzzy_token_matches(q[i], x, fuzziness))

exists_field_matches(source, f) ==
    /\ f \in DOMAIN source
    /\ ~is_null(source[f])
    /\ source[f] # Str(<<>>) /\ source[f] # Arr(<<>>)

\* A bound holds when the value is on its side of it; bounds the test does not
\* apply to are ignored.
InBounds(bounds, applies(_), less(_, _), x, of(_)) ==
    \A k \in RangeKeys : bounds[k] # None /\ applies(bounds[k][1]) =>
        LET b == of(bounds[k][1])
        IN  CASE k = "gt" -> less(b, x) [] k = "gte" -> ~less(x, b)
              [] k = "lt" -> less(x, b) [] k = "lte" -> ~less(b, x)

numeric_in_bounds(x, bounds) == InBounds(bounds, is_number, LAMBDA a, b : a < b, x, as_f64)
text_in_bounds(x, bounds) == InBounds(bounds, is_string, TextLess, x, LAMBDA b : b.str)

\* range_value_to_date: a number is read by its digits, towards zero.
BoundText(b) == IF is_string(b) THEN b.str ELSE NumberText(Num(as_f64(b) \div 2))

\* A bound that is no date excludes the document.
date_in_bounds(day, bounds, format) ==
    LET d(b) == parse_date_value(BoundText(b), format)
    IN  /\ \A k \in RangeKeys : bounds[k] # None => d(bounds[k][1]) # None
        /\ InBounds(bounds, LAMBDA b : TRUE, LAMBDA a, b : a < b, day, LAMBDA b : d(b)[1])

range_field_matches(m, source, f, bounds) ==
    LET v      == source[f]
        isDate == FieldResolves(m, Path(f)) /\ resolve_field(m, Path(f)).type = "date"
        format == OrElse(resolve_field(m, Path(f)).date_format, DefaultDateFormat)
        day    == IF is_string(v) \/ is_i64(v) THEN parse_date_value(ScalarText(v), format) ELSE None
    IN  IF f \notin DOMAIN source THEN FALSE
        ELSE IF isDate /\ day # None THEN date_in_bounds(day[1], bounds, format)
        ELSE IF is_number(v) THEN numeric_in_bounds(as_f64(v), bounds)
        ELSE is_string(v) /\ text_in_bounds(v.str, bounds)

-----------------------------------------------------------------------------
(* Points.  A great-circle distance is out of reach; the inputs lie on one *)
(* meridian, where it is the difference of the latitudes.                  *)

MillimetresPerDegree == 111195080
haversine_distance(p, q) == MillimetresPerDegree * (IF p.lat < q.lat THEN q.lat - p.lat ELSE p.lat - q.lat)

\* The point stored under a field, if there is one and it is well formed.
PointOf(source, field) == IF field \in DOMAIN source THEN parse_geo_point_source(source[field]) ELSE Invalid

geo_distance_field_matches(source, q) ==
    LET p == PointOf(source, q.field) IN IsOk(p) /\ haversine_distance(p.ok, q.at) <= q.distance

geo_bounding_box_field_matches(source, q) ==
    LET p == PointOf(source, q.field)
    IN  /\ IsOk(p)
        /\ p.ok.lat <= q.top_left.lat /\ p.ok.lat >= q.bottom_right.lat
        /\ p.ok.lon >= q.top_left.lon /\ p.ok.lon <= q.bottom_right.lon

\* Ray casting: an edge counts when it crosses the latitude of the point to its
\* east; x < (xj - xi)(y - yi)/(yj - yi) + xi without the division.
geo_polygon_field_matches(source, q) ==
    LET p == PointOf(source, q.field)
        n == Len(q.points)
        crosses(i) ==
            LET a == q.points[i]
                b == q.points[IF i = 1 THEN n ELSE i - 1]
                lhs == (p.ok.lon - a.lon) * (b.lat - a.lat)
                rhs == (b.lon - a.lon) * (p.ok.lat - a.lat)
            IN  /\ (a.lat > p.ok.lat) # (b.lat > p.ok.lat)
                /\ IF b.lat > a.lat THEN lhs < rhs ELSE lhs > rhs
    IN  n >= 3 /\ IsOk(p) /\ Cardinality({i \in 1 .. n : crosses(i)}) % 2 = 1

RECURSIVE query_matches(_, _, _)
query_matches(m, source, q) ==
    LET all(qs) == \A i \in DOMAIN qs : query_matches(m, source, qs[i])
        hits(qs) == {i \in DOMAIN qs : query_matches(m, source, qs[i])}
    IN  CASE q.kind = "match_all" -> TRUE
          [] q.kind = "match" -> field_matches_with_mapping(m, source, q.field, q.value, q.operator)
          [] q.kind = "match_phrase" -> match_phrase_field_matches(m, source, q.field, q.value)
          [] q.kind = "term" -> term_field_matches_with_mapping(m, source, q.field, q.value)
          [] q.kind = "terms" -> \E i \in DOMAIN q.values : term_field_matches_with_mapping(m, source, q.field, q.values[i])
          [] q.kind = "fuzzy" -> fuzzy_field_matches(source, q.field, q.value, q.fuzziness)
          [] q.kind = "range" -> range_field_matches(m, source, q.field, q.bounds)
          [] q.kind = "exists" -> exists_field_matches(source, q.field)
          [] q.kind = "prefix" -> prefix_field_matches(source, q.field, q.value)
          [] q.kind = "wildcard" -> wildcard_field_matches(source, q.field, q.value)
          [] q.kind = "multi_match" ->
                \E i \in DOMAIN q.fields : field_matches_with_mapping(m, source, q.fields[i], q.value, q.operator)
          [] q.kind = "function_score" -> query_matches(m, source, q.inner)
          [] q.kind = "geo_distance" -> geo_distance_field_matches(source, q)
          [] q.kind = "geo_bounding_box" -> geo_bounding_box_field_matches(source, q)
          [] q.kind = "geo_polygon" -> geo_polygon_field_matches(source, q)
          [] q.kind = "bool" ->
                /\ all(q.must) /\ all(q.filter) /\ hits(q.must_not) = {}
                /\ q.should = <<>> \/ Cardinality(hits(q.should)) >= q.minimum_should_match

-----------------------------------------------------------------------------
(* Reading the postings.                                                   *)

\* scalar_values: arrays are flattened; the inputs hold no objects in text.
RECURSIVE scalar_values(_)
scalar_values(v) ==
    IF is_array(v) THEN FlattenSeq([i \in DOMAIN v.arr |-> scalar_values(v.arr[i])])
    ELSE IF is_scalar(v) THEN <<ScalarText(v)>> ELSE <<>>

\* The terms a document is posted under for a field, and the documents of a term.
PostedTerms(m, source, f) ==
    LET path == Path(f)
    IN  IF path[1] \notin DOMAIN source THEN {}
        ELSE UNION {Range(IndexedTerms(m, path, t)) : t \in Range(scalar_values(source[path[1]]))}

postings(c, f, term) == {d \in DOMAIN c.docs : term \in PostedTerms(c.mapping, c.docs[d], f)}

term_hits(c, f, value) ==
    LET term == normalized_term_for_field(c.mapping, value, Path(f))
    IN  IF term = <<>> THEN {} ELSE postings(c, f, term)

match_hits(c, f, value, all) ==
    LET ts == Range(normalized_terms_for_field(c.mapping, value, Path(f)))
    IN  IF ts = {} THEN {}
        ELSE {d \in DOMAIN c.docs : IF all THEN \A t \in ts : d \in postings(c, f, t) ELSE \E t \in ts : d \in postings(c, f, t)}

\* None when the field has no prefix index that covers the length asked for.
prefix_hits(c, f, prefix) ==
    LET fm   == c.mapping.fields[f]
        p    == normalized_term_for_field(c.mapping, prefix, <<f>>)
        under == {d \in DOMAIN c.docs : \E t \in PostedTerms(c.mapping, c.docs[d], f) : StartsWith(t, p)}
    IN  IF f \notin DOMAIN c.mapping.fields \/ p = <<>> THEN None
        ELSE IF fm.index_prefixes # None
        THEN IF Len(p) \in fm.index_prefixes[1].min_chars .. fm.index_prefixes[1].max_chars THEN Some(under) ELSE None
        ELSE IF fm.type \in {"keyword", "date"} THEN Some(under) ELSE None

\* conjunction_leapfrog declines unless every clause has exactly one term.
conjunction_leapfrog(c, clauses) ==
    LET ts(q) == normalized_terms_for_field(c.mapping, q.value, Path(q.field))
    IN  IF \E i \in DOMAIN clauses : Len(ts(clauses[i])) # 1 THEN None
        ELSE Some({d \in DOMAIN c.docs : \A i \in DOMAIN clauses : d \in postings(c, clauses[i].field, ts(clauses[i])[1])})

Intersection(sets) == {d \in sets[1] : \A i \in DOMAIN sets : d \in sets[i]}
Present(options) == LET some == SelectSeq(options, LAMBDA o : o # None) IN [i \in DOMAIN some |-> some[i][1]]

RECURSIVE posting_candidate_ids(_, _)

\* A bool is one leapfrog when it is flat, else the intersection of the clauses
\* that resolve; the should clauses join in only when one must match and all
\* resolve.
BoolCandidates(c, q) ==
    LET n        == Len(q.should)
        allShould == n > 0 /\ q.minimum_should_match = n
        required == q.must \o q.filter \o (IF allShould THEN q.should ELSE <<>>)
        flat     == /\ n = 0 \/ allShould
                    /\ Len(required) >= 2
                    /\ \A i \in DOMAIN required : required[i].kind \in {"match", "term"}
        allMatch == \A i \in DOMAIN required : required[i].kind = "match"
        leap     == conjunction_leapfrog(c, required)
        ids(qs)  == Present([i \in DOMAIN qs |-> posting_candidate_ids(c, qs[i])])
        shoulds  == ids(q.should)
        sets     == ids(q.must \o q.filter)
                    \o (IF n = 0 \/ q.minimum_should_match = 0 \/ Len(shoulds) # n THEN <<>>
                        ELSE IF allShould THEN shoulds ELSE <<UNION Range(shoulds)>>)
    IN  IF flat /\ leap # None THEN leap
        ELSE IF flat /\ allMatch
        THEN Some(Intersection([i \in DOMAIN required |->
                      match_hits(c, required[i].field, required[i].value, required[i].operator = "and")]))
        ELSE IF sets = <<>> THEN None ELSE Some(Intersection(sets))

posting_candidate_ids(c, q) ==
    CASE q.kind = "term" -> Some(term_hits(c, q.field, q.value))
      [] q.kind = "match" -> Some(match_hits(c, q.field, q.value, q.operator = "and"))
      [] q.kind = "prefix" -> prefix_hits(c, q.field, q.value)
      [] q.kind = "multi_match" -> Some(UNION {match_hits(c, f, q.value, q.operator = "and") : f \in Range(q.fields)})
      [] q.kind = "function_score" -> posting_candidate_ids(c, q.inner)
      [] q.kind = "bool" -> BoolCandidates(c, q)
      [] OTHER -> None

\* Mutant: should clauses are taken for exact whatever their number.
RECURSIVE exact_despite_should(_)
exact_despite_should(q) ==
    \/ q.kind \in {"term", "match", "multi_match"}
    \/ q.kind = "bool" /\ q.must_not = <<>> /\ \A cl \in Range(q.must \o q.filter \o q.should) : exact_despite_should(cl)

RECURSIVE candidate_set_is_exact(_)
candidate_set_is_exact(q) ==
    \/ q.kind \in {"term", "match", "multi_match"}
    \/ q.kind = "function_score" /\ candidate_set_is_exact(q.inner)
    \/ /\ q.kind = "bool"
       /\ q.must_not = <<>>
       /\ \A cl \in Range(q.must \o q.filter) : candidate_set_is_exact(cl)
       /\ \/ q.should = <<>> \/ q.minimum_should_match = 0
          \/ q.minimum_should_match = Len(q.should) /\ \A cl \in Range(q.should) : candidate_set_is_exact(cl)

\* The documents a query selects in an index.
match_documents_for_index(c, q) ==
    LET scan(ids) == {d \in ids : query_matches(c.mapping, c.docs[d], q)}
        ids == posting_candidate_ids(c, q)
    IN  IF q.kind = "term" THEN term_hits(c, q.field, q.value)
        ELSE IF q.kind = "bool" /\ ids # None THEN IF candidate_set_is_exact(q) THEN ids[1] ELSE scan(ids[1])
        ELSE IF q.kind \in {"match", "multi_match"} THEN ids[1]
        ELSE scan(DOMAIN c.docs)

-----------------------------------------------------------------------------
(* _count.                                                                 *)

term_field_matches(source, f, value) ==
    LET v == normalize_text(value) IN v # <<>> /\ SomeToken(source, f, LAMBDA x : x = v)

RECURSIVE count_query_matches_source(_, _, _)
count_query_matches_source(m, source, q) ==
    CASE q.kind = "term" -> term_field_matches(source, q.field, q.value)
      [] q.kind = "terms" -> \E i \in DOMAIN q.values : term_field_matches(source, q.field, q.values[i])
      [] q.kind = "bool_must" -> \A i \in DOMAIN q.must : count_query_matches_source(m, source, q.must[i])
      [] q.kind = "multi_match" -> \E i \in DOMAIN q.fields : field_matches(source, q.fields[i], q.value, q.operator)
      [] OTHER -> query_matches(m, source, q)

\* plafond_de_comptage and compter_avec_plafond.
compter_avec_plafond(n, track) == IF track # None /\ track[1].kind = "up_to" /\ n > track[1].limit THEN track[1].limit ELSE n

\* Terms go through the postings, and are not capped there.
count_query_matches(c, q, track) ==
    LET terms_only == q.kind = "bool_must" /\ \A i \in DOMAIN q.must : q.must[i].kind = "term"
    IN  IF q.kind = "match_all" THEN Cardinality(DOMAIN c.docs)
        ELSE IF q.kind = "term" THEN Cardinality(term_hits(c, q.field, q.value))
        ELSE IF terms_only
        THEN Cardinality(Intersection([i \in DOMAIN q.must |-> term_hits(c, q.must[i].field, q.must[i].value)]))
        ELSE compter_avec_plafond(Cardinality({d \in DOMAIN c.docs : count_query_matches_source(c.mapping, c.docs[d], q)}), track)

\* The counts of the indices are added and the sum is capped again.
count_handler(corpora, q, track) ==
    compter_avec_plafond(FoldLeft(LAMBDA a, c : a + count_query_matches(c, q, track), 0, corpora), track)
=============================================================================
