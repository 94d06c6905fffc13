----------------------------- MODULE QueryParse -----------------------------
(***************************************************************************)
(* The request parsers of surch-api: _search (search.rs) and the parser    *)
(* _count has of its own (count.rs).  Every mistake is answered with the   *)
(* same 400, so a parser is the condition it checks and the request it     *)
(* builds.                                                                 *)
(*                                                                         *)
(* Where the code takes a string apart, the string is the record of its    *)
(* parts: [percent |-> 75] and [int |-> -1] for minimum_should_match,      *)
(* [edits |-> 2] and [auto |-> <<3, 6>>] for a fuzziness, [amount, unit]   *)
(* for a distance, [lat, lon] for a point.                                 *)
(***************************************************************************)
EXTENDS JsonValue, Analysis
LOCAL INSTANCE Integers
LOCAL INSTANCE Sequences
LOCAL INSTANCE SequencesExt
LOCAL INSTANCE FiniteSets
LOCAL INSTANCE Functions

is_scalar(v) == is_string(v) \/ is_number(v) \/ is_boolean(v)

\* Number::to_string for integers, in decimal digits.
Numeral[n \in Nat] ==
    IF n < 10 THEN <<Digits[n + 1]>> ELSE Append(Numeral[n \div 10], Digits[(n % 10) + 1])
NumberText(v) ==
    LET n == IF is_i64(v) THEN v.num ELSE v.frac
    IN  (IF n < 0 THEN <<"-">> \o Numeral[-n] ELSE Numeral[n]) \o IF is_i64(v) THEN <<>> ELSE <<".", "5">>

ScalarText(v) ==
    IF is_string(v) THEN v.str
    ELSE IF is_number(v) THEN NumberText(v) ELSE IF v.bool THEN <<"t">> ELSE <<"f">>

OnlyKeys(v, keys) == is_object(v) /\ DOMAIN v.obj \subseteq keys
HasString(v, k) == Has(v, k) /\ is_string(Get(v, k))
Opt(v, k, parse(_)) ==
    IF ~Has(v, k) THEN Ok(None) ELSE LET r == parse(Get(v, k)) IN IF IsOk(r) THEN Ok(Some(r.ok)) ELSE r
OrElse(o, d) == IF o = None THEN d ELSE o[1]

-----------------------------------------------------------------------------
(* Leaves.                                                                 *)

parse_scalar_query_text(v) == Checked(is_scalar(v), ScalarText(v))

\* parse_query_text looks through any number of {"query": ...} wrappers.
RECURSIVE parse_query_text(_)
parse_query_text(v) ==
    IF Has(v, "query") THEN parse_query_text(Get(v, "query")) ELSE parse_scalar_query_text(v)

parse_term_query_value(v) ==
    IF is_object(v) THEN IF Has(v, "value") THEN parse_scalar_query_text(Get(v, "value")) ELSE Invalid
    ELSE parse_scalar_query_text(v)

parse_non_negative_integer(v) == Checked(is_u64(v), v.num)

\* Boosts, weights and scores are counted in halves.
parse_boost(v) == Checked(is_number(v) /\ as_f64(v) >= 0, as_f64(v))

parse_match_operator(v) ==
    IF ~Has(v, "operator") THEN Ok("or")
    ELSE Checked(HasString(v, "operator") /\ Get(v, "operator").str \in {"or", "and"}, Get(v, "operator").str)

parse_fuzziness(s) ==
    IF "auto" \in DOMAIN s THEN Checked(s.auto[1] <= s.auto[2], Auto(s.auto[1], s.auto[2]))
    ELSE Checked("edits" \in DOMAIN s /\ s.edits <= MAX_SUPPORTED_EDITS, Edits(s.edits))

parse_fuzzy_query_fuzziness(v) ==
    IF is_string(v) THEN parse_fuzziness(v.str)
    ELSE IF is_u64(v) THEN parse_fuzziness([edits |-> v.num]) ELSE Invalid

ClampTo(n, len) == IF n < 0 THEN 0 ELSE IF n > len THEN len ELSE n

resolve_msm_integer(signed, should_len) ==
    IF signed < 0 THEN ClampTo(should_len + signed, should_len) ELSE ClampTo(signed, should_len)

\* A negative percentage is what may be missing; the floor of the rest counts.
parse_msm_string(s, should_len) ==
    IF "percent" \in DOMAIN s
    THEN LET raw == s.percent * should_len + (IF s.percent < 0 THEN 100 * should_len ELSE 0)
         IN  Ok(ClampTo(raw \div 100, should_len))
    ELSE Checked("int" \in DOMAIN s, resolve_msm_integer(s.int, should_len))

parse_minimum_should_match(v, should_len) ==
    IF is_string(v) THEN parse_msm_string(v.str, should_len)
    ELSE Checked(is_i64(v), resolve_msm_integer(v.num, should_len))

-----------------------------------------------------------------------------
(* Points and shapes.                                                      *)

LatLimit == 90
LonLimit == 180
Within(x, limit) == -limit <= x /\ x <= limit
Point(lat, lon) == [lat |-> lat, lon |-> lon]

\* An array is <<lon, lat>>, the other forms name or write lat first.
parse_geo_point_source(v) ==
    LET shaped == \/ is_object(v) /\ \A k \in {"lat", "lon"} : Has(v, k) /\ is_i64(Get(v, k))
                  \/ is_string(v) /\ DOMAIN v.str = {"lat", "lon"}
                  \/ is_array(v) /\ Len(v.arr) = 2 /\ \A i \in 1 .. 2 : is_i64(v.arr[i])
        p      == IF is_object(v) THEN Point(Get(v, "lat").num, Get(v, "lon").num)
                  ELSE IF is_string(v) THEN Point(v.str.lat, v.str.lon)
                  ELSE Point(v.arr[2].num, v.arr[1].num)
    IN  Checked(shaped /\ Within(p.lat, LatLimit) /\ Within(p.lon, LonLimit), p)

\* Millimetres per unit, so that every factor of the code is an integer but
\* the foot's and the yard's tenths.
geo_distance_unit_meters ==
    [u \in {"", "m", "km", "mi", "nm"} |->
        CASE u \in {"", "m"} -> 1000 [] u = "km" -> 1000000 [] u = "mi" -> 1609344 [] u = "nm" -> 1852000]

parse_geo_distance_meters(v) ==
    IF is_string(v)
    THEN Checked("unit" \in DOMAIN v.str /\ v.str.unit \in DOMAIN geo_distance_unit_meters /\ v.str.amount >= 0,
                 v.str.amount * geo_distance_unit_meters[v.str.unit])
    ELSE Checked(is_i64(v) /\ v.num >= 0, v.num * 1000)

\* The field of a shape: the key that is no option; the inputs have one at most.
GeoField(b, own) == DOMAIN b.obj \ ({"validation_method", "ignore_unmapped", "_name", "boost"} \cup own)

parse_geo_distance_query(b) ==
    LET f == CHOOSE k \in GeoField(b, {"distance", "distance_type"}) : TRUE
        p == parse_geo_point_source(b.obj[f])
        d == parse_geo_distance_meters(Get(b, "distance"))
    IN  Checked(is_object(b) /\ Has(b, "distance") /\ IsOk(d) /\ GeoField(b, {"distance", "distance_type"}) # {} /\ IsOk(p),
                [kind |-> "geo_distance", field |-> f, at |-> p.ok, distance |-> d.ok])

parse_geo_bounding_box_query(b) ==
    LET f == CHOOSE k \in GeoField(b, {"type"}) : TRUE
        corner(name) == parse_geo_point_source(Get(b.obj[f], name))
    IN  Checked(/\ is_object(b) /\ GeoField(b, {"type"}) # {}
                /\ \A name \in {"top_left", "bottom_right"} : Has(b.obj[f], name) /\ IsOk(corner(name)),
                [kind |-> "geo_bounding_box", field |-> f,
                 top_left |-> corner("top_left").ok, bottom_right |-> corner("bottom_right").ok])

parse_geo_polygon_query(b) ==
    LET f  == CHOOSE k \in GeoField(b, {}) : TRUE
        ps == Get(b.obj[f], "points").arr
        points == Collect([i \in DOMAIN ps |-> parse_geo_point_source(ps[i])])
    IN  Checked(/\ is_object(b) /\ GeoField(b, {}) # {} /\ Has(b.obj[f], "points") /\ is_array(Get(b.obj[f], "points"))
                /\ Len(ps) >= 3 /\ IsOk(points),
                [kind |-> "geo_polygon", field |-> f, points |-> points.ok])

-----------------------------------------------------------------------------
(* Clauses of one field.                                                   *)

parse_single_field_query(b) == Checked(OneKey(b), [field |-> TheKey(b), body |-> Get(b, TheKey(b))])

\* The field, then a parser of its body.
SingleField(b, parse(_), build(_, _)) ==
    LET one == parse_single_field_query(b) r == parse(one.ok.body)
    IN  IF ~IsOk(one) THEN one ELSE IF IsOk(r) THEN Ok(build(one.ok.field, r.ok)) ELSE r

\* A match with a fuzziness becomes a fuzzy query and loses its operator.
parse_match_query(b) ==
    LET body(x) ==
            LET text == parse_query_text(x)
                op   == parse_match_operator(x)
                fz   == Opt(x, "fuzziness", parse_fuzzy_query_fuzziness)
            IN  Checked(IsOk(text) /\ IsOk(op) /\ IsOk(fz), [text |-> text.ok, op |-> op.ok, fz |-> fz.ok])
        build(f, r) == IF r.fz # None THEN [kind |-> "fuzzy", field |-> f, value |-> r.text, fuzziness |-> r.fz[1]]
                       ELSE [kind |-> "match", field |-> f, value |-> r.text, operator |-> r.op]
    IN  SingleField(b, body, build)

parse_match_phrase_query(b) ==
    SingleField(b, parse_query_text, LAMBDA f, t : [kind |-> "match_phrase", field |-> f, value |-> t])

parse_term_query(b) ==
    SingleField(b, parse_term_query_value, LAMBDA f, t : [kind |-> "term", field |-> f, value |-> t])

parse_fuzzy_query(b) ==
    LET body(x) ==
            LET text == parse_query_text(Get(x, "value"))
                fz   == Opt(x, "fuzziness", parse_fuzzy_query_fuzziness)
            IN  Checked(is_object(x) /\ Has(x, "value") /\ IsOk(text) /\ IsOk(fz), [text |-> text.ok, fz |-> fz.ok])
    IN  SingleField(b, body, LAMBDA f, r :
            [kind |-> "fuzzy", field |-> f, value |-> r.text, fuzziness |-> OrElse(r.fz, Edits(2))])

RangeKeys == {"gt", "gte", "lt", "lte"}

\* Options are read and dropped, but must be scalars too.
parse_range_bounds(x) ==
    Checked(/\ OnlyKeys(x, RangeKeys \cup {"boost", "format", "relation", "time_zone"})
            /\ \A k \in DOMAIN x.obj : is_number(x.obj[k]) \/ is_string(x.obj[k])
            /\ DOMAIN x.obj \cap RangeKeys # {},
            [k \in RangeKeys |-> IF Has(x, k) THEN Some(Get(x, k)) ELSE None])

parse_range_query(b) ==
    SingleField(b, parse_range_bounds, LAMBDA f, r : [kind |-> "range", field |-> f, bounds |-> r])

parse_terms_clause(b) ==
    LET values(x) == IF is_array(x) /\ x.arr # <<>>
                     THEN Collect([i \in DOMAIN x.arr |-> parse_scalar_query_text(x.arr[i])]) ELSE Invalid
    IN  SingleField(b, values, LAMBDA f, vs : [kind |-> "terms", field |-> f, values |-> vs])

parse_exists_clause(b) ==
    Checked(HasString(b, "field") /\ Get(b, "field").str # "", [kind |-> "exists", field |-> Get(b, "field").str])

NonEmptyTerm(x) ==
    LET t == parse_term_query_value(x) IN IF IsOk(t) /\ t.ok = <<>> THEN Invalid ELSE t

parse_prefix_clause(b) == SingleField(b, NonEmptyTerm, LAMBDA f, t : [kind |-> "prefix", field |-> f, value |-> t])
parse_wildcard_clause(b) == SingleField(b, NonEmptyTerm, LAMBDA f, t : [kind |-> "wildcard", field |-> f, value |-> t])

parse_multi_match_clause(b) ==
    LET text   == parse_scalar_query_text(Get(b, "query"))
        fields == Get(b, "fields")
    IN  Checked(/\ OnlyKeys(b, {"query", "fields", "type", "operator", "tie_breaker", "boost"})
                /\ Has(b, "query") /\ IsOk(text) /\ Has(b, "fields") /\ is_array(fields) /\ fields.arr # <<>>
                /\ \A i \in DOMAIN fields.arr : is_string(fields.arr[i]) /\ fields.arr[i].str # ""
                /\ IsOk(parse_match_operator(b)),
                [kind |-> "multi_match", value |-> text.ok, operator |-> parse_match_operator(b).ok,
                 fields |-> [i \in DOMAIN fields.arr |-> fields.arr[i].str]])

parse_match_all_query(b) ==
    LET boost == Opt(b, "boost", parse_boost)
    IN  Checked(OnlyKeys(b, {"boost"}) /\ IsOk(boost), [kind |-> "match_all", boost |-> OrElse(boost.ok, 2)])

-----------------------------------------------------------------------------
(* Scoring functions.                                                      *)

parse_field_value_factor_function(x) ==
    LET number(k, d) == IF Has(x, k) THEN as_f64(Get(x, k)) ELSE d
    IN  Checked(/\ OnlyKeys(x, {"field", "factor", "modifier", "missing"}) /\ HasString(x, "field")
                /\ \A k \in {"factor", "missing"} : Has(x, k) => is_number(Get(x, k))
                /\ Has(x, "modifier") => /\ is_string(Get(x, "modifier"))
                                         /\ Get(x, "modifier").str \in {"none", "log1p", "sqrt", "reciprocal"},
                [kind |-> "field_value_factor", field |-> Get(x, "field").str, factor |-> number("factor", 2),
                 modifier |-> IF Has(x, "modifier") THEN Get(x, "modifier").str ELSE "none",
                 missing |-> number("missing", 0)])

\* The one field of a decay function, its origin a date and its scale in days;
\* a decay strictly between 0 and 1 is a half here.
parse_decay_function(x, decay) ==
    LET p == x.obj[TheKey(x)]
    IN  Checked(/\ OneKey(x) /\ OnlyKeys(p, {"origin", "scale", "decay", "offset"})
                /\ HasString(p, "origin") /\ "date" \in DOMAIN Get(p, "origin").str
                /\ HasString(p, "scale") /\ "days" \in DOMAIN Get(p, "scale").str /\ Get(p, "scale").str.days > 0
                /\ Has(p, "decay") => Get(p, "decay") = Frac(0)
                /\ Has(p, "offset") => (is_string(Get(p, "offset")) => Get(p, "offset").str = [days |-> 0]),
                [kind |-> decay, field |-> TheKey(x), origin |-> Get(p, "origin").str.date,
                 scale |-> Get(p, "scale").str.days])

ScoreModes == {"multiply", "sum", "avg", "first", "min", "max"}
BoostModes == {"multiply", "sum", "avg", "replace", "min", "max"}
DecayKinds == {"gauss", "exp", "linear"}

-----------------------------------------------------------------------------
(* Queries.                                                                *)

RECURSIVE parse_search_query(_)

parse_bool_clause_bucket(b, key) ==
    LET raw == Get(b, key)
    IN  IF ~Has(b, key) THEN Ok(<<>>)
        ELSE IF is_array(raw) THEN Collect([i \in DOMAIN raw.arr |-> parse_search_query(raw.arr[i])])
        ELSE IF is_object(raw) THEN Collect(<<parse_search_query(raw)>>) ELSE Invalid

Buckets == {"must", "filter", "must_not", "should"}

\* Without minimum_should_match, should clauses are optional unless they are all there is.
parse_bool_query(b) ==
    LET bucket(k) == parse_bool_clause_bucket(b, k)
        n     == Len(bucket("should").ok)
        msm   == IF Has(b, "minimum_should_match")
                 THEN parse_minimum_should_match(Get(b, "minimum_should_match"), n)
                 ELSE Ok(IF \A k \in Buckets \ {"should"} : bucket(k).ok = <<>> THEN 1 ELSE 0)
        boost == Opt(b, "boost", parse_boost)
    IN  Checked(/\ OnlyKeys(b, Buckets \cup {"minimum_should_match", "boost"})
                /\ \A k \in Buckets : IsOk(bucket(k))
                /\ \E k \in Buckets : bucket(k).ok # <<>>
                /\ IsOk(msm) /\ IsOk(boost),
                [kind |-> "bool", must |-> bucket("must").ok, filter |-> bucket("filter").ok,
                 must_not |-> bucket("must_not").ok, should |-> bucket("should").ok,
                 minimum_should_match |-> msm.ok, boost |-> OrElse(boost.ok, 2)])

\* A weight beside a function multiplies it; alone it is the function.  The
\* last function in key order wins.
parse_scoring_function_clause(x) ==
    LET kinds  == DOMAIN x.obj \cap (DecayKinds \cup {"field_value_factor"})
        last   == CHOOSE k \in kinds : k = "linear" \/ ("linear" \notin kinds /\ (k = "gauss" \/ ("gauss" \notin kinds
                          /\ (k = "field_value_factor" \/ "field_value_factor" \notin kinds))))
        parse(k) == IF k = "field_value_factor" THEN parse_field_value_factor_function(x.obj[k])
                    ELSE parse_decay_function(x.obj[k], k)
        weight == Opt(x, "weight", parse_boost)
        filter == Opt(x, "filter", parse_search_query)
    IN  Checked(/\ OnlyKeys(x, {"weight", "filter", "field_value_factor"} \cup DecayKinds)
                /\ \A k \in kinds : IsOk(parse(k))
                /\ IsOk(weight) /\ IsOk(filter) /\ (kinds # {} \/ weight.ok # None),
                [filter |-> filter.ok,
                 function |-> IF kinds = {} THEN [kind |-> "weight", value |-> weight.ok[1]] ELSE parse(last).ok,
                 weight |-> IF kinds = {} THEN None ELSE weight.ok])

parse_function_score_query(b) ==
    LET inner == parse_search_query(Get(b, "query"))
        boost == Opt(b, "boost", parse_boost)
        fs    == Get(b, "functions")
        functions == IF ~Has(b, "functions") THEN Ok(<<>>)
                     ELSE IF ~is_array(fs) THEN Invalid
                     ELSE Collect([i \in DOMAIN fs.arr |-> parse_scoring_function_clause(fs.arr[i])])
        mode(k, modes) == Has(b, k) => HasString(b, k) /\ Get(b, k).str \in modes
        modeof(k) == IF Has(b, k) THEN Get(b, k).str ELSE "multiply"
    IN  Checked(/\ OnlyKeys(b, {"query", "boost", "functions", "score_mode", "boost_mode", "max_boost", "min_score"})
                /\ Has(b, "query") /\ IsOk(inner) /\ IsOk(boost) /\ IsOk(functions)
                /\ mode("score_mode", ScoreModes) /\ mode("boost_mode", BoostModes),
                [kind |-> "function_score", inner |-> inner.ok, boost |-> OrElse(boost.ok, 2),
                 functions |-> functions.ok, score_mode |-> modeof("score_mode"), boost_mode |-> modeof("boost_mode")])

parse_search_query(v) ==
    LET t == TheKey(v) b == v.obj[t]
    IN  IF ~OneKey(v) THEN Invalid
        ELSE CASE t = "match_all" -> parse_match_all_query(b)
               [] t = "match" -> parse_match_query(b)
               [] t = "match_phrase" -> parse_match_phrase_query(b)
               [] t = "term" -> parse_term_query(b)
               [] t = "bool" -> parse_bool_query(b)
               [] t = "fuzzy" -> parse_fuzzy_query(b)
               [] t = "range" -> parse_range_query(b)
               [] t = "exists" -> parse_exists_clause(b)
               [] t = "terms" -> parse_terms_clause(b)
               [] t = "prefix" -> parse_prefix_clause(b)
               [] t = "wildcard" -> parse_wildcard_clause(b)
               [] t = "multi_match" -> parse_multi_match_clause(b)
               [] t = "function_score" -> parse_function_score_query(b)
               [] t = "geo_distance" -> parse_geo_distance_query(b)
               [] t = "geo_bounding_box" -> parse_geo_bounding_box_query(b)
               [] t = "geo_polygon" -> parse_geo_polygon_query(b)
               [] OTHER -> Invalid

-----------------------------------------------------------------------------
(* The rest of a search request.                                           *)

parse_sort_order(x) ==
    LET o == IF is_object(x) THEN IF Has(x, "order") THEN Get(x, "order") ELSE Str("asc") ELSE x
    IN  Checked(is_string(o) /\ o.str \in {"asc", "desc"}, o.str)

parse_sort_entry(x) ==
    IF is_string(x) THEN Checked(x.str # "", [field |-> x.str, order |-> "asc"])
    ELSE IF OneKey(x) /\ TheKey(x) # "" /\ IsOk(parse_sort_order(x.obj[TheKey(x)]))
    THEN Ok([field |-> TheKey(x), order |-> parse_sort_order(x.obj[TheKey(x)]).ok]) ELSE Invalid

parse_sort(v) ==
    IF is_array(v) THEN Collect([i \in DOMAIN v.arr |-> parse_sort_entry(v.arr[i])]) ELSE Collect(<<parse_sort_entry(v)>>)

parse_track_total_hits(v) ==
    IF is_boolean(v) THEN Ok(IF v.bool THEN [kind |-> "exact"] ELSE [kind |-> "disabled"])
    ELSE Checked(is_u64(v), [kind |-> "up_to", limit |-> v.num])

\* The single-string form is not checked for emptiness, the entries are.
FieldNames(x) ==
    IF is_string(x) THEN Ok(<<x.str>>)
    ELSE Checked(is_array(x) /\ \A i \in DOMAIN x.arr : is_string(x.arr[i]) /\ x.arr[i].str # "",
                 [i \in DOMAIN x.arr |-> x.arr[i].str])

SourceOf(includes, excludes) == [kind |-> "filter", includes |-> includes, excludes |-> excludes]

parse_source_filter(v) ==
    LET part(k) == IF Has(v, k) THEN FieldNames(Get(v, k)) ELSE Ok(<<>>)
    IN  IF is_boolean(v) THEN Ok(IF v.bool THEN SourceOf(<<>>, <<>>) ELSE [kind |-> "disabled"])
        ELSE IF is_object(v)
        THEN Checked(OnlyKeys(v, {"includes", "excludes"}) /\ IsOk(part("includes")) /\ IsOk(part("excludes")),
                     SourceOf(part("includes").ok, part("excludes").ok))
        ELSE IF IsOk(FieldNames(v)) THEN Ok([kind |-> "includes", includes |-> FieldNames(v).ok]) ELSE Invalid

CONSTANTS MAX_RESULT_WINDOW, DEFAULT_AGG_SIZE, MAX_HIGHLIGHT

\* parse_terms_agg, parse_cardinality_agg, parse_date_histogram_agg: a field,
\* and what the kind adds.
Intervals == [i \in {"day", "1d", "week", "1w", "month", "1M", "year", "1y"} |->
                CASE i \in {"day", "1d"} -> "day" [] i \in {"week", "1w"} -> "week"
                  [] i \in {"month", "1M"} -> "month" [] OTHER -> "year"]

SizeOf(x) == IF Has(x, "size") THEN parse_non_negative_integer(Get(x, "size")) ELSE Ok(DEFAULT_AGG_SIZE)

parse_terms_agg(x) ==
    Checked(HasString(x, "field") /\ IsOk(SizeOf(x)), [kind |-> "terms", field |-> Get(x, "field").str, size |-> SizeOf(x).ok])
parse_cardinality_agg(x) == Checked(HasString(x, "field"), [kind |-> "cardinality", field |-> Get(x, "field").str])
parse_date_histogram_agg(x) ==
    Checked(/\ HasString(x, "field") /\ HasString(x, "calendar_interval")
            /\ Get(x, "calendar_interval").str \in DOMAIN Intervals
            /\ Has(x, "format") => is_string(Get(x, "format")),
            [kind |-> "date_histogram", field |-> Get(x, "field").str,
             calendar_interval |-> Intervals[Get(x, "calendar_interval").str]])

\* Sources of a composite: named once each, one kind each.
parse_composite_source(s) ==
    LET body == s.obj[TheKey(s)]
        kind == TheKey(body)
        r    == IF kind = "terms" THEN Checked(HasString(body.obj[kind], "field"),
                                               [kind |-> "terms", field |-> Get(body.obj[kind], "field").str])
                ELSE IF kind = "date_histogram" THEN parse_date_histogram_agg(body.obj[kind]) ELSE Invalid
    IN  Checked(OneKey(s) /\ TheKey(s) # "" /\ OneKey(body) /\ IsOk(r), [name |-> TheKey(s), source |-> r.ok])

parse_composite_agg(x) ==
    LET ss == Get(x, "sources").arr
        sources == Collect([i \in DOMAIN ss |-> parse_composite_source(ss[i])])
        names == {sources.ok[i].name : i \in DOMAIN ss}
    IN  Checked(/\ Has(x, "sources") /\ is_array(Get(x, "sources")) /\ ss # <<>> /\ IsOk(sources)
                /\ Cardinality(names) = Len(ss)
                /\ IsOk(SizeOf(x)) /\ (Has(x, "after") => is_object(Get(x, "after"))),
                [kind |-> "composite", sources |-> sources.ok, size |-> SizeOf(x).ok,
                 after |-> IF Has(x, "after") THEN Some(Get(x, "after").obj) ELSE None])

parse_agg(x) ==
    LET k == TheKey(x) b == x.obj[k]
    IN  IF ~OneKey(x) THEN Invalid
        ELSE CASE k = "terms" -> parse_terms_agg(b) [] k = "cardinality" -> parse_cardinality_agg(b)
               [] k = "date_histogram" -> parse_date_histogram_agg(b) [] k = "composite" -> parse_composite_agg(b)
               [] OTHER -> Invalid

parse_aggs(v) ==
    Checked(is_object(v) /\ \A n \in DOMAIN v.obj : n # "" /\ IsOk(parse_agg(v.obj[n])),
            [n \in DOMAIN v.obj |-> parse_agg(v.obj[n]).ok])

\* The first of the tags.
parse_highlight_tag(x) ==
    IF is_string(x) THEN Ok(x.str)
    ELSE Checked(is_array(x) /\ x.arr # <<>> /\ \A i \in DOMAIN x.arr : is_string(x.arr[i]), x.arr[1].str)

parse_highlight_positive_integer(x) == Checked(is_u64(x) /\ x.num # 0 /\ x.num <= MAX_HIGHLIGHT, x.num)

parse_highlight(v) ==
    LET pre  == Opt(v, "pre_tags", parse_highlight_tag)
        post == Opt(v, "post_tags", parse_highlight_tag)
        size == Opt(v, "fragment_size", parse_highlight_positive_integer)
        many == Opt(v, "number_of_fragments", parse_highlight_positive_integer)
        fs   == Get(v, "fields")
    IN  Checked(/\ OnlyKeys(v, {"fields", "pre_tags", "post_tags", "fragment_size", "number_of_fragments"})
                /\ Has(v, "fields") /\ is_object(fs) /\ DOMAIN fs.obj # {}
                /\ \A f \in DOMAIN fs.obj : f # "" /\ (is_object(fs.obj[f]) \/ is_null(fs.obj[f]))
                /\ \A r \in {pre, post, size, many} : IsOk(r),
                [fields |-> DOMAIN fs.obj, pre_tag |-> OrElse(pre.ok, "<em>"), post_tag |-> OrElse(post.ok, "</em>"),
                 fragment_size |-> size.ok, number_of_fragments |-> many.ok])

\* parse_search_request; an empty body is an empty object here.
parse_search_request(v) ==
    LET part(k, parse(_)) == Opt(v, k, parse)
        query  == part("query", parse_search_query)
        from   == part("from", parse_non_negative_integer)
        size   == part("size", parse_non_negative_integer)
        source == part("_source", parse_source_filter)
        track  == part("track_total_hits", parse_track_total_hits)
        sort   == part("sort", parse_sort)
        high   == part("highlight", parse_highlight)
        min    == part("min_score", parse_boost)
        aggs   == IF Has(v, "aggs") THEN part("aggs", parse_aggs) ELSE part("aggregations", parse_aggs)
    IN  Checked(/\ is_object(v)
                /\ IsOk(query) /\ IsOk(from) /\ IsOk(size) /\ IsOk(source) /\ IsOk(track) /\ IsOk(sort)
                /\ IsOk(high) /\ IsOk(min) /\ IsOk(aggs)
                /\ OrElse(from.ok, 0) + OrElse(size.ok, 0) <= MAX_RESULT_WINDOW,
                [query |-> query.ok, from |-> from.ok, size |-> size.ok, source |-> source.ok,
                 track_total_hits |-> track.ok, sort |-> OrElse(sort.ok, <<>>), highlight |-> high.ok,
                 min_score |-> min.ok, aggs |-> aggs.ok])

-----------------------------------------------------------------------------
(* The parser of _count.                                                   *)

RECURSIVE parse_term_value(_)
parse_term_value(v) ==
    IF is_object(v) THEN IF Has(v, "value") THEN parse_term_value(Get(v, "value")) ELSE Invalid
    ELSE parse_scalar_query_text(v)

RECURSIVE parse_count_query(_)

\* Only must is read: any other bucket beside it is dropped without an error.
parse_count_bool_query(b) ==
    LET must == Get(b, "must")
    IN  IF ~(Has(b, "must") /\ is_array(must) /\ must.arr # <<>>) THEN Invalid
        ELSE LET cs == Collect([i \in DOMAIN must.arr |-> parse_count_query(must.arr[i])])
             IN  IF IsOk(cs) THEN Ok([kind |-> "bool_must", must |-> cs.ok]) ELSE Invalid

parse_count_query(v) ==
    LET t == TheKey(v) b == v.obj[t]
    IN  IF ~OneKey(v) THEN Invalid
        ELSE CASE t = "match_all" -> Checked(is_object(b) /\ DOMAIN b.obj = {}, [kind |-> "match_all"])
               [] t = "term" -> SingleField(b, parse_term_value, LAMBDA f, x : [kind |-> "term", field |-> f, value |-> x])
               [] t = "bool" -> parse_count_bool_query(b)
               [] t = "range" -> parse_range_query(b)
               [] t = "exists" -> parse_exists_clause(b)
               [] t = "terms" -> parse_terms_clause(b)
               [] t = "prefix" -> parse_prefix_clause(b)
               [] t = "wildcard" -> parse_wildcard_clause(b)
               [] t = "multi_match" -> parse_multi_match_clause(b)
               [] OTHER -> Invalid

parse_count_request(v) ==
    LET query == Opt(v, "query", parse_count_query)
        track == Opt(v, "track_total_hits", parse_track_total_hits)
    IN  Checked(is_object(v) /\ IsOk(query) /\ IsOk(track), [query |-> query.ok, track_total_hits |-> track.ok])

-----------------------------------------------------------------------------
(* POST _analyze.                                                          *)

\* AnalyzerKind::from_name and token_stream.
token_streams(text) ==
    [kind \in {"standard", "simple", "stop", "keyword", "whitespace"} |->
        CASE kind = "standard" -> StandardAnalyzer(text) [] kind = "simple" -> SimpleAnalyzer(text)
          [] kind = "stop" -> StopAnalyzer(text) [] kind = "keyword" -> KeywordAnalyzer(text)
          [] kind = "whitespace" -> WhitespaceAnalyzer(text)]

parse_analyze_request(b) ==
    LET t == Get(b, "text")
    IN  Checked(/\ is_object(b)
                /\ Has(b, "analyzer") => HasString(b, "analyzer") /\ Get(b, "analyzer").str \in DOMAIN token_streams(<<>>)
                /\ Has(b, "text")
                /\ is_string(t) \/ (is_array(t) /\ t.arr # <<>> /\ \A i \in DOMAIN t.arr : is_string(t.arr[i])),
                [analyzer |-> IF Has(b, "analyzer") THEN Get(b, "analyzer").str ELSE "standard",
                 texts |-> IF is_string(t) THEN <<t.str>> ELSE [i \in DOMAIN t.arr |-> t.arr[i].str]])

\* Positions run on from text to text, offsets are shifted by the length of the
\* texts before.
handle_analyze(b) ==
    LET r == parse_analyze_request(b)
        step(a, t) ==
            LET ts == token_streams(t)[r.ok.analyzer]
            IN  [base |-> a.base + Len(t),
                 out  |-> a.out \o [k \in DOMAIN ts |->
                             [ts[k] EXCEPT !.start_offset = @ + a.base, !.end_offset = @ + a.base]]]
        all == FoldLeft(step, [base |-> 0, out |-> <<>>], r.ok.texts).out
    IN  IF ~IsOk(r) THEN r
        ELSE Ok([k \in DOMAIN all |-> [token |-> all[k].term, start_offset |-> all[k].start_offset,
                                       end_offset |-> all[k].end_offset, position |-> Positions(all)[k]]])
=============================================================================
