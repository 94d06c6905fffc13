---------------------------- MODULE MCAlgorithms ----------------------------
EXTENDS Algorithms, Naturals, Sequences, FiniteSets, SequencesExt

Words(A, n) == UNION {[1 .. k -> A] : k \in 0 .. n}

-----------------------------------------------------------------------------
(* Postings.                                                               *)

DocSets ==
    {A \cup B : A \in SUBSET {0, 1, 3}, B \in (SUBSET {8, 30, 31}) \ {{}}}
        \cup {0 .. n : n \in 8 .. 12} \cup {(0 .. 9) \cup {31}, (0 .. 8) \cup {20, 31}, {3 * n : n \in 0 .. 9}, {2 * n : n \in 0 .. 14}}
FreqPatterns == {<<1>>, <<3>>, <<1, 2>>, <<31>>, <<1, 1, 31>>, <<5, 17, 2, 9>>}

CodecInputs == {[kind |-> "codec", docs |-> d, freqs |-> f, damage |-> Cardinality(d) <= 3] : d \in DocSets, f \in FreqPatterns}

\* What three segments add: documents with several values, terms of several
\* blocks, a field and terms that some segments do not have.
Add(f, t, d, n) == [field |-> f, term |-> t, doc_id |-> d, positions |-> n]
Adds == <<
    <<Add(1, 1, 3, 1), Add(1, 1, 0, 0), Add(1, 1, 1, 2), Add(2, 1, 3, 5), Add(1, 1, 1, 3), Add(1, 2, 2, 0), Add(1, 2, 0, 1), Add(1, 2, 5, 1),
      Add(2, 1, 0, 1)>>,
    <<Add(1, 1, 8, 1), Add(1, 3, 9, 2), Add(2, 1, 9, 1), Add(2, 1, 10, 1), Add(2, 1, 11, 1)>>,
    <<Add(1, 2, 16, 1), Add(3, 1, 17, 0)>>
  >>

OneFault == {{}} \cup {{n} : n \in 0 .. 7}
TwoFaults == {{m, n} : m \in 1 .. 3, n \in 4 .. 6}

DictionaryInput(adds, disk, max, run, faults, damage) ==
    [kind |-> "dictionary", segments |-> [k \in DOMAIN adds |-> Adds[adds[k]]], disk |-> disk, max |-> max, run |-> run,
     faults |-> faults, damage |-> damage]

DictionaryInputs ==
    {DictionaryInput(<<s>>, disk, max, None, <<f, {}>>, FALSE) :
        s \in 1 .. 3, disk \in BOOLEAN, max \in {0, 5, 8, 60}, f \in OneFault \cup TwoFaults}
    \cup {DictionaryInput(<<1, 2>>, disk, max, run, <<f, g, h>>, FALSE) :
        disk \in BOOLEAN, max \in {9, 14, 60}, run \in {None, <<1, 2>>}, f \in OneFault, g \in {{}, {1}}, h \in OneFault}
    \cup {DictionaryInput(<<1, 2, 3>>, TRUE, max, run, <<f, g, {}, h>>, FALSE) :
        max \in {14, 60}, run \in {<<1, 2>>, <<2, 3>>, <<1, 3>>}, f \in {{}, {1}, {4}}, g \in {{}, {4}, {5}}, h \in {{}, {4}}}
    \cup {DictionaryInput(<<s>>, TRUE, 60, None, <<{}, {}>>, TRUE) : s \in 1 .. 3}

\* Segments with documents of several values, without any and past the last
\* one; a path and a field that some do not have; lengths around and far above
\* the last exact one, and at the bounds of their bytes.  Field 2 has no norms.
Kept == <<
    [doc_count |-> 3, values |-> <<<<1, 0, <<1>>>>, <<2, 0, <<1, 2>>>>, <<1, 0, <<2>>>>, <<2, 2, <<2>>>>>>,
     lengths |-> <<<<1, 0, 31, TRUE>>, <<2, 0, 2, FALSE>>, <<1, 1, 40, TRUE>>>>],
    [doc_count |-> 2, values |-> <<<<1, 0, <<2>>>>, <<1, 1, <<1, 2>>>>>>,
     lengths |-> <<<<1, 1, 7, TRUE>>, <<2, 1, 9, FALSE>>>>],
    [doc_count |-> 2, values |-> <<<<2, 1, <<1, 2>>>>, <<3, 1, <<1>>>>>>,
     lengths |-> <<<<3, 0, 23, TRUE>>, <<3, 1, 70000, TRUE>>>>],
    [doc_count |-> 14, values |-> <<>>,
     lengths |-> [k \in 1 .. 14 |-> <<1, k - 1, <<24, 31, 32, 39, 40, 41, 42, 55, 56, 57, 1000, 2 ^ 20 + 23, 2 ^ 20 + 24, 2 ^ 30 - 1>>[k], TRUE>>]]
  >>

ColumnsInput(kept, disk, seals, lost, run, faults) ==
    [kind |-> "columns", segments |-> [k \in DOMAIN kept |-> Kept[kept[k]]], disk |-> disk, seals |-> seals, lost |-> lost, run |-> run,
     faults |-> faults]

FewFaults == {{}} \cup {{n} : n \in 0 .. 2}
ColumnsInputs ==
    {ColumnsInput(<<s>>, disk, <<<<f, g>>>>, lost, None, {}) :
        s \in 1 .. 4, disk \in BOOLEAN, f \in FewFaults \cup {{1, 2}}, g \in FewFaults, lost \in {{}, {1}}}
    \cup {ColumnsInput(<<1, 2, 3>>, disk, <<<<f, {}>>, <<g, {0}>>, <<{}, {}>>>>, lost, run, h) :
        disk \in BOOLEAN, f \in FewFaults, g \in {{}, {1}}, lost \in SUBSET {1, 3}, run \in {None, <<1, 2>>, <<2, 3>>, <<1, 3>>},
        h \in {{}} \cup {{n} : n \in 0 .. 12} \cup {{m, n} : m \in {2, 6}, n \in {7, 9}}}

-----------------------------------------------------------------------------
(* Patterns and words.                                                     *)

WildcardInputs == {[kind |-> "wildcard", pattern |-> p, text |-> t] : p \in Words({"a", "b", "*", "?"}, 4), t \in Words({"a", "b"}, 4)}
FuzzyInputs == {[kind |-> "fuzzy", left |-> l, right |-> r, fuzziness |-> f] :
                   l \in Words({"a", "b"}, 3) \ {<<>>}, r \in Words({"a", "b", "t"}, 4), f \in {Edits(1), Edits(2), Auto(2, 3)}}

AnalyzeBody(kind, text) == Obj([k \in {"analyzer", "text"} |-> IF k = "text" THEN text ELSE Str(kind)])
AnalyzeInputs ==
    {[kind |-> "analyze", body |-> AnalyzeBody(k, t)] :
        k \in {"standard", "simple", "stop", "keyword", "whitespace", "none"},
        t \in {Str(w) : w \in Words({"A", "b", "1", " "}, 5)} \cup {Arr(<<>>), Num(1)}
              \cup {Arr(<<Str(v), Str(w)>>) : v \in Words({"a", "b", "-"}, 2), w \in Words({"a", "b", " "}, 3)}}
    \cup {[kind |-> "analyze", body |-> b] : b \in {Named("text", Str(<<"a">>)), Named("analyzer", Str("stop")), Num(1)}}

-----------------------------------------------------------------------------
(* Corpora and queries.  Field t is text with prefixes and a keyword       *)
(* sub-field that is normalised, k a keyword, n a number, d a date, g a    *)
(* point.                                                                  *)


MCMapping ==
    [fields |-> [f \in {"t", "k", "n", "d", "g"} |->
        CASE f = "t" -> [NewField("text") EXCEPT !.index_prefixes = Some([min_chars |-> 1, max_chars |-> 3]),
                                              !.fields = [s \in {"k"} |-> [NewField("keyword") EXCEPT !.normalizer = Some("norm")]]]
          [] f = "k" -> NewField("keyword") [] f = "n" -> NewField("integer") [] f = "d" -> NewField("date")
          [] f = "g" -> NewField("geo_point")],
     analysis |-> NoAnalysis]

\* A point, and a document, whose number is also its latitude.
At(lat, lon) == Obj([x \in {"lat", "lon"} |-> IF x = "lat" THEN Num(lat) ELSE Num(lon)])
Doc(t, k, n) == [f \in {"t", "k", "n", "d", "g"} |-> CASE f = "t" -> Str(t) [] f = "k" -> Str(k) [] f = "n" -> Num(n)
                                                  [] f = "g" -> At(n, 0)
                                                  [] f = "d" -> Str(<<"2", "0", "2", "4", "0", "2", "2", "9">>)]

MCCorpora == <<
    [mapping |-> MCMapping, docs |-> [i \in 1 .. 4 |->
        CASE i = 1 -> Doc(<<"a", " ", "t">>, <<"a">>, 1) [] i = 2 -> Doc(<<"t", "-", "t", " ", "a", " ", "f">>, <<"t">>, 2)
          [] i = 3 -> Doc(<<"t">>, <<"a">>, 3) [] i = 4 -> Doc(<<"f", " ", "a", "t">>, <<"f">>, 4)]],
    [mapping |-> MCMapping, docs |-> [i \in 1 .. 3 |->
        CASE i = 1 -> Doc(<<"a">>, <<"t">>, 3) [] i = 2 -> Doc(<<"a", " ", "t">>, <<"t">>, 2)
          [] i = 3 -> Doc(<<"A", " ", "f", " ", "t", " ", "f">>, <<"t">>, 1)]],
    [mapping |-> MCMapping, docs |-> [i \in 2 .. 5 |->
        CASE i = 5 -> Doc(<<"f">>, <<"f">>, 0) [] i = 2 -> [k \in {"k"} |-> Str(<<"a">>)]
          [] i = 3 -> Doc(<<"a", " ", "a", " ", "t">>, <<"a">>, 7) [] i = 4 -> Doc(<<"a", " ", "t", " ", "f">>, <<"a">>, 7)]]
  >>

Match(f, t) == Named("match", Named(f, Str(t)))
MatchAnd(f, t) == Named("match", Named(f, Obj([x \in {"query", "operator"} |-> IF x = "query" THEN Str(t) ELSE Str("and")])))

Near(days) == Named("d", Obj([y \in {"origin", "scale"} |-> IF y = "origin" THEN Str([date |-> 738945]) ELSE Str([days |-> days])]))

MCLeaves == <<
    Match("t", <<"a">>),
    Match("t", <<"t">>),
    Match("k", <<"a">>),
    MatchAnd("t", <<"a", " ", "t">>),
    Match("t", <<"t", " ", "f">>),
    Named("term", Named("k", Str(<<"t">>))),
    Named("multi_match", Obj([x \in {"query", "fields"} |-> IF x = "query" THEN Str(<<"a">>) ELSE Arr(<<Str("t"), Str("k")>>)])),
    Named("prefix", Named("t", Str(<<"a">>))),
    Named("range", Named("n", Named("gte", Num(2)))),
    Named("exists", Named("field", Str("t"))),
    Named("match_all", Obj(NoKeys)),
    Named("match_phrase", Named("t", Str(<<"a", " ", "t">>))),
    Named("fuzzy", Named("t", Named("value", Str(<<"a">>)))),
    Named("wildcard", Named("t", Str(<<"*", "t">>))),
    Named("range", Named("d", Named("lte", Str(<<"2", "0", "2", "4", "0", "3", "0", "1">>)))),
    Match("t.k", <<"a">>),
    Named("geo_bounding_box", Named("g", Obj([x \in {"top_left", "bottom_right"} |-> IF x = "top_left" THEN At(5, -1) ELSE At(2, 1)]))),
    Named("geo_polygon", Named("g", Named("points", Arr(<<At(1, -1), At(4, -1), At(4, 1), At(1, 1)>>)))),
    Named("geo_distance", Obj([x \in {"g", "distance"} |-> IF x = "g" THEN At(2, 0) ELSE Str([amount |-> 200, unit |-> "km"])])),
    Named("function_score", Obj([x \in {"query", "functions", "score_mode"} |->
        CASE x = "query" -> Match("t", <<"a">>) [] x = "score_mode" -> Str("sum")
          [] x = "functions" -> Arr(<<Named("field_value_factor", Named("field", Str("n"))),
                                      Obj([y \in {"weight", "filter"} |-> IF y = "weight" THEN Num(3) ELSE Match("k", <<"a">>)]),
                                      Named("linear", Near(30)), Named("gauss", Near(1)), Named("exp", Near(2)),
                                      Named("field_value_factor", Obj([y \in {"field", "modifier"} |-> IF y = "field" THEN Str("n") ELSE Str("log1p")]))>>)]))
  >>

Pages == {<<0, 10>>, <<0, 1>>, <<1, 2>>}
MCBuckets == {"must", "filter", "must_not", "should"}

SearchInput(c, shape, clauses, msm, boost, page) ==
    [kind |-> "search", corpus |-> c, shape |-> shape, clauses |-> clauses, msm |-> msm, boost |-> boost,
     from |-> page[1], size |-> page[2]]

LeafInputs == {SearchInput(c, "leaf", <<<<"must", l>>>>, None, None, p) : c \in 1 .. 3, l \in 1 .. 20, p \in Pages}
BoolInputs ==
    {SearchInput(c, "bool", <<<<b[1], l[1]>>, <<b[2], l[2]>>>>, m, None, p) :
        c \in 1 .. 3, b \in MCBuckets \X MCBuckets, l \in (1 .. 6) \X (1 .. 20), m \in {None, Some(1)}, p \in {<<0, 10>>}}
PagedInputs ==
    {SearchInput(c, "bool", <<<<b, l[1]>>, <<b, l[2]>>>>, m, None, p) :
        c \in 1 .. 3, b \in {"must", "should"}, l \in (1 .. 5) \X (1 .. 5), m \in {None, Some(-1), Some(2)}, p \in Pages}
ThreeInputs ==
    {SearchInput(c, "bool", <<<<b, l[1]>>, <<"should", l[2]>>, <<"should", l[3]>>>>, m, None, <<0, 10>>) :
        c \in 1 .. 3, b \in {"should", "must"}, l \in (1 .. 6) \X (1 .. 3) \X (2 .. 5), m \in {None, Some(1), Some(2), Some(-1)}}
NestedInputs ==
    {SearchInput(c, "nested", <<<<"should", l[1]>>, <<b, l[2]>>, <<b, l[3]>>>>, Some(2), w, <<0, 10>>) :
        c \in 1 .. 3, l \in (1 .. 4) \X (1 .. 4) \X (1 .. 4), b \in {"should", "must"}, w \in {None, Some(1), Some(2)}}

CountInputs ==
    {[SearchInput(c, "bool", <<<<"must", l[1]>>, <<"must", l[2]>>>>, None, None, <<0, 10>>) EXCEPT !.kind = "count"] :
        c \in 1 .. 3, l \in (6 .. 10) \X (6 .. 10)}
    \cup {[SearchInput(c, "leaf", <<<<"must", l>>>>, None, None, <<0, 10>>) EXCEPT !.kind = "count"] : c \in 1 .. 3, l \in 6 .. 16}

-----------------------------------------------------------------------------
(* Highlights, mappings and dates.                                         *)

HighlightInputs == {[kind |-> "highlight", text |-> t, value |-> v, fragment_size |-> f] :
                       t \in Words({"a", "e^", " "}, 6), v \in {<<"a">>, <<"a", " ", "e^", "a">>}, f \in {None, Some(2), Some(3), Some(5)}}

With(k, vs) == {NoKeys} \cup {[x \in {k} |-> v] : v \in vs}
FieldBodies ==
    {Obj(a @@ b @@ c @@ d @@ e @@ f @@ g) :
        a \in With("type", {Str("text"), Str("keyword"), Str("date"), Str("int"), Str("float")}),
        b \in With("analyzer", {Str("STOP"), Str("mine")}), c \in With("search_analyzer", {Str("norm"), Str("mine")}),
        d \in With("norms", {Bool(FALSE)}), e \in With("normalizer", {Str("norm")}),
        f \in With("index_prefixes", {Obj(NoKeys), Named("max_chars", Num(3))}), g \in With("format", {Str("epoch_millis")})}
SubBodies == {Named("type", Str("keyword")), Obj([x \in {"type", "search_analyzer"} |-> IF x = "type" THEN Str("text") ELSE Str("norm")]),
              Named("type", Str("date"))}
WithSub == {Obj(x.obj @@ [k \in {"fields"} |-> Named("s", y)]) : x \in {b \in FieldBodies : DOMAIN b.obj \subseteq {"type", "analyzer"}}, y \in SubBodies}

MappingInputs == {[kind |-> "mapping", field |-> x] : x \in FieldBodies \cup WithSub}
                 \cup {[kind |-> "mapping", field |-> Obj([k \in {"fields"} |-> Named(n, Named("type", Str(t)))])] : n \in {"s", " "}, t \in NamedTypes}

DateInputs == {[kind |-> "date", date |-> Civil(y, m, d)] : y \in {1, 4, 100, 1900, 1969, 1970, 2000, 2023, 2024, 2400}, m \in 1 .. 12, d \in {1, 28, 29, 30, 31}}

At0(y, mo, d, sec) == [day |-> days_from_civil(y, mo, d), sec |-> sec]
From(n, k) == <<CHUNK(<<n>>, k)>>
\* A search that goes through most days of four years is too deep for TLC.
CronFields ==
    {<<x, h, d[1], d[2], d[3]>> :
        x \in {Only(0), <<CHUNK(<<58, 59>>, 0), CHUNK(<<5>>, 0)>>}, h \in {Only(0), From(5, 18)},
        d \in ({Star, From(1, 30)} \X {Star, From(1, 11)} \X {Star})
               \cup ({Star} \X {Star} \X {Only(0), Only(6), Only(7)}) \cup ({Only(29), Only(31)} \X {Only(2)} \X {Star, Only(0)})}
    \cup {<<x, Only(59), Only(23), d[1], Star, d[2]>> :
        x \in {Only(0), From(1, 58), From(0, 60), <<CHUNK(<<9, 3>>, 0)>>}, d \in {Star, Only(30)} \X {Star} \cup {Star} \X {Only(7), <<CHUNK(<<2, 6>>, 0)>>}}
CronInputs == {[kind |-> "cron", fields |-> f, after |-> a] :
                  f \in CronFields, a \in {At0(2026, 2, 28, 0), At0(2026, 12, 31, 86399), At0(2024, 2, 28, 82858), At0(2026, 5, 16, 86340)}}

MCInputs == <<CodecInputs, DictionaryInputs, ColumnsInputs, WildcardInputs, FuzzyInputs, AnalyzeInputs, LeafInputs, BoolInputs, PagedInputs, ThreeInputs, NestedInputs, CountInputs, HighlightInputs,
              MappingInputs, DateInputs, CronInputs>>
=============================================================================
