------------------------------ MODULE Mapping -------------------------------
(***************************************************************************)
(* surch-index::mapping: field types and analyzers of an index, the parser *)
(* of a mapping and of the analysis settings, the value a mapping is       *)
(* written out as, and the terms a field is indexed and queried with.      *)
(*                                                                         *)
(* A field path is <<field>> or <<field, sub-field>>.                      *)
(***************************************************************************)
EXTENDS JsonValue, Analysis
LOCAL INSTANCE TLC
LOCAL INSTANCE Naturals
LOCAL INSTANCE Sequences
LOCAL INSTANCE Functions

NamedTypes == {"text", "keyword", "integer", "long", "short", "byte", "float", "double",
               "boolean", "date", "geo_point", "object", "array"}

\* FieldType::from_name; "unknown" is the type of a field only ever seen null
\* and has no name a parser accepts.
TypeOfName(name) ==
    IF name \in NamedTypes THEN Some(name)
    ELSE IF name = "int" THEN Some("integer") ELSE IF name = "bool" THEN Some("boolean") ELSE None

Builtins == {"standard", "simple", "stop", "keyword", "whitespace", "norm"}

\* The names that are not in lower case: one stands for all spellings.
LowerName(name) == IF name = "STOP" THEN "stop" ELSE name

\* AnalyzerName::from_name.
AnalyzerOfName(name) == IF LowerName(name) \in Builtins THEN Some(LowerName(name)) ELSE None

\* The names that are empty when trimmed.
BlankNames == {"", " "}

token_stream(analyzer, t) ==
    CASE analyzer = "standard" -> StandardAnalyzer(t)
      [] analyzer = "simple" -> SimpleAnalyzer(t)
      [] analyzer = "stop" -> StopAnalyzer(t)
      [] analyzer = "keyword" -> KeywordAnalyzer(t)
      [] analyzer = "whitespace" -> WhitespaceAnalyzer(t)
      [] analyzer = "norm" -> NormAnalyzer(t)

terms(analyzer, t) == Terms(token_stream(analyzer, t))
default_for(type) == IF type = "text" THEN "simple" ELSE "keyword"
default_norms_for(type) == type = "text"

DefaultDateFormat == "yyyyMMdd"
NoFields == [s \in {} |-> None]

NewField(type) ==
    [type |-> type, analyzer |-> None, custom_analyzer |-> None, search_analyzer |-> None,
     custom_search_analyzer |-> None, norms |-> None, normalizer |-> None, index_prefixes |-> None,
     date_format |-> None, fields |-> NoFields]

FieldAnalyzer(fm) == IF fm.analyzer = None THEN default_for(fm.type) ELSE fm.analyzer[1]
norms_enabled(fm) == IF fm.norms = None THEN default_norms_for(fm.type) ELSE fm.norms[1]

-----------------------------------------------------------------------------
(* Parsing.                                                                *)

MinPrefix == 2
MaxPrefix == 20

parse_index_prefixes(v) ==
    LET bound(k, d) == IF Has(v, k) THEN Get(v, k) ELSE Num(d)
        lo == bound("min_chars", 2)
        hi == bound("max_chars", 5)
    IN  IF ~is_object(v) THEN Err("not_object")
        ELSE IF ~(DOMAIN v.obj \subseteq {"min_chars", "max_chars"}) THEN Err("unknown_key")
        ELSE IF ~is_u64(lo) \/ ~is_u64(hi) THEN Err("not_unsigned")
        ELSE IF lo.num < MinPrefix \/ hi.num > MaxPrefix \/ lo.num >= hi.num THEN Err("bounds")
        ELSE Ok([min_chars |-> lo.num, max_chars |-> hi.num])

OptString(v, k) == IF Has(v, k) THEN Some(Get(v, k)) ELSE None

\* An analyzer that is not a builtin is kept by name, to be resolved against
\* the analysis settings when it is used.
SplitAnalyzer(o) ==
    IF o = None THEN [builtin |-> None, custom |-> None]
    ELSE IF AnalyzerOfName(o[1].str) # None THEN [builtin |-> AnalyzerOfName(o[1].str), custom |-> None]
    ELSE [builtin |-> None, custom |-> Some(o[1].str)]

\* parse_field_definition without its sub-fields.
ParseOwn(v) ==
    LET type   == IF Has(v, "type") /\ is_string(Get(v, "type")) THEN Get(v, "type").str ELSE "text"
        tn     == TypeOfName(type)
        an     == OptString(v, "analyzer")
        sa     == OptString(v, "search_analyzer")
        norms  == OptString(v, "norms")
        normal == OptString(v, "normalizer")
        prefix == IF Has(v, "index_prefixes") THEN parse_index_prefixes(Get(v, "index_prefixes")) ELSE Ok(None)
        format == OptString(v, "format")
        bad(o) == o # None /\ ~is_string(o[1])
    IN  IF ~is_object(v) THEN Err("not_object")
        ELSE IF tn = None THEN Err("type")
        ELSE IF bad(an) \/ bad(sa) THEN Err("analyzer_not_string")
        ELSE IF norms # None /\ ~is_boolean(norms[1]) THEN Err("norms")
        ELSE IF tn[1] # "text" /\ (an # None \/ sa # None) THEN Err("analyzer_not_supported")
        ELSE IF bad(normal) THEN Err("normalizer_not_string")
        ELSE IF normal # None /\ AnalyzerOfName(normal[1].str) = None THEN Err("normalizer")
        ELSE IF ~IsOk(prefix) THEN prefix
        ELSE IF prefix.ok # None /\ tn[1] # "text" THEN Err("prefixes_not_supported")
        ELSE IF bad(format) THEN Err("format_not_string")
        ELSE IF format # None /\ tn[1] # "date" THEN Err("format_not_supported")
        ELSE Ok([type |-> tn[1],
                 analyzer |-> SplitAnalyzer(an).builtin, custom_analyzer |-> SplitAnalyzer(an).custom,
                 search_analyzer |-> SplitAnalyzer(sa).builtin, custom_search_analyzer |-> SplitAnalyzer(sa).custom,
                 norms |-> IF norms = None THEN None ELSE Some(norms[1].bool),
                 normalizer |-> IF normal = None THEN None ELSE AnalyzerOfName(normal[1].str),
                 index_prefixes |-> IF prefix.ok = None THEN None ELSE Some(prefix.ok),
                 date_format |-> IF format = None THEN None ELSE Some(format[1].str),
                 fields |-> NoFields])

\* With the sub-fields, which have none of their own.
parse_field_definition(v) ==
    LET own  == ParseOwn(v)
        subs == Get(v, "fields")
        sub(s) == IF Has(subs.obj[s], "fields") THEN Err("nested") ELSE ParseOwn(subs.obj[s])
    IN  IF ~IsOk(own) \/ ~Has(v, "fields") THEN own
        ELSE IF ~is_object(subs) THEN Err("fields")
        ELSE IF \E s \in DOMAIN subs.obj : s \in BlankNames \/ ~IsOk(sub(s)) THEN Err("sub_field")
        ELSE Ok([own.ok EXCEPT !.fields = [s \in DOMAIN subs.obj |-> sub(s).ok]])

NoAnalysis == [tokenizers |-> NoFields, analyzers |-> NoFields, normalizers |-> {}]
EmptyMapping == [fields |-> NoFields, analysis |-> NoAnalysis]

from_properties_value(v) ==
    IF ~is_object(v) THEN Err("not_object")
    ELSE IF \E f \in DOMAIN v.obj : f \in BlankNames \/ ~IsOk(parse_field_definition(v.obj[f])) THEN Err("field")
    ELSE Ok([fields |-> [f \in DOMAIN v.obj |-> parse_field_definition(v.obj[f]).ok], analysis |-> NoAnalysis])

\* read_filter_chain.
FilterChain(v) ==
    IF ~Has(v, "filter") THEN Ok({})
    ELSE IF ~is_array(Get(v, "filter")) THEN Err("filter")
    ELSE Ok({x.str : x \in {y \in Range(Get(v, "filter").arr) : is_string(y)}})

\* The analysis section of the settings: edge_ngram tokenizers, analyzers and
\* normalizers; tokenizers of another type are skipped.
from_index_settings_value(v) ==
    LET a  == Get(v, "analysis")
        section(k) == IF Has(a, k) THEN Get(a, k) ELSE Obj(NoKeys)
        ts == section("tokenizer")
        as == section("analyzer")
        ns == section("normalizer")
        edge == {n \in DOMAIN ts.obj : Has(ts.obj[n], "type") /\ Get(ts.obj[n], "type") = Str("edge_ngram")}
    IN  IF ~is_object(v) THEN Err("settings")
        ELSE IF ~Has(v, "analysis") THEN Ok(NoAnalysis)
        ELSE IF ~is_object(a) \/ \E s \in {ts, as, ns} : ~is_object(s) THEN Err("section")
        ELSE IF \E s \in {ts, as, ns} : \E n \in DOMAIN s.obj : ~is_object(s.obj[n]) THEN Err("entry")
        ELSE IF \E n \in edge : \E k \in {"min_gram", "max_gram"} :
                   ~Has(ts.obj[n], k) \/ ~is_number(Get(ts.obj[n], k)) THEN Err("bound")
        ELSE IF \E s \in {as, ns} : \E n \in DOMAIN s.obj : ~IsOk(FilterChain(s.obj[n])) THEN Err("filter")
        ELSE Ok([tokenizers |-> [n \in edge |-> [min_gram |-> Get(ts.obj[n], "min_gram").num,
                                                max_gram |-> Get(ts.obj[n], "max_gram").num]],
                 analyzers  |-> [n \in DOMAIN as.obj |->
                                   [tokenizer |-> IF Has(as.obj[n], "tokenizer") /\ is_string(Get(as.obj[n], "tokenizer"))
                                                  THEN Get(as.obj[n], "tokenizer").str ELSE "standard",
                                    filter |-> FilterChain(as.obj[n]).ok]],
                 normalizers |-> DOMAIN ns.obj])

\* infer_field_type: the first array element with a type decides.
RECURSIVE infer_field_type(_)
infer_field_type(v) ==
    IF is_string(v) THEN IF v.str # <<>> /\ \A i \in DOMAIN v.str : is_digit(v.str[i]) THEN "keyword" ELSE "text"
    ELSE IF is_number(v) THEN IF is_i64(v) THEN "integer" ELSE "double"
    ELSE IF is_boolean(v) THEN "boolean"
    ELSE IF is_object(v) THEN "object"
    ELSE IF is_null(v) THEN "unknown"
    ELSE LET known == {i \in DOMAIN v.arr : infer_field_type(v.arr[i]) # "unknown"}
         IN  IF known = {} THEN "array"
             ELSE infer_field_type(v.arr[CHOOSE i \in known : \A j \in known : i <= j])

\* A document's new fields get the type its value shows; mapped ones keep theirs.
ensure_fields(m, source) ==
    [m EXCEPT !.fields = [f \in DOMAIN @ \cup DOMAIN source |->
                             IF f \in DOMAIN m.fields THEN m.fields[f] ELSE NewField(infer_field_type(source[f]))]]

-----------------------------------------------------------------------------
(* Writing a mapping out: GET _mapping and mapping.json of a snapshot.     *)

\* Mutant: the search analyzer is left out.
OwnValueBrief(fm) ==
    LET put(k, o, v(_)) == IF o = None THEN NoKeys ELSE [x \in {k} |-> v(o[1])]
        text(x) == Str(x)
    IN  [x \in {"type"} |-> Str(fm.type)]
        @@ put("analyzer", fm.analyzer, text) @@ put("analyzer", fm.custom_analyzer, text)
        @@ put("norms", fm.norms, LAMBDA b : Bool(b)) @@ put("normalizer", fm.normalizer, text)
        @@ put("index_prefixes", fm.index_prefixes,
               LAMBDA p : Obj([k \in {"min_chars", "max_chars"} |-> Num(p[k])]))
        @@ IF fm.type = "date"
           THEN [x \in {"format"} |-> Str(IF fm.date_format = None THEN DefaultDateFormat ELSE fm.date_format[1])]
           ELSE NoKeys

OwnValue(fm) ==
    LET put(k, o, v(_)) == IF o = None THEN NoKeys ELSE [x \in {k} |-> v(o[1])]
        text(x) == Str(x)
    IN  [x \in {"type"} |-> Str(fm.type)]
        @@ put("analyzer", fm.analyzer, text) @@ put("analyzer", fm.custom_analyzer, text)
        @@ put("search_analyzer", fm.search_analyzer, text)
        @@ put("search_analyzer", fm.custom_search_analyzer, text)
        @@ put("norms", fm.norms, LAMBDA b : Bool(b)) @@ put("normalizer", fm.normalizer, text)
        @@ put("index_prefixes", fm.index_prefixes,
               LAMBDA p : Obj([k \in {"min_chars", "max_chars"} |-> Num(p[k])]))
        @@ IF fm.type = "date"
           THEN [x \in {"format"} |-> Str(IF fm.date_format = None THEN DefaultDateFormat ELSE fm.date_format[1])]
           ELSE NoKeys

FieldValue(fm) ==
    Obj(OwnValue(fm)
        @@ IF DOMAIN fm.fields = {} THEN NoKeys
           ELSE [x \in {"fields"} |-> Obj([s \in DOMAIN fm.fields |-> Obj(OwnValue(fm.fields[s]))])])

\* IndexMapping::as_value, without the "properties" wrapper.
as_value(m) == Obj([f \in DOMAIN m.fields |-> FieldValue(m.fields[f])])

-----------------------------------------------------------------------------
(* The terms of a field.                                                   *)

\* AnalysisSettings::resolve_analyzer: an analyzer whose tokenizer is not an
\* edge_ngram of these settings does not resolve.
Resolves(analysis, name) ==
    AnalyzerOfName(name) # None \/ (name \in DOMAIN analysis.analyzers
                                     /\ analysis.analyzers[name].tokenizer \in DOMAIN analysis.tokenizers)

ResolvedTerms(analysis, name, t) ==
    IF AnalyzerOfName(name) # None THEN terms(AnalyzerOfName(name)[1], t)
    ELSE LET a  == analysis.analyzers[name]
             k  == analysis.tokenizers[a.tokenizer]
             ts == Terms(EdgeNgramAnalyzer(t, k.min_gram, k.max_gram))
             low(x) == IF "lowercase" \in a.filter THEN to_lowercase(x) ELSE x
             fold(x) == IF "asciifolding" \in a.filter THEN asciifold_string(x) ELSE x
         IN  [i \in DOMAIN ts |-> fold(low(ts[i]))]

\* IndexMapping::analyzer: a path that is not a top-level field is taken for text.
analyzer(m, path) ==
    IF Len(path) = 1 /\ path[1] \in DOMAIN m.fields THEN FieldAnalyzer(m.fields[path[1]]) ELSE "simple"

FieldResolves(m, path) ==
    /\ path[1] \in DOMAIN m.fields
    /\ Len(path) = 2 => path[2] \in DOMAIN m.fields[path[1]].fields

resolve_field(m, path) == IF Len(path) = 1 THEN m.fields[path[1]] ELSE m.fields[path[1]].fields[path[2]]

\* custom_search_terms_for_field: None when only builtins are in play.
custom_search_terms_for_field(m, t, path) ==
    LET fm == resolve_field(m, path)
        custom(name) == Some(IF Resolves(m.analysis, name) THEN ResolvedTerms(m.analysis, name, t) ELSE <<>>)
    IN  IF ~FieldResolves(m, path) THEN None
        ELSE IF fm.custom_search_analyzer # None THEN custom(fm.custom_search_analyzer[1])
        ELSE IF fm.search_analyzer # None THEN Some(terms(fm.search_analyzer[1], t))
        ELSE IF fm.custom_analyzer # None THEN custom(fm.custom_analyzer[1])
        ELSE None

normalized_terms_for_field(m, t, path) ==
    LET c == custom_search_terms_for_field(m, t, path)
    IN  IF c # None THEN c[1] ELSE terms(analyzer(m, path), t)

\* normalized_term_for_field: the first term, of the index analyzer.
FirstTerm(ts) == IF ts = <<>> THEN <<>> ELSE ts[1]
normalized_term_for_field(m, t, path) == FirstTerm(terms(analyzer(m, path), t))

\* subfield_terms: what the index holds under a sub-field's path.
subfield_terms(m, fm, t) ==
    IF fm.type = "keyword"
    THEN Terms(IF fm.normalizer # None THEN Normalizer(t) ELSE KeywordAnalyzer(t))
    ELSE IF fm.custom_analyzer # None /\ Resolves(m.analysis, fm.custom_analyzer[1])
    THEN ResolvedTerms(m.analysis, fm.custom_analyzer[1], t)
    ELSE terms(FieldAnalyzer(fm), t)

\* analyze_subfield_value: the same terms computed again from the stored body,
\* for the scan that has no postings.
analyze_subfield_value(m, fm, t) ==
    IF fm.type = "keyword"
    THEN Terms(IF fm.normalizer # None THEN Normalizer(t) ELSE KeywordAnalyzer(t))
    ELSE IF fm.custom_analyzer # None /\ Resolves(m.analysis, fm.custom_analyzer[1])
    THEN ResolvedTerms(m.analysis, fm.custom_analyzer[1], t)
    ELSE terms(FieldAnalyzer(fm), t)

\* The terms posted for the text of a field, and under its sub-fields.
IndexedTerms(m, path, t) ==
    IF Len(path) = 1 THEN terms(analyzer(m, path), t)
    ELSE IF FieldResolves(m, path) THEN subfield_terms(m, resolve_field(m, path), t) ELSE <<>>

\* field_tokens_for_source.
field_tokens_for_source(m, path, t) ==
    IF Len(path) = 2 /\ FieldResolves(m, path) THEN analyze_subfield_value(m, resolve_field(m, path), t)
    ELSE IF Len(path) = 2 THEN <<>>
    ELSE terms(analyzer(m, path), t)
=============================================================================
