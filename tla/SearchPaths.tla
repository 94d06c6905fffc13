---------------------------- MODULE SearchPaths -----------------------------
(***************************************************************************)
(* Scoring, and the ways run_search answers a request on one index: the    *)
(* top-k path of match and match_all, the exact bool path with its fused   *)
(* conjunctions, and the general path the two must agree with.             *)
(*                                                                         *)
(* Scores are integers in units of 1/Unit.  The BM25 formula is replaced   *)
(* by one that rises with the frequency, falls with the length of the      *)
(* document and with the frequency of the term, and meets 1.0 exactly,     *)
(* which the code treats apart.                                            *)
(***************************************************************************)
EXTENDS Response
LOCAL INSTANCE Integers
LOCAL INSTANCE Sequences
LOCAL INSTANCE FiniteSets
LOCAL INSTANCE SequencesExt
LOCAL INSTANCE FiniteSetsExt
LOCAL INSTANCE Functions

Unit == 12
Tiny == 1
MaxLen == 4

Times(a, b) == (a * b) \div Unit
ByBoost(score, boost) == (score * boost) \div 2

bm25_score(doc_count, doc_freq, tf, len) == Unit * ((doc_count - doc_freq) * 3 + tf) + Unit * (MaxLen - len)

SumOf(scores) == FoldLeft(LAMBDA a, x : a + x, 0, scores)

-----------------------------------------------------------------------------
(* Scores.                                                                 *)

\* The terms a document holds in a top-level field, in order; sub-fields have
\* no lengths.
FieldTerms(c, d, f) ==
    IF Len(Path(f)) = 2 \/ f \notin DOMAIN c.docs[d] THEN <<>>
    ELSE FlattenSeq([i \in DOMAIN scalar_values(c.docs[d][f]) |-> IndexedTerms(c.mapping, <<f>>, scalar_values(c.docs[d][f])[i])])

field_scoring_stats(c, f) == {d \in DOMAIN c.docs : FieldTerms(c, d, f) # <<>>}
doc_len(c, d, f) == IF f \in DOMAIN c.mapping.fields /\ ~norms_enabled(c.mapping.fields[f]) THEN 1 ELSE Len(FieldTerms(c, d, f))
term_freq(c, d, f, t) == Len(SelectSeq(FieldTerms(c, d, f), LAMBDA x : x = t))

Contribution(c, f, t, d) ==
    bm25_score(Cardinality(field_scoring_stats(c, f)), Cardinality(postings(c, f, t)), term_freq(c, d, f, t), doc_len(c, d, f))

\* The sum over the terms of the value, a repeated one counted as often as it
\* occurs; None when the document scores nothing.
bm25_field_score(c, f, value, d) ==
    LET ts    == terms(analyzer(c.mapping, Path(f)), value)
        parts == [i \in DOMAIN ts |-> IF term_freq(c, d, f, ts[i]) = 0 THEN 0 ELSE Contribution(c, f, ts[i], d)]
    IN  IF field_scoring_stats(c, f) = {} \/ FieldTerms(c, d, f) = <<>> \/ SumOf(parts) = 0 THEN None ELSE Some(SumOf(parts))

\* Numbers of a document in halves, as as_f64.
lookup_numeric_field(source, f) ==
    IF f \notin DOMAIN source THEN None
    ELSE IF is_number(source[f]) THEN Some(as_f64(source[f]))
    ELSE IF is_string(source[f]) /\ source[f].str # <<>> /\ DigitsOf(source[f].str) THEN Some(2 * Value(source[f].str)) ELSE None

lookup_text_field(source, f) ==
    IF f \in DOMAIN source /\ (is_string(source[f]) \/ is_number(source[f])) THEN Some(ScalarText(source[f])) ELSE None

\* The logarithm of x >= Unit, exact at the powers of two and straight between.
Ln(x) ==
    LET q == CHOOSE n \in 0 .. x : Unit * 2^n <= x /\ x < Unit * 2^(n + 1)
    IN  (693 * (Unit * q + (x - Unit * 2^q) \div 2^q)) \div 1000

\* log1p is applied to what is not negative.
apply_field_value_modifier(v, modifier) ==
    CASE modifier = "none" -> v
      [] modifier = "log1p" -> Ln(Unit + v)
      [] modifier = "sqrt" -> IF v < 0 THEN 0 ELSE CHOOSE r \in 0 .. v : r * r <= v * Unit /\ (r + 1) * (r + 1) > v * Unit
      [] modifier = "reciprocal" -> IF v = 0 THEN 0 ELSE (Unit * Unit) \div v

\* One half to the power n / d, exact at the integers and straight between.
HalfTo(n, d) == IF n \div d > Unit THEN 0 ELSE (Unit * (2 * d - (n % d))) \div (2 * d * 2^(n \div d))

\* A decay of one half at the distance of the scale; a document without a date
\* scores the decay itself.
DecayFactor(fn, source) ==
    LET decay == Unit \div 2
        t == lookup_text_field(source, fn.field)
        day == parse_yyyymmdd_to_days(t[1])
        distance == IF day[1] < fn.origin THEN fn.origin - day[1] ELSE day[1] - fn.origin
    IN  IF t = None THEN decay ELSE IF day = None THEN decay
        ELSE IF distance > Unit * fn.scale THEN 0
        ELSE CASE fn.kind = "gauss" -> HalfTo(distance * distance, fn.scale * fn.scale)
               [] fn.kind = "exp" -> HalfTo(distance, fn.scale)
               [] fn.kind = "linear" -> Max({0, Unit - (distance * (Unit - decay)) \div fn.scale})

evaluate_scoring_function(fn, source) ==
    CASE fn.kind = "weight" -> ByBoost(Unit, fn.value)
      [] fn.kind = "field_value_factor" ->
            LET raw == OrElse(lookup_numeric_field(source, fn.field), fn.missing)
            IN  apply_field_value_modifier((raw * fn.factor * Unit) \div 4, fn.modifier)
      [] fn.kind \in DecayKinds -> DecayFactor(fn, source)

\* A function whose filter rejects the document counts 1, 0 or not at all.
combine_scoring_functions(functions, mode, m, source) ==
    LET applies(fn) == fn.filter = None \/ query_matches(m, source, fn.filter[1])
        factor(fn) == LET raw == evaluate_scoring_function(fn.function, source)
                      IN  IF fn.weight = None THEN raw ELSE ByBoost(raw, fn.weight[1])
        skipped == IF mode = "multiply" THEN <<Unit>> ELSE IF mode \in {"sum", "avg"} THEN <<0>> ELSE <<>>
        factors == FlattenSeq([i \in DOMAIN functions |-> IF applies(functions[i]) THEN <<factor(functions[i])>> ELSE skipped])
    IN  IF factors = <<>> THEN IF mode \in {"sum", "avg"} THEN 0 ELSE Unit
        ELSE CASE mode = "multiply" -> FoldLeft(Times, Unit, factors)
               [] mode = "sum" -> SumOf(factors)
               [] mode = "avg" -> SumOf(factors) \div Len(factors)
               [] mode = "first" -> factors[1]
               [] mode = "min" -> Min(Range(factors))
               [] mode = "max" -> Max(Range(factors))

combine_with_boost_mode(inner, factor, mode) ==
    CASE mode = "multiply" -> Times(inner, factor) [] mode = "sum" -> inner + factor [] mode = "avg" -> (inner + factor) \div 2
      [] mode = "replace" -> factor [] mode = "min" -> Min({inner, factor}) [] mode = "max" -> Max({inner, factor})

\* An optional clause that scores exactly 1.0 is taken for one that did not match.
RECURSIVE score_for_query(_, _, _)
score_for_query(c, q, d) ==
    CASE q.kind \in {"match", "match_phrase", "fuzzy"} -> OrElse(bm25_field_score(c, q.field, q.value, d), Unit)
      [] q.kind = "multi_match" -> Max({OrElse(bm25_field_score(c, f, q.value, d), 0) : f \in Range(q.fields)} \cup {Tiny})
      [] q.kind = "bool" ->
            LET must   == SumOf([i \in DOMAIN q.must |-> score_for_query(c, q.must[i], d)])
                should == SumOf(SelectSeq([i \in DOMAIN q.should |-> score_for_query(c, q.should[i], d)], LAMBDA s : s # Unit))
            IN  ByBoost(IF must + should > 0 THEN must + should ELSE Unit, q.boost)
      [] q.kind = "match_all" -> ByBoost(Unit, q.boost)
      [] q.kind = "function_score" ->
            LET inner == ByBoost(score_for_query(c, q.inner, d), q.boost)
            IN  IF q.functions = <<>> THEN inner
                ELSE combine_with_boost_mode(inner, combine_scoring_functions(q.functions, q.score_mode, c.mapping, c.docs[d]), q.boost_mode)
      [] OTHER -> Unit

-----------------------------------------------------------------------------
(* The general path.                                                       *)

RECURSIVE is_scoring_query(_)
is_scoring_query(q) ==
    q.kind \in {"match", "match_phrase", "multi_match", "fuzzy", "bool"} \/ (q.kind = "function_score" /\ is_scoring_query(q.inner))

\* The documents of an index in the order of their internal ids.
InIdOrder(ids) == InOrder(ids, LAMBDA a, b : a < b)

Scored(c, q, ids) == [i \in DOMAIN InIdOrder(ids) |->
    LET d == InIdOrder(ids)[i] IN [id |-> d, source |-> c.docs[d], score |-> score_for_query(c, q, d)]]

KeepMinScore(docs, request) == SelectSeq(docs, LAMBDA d : request.min_score = None \/ d.score >= request.min_score[1])

\* The hits as far as the paths could differ: ids and, when scored, scores.
Hits(docs, scoring) == [i \in DOMAIN docs |-> <<docs[i].id, IF scoring THEN Some(docs[i].score) ELSE None>>]

\* The fields whose columns a request needs.
ProjectedPaths(request) ==
    LET aggs == OrElse(request.aggs, <<>>)
        fields(a) == IF a.kind = "composite" THEN {a.sources[i].source.field : i \in DOMAIN a.sources} ELSE {a.field}
    IN  {cl.field : cl \in Range(request.sort)} \cup UNION {fields(aggs[n]) : n \in DOMAIN aggs}

general_path(c, request) ==
    LET q       == request.query[1]
        scoring == is_scoring_query(q)
        all     == Scored(c, q, match_documents_for_index(c, q))
        kept    == IF scoring THEN KeepMinScore(all, request) ELSE all
        columns == collect_subfield_projections(c, ProjectedPaths(request))
        sorted  == sort_scored_documents(c.mapping, kept, request.sort, scoring, columns)
    IN  [hits |-> Hits(paginate_hits(request, sorted), scoring), total |-> Len(kept), max_score |-> compute_max_score(sorted, scoring),
         aggregations |-> compute_aggregations(OrElse(request.aggs, <<>>), sorted, columns)]

-----------------------------------------------------------------------------
(* The top-k paths.                                                        *)

is_default_score_sort(sort) == sort = <<>> \/ (Len(sort) = 1 /\ sort[1].field = "_score" /\ sort[1].order = "desc")

RECURSIVE scoring_needs_source(_)
scoring_needs_source(q) ==
    CASE q.kind = "function_score" -> q.functions # <<>> \/ scoring_needs_source(q.inner)
      [] q.kind = "bool" -> \E cl \in Range(q.must \o q.should) : scoring_needs_source(cl)
      [] OTHER -> FALSE

requested_hit_window_limit(from, size) == IF size # 0 THEN from + size ELSE 0

\* scored_pair_ordering: best score first, then the smaller id.
scored_pair_ordering(a, b) == a.score > b.score \/ (a.score = b.score /\ a.id < b.id)

TopN(docs, limit) == Take(StableSort(docs, scored_pair_ordering), limit)

Window(docs, request) ==
    LET from == OrElse(request.from, 0) size == OrElse(request.size, 10)
    IN  Take(Skip(TopN(docs, requested_hit_window_limit(from, size)), from), size)

\* The total and the best score are taken before the window.
finalize_fused_topk(docs, request) ==
    LET kept == KeepMinScore(docs, request)
    IN  [hits |-> Hits(Window(kept, request), TRUE), total |-> Len(kept), max_score |-> compute_max_score(kept, TRUE),
         aggregations |-> <<>>]

run_topk_match_all(c, request) ==
    LET docs == InIdOrder(DOMAIN c.docs)
        page == Take(Skip(docs, OrElse(request.from, 0)), OrElse(request.size, 10))
    IN  [hits |-> [i \in DOMAIN page |-> <<page[i], None>>], total |-> Len(docs), max_score |-> None, aggregations |-> <<>>]

\* maxscore_match scores the documents of the value's terms, and only those.
maxscore_match(c, f, value) ==
    LET ts == Range(terms(analyzer(c.mapping, Path(f)), value))
        found == {d \in DOMAIN c.docs : \E t \in ts : term_freq(c, d, f, t) > 0}
    IN  IF field_scoring_stats(c, f) = {} \/ ts = {} \/ found = {} THEN None
        ELSE Some([d \in found |-> bm25_field_score(c, f, value, d)[1]])

maxscore_multi_match(c, fs, value) ==
    LET some == {f \in Range(fs) : maxscore_match(c, f, value) # None}
        docs == UNION {DOMAIN maxscore_match(c, f, value)[1] : f \in some}
    IN  IF some = {} THEN None
        ELSE Some([d \in docs |-> Max({maxscore_match(c, f, value)[1][d] : f \in {f \in some : d \in DOMAIN maxscore_match(c, f, value)[1]}} \cup {Tiny})])

\* topk_scored_documents: MaxScore unless every term is required.
topk_scored_documents(c, q, limit) ==
    LET candidates == posting_candidate_ids(c, q)[1]
        pruned == IF q.operator = "and" THEN None
                  ELSE IF q.kind = "match" THEN maxscore_match(c, q.field, q.value) ELSE maxscore_multi_match(c, q.fields, q.value)
        scores == IF pruned # None THEN pruned[1] ELSE [d \in candidates |-> score_for_query(c, q, d)]
        docs   == InIdOrder(DOMAIN scores)
    IN  [total |-> Cardinality(candidates),
         docs  |-> IF limit = 0 \/ candidates = {} THEN <<>>
                   ELSE TopN([i \in DOMAIN docs |-> [id |-> docs[i], source |-> c.docs[docs[i]], score |-> scores[docs[i]]]], limit)]

\* The best score of the match path is that of the window it collected.
run_topk_search(c, request) ==
    LET q    == request.query[1]
        from == OrElse(request.from, 0)
        size == OrElse(request.size, 10)
        top  == topk_scored_documents(c, q, requested_hit_window_limit(from, size))
    IN  IF ~is_default_score_sort(request.sort) \/ request.highlight # None \/ request.min_score # None THEN None
        ELSE IF q.kind = "match_all" THEN Some(run_topk_match_all(c, request))
        ELSE IF q.kind \notin {"match", "multi_match"} THEN None
        ELSE Some([hits |-> Hits(Take(Skip(top.docs, from), size), TRUE), total |-> top.total, max_score |-> compute_max_score(top.docs, TRUE),
                   aggregations |-> <<>>])

\* A bool of exactly two match clauses, both required.
reduce_direct_must_conjunction(q) ==
    /\ q.kind = "bool" /\ q.boost = 2
    /\ q.filter = <<>> /\ q.must_not = <<>> /\ q.should = <<>>
    /\ Len(q.must) = 2 /\ q.must[1].kind = "match" /\ q.must[2].kind = "match"

\* Mutant: boosts do not matter.
RECURSIVE reduce_whatever_boost(_)
reduce_whatever_boost(q) ==
    CASE q.kind = "match" -> TRUE
      [] q.kind = "function_score" -> q.functions = <<>> /\ reduce_whatever_boost(q.inner)
      [] q.kind = "bool" -> /\ q.must_not = <<>> /\ q.filter = <<>>
                            /\ IF q.should = <<>> THEN Len(q.must) = 1 /\ reduce_whatever_boost(q.must[1])
                               ELSE /\ q.must = <<>> /\ q.minimum_should_match = Len(q.should)
                                    /\ \A cl \in Range(q.should) : reduce_whatever_boost(cl)
      [] OTHER -> FALSE

\* Nested bools that amount to one conjunction of matches, none boosted.
RECURSIVE reduce_deces_conjunction(_)
reduce_deces_conjunction(q) ==
    CASE q.kind = "match" -> TRUE
      [] q.kind = "function_score" -> q.functions = <<>> /\ q.boost = 2 /\ reduce_deces_conjunction(q.inner)
      [] q.kind = "bool" -> /\ q.boost = 2 /\ q.must_not = <<>> /\ q.filter = <<>>
                            /\ IF q.should = <<>> THEN Len(q.must) = 1 /\ reduce_deces_conjunction(q.must[1])
                               ELSE /\ q.must = <<>> /\ q.minimum_should_match = Len(q.should)
                                    /\ \A cl \in Range(q.should) : reduce_deces_conjunction(cl)
      [] OTHER -> FALSE

RECURSIVE MatchClauses(_)
MatchClauses(q) ==
    CASE q.kind = "match" -> <<q>>
      [] q.kind = "function_score" -> MatchClauses(q.inner)
      [] q.kind = "bool" -> FlattenSeq([i \in DOMAIN (q.must \o q.should) |-> MatchClauses((q.must \o q.should)[i])])

\* fused_bm25_contribution: among optional clauses a score of exactly 1.0 is 0.
fused_bm25_contribution(score, mode) == IF mode = "should" /\ score = Unit THEN 0 ELSE score

\* fused_conjunction_scores: one term per clause, the same one for recall and
\* scoring, else it declines.
fused_scores(c, clauses, mode) ==
    LET recall(q) == normalized_terms_for_field(c.mapping, q.value, Path(q.field))
        term(q)   == recall(q)[1]
        found(q)  == postings(c, q.field, term(q))
        docs      == InIdOrder(Intersection([i \in DOMAIN clauses |-> found(clauses[i])]))
        sum(d)    == SumOf([i \in DOMAIN clauses |-> fused_bm25_contribution(Contribution(c, clauses[i].field, term(clauses[i]), d), mode)])
        declines(q) == Len(recall(q)) # 1 \/ recall(q) # terms(analyzer(c.mapping, Path(q.field)), q.value)
        first(P(_)) == IF \E i \in DOMAIN clauses : P(clauses[i]) THEN Min({i \in DOMAIN clauses : P(clauses[i])}) ELSE Len(clauses) + 1
        declined  == first(LAMBDA q : declines(q) \/ (found(q) # {} /\ field_scoring_stats(c, q.field) = {}))
        missing   == first(LAMBDA q : ~declines(q) /\ found(q) = {})
    IN  IF declined < missing THEN None
        ELSE IF missing <= Len(clauses) THEN Some(<<>>)
        ELSE Some([i \in DOMAIN docs |-> [id |-> docs[i], source |-> c.docs[docs[i]], score |-> IF sum(docs[i]) > 0 THEN sum(docs[i]) ELSE Unit]])

run_topk_exact_bool(c, request) ==
    LET q      == request.query[1]
        must   == IF reduce_direct_must_conjunction(q) THEN fused_scores(c, q.must, "must") ELSE None
        should == IF reduce_deces_conjunction(q) THEN fused_scores(c, MatchClauses(q), "should") ELSE None
        ids    == posting_candidate_ids(c, q)
    IN  IF \/ ~is_default_score_sort(request.sort) \/ request.highlight # None \/ ~is_scoring_query(q)
           \/ q.kind \notin {"bool", "function_score"} \/ ~candidate_set_is_exact(q) \/ scoring_needs_source(q) THEN None
        ELSE IF must # None THEN Some(finalize_fused_topk(must[1], request))
        ELSE IF should # None THEN Some(finalize_fused_topk(should[1], request))
        ELSE IF ids = None THEN None
        ELSE Some(finalize_fused_topk(Scored(c, q, ids[1]), request))

run_search(c, request) ==
    LET topk == run_topk_search(c, request)
        exact == run_topk_exact_bool(c, request)
    IN  IF DOMAIN OrElse(request.aggs, <<>>) # {} THEN general_path(c, request)
        ELSE IF topk # None THEN topk[1] ELSE IF exact # None THEN exact[1] ELSE general_path(c, request)
=============================================================================
