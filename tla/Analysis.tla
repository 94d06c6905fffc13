------------------------------ MODULE Analysis ------------------------------
(***************************************************************************)
(* surch-analysis and surch-search::fuzzy as operators: tokenizers, stop   *)
(* words, case and accent folding, edge n-grams, edit distance.            *)
(*                                                                         *)
(* A text is a sequence of characters: letters, among them upper-case and  *)
(* accented ones and a ligature that folds to two letters, digits, the     *)
(* blank and marks such as "-".                                            *)
(***************************************************************************)
LOCAL INSTANCE Naturals
LOCAL INSTANCE Sequences
LOCAL INSTANCE SequencesExt

Letters == {"a", "b", "e", "t", "f", "A", "E", "e^", "E^", "ae"}
Digits == <<"0", "1", "2", "3", "4", "5", "6", "7", "8", "9">>

is_alphabetic(c) == c \in Letters
is_digit(c) == \E i \in DOMAIN Digits : Digits[i] = c
is_alphanumeric(c) == is_alphabetic(c) \/ is_digit(c)
IsSolid(c) == c # " "

LowerChar(c) == CASE c = "A" -> "a" [] c = "E" -> "e" [] c = "E^" -> "e^" [] OTHER -> c
to_lowercase(t) == [i \in DOMAIN t |-> LowerChar(t[i])]

FoldChar(c) == CASE c = "e^" -> <<"e">> [] c = "E^" -> <<"E">> [] c = "ae" -> <<"a", "e">> [] OTHER -> <<c>>
asciifold_string(t) == FlattenSeq([i \in DOMAIN t |-> FoldChar(t[i])])

Unchanged(t) == t

\* "b" stands for the stop words.
ENGLISH_STOP_WORDS == {<<"b">>}

-----------------------------------------------------------------------------
(* Tokenizers.                                                             *)

\* The ends of the maximal runs of characters of one class, as <<start, end>>
\* with start excluded.
Runs(t, in(_)) ==
    LET starts == SelectSeq([i \in DOMAIN t |-> i], LAMBDA i : in(t[i]) /\ (i = 1 \/ ~in(t[i - 1])))
        ends   == SelectSeq([i \in DOMAIN t |-> i], LAMBDA i : in(t[i]) /\ (i = Len(t) \/ ~in(t[i + 1])))
    IN  [k \in DOMAIN starts |-> <<starts[k] - 1, ends[k]>>]

RunTokens(t, in(_), change(_)) ==
    LET runs == Runs(t, in)
    IN  [k \in DOMAIN runs |->
            [term |-> change(SubSeq(t, runs[k][1] + 1, runs[k][2])),
             start_offset |-> runs[k][1], end_offset |-> runs[k][2], position_increment |-> 1]]

WholeToken(t, change(_)) ==
    IF t = <<>> THEN <<>>
    ELSE <<[term |-> change(t), start_offset |-> 0, end_offset |-> Len(t), position_increment |-> 1]>>

KeywordAnalyzer(t) == WholeToken(t, Unchanged)
StandardAnalyzer(t) == RunTokens(t, is_alphanumeric, to_lowercase)
WhitespaceAnalyzer(t) == RunTokens(t, IsSolid, Unchanged)
SimpleAnalyzer(t) == RunTokens(t, is_alphabetic, to_lowercase)
raw_alphanumeric_tokens(t) == RunTokens(t, is_alphanumeric, Unchanged)
Normalizer(t) == WholeToken(t, LAMBDA x : to_lowercase(asciifold_string(x)))

NormAnalyzer(t) ==
    LET ts == StandardAnalyzer(t)
    IN  [k \in DOMAIN ts |-> [ts[k] EXCEPT !.term = asciifold_string(@)]]

\* A removed token hands its positions to the next one kept.
stop_filter(tokens) ==
    LET step(a, token) ==
            IF token.term \in ENGLISH_STOP_WORDS
            THEN [a EXCEPT !.skipped = @ + token.position_increment]
            ELSE [out |-> Append(a.out, [token EXCEPT !.position_increment = @ + a.skipped]), skipped |-> 0]
    IN  FoldLeft(step, [out |-> <<>>, skipped |-> 0], tokens).out

StopAnalyzer(t) == stop_filter(SimpleAnalyzer(t))

\* The prefixes of every token, from min_gram to max_gram characters.
EdgeNgramAnalyzer(t, min_gram, max_gram) ==
    IF min_gram = 0 \/ max_gram < min_gram THEN <<>>
    ELSE FlattenSeq([k \in DOMAIN raw_alphanumeric_tokens(t) |->
            LET base  == raw_alphanumeric_tokens(t)[k]
                upper == IF max_gram < Len(base.term) THEN max_gram ELSE Len(base.term)
            IN  [n \in 1 .. (IF upper < min_gram THEN 0 ELSE upper - min_gram + 1) |->
                    [base EXCEPT !.term = SubSeq(@, 1, min_gram + n - 1),
                                 !.end_offset = base.start_offset + min_gram + n - 1]]])

Terms(tokens) == [k \in DOMAIN tokens |-> tokens[k].term]

\* The position of a token, counted from 0 (analyzed_terms).
Positions(tokens) ==
    FoldLeft(LAMBDA a, token : Append(a, (IF a = <<>> THEN 0 ELSE a[Len(a)] + 1) + token.position_increment - 1),
             <<>>, tokens)

-----------------------------------------------------------------------------
(* Fuzzy matching.                                                         *)

MAX_SUPPORTED_EDITS == 2

\* Fuzziness: a number of edits, or AUTO with its two thresholds.
Edits(n) == [kind |-> "edits", n |-> n]
Auto(low, high) == [kind |-> "auto", low |-> low, high |-> high]

validate_fuzziness(f) == IF f.kind = "edits" THEN f.n <= MAX_SUPPORTED_EDITS ELSE f.low <= f.high

edits_for_term_len(f, len) ==
    IF f.kind = "edits" THEN f.n
    ELSE IF len < f.low THEN 0 ELSE IF len < f.high THEN 1 ELSE 2

Least(S) == CHOOSE x \in S : \A y \in S : x <= y

\* The distance of every pair of prefixes, row by row.
damerau_levenshtein_chars(left, right, transpositions) ==
    LET d[i \in 0 .. Len(left), j \in 0 .. Len(right)] ==
            IF i = 0 THEN j ELSE IF j = 0 THEN i
            ELSE Least({d[i - 1, j] + 1, d[i, j - 1] + 1,
                        d[i - 1, j - 1] + (IF left[i] = right[j] THEN 0 ELSE 1)}
                       \cup IF transpositions /\ i > 1 /\ j > 1
                               /\ left[i] = right[j - 1] /\ left[i - 1] = right[j]
                            THEN {d[i - 2, j - 2] + 1} ELSE {})
    IN  d[Len(left), Len(right)]

\* Whether the distance is within max_edits; unequal lengths are cut off first.
bounded_damerau_levenshtein(left, right, max_edits, transpositions) ==
    /\ max_edits <= MAX_SUPPORTED_EDITS
    /\ \/ left = right
       \/ /\ Len(left) <= Len(right) + max_edits
          /\ Len(right) <= Len(left) + max_edits
          /\ damerau_levenshtein_chars(left, right, transpositions) <= max_edits

has_exact_char_prefix(query, term, n) ==
    Len(query) >= n /\ Len(term) >= n /\ SubSeq(query, 1, n) = SubSeq(term, 1, n)

\* expand_fuzzy_terms: the matching terms by distance, then in term order (the
\* order of the sequence given), at most max_expansions of them.
expand_fuzzy_terms(query, terms, f, prefix_length, max_expansions, transpositions) ==
    LET edits == edits_for_term_len(f, Len(query))
        hits  == SelectSeq(terms, LAMBDA t : /\ has_exact_char_prefix(query, t, prefix_length)
                                             /\ bounded_damerau_levenshtein(query, t, edits, transpositions))
        at(n) == SelectSeq(hits, LAMBDA t : damerau_levenshtein_chars(query, t, transpositions) = n)
        all   == at(0) \o at(1) \o at(2)
    IN  SubSeq(all, 1, IF max_expansions < Len(all) THEN max_expansions ELSE Len(all))

fuzzy_token_matches(query, candidate, f) ==
    validate_fuzziness(f) /\ bounded_damerau_levenshtein(query, candidate, edits_for_term_len(f, Len(query)), TRUE)

-----------------------------------------------------------------------------
(* Wildcards: the two-pointer matcher with one point of return.            *)

\* Mutant: the point of return never moves on.
WildcardBackStuck(s) == [s EXCEPT !.pi = s.star_pi + 1, !.ti = s.star_ti]

WildcardBack(s) == [s EXCEPT !.pi = s.star_pi + 1, !.star_ti = s.star_ti + 1, !.ti = s.star_ti + 1]

\* One turn of the loop; star_pi = 0 means no star was met yet.
WildcardStep(pattern, text, s) ==
    IF s.done \/ s.ti > Len(text) THEN [s EXCEPT !.done = TRUE]
    ELSE IF s.pi <= Len(pattern) /\ pattern[s.pi] \in {"?", text[s.ti]}
         THEN [s EXCEPT !.pi = @ + 1, !.ti = @ + 1]
    ELSE IF s.pi <= Len(pattern) /\ pattern[s.pi] = "*"
         THEN [s EXCEPT !.star_pi = s.pi, !.star_ti = s.ti, !.pi = @ + 1]
    ELSE IF s.star_pi # 0 THEN WildcardBack(s)
    ELSE [s EXCEPT !.done = TRUE, !.fail = TRUE]

\* A bound on the number of turns: each return point is left at most once.
WildcardTurns(pattern, text) == (Len(pattern) + Len(text) + 2) * (Len(text) + 1)

wildcard_pattern_matches(pattern, text) ==
    LET start == [pi |-> 1, ti |-> 1, star_pi |-> 0, star_ti |-> 0, done |-> FALSE, fail |-> FALSE]
        s     == FoldLeft(LAMBDA a, i : WildcardStep(pattern, text, a), start,
                          [i \in 1 .. WildcardTurns(pattern, text) |-> i])
    IN  s.done /\ ~s.fail /\ \A i \in s.pi .. Len(pattern) : pattern[i] = "*"

\* fold_search_char and normalize_text: lower case, accents off, the rest of
\* the punctuation becomes a blank.  A ligature has no entry of its own.
fold_search_char(c) ==
    CASE c \in {"e^", "E^"} -> "e" [] is_alphanumeric(c) -> LowerChar(c) [] OTHER -> " "

normalize_text(t) == [i \in DOMAIN t |-> fold_search_char(t[i])]
tokenize_for_search(t) == Terms(RunTokens(normalize_text(t), IsSolid, Unchanged))

normalize_wildcard_pattern(p) ==
    [i \in DOMAIN p |-> IF p[i] \in {"*", "?"} THEN p[i] ELSE fold_search_char(p[i])]
=============================================================================
