------------------------------- MODULE TopK -------------------------------
(***************************************************************************)
(* How surch-api ranks a match or multi_match query: the MaxScore executor *)
(* of surch-search (maxscore.rs) that walks the posting lists block by     *)
(* block and skips the blocks a running threshold rules out, the streamed  *)
(* walk of a single-term match (state.rs), the bounded collector TopN and  *)
(* the combination of the fields of a multi_match (search.rs).             *)
(*                                                                         *)
(* A request is chosen in the initial state; its steps are the blocks or   *)
(* postings the walk visits.  BM25 is abstracted to an integer that grows  *)
(* with the term frequency and with the rarity of the term and shrinks     *)
(* with the length of the document: the pruning relies on nothing else.    *)
(***************************************************************************)
EXTENDS Integers, Sequences, FiniteSets, SequencesExt

CONSTANTS
    NumDocs,        \* doc ids are 1..NumDocs
    BlockSize,      \* postings per block (BLOCK_SIZE, 128 in the code)
    Request         \* the requests: fields (a sequence of sequences of tokens),
                    \* limit, norms, doc_len (0: no length stored), min_doc_len

Doc == 1 .. NumDocs
NegInf == -1        \* every score is positive

\* A scorable token: its postings in ascending order, the frequency of the term
\* in every document, and how often the query repeats it.
ScorableToken ==
    {t \in [docs : Seq(Doc), freq : [Doc -> Nat], boost : Nat \ {0}] :
        /\ \A i, j \in DOMAIN t.docs : i < j => t.docs[i] < t.docs[j]
        /\ ToSet(t.docs) = {d \in Doc : t.freq[d] > 0}}

\* The lengths for which the integer that stands for BM25 is positive.
IsRequest(r) ==
    /\ r.fields \in Seq(Seq(ScorableToken)) \ {<<>>}
    /\ r.limit \in Nat /\ r.norms \in BOOLEAN
    /\ r.doc_len \in [Doc -> 0 .. 6] /\ r.min_doc_len \in Nat

ASSUME SizeAssumption == NumDocs \in Nat /\ BlockSize \in Nat \ {0}

ASSUME RequestAssumption == \A r \in Request : IsRequest(r)

VARIABLES
    req,            \* the request and the statistics it reads
    phase,          \* "start", "stream", "token", "block" or "done"
    pending,        \* the tokens of the field being walked, the current one first
    fields,         \* the fields a multi_match has still to walk
    block,          \* block_idx, or the position of the streamed walk
    allow,          \* allow_new_docs for the current token
    threshold,      \* the K-th best score between two tokens
    at_bound,       \* documents that reached the bound of a lone token
    scored,         \* doc -> score accumulated by the current field
    combined,       \* doc -> best score over the fields already walked
    topn,           \* the bounded collector: a sequence of <<score, doc>>
    total           \* hits.total

vars == <<req, phase, pending, fields, block, allow, threshold, at_bound,
          scored, combined, topn, total>>

NoScores == [d \in {} |-> 0]

-----------------------------------------------------------------------------
(* Tokens and their bounds.                                                *)

Ascending(S) == SelectSeq([i \in Doc |-> i], LAMBDA d : d \in S)

\* The token of a posting list, with its boost.
Token(p, b) ==
    [docs  |-> Ascending({d \in Doc : p[d] > 0}),
     freq  |-> p,
     boost |-> b]

DocFreq(t) == Len(t.docs)

\* Bm25TermScorer::score, times the boost of the token.
score(t, tf, len) ==
    (NumDocs + 1 - DocFreq(t)) * (3 * tf + 4 - len) * t.boost

\* The contribution of a posting; 0 stands for None (no usable length).
score_doc(t, d) ==
    LET len == IF req.norms THEN req.doc_len[d] ELSE 1
    IN  IF len > 0 THEN score(t, t.freq[d], len) ELSE 0

\* The smallest length of the field, possibly stale: never above the real one.
MinDocLen == IF req.norms THEN req.min_doc_len ELSE 1

max_contrib(t) ==
    score(t, Max({t.freq[t.docs[i]] : i \in DOMAIN t.docs}), MinDocLen)

num_blocks(t) == (DocFreq(t) + BlockSize - 1) \div BlockSize

\* The docs of block b, blocks counted from 0 as in the code.
block_doc_ids(t, b) ==
    {t.docs[i] : i \in {j \in DOMAIN t.docs : (j - 1) \div BlockSize = b}}

block_max_contrib(t, b) ==
    score(t, Max({t.freq[d] : d \in block_doc_ids(t, b)}), MinDocLen)

\* Token i drives before token j: its bound is larger, or equal and it came first.
Before(ts, i, j) ==
    \/ max_contrib(ts[i]) > max_contrib(ts[j])
    \/ max_contrib(ts[i]) = max_contrib(ts[j]) /\ i < j

NonEmpty(ts) == {i \in DOMAIN ts : DocFreq(ts[i]) > 0}

\* Where token i comes in that order, from 0.
Rank(ts, i) == Cardinality({j \in NonEmpty(ts) : Before(ts, j, i)})

\* Tokens drive in descending order of their bound.
Ordered(ts) ==
    [k \in 1 .. Cardinality(NonEmpty(ts)) |-> ts[CHOOSE i \in NonEmpty(ts) : Rank(ts, i) = k - 1]]

\* seek_block: the first block from b on whose last doc reaches the target.
seek_block(t, target, b) ==
    LET ok == {c \in b .. num_blocks(t) - 1 : Max(block_doc_ids(t, c)) >= target}
    IN  IF ok = {} THEN num_blocks(t) ELSE Min(ok)

-----------------------------------------------------------------------------
(* The collector.                                                          *)

\* scored_pair_ordering: better score first, then the smaller doc id.
Better(a, b) == a[1] > b[1] \/ (a[1] = b[1] /\ a[2] < b[2])

InsertSorted(q, x) ==
    LET n == Len(SelectSeq(q, LAMBDA y : Better(y, x)))
    IN  SubSeq(q, 1, n) \o <<x>> \o SubSeq(q, n + 1, Len(q))

\* A collector that lets an equal score replace the worst one.
push_keeps_last(q, x) ==
    IF req.limit = 0 THEN q
    ELSE IF Len(q) < req.limit THEN InsertSorted(q, x)
    ELSE IF x[1] >= q[req.limit][1]
         THEN SubSeq(q, 1, req.limit - 1) \o <<x>> ELSE q

\* TopN::push.
push(q, x) ==
    IF req.limit = 0 THEN q
    ELSE IF Len(q) < req.limit THEN InsertSorted(q, x)
    ELSE IF Better(x, q[req.limit])
         THEN SubSeq(InsertSorted(q, x), 1, req.limit) ELSE q

\* TopN::worst_when_full arms MinCompetitiveScore: the score to beat.
KthBest(q) == IF req.limit > 0 /\ Len(q) = req.limit THEN q[req.limit][1] ELSE NegInf

\* MinCompetitiveScore::admits: a tie with the K-th best loses on the doc id.
admits(kth, upper) == kth = NegInf \/ upper > kth

\* finalize_topk: every scored document is offered, in ascending doc id.
finalize_topk(scores) ==
    FoldLeft(LAMBDA q, d : push(q, <<scores[d], d>>), <<>>, Ascending(DOMAIN scores))

-----------------------------------------------------------------------------
(* A request.                                                              *)

Init ==
    /\ req \in Request
    /\ phase = "start"
    /\ pending = <<>> /\ fields = <<>> /\ block = 0
    /\ allow = TRUE /\ threshold = NegInf /\ at_bound = 0
    /\ scored = NoScores /\ combined = NoScores /\ topn = <<>> /\ total = 0

\* match_hits_internal of every field: the documents that have some token.
Candidates ==
    UNION {UNION {ToSet(req.fields[i][j].docs) : j \in DOMAIN req.fields[i]} :
              i \in DOMAIN req.fields}

multi == Len(req.fields) > 1

\* single_term_match_topk: one field, one token, not repeated.
Streams == ~multi /\ Len(req.fields[1]) = 1 /\ req.fields[1][1].boost = 1

\* topk_scored_documents_inner hands a lone term to the streamed walk ...
StartStream ==
    /\ phase = "start" /\ Streams
    /\ total' = DocFreq(req.fields[1][1])
    /\ phase' = IF total' = 0 \/ req.limit = 0 THEN "done" ELSE "stream"
    /\ block' = 1
    /\ UNCHANGED <<req, pending, fields, allow, threshold, at_bound, scored, combined, topn>>

\* ... which scores the next posting unless its best score cannot compete.
StreamPosting ==
    LET t == req.fields[1][1]
        d == t.docs[block]
    IN  /\ phase = "stream" /\ block <= DocFreq(t)
        /\ topn' = IF admits(KthBest(topn), score(t, t.freq[d], MinDocLen)) /\ score_doc(t, d) > 0
                   THEN push(topn, <<score_doc(t, d), d>>)
                   ELSE topn
        /\ block' = block + 1
        /\ UNCHANGED <<req, phase, pending, fields, allow, threshold, at_bound,
                       scored, combined, total>>

StreamEnd ==
    /\ phase = "stream" /\ block > DocFreq(req.fields[1][1])
    /\ phase' = "done"
    /\ UNCHANGED <<req, pending, fields, block, allow, threshold, at_bound,
                   scored, combined, topn, total>>

\* topk_scored_documents_reference: candidates, then one MaxScore run per
\* field.  It also takes over when the streamed walk declines, at the start or
\* on a read error in the middle, and forgets what that walk collected.
StartReference ==
    /\ phase \in {"start", "stream"}
    /\ total' = Cardinality(Candidates)
    /\ topn' = <<>>
    /\ IF req.limit = 0 \/ Candidates = {}
       THEN phase' = "done" /\ UNCHANGED <<fields, pending>>
       ELSE /\ phase' = "token"
            /\ fields' = Tail(req.fields)
            /\ pending' = Ordered(req.fields[1])
    /\ UNCHANGED <<req, block, allow, threshold, at_bound, scored, combined>>

-----------------------------------------------------------------------------
(* MaxScoreExecutor::run.                                                  *)

Current == Head(pending)

\* The live gate is only armed for a lone token whose run is the answer.
Live == ~multi /\ Cardinality(NonEmpty(req.fields[1])) = 1

\* SingleTokenGate::admits on the bound of the token.
GateOpen == at_bound < req.limit

\* allow_new_docs of a token.
AllowNewDocs(t) == max_contrib(t) >= threshold

StartToken ==
    /\ phase = "token" /\ pending # <<>>
    /\ allow' = AllowNewDocs(Current)
    /\ block' = 0
    /\ at_bound' = 0
    /\ phase' = "block"
    /\ UNCHANGED <<req, pending, fields, threshold, scored, combined, topn, total>>

AllowNow == IF Live THEN GateOpen ELSE allow

\* No scored document lies in the doc id range of the block.
RangeUnscored(b) ==
    \A d \in DOMAIN scored : d < Min(block_doc_ids(Current, b)) \/ d > Max(block_doc_ids(Current, b))

\* A skip decision that forgets the documents earlier tokens scored.
skippable_by_bound ==
    /\ ~allow
    /\ block_max_contrib(Current, block) <= threshold

skippable ==
    /\ ~allow
    /\ block_max_contrib(Current, block) <= threshold
    /\ RangeUnscored(block)

\* A lone token stops as soon as req.limit documents have reached its bound.
StopEarly ==
    /\ phase = "block" /\ block < num_blocks(Current)
    /\ Live /\ ~GateOpen
    /\ block' = num_blocks(Current)
    /\ UNCHANGED <<req, phase, pending, fields, allow, threshold, at_bound, scored,
                   combined, topn, total>>

NextScored == {d \in DOMAIN scored : d > Max(block_doc_ids(Current, block))}

\* The jump without the lower bound that makes it progress.
target_block_stuck(next) == seek_block(Current, next - 1, block)

\* Where a skipped block leads: the block of the next scored document.
target_block(next) ==
    Min({num_blocks(Current),
         Max({seek_block(Current, next, block), block + 1})})

SkipBlock ==
    /\ phase = "block" /\ block < num_blocks(Current)
    /\ ~Live /\ skippable
    /\ block' = IF NextScored = {} THEN num_blocks(Current) ELSE target_block(Min(NextScored))
    /\ UNCHANGED <<req, phase, pending, fields, allow, threshold, at_bound, scored,
                   combined, topn, total>>

ScoreBlock ==
    LET take == {d \in block_doc_ids(Current, block) :
                    (d \in DOMAIN scored \/ AllowNow) /\ score_doc(Current, d) > 0}
        old(d) == IF d \in DOMAIN scored THEN scored[d] ELSE 0
    IN  /\ phase = "block" /\ block < num_blocks(Current)
        /\ IF Live THEN GateOpen ELSE ~skippable
        /\ scored' = [d \in DOMAIN scored \cup take |->
                        old(d) + IF d \in take THEN score_doc(Current, d) ELSE 0]
        /\ at_bound' = at_bound + IF Live
                         THEN Cardinality({d \in take : scored'[d] >= max_contrib(Current)})
                         ELSE 0
        /\ block' = block + 1
        /\ UNCHANGED <<req, phase, pending, fields, allow, threshold, combined, topn, total>>

\* The K-th best of the scores so far.
KthScore(s) ==
    CHOOSE x \in {s[d] : d \in DOMAIN s} :
        /\ Cardinality({d \in DOMAIN s : s[d] > x}) < req.limit
        /\ Cardinality({d \in DOMAIN s : s[d] >= x}) >= req.limit

\* The end of a token refreshes the threshold.
EndToken ==
    /\ phase = "block" /\ block >= num_blocks(Current)
    /\ threshold' = IF Cardinality(DOMAIN scored) >= req.limit THEN KthScore(scored) ELSE threshold
    /\ pending' = Tail(pending)
    /\ phase' = "token"
    /\ UNCHANGED <<req, fields, block, allow, at_bound, scored, combined, topn, total>>

\* maxscore_multi_match keeps the best score of the fields.
Combine ==
    [d \in DOMAIN combined \cup DOMAIN scored |->
        Max({f[d] : f \in {g \in {combined, scored} : d \in DOMAIN g}})]

\* The end of a field: the next field starts afresh, or the window is cut.
EndField ==
    /\ phase = "token" /\ pending = <<>>
    /\ combined' = Combine
    /\ scored' = NoScores
    /\ threshold' = NegInf
    /\ IF fields = <<>>
       THEN /\ phase' = "done"
            /\ topn' = finalize_topk(combined')
            /\ UNCHANGED <<pending, fields>>
       ELSE /\ pending' = Ordered(Head(fields))
            /\ fields' = Tail(fields)
            /\ UNCHANGED <<phase, topn>>
    /\ UNCHANGED <<req, block, allow, at_bound, total>>

Next ==
    \/ StartStream \/ StreamPosting \/ StreamEnd \/ StartReference
    \/ StartToken \/ StopEarly \/ SkipBlock \/ ScoreBlock \/ EndToken \/ EndField

\* The search runs to its end; whether a read fails is not its choice.
Spec ==
    /\ Init /\ [][Next]_vars
    /\ WF_vars(Next)

-----------------------------------------------------------------------------
(* Properties.                                                             *)

Contribution(t, d) == IF t.freq[d] > 0 THEN score_doc(t, d) ELSE 0

\* The score of d in a field: the sum over its tokens.
FieldScore(ts, d) ==
    LET sum[n \in 0 .. Len(ts)] == IF n = 0 THEN 0 ELSE sum[n - 1] + Contribution(ts[n], d)
    IN  sum[Len(ts)]

\* What an exhaustive evaluation scores: no block skipped, no walk stopped.
ExhaustiveScores ==
    LET best(d) == Max({FieldScore(req.fields[i], d) : i \in DOMAIN req.fields})
    IN  [d \in {e \in Doc : best(e) > 0} |-> best(d)]

\* Whichever path ran and whatever it skipped, the hits are the best documents
\* of the exhaustive evaluation, with their exact scores, in order, and
\* hits.total counts every match.
TopKExact ==
    phase = "done" =>
        LET s == ExhaustiveScores
        IN  /\ Len(topn) = Min({req.limit, Cardinality(DOMAIN s)})
            /\ \A i \in DOMAIN topn :
                  /\ topn[i][1] = s[topn[i][2]]
                  /\ Cardinality({d \in DOMAIN s : Better(<<s[d], d>>, topn[i])}) = i - 1
            /\ total = Cardinality(Candidates)

\* A document that entered the scores is never missed by a later token, in
\* whatever blocks that token skips: between tokens its score is the sum over
\* all the tokens already walked.
ScoresComplete ==
    phase = "token" =>
        \A d \in DOMAIN scored :
            scored[d] + FieldScore(pending, d)
                = FieldScore(req.fields[Len(req.fields) - Len(fields)], d)

\* Once the threshold exceeds a token's bound, only documents already scored by
\* an earlier token can still make it (the comment on the MaxScore loop in
\* search.rs): none of the documents shut out can beat the threshold.
GateSound ==
    phase = "block" /\ ~Live /\ ~allow =>
        \A d \in Doc \ DOMAIN scored : FieldScore(pending, d) <= threshold

\* The leapfrogging walk ends.
SearchEnds == <>(phase = "done")
=============================================================================
