------------------------------- MODULE Search -------------------------------
(***************************************************************************)
(* Searches while documents are written: the scroll table and the pages    *)
(* served through it, paging through the buckets of a composite            *)
(* aggregation, and the ways a scored search reads the index more than     *)
(* once.  A step is what happens under one lock.                           *)
(*                                                                         *)
(* The index is a sequence of documents by internal id, some of them live. *)
(* An update keeps the id of its document and changes its body; a document *)
(* that was deleted and is written again gets a new id (IdMaps).           *)
(***************************************************************************)
EXTENDS Response
LOCAL INSTANCE Integers
LOCAL INSTANCE Sequences
LOCAL INSTANCE FiniteSets
LOCAL INSTANCE SequencesExt
LOCAL INSTANCE Functions
LOCAL INSTANCE TLC

CONSTANTS
    Uid,            \* document ids
    Stored,         \* the documents at the start, a sequence of [uid, key]
    Keys,           \* the values of the field that is aggregated
    Score(_),       \* the score of a document with such a value, 0 if it does not match
    Client,
    PageSize,
    KeepAlive,      \* the life of a scroll context, in ticks
    MaxWrites, MaxTime, MaxIds, MaxScrolls      \* bounds

VARIABLES
    docs, live,     \* the documents of the index and the ids of those that are live
    boundary,       \* dense.doc_count: the ids up to here are in the dense maps
    deleted_since_dense,
    past,           \* history: what the index held after every write
    now,
    scrolls,        \* ScrollTable: contexts by scroll id
    issued,         \* how many scroll ids were made
    known,          \* the scroll ids some client was told
    pc, work,       \* where a request is, and its local values
    pages,          \* history: the pages served to the scroll a client opened
    since,          \* history: the documents live when that scroll was opened, the ones
                    \* deleted since, and whether the index had a hole since
    steady,         \* history: the keys present ever since a client's first bucket page
    buckets,        \* the pages of bucket keys a client was given
    answer          \* the scored hits a client was given

vars == <<docs, live, boundary, deleted_since_dense, past, now, scrolls, issued, known, pc, work,
          pages, since, steady, buckets, answer>>
storeVars == <<docs, live, boundary, deleted_since_dense, past>>
scrollVars == <<scrolls, issued, known>>
history == <<pages, since, steady, buckets, answer>>

NoWork == [kind |-> "none"]
NoScrolls == [i \in {} |-> NoWork]

Init ==
    /\ docs = Stored /\ live = DOMAIN Stored /\ boundary = 0 /\ deleted_since_dense = {}
    /\ past = <<Range(Stored)>> /\ now = 0
    /\ scrolls = NoScrolls /\ issued = 0 /\ known = {}
    /\ pc = [c \in Client |-> "idle"] /\ work = [c \in Client |-> NoWork]
    /\ pages = [c \in Client |-> <<>>]
    /\ since = [c \in Client |-> [opened |-> {}, deleted |-> {}, holed |-> FALSE]]
    /\ steady = [c \in Client |-> {}] /\ buckets = [c \in Client |-> <<>>] /\ answer = [c \in Client |-> {}]

KeysOf(ids) == {docs[i].key : i \in ids}

-----------------------------------------------------------------------------
(* Writes.                                                                 *)

\* live_doc_ids: every id that was given out, without the tombstones.  An id
\* deleted before it was densified has none, and densify drops the others:
\* these ids are holes.
live_doc_ids == DOMAIN docs \ deleted_since_dense

\* What a change of the store means for the requests under way.
Observe ==
    /\ steady' = [c \in Client |-> steady[c] \cap {docs'[i].key : i \in live'}]
    /\ since' = [c \in Client |-> [since[c] EXCEPT !.deleted = @ \cup (live \ live'),
                                                  !.holed = @ \/ live_doc_ids' # live']]
    /\ UNCHANGED <<now, scrolls, issued, known, pc, work, pages, buckets, answer>>

Record == Len(past) <= MaxWrites /\ past' = Append(past, {docs'[i] : i \in live'})

IdsOf(u) == {i \in live : docs[i].uid = u}

\* An update stays where it is.
upsert_document_deferred(u, k) ==
    IF IdsOf(u) = {}
    THEN docs' = Append(docs, [uid |-> u, key |-> k]) /\ live' = live \cup {Len(docs) + 1}
    ELSE docs' = [docs EXCEPT ![CHOOSE i \in IdsOf(u) : TRUE].key = k] /\ live' = live

Write(u, k) ==
    /\ upsert_document_deferred(u, k)
    /\ Record
    /\ UNCHANGED <<boundary, deleted_since_dense>>
    /\ Observe

\* Only an id in the dense maps needs a tombstone.
Delete(u) ==
    /\ IdsOf(u) # {}
    /\ live' = live \ IdsOf(u)
    /\ deleted_since_dense' = deleted_since_dense \cup {i \in IdsOf(u) : i <= boundary}
    /\ UNCHANGED <<docs, boundary>>
    /\ Record
    /\ Observe

densify ==
    /\ deleted_since_dense # {} \/ \E i \in live : i > boundary
    /\ boundary' = Len(docs)
    /\ deleted_since_dense' = {}
    /\ UNCHANGED <<docs, live, past>>
    /\ Observe

\* Only the age of the contexts is ever looked at.
Tick == now < MaxTime /\ DOMAIN scrolls # {} /\ now' = now + 1 /\ UNCHANGED <<storeVars, scrollVars, pc, work, history>>

-----------------------------------------------------------------------------
(* The scroll table.                                                       *)

gc_locked(table) == Restrict(table, {i \in DOMAIN table : table[i].expires_at > now})

\* Mutant: the context stays in the table while it is used.
take_leaves(id) == scrolls' = gc_locked(scrolls)

take(id) == scrolls' = Restrict(gc_locked(scrolls), DOMAIN gc_locked(scrolls) \ {id})

insert(context) ==
    /\ issued < MaxIds
    /\ issued' = issued + 1
    /\ scrolls' = [i \in DOMAIN gc_locked(scrolls) \cup {issued + 1} |-> IF i = issued + 1 THEN context ELSE scrolls[i]]

-----------------------------------------------------------------------------
(* A scroll over all documents.                                            *)

Opening == {c \in Client : pages[c] # <<>> \/ (pc[c] = "page" /\ work[c].first)}

OpenScroll(c) ==
    /\ pc[c] = "idle" /\ Cardinality(Opening) < MaxScrolls
    /\ pc' = [pc EXCEPT ![c] = "page"]
    /\ work' = [work EXCEPT ![c] = [kind |-> "scroll", session |-> c, cursor |-> 0, first |-> TRUE]]
    /\ UNCHANGED <<storeVars, now, scrollVars, history>>

\* Any scroll id may be sent by any client, also twice.
Scroll(c) ==
    \E id \in known :
        LET table == gc_locked(scrolls)
        IN  /\ pc[c] \in {"idle", "ready"}
            /\ take(id)
            /\ IF id \notin DOMAIN table
               THEN pc' = [pc EXCEPT ![c] = "missing"] /\ work' = [work EXCEPT ![c] = NoWork]
               ELSE /\ pc' = [pc EXCEPT ![c] = "page"]
                    /\ work' = [work EXCEPT ![c] = [kind |-> "scroll", session |-> table[id].session,
                                                    cursor |-> table[id].cursor, first |-> FALSE]]
            /\ UNCHANGED <<storeVars, now, issued, known, history>>

\* The window is cut before the holes are dropped.
documents_paginated(from) ==
    {i \in live : Cardinality({j \in live_doc_ids : j < i}) \in from .. from + PageSize - 1}

ServePage(c) ==
    LET s    == work[c].session
        page == documents_paginated(work[c].cursor)
    IN  /\ pc[c] = "page"
        /\ pc' = [pc EXCEPT ![c] = "keep"]
        /\ work' = [work EXCEPT ![c] = [kind |-> "scroll", session |-> s, cursor |-> work[c].cursor, first |-> work[c].first, hits |-> page]]
        /\ pages' = [pages EXCEPT ![s] = Append(@, [hits |-> page, last |-> work[c].cursor >= Cardinality(live_doc_ids)])]
        /\ since' = IF work[c].first THEN [since EXCEPT ![s] = [opened |-> live, deleted |-> {}, holed |-> live_doc_ids # live]]
                    ELSE since
        /\ UNCHANGED <<storeVars, now, scrollVars, steady, buckets, answer>>

\* Mutant: a continued scroll keeps its cursor.
next_cursor_stuck(w) == IF w.first THEN PageSize ELSE w.cursor

\* The first page moves the cursor by what was asked, a later one by what was
\* returned.
next_cursor(w) == IF w.first THEN PageSize ELSE w.cursor + Cardinality(w.hits)

\* A later page without hits ends the scroll.
KeepContext(c) ==
    LET w    == work[c]
        kept == w.first \/ w.hits # {}
    IN  /\ pc[c] = "keep"
        /\ pc' = [pc EXCEPT ![c] = "reply"]
        /\ IF kept THEN insert([session |-> w.session, cursor |-> next_cursor(w), expires_at |-> now + KeepAlive])
           ELSE UNCHANGED <<scrolls, issued>>
        /\ work' = [work EXCEPT ![c] = [kind |-> "scroll", session |-> w.session, hits |-> w.hits,
                                        id |-> IF kept THEN Some(issued + 1) ELSE None]]
        /\ UNCHANGED <<storeVars, now, known, history>>

\* The client goes on until a page is empty.
Reply(c) ==
    /\ pc[c] = "reply" /\ work[c].kind = "scroll"
    /\ known' = known \cup Range(work[c].id)
    /\ pc' = [pc EXCEPT ![c] = IF work[c].hits = {} THEN "done" ELSE "ready"]
    /\ work' = [work EXCEPT ![c] = NoWork]
    /\ UNCHANGED <<storeVars, now, scrolls, issued, history>>

\* The answer is lost: the client knows the ids it knew before.
LoseReply(c) ==
    /\ pc[c] = "reply" /\ work[c].kind = "scroll"
    /\ pc' = [pc EXCEPT ![c] = IF known = {} THEN "missing" ELSE "ready"]
    /\ work' = [work EXCEPT ![c] = NoWork]
    /\ UNCHANGED <<storeVars, now, scrollVars, history>>

-----------------------------------------------------------------------------
(* Paging through the buckets of a composite aggregation.                  *)

\* One page is computed from the documents read under one lock, and has a
\* cursor when there are more; the client asks again with it.
ComposePage(c) ==
    LET key(k) == <<TermsKey(Str(k))>>
        behind == {k \in KeysOf(live) : work[c].kind = "buckets" => AfterCursor(key(k), key(work[c].after))}
        page   == {k \in behind : Cardinality({x \in behind : TextLess(x, k)}) < PageSize}
    IN  /\ pc[c] = "idle" \/ (pc[c] = "ready" /\ work[c].kind = "buckets")
        /\ buckets' = [buckets EXCEPT ![c] = Append(@, page)]
        /\ steady' = IF pc[c] = "idle" THEN [steady EXCEPT ![c] = KeysOf(live)] ELSE steady
        /\ IF Cardinality(behind) > PageSize
           THEN /\ pc' = [pc EXCEPT ![c] = "ready"]
                /\ work' = [work EXCEPT ![c] = [kind |-> "buckets", after |-> CHOOSE k \in page : \A x \in page : ~TextLess(k, x)]]
           ELSE pc' = [pc EXCEPT ![c] = "done"] /\ work' = [work EXCEPT ![c] = [kind |-> "buckets"]]
        /\ UNCHANGED <<storeVars, now, scrollVars, pages, since, answer>>

-----------------------------------------------------------------------------
(* Scored searches.  A document that is gone when it is scored, or whose   *)
(* terms are, scores 1.0.  A hit has the body it was read with.            *)

Default == 1
Rated(k) == IF Score(k) > 0 THEN Score(k) ELSE Default

\* The ids of the documents that match, ascending.
Candidates == SelectSeq([i \in DOMAIN docs |-> i], LAMBDA i : i \in live /\ Score(docs[i].key) > 0)
score_for(i) == IF i \in live THEN Rated(docs[i].key) ELSE Default

Scored(ids) == [n \in DOMAIN ids |-> [id |-> ids[n], score |-> score_for(ids[n])]]
Better(a, b) == a.score > b.score \/ (a.score = b.score /\ a.id < b.id)
Winners(scored) == Take(SortSeq(scored, Better), PageSize)

\* documents_by_internal_ids drops the ids that are gone; the hits are the
\* winners' scores zipped with what is left.
documents_by_internal_ids(ids) == SelectSeq(ids, LAMBDA i : i \in live)
ZipScores(winners) ==
    LET found == documents_by_internal_ids([n \in DOMAIN winners |-> winners[n].id])
    IN  [n \in DOMAIN found |-> [doc |-> docs[found[n]], score |-> winners[n].score,
                                 displaced |-> \E m \in 1 .. n : winners[m].id \notin live]]

Read(c, kind, next, values) ==
    /\ pc' = [pc EXCEPT ![c] = next]
    /\ work' = [work EXCEPT ![c] = [kind |-> kind, values |-> values,
                                    began |-> IF work[c].kind = kind THEN work[c].began ELSE Len(past)]]
    /\ UNCHANGED <<storeVars, now, scrollVars, history>>

\* The scores the document of a hit has had since the search began.
ScoresSince(began, u) ==
    UNION {LET versions == {d \in past[w] : d.uid = u}
           IN  IF versions = {} THEN {Default} ELSE {Rated(d.key) : d \in versions} : w \in began .. Len(past)}

\* What is remembered of the hits, for the properties.
Judged(kind, began, hits) ==
    {[path |-> kind, calm |-> began = Len(past), displaced |-> h.displaced,
      exact |-> h.score = Rated(h.doc.key), own |-> h.score \in ScoresSince(began, h.doc.uid)] : h \in Range(hits)}

Respond(c, kind, began, hits) ==
    /\ pc' = [pc EXCEPT ![c] = "done"]
    /\ work' = [work EXCEPT ![c] = NoWork]
    /\ answer' = [answer EXCEPT ![c] = Judged(kind, began, hits)]
    /\ UNCHANGED <<storeVars, now, scrollVars, pages, since, steady, buckets>>

\* A match is ranked and read under one lock.
SearchMatch(c) == pc[c] = "idle" /\ Respond(c, "match", Len(past), ZipScores(Winners(Scored(Candidates))))

\* A fused conjunction is scored under one lock and read under another.
ScoreFused(c) == pc[c] = "idle" /\ Read(c, "fused", "hydrate", Winners(Scored(Candidates)))
HydrateFused(c) == pc[c] = "hydrate" /\ Respond(c, "fused", work[c].began, ZipScores(work[c].values))

\* The other exact bools find their candidates under one lock, and score and
\* read them under another.
FindCandidates(c) == pc[c] = "idle" /\ Read(c, "bool", "rank", Candidates)
RankCandidates(c) == pc[c] = "rank" /\ Respond(c, "bool", work[c].began, ZipScores(Winners(Scored(work[c].values))))


documents_with_internal_ids(ids) ==
    LET found == documents_by_internal_ids(ids) IN [n \in DOMAIN found |-> [id |-> found[n], doc |-> docs[found[n]]]]

\* The general path: the ids of the candidates, their documents each with its
\* id, the scores ...
FindGeneral(c) == pc[c] = "idle" /\ Read(c, "general", "documents", Candidates)
ReadGeneral(c) == pc[c] = "documents" /\ Read(c, "general", "score", documents_with_internal_ids(work[c].values))

\* ... or, without candidates, the documents that match, whose ids only give
\* their order ...
ScanGeneral(c) == pc[c] = "idle" /\ Read(c, "scan", "score", documents_with_internal_ids(Candidates))

\* ... which are looked up by the public id when the scores are computed.
internal_doc_id(kind, p) == IF kind = "general" THEN {p.id} ELSE IdsOf(p.doc.uid)

ScoreGeneral(c) ==
    LET rated(p) == LET ids == internal_doc_id(work[c].kind, p)
                    IN  IF ids = {} THEN Default ELSE score_for(CHOOSE i \in ids : TRUE)
        found == work[c].values
        hits  == [n \in DOMAIN found |-> [doc |-> found[n].doc, id |-> found[n].id, score |-> rated(found[n]), displaced |-> FALSE]]
    IN  pc[c] = "score" /\ Respond(c, work[c].kind, work[c].began, Winners(hits))

-----------------------------------------------------------------------------
Request(c) ==
    \/ OpenScroll(c) \/ Scroll(c) \/ ServePage(c) \/ KeepContext(c) \/ Reply(c)
    \/ ComposePage(c)
    \/ SearchMatch(c) \/ ScoreFused(c) \/ HydrateFused(c) \/ FindCandidates(c) \/ RankCandidates(c)
    \/ FindGeneral(c) \/ ReadGeneral(c) \/ ScanGeneral(c) \/ ScoreGeneral(c)

Next ==
    \/ \E u \in Uid : Delete(u) \/ \E k \in Keys : Write(u, k)
    \/ densify \/ Tick
    \/ \E c \in Client : Request(c) \/ LoseReply(c)

\* A request that was started runs to its end, and a client goes on.
Spec == Init /\ [][Next]_vars /\ \A c \in Client : WF_vars(Request(c))

-----------------------------------------------------------------------------
(* Properties.                                                             *)

Served(s) == UNION {pages[s][p].hits : p \in DOMAIN pages[s]}

\* scroll.rs: whoever sends a scroll id, however often, whatever is written
\* meanwhile and whichever answer is lost, a document is served on two pages
\* only if it was deleted and written again, or if the index had a hole: a page
\* with one moves the cursor by less than its window.  And when the cursor has
\* passed the last id, no more of the documents that were there at the opening
\* and were not deleted have been missed than documents were deleted.
ScrollExact ==
    \A s \in Client :
        /\ \A p, q \in DOMAIN pages[s] : \A i \in pages[s][p].hits, j \in pages[s][q].hits :
               p # q /\ docs[i].uid = docs[j].uid => since[s].holed \/ {i, j} \cap since[s].deleted # {}
        /\ \A p \in DOMAIN pages[s] :
               pages[s][p].last =>
                   Cardinality(since[s].opened \ (since[s].deleted \cup Served(s))) <= Cardinality(since[s].deleted)

\* state.rs, live_doc_ids: holes are skipped.  Then no page could repeat a
\* document that was there all along.
HolesSkipped ==
    \A s \in Client : \A p, q \in DOMAIN pages[s] :
        p # q => pages[s][p].hits \cap pages[s][q].hits = {}

\* compute_composite_aggregation: the keys a client pages through strictly
\* increase, and one that had a live document all along is among them when the
\* client reaches the end, whatever was written between the pages.
CompositeComplete ==
    \A c \in Client :
        /\ \A p, q \in DOMAIN buckets[c] : p < q => \A x \in buckets[c][p], y \in buckets[c][q] : TextLess(x, y)
        /\ pc[c] = "done" /\ work[c].kind = "buckets" => steady[c] \subseteq UNION Range(buckets[c])


\* A hit carries the score of the body returned with it.
ScoresNeedNoGuard == \A c \in Client : \A hit \in answer[c] : hit.exact

\* Every client that scrolls or pages reaches an end: pages run out, or the
\* context does.
RequestsEnd == <>(\A c \in Client : pc[c] \in {"done", "missing"})
=============================================================================
