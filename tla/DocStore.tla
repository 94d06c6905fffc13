------------------------------ MODULE DocStore ------------------------------
(***************************************************************************)
(* What one Surch index promises its callers: a map from public document   *)
(* ids to sources.  Everything else the index keeps (doc ids, overlays,    *)
(* dense snapshots, postings) must be invisible through this map.          *)
(***************************************************************************)
CONSTANTS
    Uid,        \* public document ids
    Source,     \* document bodies
    None        \* "no document"

VARIABLE docs   \* docs[u]: the source stored under u, or None

TypeOK == docs \in [Uid -> Source \cup {None}]

Init == docs = [u \in Uid |-> None]

\* Index or update: the last write to u wins.
Put(u, s) == docs' = [docs EXCEPT ![u] = s]

\* A create succeeds only on an absent id.
Create(u, s) == docs[u] = None /\ docs' = [docs EXCEPT ![u] = s]

Delete(u) == docs' = [docs EXCEPT ![u] = None]

Next == \E u \in Uid :
            \/ \E s \in Source : Put(u, s) \/ Create(u, s)
            \/ Delete(u)

Spec == Init /\ [][Next]_docs
=============================================================================
