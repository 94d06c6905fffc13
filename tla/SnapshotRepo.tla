---------------------------- MODULE SnapshotRepo ----------------------------
(***************************************************************************)
(* Concurrent snapshot requests on one filesystem repository (surch-api,   *)
(* snapshot_es/service.rs and repository.rs): a root manifest replaced by  *)
(* compare-and-set on its ETag, and the objects a snapshot consists of,    *)
(* written and deleted one by one without any lock.                        *)
(*                                                                         *)
(* One index is snapshotted.  An object key is <<"payload", index uuid,    *)
(* snapshot uuid>> or <<"summary", snapshot uuid>>, the latter for the     *)
(* objects whose key holds no index uuid.  The ETag, a hash of length and  *)
(* modification time, is the number of the manifest's version.             *)
(***************************************************************************)
EXTENDS Integers, FiniteSets

CONSTANTS
    Request,        \* concurrent requests
    Failing,        \* those that may fail or crash on their way
    Name,           \* snapshot names
    Absent,
    MaxCreates      \* bound on the creations requested

ASSUME RepoConstants == MaxCreates \in Nat /\ Absent \notin Nat /\ Failing \subseteq Request

VARIABLES
    \* in the repository
    manifest,       \* [snapshots: set of [name, uuid], index_uuid]
    etag,           \* Absent when there is no manifest
    objects,        \* keys of the objects present
    \* per request
    pc, op, name,
    seen,           \* the manifest it read
    seen_etag,      \* the ETag it read next
    entry,          \* the snapshot it creates or deletes
    \* history
    creates,        \* creations requested so far
    next_uuid,
    created,        \* snapshots whose creation was written to the manifest
    condemned,      \* snapshots whose objects a deletion went after
    deleted,        \* snapshots whose deletion was
    torn            \* some request read the manifest and the ETag of another

repo == <<manifest, etag, objects>>
request == <<op, name, seen, seen_etag, entry>>
history == <<creates, next_uuid, created, condemned, deleted, torn>>
vars == <<repo, pc, request, history>>

Uuid == 1 .. (2 * MaxCreates)
Entry == [name : Name, uuid : Uuid]
Manifest == [snapshots : SUBSET Entry, index_uuid : Uuid \cup {Absent}]
EmptyManifest == [snapshots |-> {}, index_uuid |-> Absent]

TypeOK ==
    /\ manifest \in Manifest
    /\ etag \in Nat \cup {Absent}
    /\ objects \subseteq ({"payload"} \X Uuid \X Uuid) \cup ({"summary"} \X Uuid)
    /\ pc \in [Request -> {"idle", "etag", "plan", "payload", "summary", "cas"}]
    /\ op \in [Request -> {"create", "delete"}]
    /\ name \in [Request -> Name \cup {Absent}]
    /\ \A r \in Request : seen[r] \in Manifest /\ seen_etag[r] \in Nat \cup {Absent}
    /\ \A r \in Request : entry[r] \in Entry \cup {Absent}

Init ==
    /\ manifest = EmptyManifest /\ etag = Absent /\ objects = {}
    /\ pc = [r \in Request |-> "idle"]
    /\ op = [r \in Request |-> "create"]
    /\ name = [r \in Request |-> Absent]
    /\ seen = [r \in Request |-> EmptyManifest]
    /\ seen_etag = [r \in Request |-> Absent]
    /\ entry = [r \in Request |-> Absent]
    /\ creates = 0 /\ next_uuid = 1
    /\ created = {} /\ condemned = {} /\ deleted = {} /\ torn = FALSE

\* A request that ends leaves nothing behind but the repository.
Reset(r) ==
    /\ pc' = [pc EXCEPT ![r] = "idle"]
    /\ op' = [op EXCEPT ![r] = "create"]
    /\ name' = [name EXCEPT ![r] = Absent]
    /\ seen' = [seen EXCEPT ![r] = EmptyManifest]
    /\ seen_etag' = [seen_etag EXCEPT ![r] = Absent]
    /\ entry' = [entry EXCEPT ![r] = Absent]

Goto(r, label) == pc' = [pc EXCEPT ![r] = label]

-----------------------------------------------------------------------------
(* load_or_init_manifest: two reads.                                       *)

\* Without a manifest the ETag is known to be Absent.
GetManifest(r, o, n) ==
    /\ pc[r] = "idle"
    /\ op' = [op EXCEPT ![r] = o]
    /\ name' = [name EXCEPT ![r] = n]
    /\ seen' = [seen EXCEPT ![r] = manifest]
    /\ Goto(r, IF etag = Absent THEN "plan" ELSE "etag")
    /\ creates' = IF o = "create" THEN creates + 1 ELSE creates
    /\ creates' <= MaxCreates
    /\ UNCHANGED <<repo, seen_etag, entry, next_uuid, created, condemned, deleted, torn>>

ReadEtag(r) ==
    /\ pc[r] = "etag"
    /\ seen_etag' = [seen_etag EXCEPT ![r] = etag]
    /\ torn' = (torn \/ manifest # seen[r])
    /\ Goto(r, "plan")
    /\ UNCHANGED <<repo, op, name, seen, entry, creates, next_uuid, created, condemned, deleted>>

-----------------------------------------------------------------------------
(* create_snapshot and delete_snapshot, up to the first object.            *)

\* Mutant: entries compared as a whole.
NamedExactly(r) == {e \in seen[r].snapshots : e = entry[r]}

Named(r) == {e \in seen[r].snapshots : e.name = name[r]}

\* A name that is taken is an error.  A first snapshot also gives the index
\* its uuid, in the request's copy of the manifest.
PlanCreate(r) ==
    /\ pc[r] = "plan" /\ op[r] = "create"
    /\ Named(r) = {}
    /\ LET fresh == IF seen[r].index_uuid = Absent THEN 1 ELSE 0
       IN  /\ next_uuid' = next_uuid + 1 + fresh
           /\ entry' = [entry EXCEPT ![r] = [name |-> name[r], uuid |-> next_uuid]]
           /\ seen' = IF fresh = 1
                      THEN [seen EXCEPT ![r].index_uuid = next_uuid + 1]
                      ELSE seen
    /\ Goto(r, "payload")
    /\ UNCHANGED <<repo, op, name, seen_etag, creates, created, condemned, deleted, torn>>

PlanDelete(r) ==
    /\ pc[r] = "plan" /\ op[r] = "delete"
    /\ \E e \in Named(r) : entry' = [entry EXCEPT ![r] = e]
    /\ condemned' = condemned \cup {entry'[r].uuid}
    /\ Goto(r, "payload")
    /\ UNCHANGED <<repo, op, name, seen, seen_etag, creates, next_uuid, created,
                   deleted, torn>>

PlanRefused(r) ==
    /\ pc[r] = "plan"
    /\ (op[r] = "create") = (Named(r) # {})
    /\ Reset(r)
    /\ UNCHANGED <<repo, history>>

-----------------------------------------------------------------------------
(* The objects, then the manifest.                                         *)

\* Mutant: the key built from the stored manifest.
StoredPayloadKey(e, index_uuid) == <<"payload", manifest.index_uuid, e.uuid>>

PayloadKey(e, index_uuid) == <<"payload", index_uuid, e.uuid>>
SummaryKey(e) == <<"summary", e.uuid>>

\* put_object, or delete_object whose error is ignored.
Touch(r, k) ==
    objects' = IF op[r] = "create" THEN objects \cup {k} ELSE objects \ {k}

\* Mutant: the manifest before the last objects.
TouchPayloadOnly(r) ==
    /\ pc[r] = "payload"
    /\ Touch(r, PayloadKey(entry[r], seen[r].index_uuid))
    /\ Goto(r, "cas")
    /\ UNCHANGED <<manifest, etag, request, history>>

TouchPayload(r) ==
    /\ pc[r] = "payload"
    /\ Touch(r, PayloadKey(entry[r], seen[r].index_uuid))
    /\ Goto(r, "summary")
    /\ UNCHANGED <<manifest, etag, request, history>>

TouchSummary(r) ==
    /\ pc[r] = "summary"
    /\ Touch(r, SummaryKey(entry[r]))
    /\ Goto(r, "cas")
    /\ UNCHANGED <<manifest, etag, request, history>>

Edited(r) ==
    [seen[r] EXCEPT !.snapshots = IF op[r] = "create" THEN @ \cup {entry[r]}
                                  ELSE @ \ {entry[r]}]

\* Mutant: a write without the comparison.
SetUnconditionally(r) ==
    /\ pc[r] = "cas"
    /\ Reset(r)
    /\ manifest' = Edited(r)
    /\ etag' = IF etag = Absent THEN 1 ELSE etag + 1
    /\ created' = IF op[r] = "create" THEN created \cup {entry[r]} ELSE created
    /\ deleted' = IF op[r] = "delete" THEN deleted \cup {entry[r]} ELSE deleted
    /\ UNCHANGED <<objects, creates, next_uuid, condemned, torn>>

\* write_manifest: the comparison and the write are one section under
\* cas_locks; a conflict is an error, with no retry.  The client may also be
\* told of an error after the write, when the ETag cannot be read again: the
\* snapshot is created or deleted all the same.
compare_and_set(r) ==
    /\ pc[r] = "cas"
    /\ Reset(r)
    /\ \/ /\ etag = seen_etag[r]
          /\ manifest' = Edited(r)
          /\ etag' = IF etag = Absent THEN 1 ELSE etag + 1
          /\ created' = IF op[r] = "create" THEN created \cup {entry[r]} ELSE created
          /\ deleted' = IF op[r] = "delete" THEN deleted \cup {entry[r]} ELSE deleted
          /\ UNCHANGED <<objects, creates, next_uuid, condemned, torn>>
       \/ etag # seen_etag[r] /\ UNCHANGED <<repo, history>>

\* A failing object operation of a creation, or a crash, ends a request
\* anywhere on its way.
Fail(r) ==
    /\ r \in Failing
    /\ pc[r] # "idle"
    /\ Reset(r)
    /\ UNCHANGED <<repo, history>>

Next ==
    \E r \in Request :
        \/ \E o \in {"create", "delete"}, n \in Name : GetManifest(r, o, n)
        \/ ReadEtag(r)
        \/ PlanCreate(r) \/ PlanDelete(r) \/ PlanRefused(r)
        \/ TouchPayload(r) \/ TouchSummary(r)
        \/ compare_and_set(r) \/ Fail(r)

Spec == Init /\ [][Next]_vars

-----------------------------------------------------------------------------
(* Properties.                                                             *)

Listed == manifest.snapshots

Complete(e) == {PayloadKey(e, manifest.index_uuid), SummaryKey(e)} \subseteq objects

\* A snapshot name designates one snapshot, however creations race.
NamesUnique == \A e, f \in Listed : e.name = f.name => e = f

\* A listed snapshot that no deletion went after can be restored: its objects
\* are all there, under the index uuid the manifest gives today.
ListedIsComplete == \A e \in Listed : e.uuid \notin condemned => Complete(e)

\* The compare-and-set does its work: while every request read a manifest and
\* an ETag that belong together, a snapshot once written stays listed until
\* its deletion, and a deleted one does not come back.
CasProtects == ~torn => created \ deleted = Listed

\* repository.rs: "it guarantees a single writer succeeds when two operators
\* race to update the root `index-{N}` manifest".
NoLostUpdate == created \ deleted \subseteq Listed

\* repository.rs: the manifest-bump dance makes the other operations "safe by
\* funnelling every state change through the CAS", so once every request has
\* ended the listed snapshots have their objects.
DeleteThroughCas ==
    (\A r \in Request : pc[r] = "idle") => \A e \in Listed : Complete(e)

\* The root manifest names every snapshot once, each with its objects.
ManifestSound == TypeOK /\ NamesUnique /\ ListedIsComplete
=============================================================================
