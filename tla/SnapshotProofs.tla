--------------------------- MODULE SnapshotProofs ---------------------------
(***************************************************************************)
(* Proofs about snapshots: first about SnapshotRepo, for any number of     *)
(* concurrent requests, any of which may fail anywhere, any names and any  *)
(* number of creations; then about Slm, for any policies, days and log     *)
(* capacity: what the repository promises still holds when policies use it *)
(* next to users, retention spares the newest snapshots, and a daily       *)
(* policy runs every day.                                                  *)
(***************************************************************************)
EXTENDS Slm, SequenceLemmas

-----------------------------------------------------------------------------
(* The repository: the inductive invariant.                                *)

\* A request has chosen its snapshot and not yet tried to commit.
InFlight(r) == pc[r] \in {"payload", "summary", "cas"}
Creating(r) == InFlight(r) /\ op[r] = "create"
Deleting(r) == InFlight(r) /\ op[r] = "delete"

\* The objects of e are in o, under the index uuid i.
Stored(e, i, o) == PayloadKey(e, i) \in o /\ SummaryKey(e) \in o

\* What a manifest m promises, whether it is the stored one or the copy of a
\* request: its snapshots were all created (c), have distinct names, and those
\* that no deletion went after (d) have their objects (o).
Sound(m, c, d, o) ==
    /\ m.index_uuid = Absent => m.snapshots = {}
    /\ m.snapshots \subseteq c
    /\ \A e, f \in m.snapshots : e.name = f.name => e = f
    /\ \A e \in m.snapshots : e.uuid \notin d => Stored(e, m.index_uuid, o)

\* A request that plans a creation will take up to two uuids.
Pending == {r \in Request : pc[r] \in {"etag", "plan"} /\ op[r] = "create"}

UuidsLeft ==
    /\ creates \in Nat /\ creates <= MaxCreates
    /\ next_uuid \in Nat \ {0}
    /\ IsFiniteSet(Pending)
    /\ next_uuid + 2 * Cardinality(Pending) <= 2 * creates + 1

Typed ==
    /\ TypeOK
    /\ seen \in [Request -> Manifest]
    /\ seen_etag \in [Request -> Nat \cup {Absent}]
    /\ entry \in [Request -> Entry \cup {Absent}]
    /\ created \subseteq Entry /\ deleted \subseteq created
    /\ torn \in BOOLEAN

RepoInv ==
    /\ Sound(manifest, created, condemned, objects)
    /\ etag = Absent => manifest = EmptyManifest
    /\ \A e \in created : e.uuid < next_uuid
    /\ CasProtects

\* The ETag a request holds is no newer than the repository's, and while no
\* request was torn the same ETag means the same snapshots.
EtagInv(r) ==
    /\ pc[r] \in {"idle", "etag"} => seen_etag[r] = Absent
    /\ seen_etag[r] # Absent => etag # Absent /\ seen_etag[r] <= etag
    /\ pc[r] \notin {"idle", "etag"} /\ ~torn /\ seen_etag[r] = etag
          => seen[r].snapshots = Listed

EntryInv(r) ==
    /\ pc[r] # "idle" => name[r] \in Name
    /\ InFlight(r) => /\ entry[r] \in Entry /\ entry[r].uuid < next_uuid
                      /\ seen[r].index_uuid # Absent
    /\ Deleting(r) => entry[r] \in created /\ entry[r].uuid \in condemned
    /\ Creating(r) => /\ entry[r] \notin created
                      /\ \A e \in seen[r].snapshots : e.name # entry[r].name
    /\ Creating(r) /\ entry[r].uuid \notin condemned =>
          /\ pc[r] \in {"summary", "cas"} =>
                PayloadKey(entry[r], seen[r].index_uuid) \in objects
          /\ pc[r] = "cas" => SummaryKey(entry[r]) \in objects

RequestInv(r) ==
    /\ Sound(seen[r], created, condemned, objects)
    /\ EtagInv(r)
    /\ EntryInv(r)

\* Creations in flight have snapshots of their own.
CreationsApart ==
    \A r, s \in Request :
        Creating(r) /\ Creating(s) /\ r # s => entry[r].uuid # entry[s].uuid

Inv ==
    /\ Typed
    /\ UuidsLeft
    /\ RepoInv
    /\ \A r \in Request : RequestInv(r)
    /\ CreationsApart

-----------------------------------------------------------------------------
(* What a step of one request leaves of the others.                        *)

\* The repository and the history only move forward: objects go for condemned
\* snapshots only, and a manifest is replaced under a new ETag.
Forward ==
    /\ created \subseteq created' /\ condemned \subseteq condemned'
    /\ next_uuid' \in Nat /\ next_uuid <= next_uuid'
    /\ torn => torn'
    /\ \A e \in Entry, i \in Uuid : e.uuid \notin condemned' =>
          /\ PayloadKey(e, i) \in objects => PayloadKey(e, i) \in objects'
          /\ SummaryKey(e) \in objects => SummaryKey(e) \in objects'
    /\ \/ manifest' = manifest /\ etag' = etag
       \/ etag' = IF etag = Absent THEN 1 ELSE etag + 1

SameRequest(s) ==
    /\ pc'[s] = pc[s] /\ op'[s] = op[s] /\ name'[s] = name[s] /\ seen'[s] = seen[s]
    /\ seen_etag'[s] = seen_etag[s] /\ entry'[s] = entry[s]

\* A sound manifest stays sound.
LEMMA SoundForward ==
    ASSUME Forward, created \subseteq Entry, NEW m \in Manifest,
           Sound(m, created, condemned, objects)
    PROVE  Sound(m, created', condemned', objects')
<1>1. ASSUME NEW e \in m.snapshots, e.uuid \notin condemned'
      PROVE  Stored(e, m.index_uuid, objects')
  <2>1. e \in Entry /\ m.index_uuid \in Uuid /\ e.uuid \notin condemned
    BY <1>1 DEF Sound, Manifest, Forward
  <2>2. Stored(e, m.index_uuid, objects)
    BY <2>1 DEF Sound
  <2> QED
    BY <1>1, <2>1, <2>2 DEF Forward, Stored
<1> QED
  BY <1>1 DEF Sound, Forward

\* A request that does not move keeps its invariant, unless its snapshot was
\* published by someone else.
LEMMA OtherRequest ==
    ASSUME Inv, Forward, NEW s \in Request, SameRequest(s),
           Creating(s) => entry[s] \notin created'
    PROVE  RequestInv(s)'
<1> USE RepoConstants
<1>1. /\ RequestInv(s) /\ seen[s] \in Manifest /\ next_uuid \in Nat
      /\ etag \in Nat \cup {Absent} /\ seen_etag[s] \in Nat \cup {Absent}
      /\ created \subseteq Entry
  BY DEF Inv, Typed, TypeOK, UuidsLeft
<1>2. Sound(seen[s], created, condemned, objects)'
  BY <1>1, SoundForward DEF RequestInv, SameRequest
<1>3. EtagInv(s)'
  BY <1>1 DEF RequestInv, EtagInv, SameRequest, Forward, Listed
<1>4. EntryInv(s)'
  <2>1. Creating(s)' = Creating(s) /\ Deleting(s)' = Deleting(s) /\ InFlight(s)' = InFlight(s)
    BY DEF Creating, Deleting, InFlight, SameRequest
  <2>2. InFlight(s) => entry[s] \in Entry /\ entry[s].uuid \in Nat /\ seen[s].index_uuid \in Uuid
    BY <1>1 DEF RequestInv, EntryInv, Manifest, Entry, Uuid
  <2>3. Creating(s) => InFlight(s)
    BY DEF Creating
  <2>4. /\ pc'[s] # "idle" => name'[s] \in Name
        /\ InFlight(s)' => /\ entry'[s] \in Entry /\ entry'[s].uuid < next_uuid'
                           /\ seen'[s].index_uuid # Absent
    BY <1>1, <2>1, <2>2 DEF RequestInv, EntryInv, SameRequest, Forward
  <2>5. Deleting(s)' => entry'[s] \in created' /\ entry'[s].uuid \in condemned'
    BY <1>1, <2>1 DEF RequestInv, EntryInv, SameRequest, Forward
  <2>6. Creating(s)' => /\ entry'[s] \notin created'
                        /\ \A e \in seen'[s].snapshots : e.name # entry'[s].name
    BY <1>1, <2>1 DEF RequestInv, EntryInv, SameRequest
  <2>7. ASSUME Creating(s), entry[s].uuid \notin condemned'
        PROVE  /\ pc[s] \in {"summary", "cas"} =>
                     PayloadKey(entry[s], seen[s].index_uuid) \in objects'
               /\ pc[s] = "cas" => SummaryKey(entry[s]) \in objects'
    BY <1>1, <2>2, <2>3, <2>7 DEF RequestInv, EntryInv, Forward
  <2> QED
    BY <2>1, <2>4, <2>5, <2>6, <2>7 DEF EntryInv, SameRequest, PayloadKey, SummaryKey
<1> QED
  BY <1>2, <1>3, <1>4 DEF RequestInv

\* The stored manifest stays sound when it is not replaced.
LEMMA SameManifest ==
    ASSUME Inv, Forward, UNCHANGED <<manifest, etag, created, deleted>>
    PROVE  RepoInv'
<1>1. created \subseteq Entry /\ manifest \in Manifest /\ torn \in BOOLEAN /\ next_uuid \in Nat
  BY DEF Inv, Typed, TypeOK, UuidsLeft
<1>2. Sound(manifest, created, condemned, objects)'
  BY <1>1, SoundForward DEF Inv, RepoInv
<1>3. \A e \in created' : e.uuid < next_uuid'
  BY <1>1 DEF Inv, RepoInv, Forward, Entry, Uuid
<1>4. CasProtects'
  BY <1>1 DEF Inv, RepoInv, CasProtects, Forward, Listed
<1> QED
  BY <1>2, <1>3, <1>4 DEF Inv, RepoInv

\* The uuids last when a creation is requested, and when one of the planned
\* requests goes on or ends.
LEMMA PendingMore ==
    ASSUME UuidsLeft, NEW r, r \notin Pending, Pending' = Pending \cup {r},
           creates' = creates + 1, creates' <= MaxCreates, next_uuid' = next_uuid
    PROVE  UuidsLeft'
<1>1. IsFiniteSet(Pending \cup {r}) /\ Cardinality(Pending \cup {r}) = Cardinality(Pending) + 1
  BY FS_AddElement DEF UuidsLeft
<1>2. Cardinality(Pending) \in Nat
  BY FS_CardinalityType DEF UuidsLeft
<1> QED
  BY <1>1, <1>2, RepoConstants DEF UuidsLeft

LEMMA PendingLess ==
    ASSUME UuidsLeft, NEW r, Pending' = Pending \ {r}, creates' = creates,
           next_uuid' \in Nat \ {0},
           next_uuid' <= next_uuid + (IF r \in Pending THEN 2 ELSE 0)
    PROVE  UuidsLeft'
<1>1. /\ IsFiniteSet(Pending \ {r})
      /\ Cardinality(Pending \ {r}) =
            IF r \in Pending THEN Cardinality(Pending) - 1 ELSE Cardinality(Pending)
  BY FS_RemoveElement DEF UuidsLeft
<1>2. Cardinality(Pending) \in Nat
  BY FS_CardinalityType DEF UuidsLeft
<1>3. CASE r \in Pending
  BY <1>1, <1>2, <1>3 DEF UuidsLeft
<1>4. CASE r \notin Pending
  BY <1>1, <1>2, <1>4 DEF UuidsLeft
<1> QED
  BY <1>3, <1>4

\* A step of r on its own: what is left to show of it.
LEMMA StepInv ==
    ASSUME Inv, Forward, NEW r \in Request, Typed', UuidsLeft', RepoInv', RequestInv(r)',
           \A s \in Request \ {r} : SameRequest(s),
           \A s \in Request \ {r} : Creating(s) => entry[s] \notin created',
           \A s \in Request \ {r} : Creating(s) /\ Creating(r)' => entry[s].uuid # entry'[r].uuid
    PROVE  Inv'
<1>1. \A s \in Request \ {r} : RequestInv(s)'
  BY OtherRequest
<1>2. \A s \in Request \ {r} : Creating(s)' = Creating(s) /\ entry'[s] = entry[s]
  BY DEF SameRequest, Creating, InFlight
<1>3. CreationsApart'
  BY <1>2 DEF Inv, CreationsApart
<1> QED
  BY <1>1, <1>3 DEF Inv

\* A request that ends without touching the repository.
LEMMA ResetInv ==
    ASSUME Inv, NEW r \in Request, Reset(r), UNCHANGED <<repo, history>>
    PROVE  Inv'
<1> USE RepoConstants
<1>1. Typed'
  <2>1. EmptyManifest \in Manifest
    BY DEF EmptyManifest, Manifest
  <2> QED
    BY <2>1 DEF Inv, Typed, TypeOK, Reset, repo, history
<1>2. \A s \in Request \ {r} : SameRequest(s)
  BY DEF Inv, Typed, TypeOK, Reset, SameRequest
<1>3. /\ pc'[r] = "idle" /\ seen'[r] = EmptyManifest /\ seen_etag'[r] = Absent
      /\ next_uuid \in Nat
  BY DEF Inv, Typed, TypeOK, Reset, UuidsLeft
<1>4. Forward
  BY <1>3 DEF Forward, repo, history
<1>5. RepoInv'
  BY <1>4, SameManifest DEF repo, history
<1>6. RequestInv(r)'
  <2>1. Sound(seen[r], created, condemned, objects)'
    BY <1>3 DEF Sound, EmptyManifest
  <2>2. EtagInv(r)'
    BY <1>3 DEF EtagInv
  <2>3. EntryInv(r)' /\ ~Creating(r)'
    BY <1>3 DEF EntryInv, InFlight, Creating, Deleting
  <2> QED
    BY <2>1, <2>2, <2>3 DEF RequestInv
<1>7. UuidsLeft'
  <2>1. Pending' = Pending \ {r}
    BY <1>2, <1>3 DEF Pending, SameRequest
  <2>2. /\ creates' = creates /\ next_uuid' = next_uuid /\ next_uuid \in Nat \ {0}
        /\ next_uuid' <= next_uuid + (IF r \in Pending THEN 2 ELSE 0)
    BY DEF history, Inv, UuidsLeft
  <2> QED
    BY <2>1, <2>2, PendingLess DEF Inv
<1>8. \A s \in Request \ {r} : Creating(s) => entry[s] \notin created'
  BY DEF Inv, RequestInv, EntryInv, history
<1>9. ~Creating(r)'
  BY <1>3 DEF Creating, InFlight
<1> QED
  BY <1>1, <1>2, <1>4, <1>5, <1>6, <1>7, <1>8, <1>9, StepInv

\* A request starts with a sound copy of the manifest.
LEMMA GetManifestInv ==
    ASSUME Inv, NEW r \in Request, NEW o \in {"create", "delete"}, NEW n \in Name,
           GetManifest(r, o, n)
    PROVE  Inv'
<1> USE RepoConstants
<1>1. Typed'
  BY DEF Inv, Typed, TypeOK, GetManifest, Goto, repo
<1>2. \A s \in Request \ {r} : SameRequest(s)
  BY DEF Inv, Typed, TypeOK, GetManifest, Goto, SameRequest
<1>3. /\ pc[r] = "idle" /\ pc'[r] = (IF etag = Absent THEN "plan" ELSE "etag")
      /\ seen'[r] = manifest /\ op'[r] = o /\ name'[r] = n
      /\ seen_etag'[r] = Absent /\ seen_etag[r] = Absent
      /\ next_uuid \in Nat
  BY DEF Inv, Typed, TypeOK, GetManifest, Goto, UuidsLeft, RequestInv, EtagInv
<1>4. UNCHANGED <<repo, next_uuid, created, condemned, deleted, torn>>
  BY DEF GetManifest
<1>5. Forward
  BY <1>3, <1>4 DEF Forward, repo
<1>6. RepoInv'
  BY <1>4, <1>5, SameManifest DEF repo
<1>7. ~InFlight(r)' /\ ~Creating(r)' /\ ~Deleting(r)'
  BY <1>3 DEF Creating, Deleting, InFlight
<1>8. RequestInv(r)'
  <2>1. Sound(seen[r], created, condemned, objects)'
    BY <1>3, <1>4, <1>6 DEF RepoInv, repo
  <2>2. EtagInv(r)'
    BY <1>3, <1>4 DEF EtagInv, repo, Listed
  <2>3. EntryInv(r)'
    BY <1>3, <1>7 DEF EntryInv
  <2> QED
    BY <2>1, <2>2, <2>3 DEF RequestInv
<1>9. UuidsLeft'
  <2>1. r \notin Pending
    BY <1>3 DEF Pending
  <2>2. CASE o = "create"
    <3>1. Pending' = Pending \cup {r}
      BY <1>2, <1>3, <2>2 DEF Pending, SameRequest
    <3>2. creates' = creates + 1 /\ creates' <= MaxCreates /\ next_uuid' = next_uuid
      BY <2>2 DEF GetManifest
    <3> QED
      BY <2>1, <3>1, <3>2, PendingMore DEF Inv
  <2>3. CASE o = "delete"
    <3>1. Pending' = Pending
      BY <1>2, <1>3, <2>3, <2>1 DEF Pending, SameRequest
    <3>2. creates' = creates /\ next_uuid' = next_uuid
      BY <2>3 DEF GetManifest
    <3> QED
      BY <3>1, <3>2 DEF Inv, UuidsLeft
  <2> QED
    BY <2>2, <2>3
<1>10. \A s \in Request \ {r} : Creating(s) => entry[s] \notin created'
  BY <1>4 DEF Inv, RequestInv, EntryInv
<1> QED
  BY <1>1, <1>2, <1>5, <1>6, <1>7, <1>8, <1>9, <1>10, StepInv

\* The ETag that is read now belongs to the copy, or the request is torn.
LEMMA ReadEtagInv == ASSUME Inv, NEW r \in Request, ReadEtag(r) PROVE Inv'
<1> USE RepoConstants
<1>1. Typed'
  BY DEF Inv, Typed, TypeOK, ReadEtag, Goto, repo
<1>2. \A s \in Request \ {r} : SameRequest(s)
  BY DEF Inv, Typed, TypeOK, ReadEtag, Goto, SameRequest
<1>3. /\ pc[r] = "etag" /\ pc'[r] = "plan" /\ seen'[r] = seen[r] /\ op'[r] = op[r]
      /\ name'[r] = name[r] /\ seen_etag'[r] = etag /\ entry'[r] = entry[r]
      /\ next_uuid \in Nat /\ seen[r] \in Manifest /\ etag \in Nat \cup {Absent}
  BY DEF Inv, Typed, TypeOK, ReadEtag, Goto, UuidsLeft
<1>4. /\ UNCHANGED <<repo, creates, next_uuid, created, condemned, deleted>>
      /\ torn => torn'
      /\ ~torn' => manifest = seen[r]
  <2>1. UNCHANGED <<repo, creates, next_uuid, created, condemned, deleted>>
    BY DEF ReadEtag
  <2>2. torn' = (torn \/ manifest # seen[r])
    BY DEF ReadEtag
  <2> QED
    BY <2>1, <2>2
<1>5. Forward
  BY <1>3, <1>4 DEF Forward, repo
<1>6. RepoInv'
  BY <1>4, <1>5, SameManifest DEF repo
<1>7. ~InFlight(r)' /\ ~Creating(r)' /\ ~Deleting(r)'
  BY <1>3 DEF Creating, Deleting, InFlight
<1>8. RequestInv(r)'
  <2>1. Sound(seen[r], created, condemned, objects)'
    BY <1>3, <1>4 DEF Inv, RequestInv, repo
  <2>2. EtagInv(r)'
    BY <1>3, <1>4 DEF EtagInv, repo, Listed
  <2>3. EntryInv(r)'
    BY <1>3, <1>7 DEF Inv, RequestInv, EntryInv
  <2> QED
    BY <2>1, <2>2, <2>3 DEF RequestInv
<1>9. UuidsLeft'
  <2>1. Pending' = Pending
    BY <1>2, <1>3 DEF Pending, SameRequest
  <2> QED
    BY <1>4, <2>1 DEF Inv, UuidsLeft
<1>10. \A s \in Request \ {r} : Creating(s) => entry[s] \notin created'
  BY <1>4 DEF Inv, RequestInv, EntryInv
<1> QED
  BY <1>1, <1>2, <1>5, <1>6, <1>7, <1>8, <1>9, <1>10, StepInv

\* A creation takes fresh uuids, within the bound.
LEMMA PlanCreateInv == ASSUME Inv, NEW r \in Request, PlanCreate(r) PROVE Inv'
<1> USE RepoConstants
<1> DEFINE fresh == IF seen[r].index_uuid = Absent THEN 1 ELSE 0
           e == [name |-> name[r], uuid |-> next_uuid]
<1>1. /\ pc[r] = "plan" /\ op[r] = "create" /\ Named(r) = {} /\ name[r] \in Name
      /\ seen \in [Request -> Manifest] /\ seen[r] \in Manifest
      /\ entry \in [Request -> Entry \cup {Absent}]
      /\ next_uuid \in Nat \ {0} /\ Sound(seen[r], created, condemned, objects)
  BY DEF PlanCreate, Inv, Typed, RequestInv, EntryInv, UuidsLeft
<1>2. /\ next_uuid' = next_uuid + 1 + fresh
      /\ entry' = [entry EXCEPT ![r] = e]
      /\ seen' = IF fresh = 1 THEN [seen EXCEPT ![r].index_uuid = next_uuid + 1] ELSE seen
      /\ pc' = [pc EXCEPT ![r] = "payload"]
      /\ UNCHANGED <<repo, op, name, seen_etag, creates, created, condemned, deleted, torn>>
  BY DEF PlanCreate, Goto
<1>3. next_uuid + 2 <= 2 * MaxCreates + 1
  <2>1. r \in Pending
    BY <1>1 DEF Pending
  <2>2. Cardinality(Pending) \in Nat /\ Cardinality(Pending) # 0
    BY <2>1, FS_CardinalityType, FS_EmptySet DEF Inv, UuidsLeft
  <2>3. creates \in Nat /\ creates <= MaxCreates /\ next_uuid + 2 * Cardinality(Pending) <= 2 * creates + 1
    BY DEF Inv, UuidsLeft
  <2> QED
    BY <1>1, <2>2, <2>3
<1>4. next_uuid \in Uuid /\ next_uuid + 1 \in Uuid
  BY <1>1, <1>3 DEF Uuid
<1>5. e \in Entry /\ e.uuid = next_uuid /\ e.name = name[r]
  BY <1>1, <1>4 DEF Entry
<1>6. /\ seen'[r] \in Manifest /\ seen'[r].snapshots = seen[r].snapshots
      /\ seen'[r].index_uuid \in Uuid
      /\ seen[r].index_uuid # Absent => seen'[r] = seen[r]
      /\ seen' \in [Request -> Manifest]
      /\ \A s \in Request \ {r} : seen'[s] = seen[s]
  <2>1. CASE seen[r].index_uuid = Absent
    <3>1. seen' = [seen EXCEPT ![r] = [seen[r] EXCEPT !.index_uuid = next_uuid + 1]]
      BY <1>1, <1>2, <2>1
    <3>2. [seen[r] EXCEPT !.index_uuid = next_uuid + 1] \in Manifest
      BY <1>1, <1>4 DEF Manifest
    <3>3. /\ [seen[r] EXCEPT !.index_uuid = next_uuid + 1].snapshots = seen[r].snapshots
          /\ [seen[r] EXCEPT !.index_uuid = next_uuid + 1].index_uuid = next_uuid + 1
      BY <1>1 DEF Manifest
    <3> QED
      BY <1>1, <1>4, <2>1, <3>1, <3>2, <3>3
  <2>2. CASE seen[r].index_uuid # Absent
    BY <1>1, <1>2, <2>2 DEF Manifest
  <2> QED
    BY <2>1, <2>2
<1>7. Typed'
  BY <1>1, <1>2, <1>5, <1>6 DEF Inv, Typed, TypeOK, repo
<1>8. \A s \in Request \ {r} : SameRequest(s)
  BY <1>1, <1>2, <1>6 DEF SameRequest, Inv, Typed, TypeOK
<1>9. pc'[r] = "payload" /\ op'[r] = "create" /\ entry'[r] = e /\ name'[r] = name[r]
      /\ seen_etag'[r] = seen_etag[r]
  BY <1>1, <1>2 DEF Inv, Typed, TypeOK
<1> HIDE DEF e
<1>10. Forward
  BY <1>1, <1>2 DEF Forward, repo
<1>11. RepoInv'
  BY <1>2, <1>10, SameManifest DEF repo
<1>12. \A f \in created : f.uuid < next_uuid /\ f \in Entry
  BY DEF Inv, RepoInv, Typed
<1>13. RequestInv(r)'
  <2>1. Sound(seen[r], created, condemned, objects)'
    BY <1>1, <1>2, <1>6 DEF Sound, repo
  <2>2. EtagInv(r)'
    BY <1>1, <1>2, <1>6, <1>9 DEF Inv, RequestInv, EtagInv, repo, Listed
  <2>3. EntryInv(r)'
    <3>1. Creating(r)' /\ InFlight(r)' /\ ~Deleting(r)'
      BY <1>9 DEF Creating, Deleting, InFlight
    <3>2. e \notin created'
      BY <1>1, <1>2, <1>5, <1>12
    <3>3. \A f \in seen[r].snapshots : f.name # e.name
      BY <1>1, <1>5 DEF Named
    <3>4. e.uuid < next_uuid'
      BY <1>1, <1>2, <1>5
    <3> QED
      BY <1>1, <1>5, <1>6, <1>9, <3>1, <3>2, <3>3, <3>4 DEF EntryInv, Uuid
  <2> QED
    BY <2>1, <2>2, <2>3 DEF RequestInv
<1>14. UuidsLeft'
  <2>1. Pending' = Pending \ {r}
    BY <1>8, <1>9 DEF Pending, SameRequest
  <2>2. r \in Pending
    BY <1>1 DEF Pending
  <2>3. next_uuid' \in Nat \ {0} /\ next_uuid' <= next_uuid + (IF r \in Pending THEN 2 ELSE 0)
    BY <1>1, <1>2, <2>2
  <2> QED
    BY <1>2, <2>1, <2>3, PendingLess DEF Inv
<1>15. \A s \in Request \ {r} : Creating(s) => entry[s] \notin created' /\ entry[s].uuid # e.uuid
  <2> SUFFICES ASSUME NEW s \in Request \ {r}, Creating(s)
               PROVE  entry[s] \notin created' /\ entry[s].uuid # e.uuid
    OBVIOUS
  <2>1. InFlight(s)
    BY DEF Creating
  <2>2. entry[s] \notin created /\ entry[s].uuid < next_uuid
    BY <2>1 DEF Inv, RequestInv, EntryInv
  <2> QED
    BY <1>1, <1>2, <1>5, <2>2
<1> QED
  BY <1>7, <1>8, <1>9, <1>10, <1>11, <1>13, <1>14, <1>15, StepInv

\* A deletion goes after a snapshot that was created.
LEMMA PlanDeleteInv == ASSUME Inv, NEW r \in Request, PlanDelete(r) PROVE Inv'
<1> USE RepoConstants
<1>1. PICK e \in Named(r) : entry' = [entry EXCEPT ![r] = e]
  BY DEF PlanDelete
<1>2. /\ pc[r] = "plan" /\ op[r] = "delete" /\ name[r] \in Name
      /\ seen[r] \in Manifest /\ e \in seen[r].snapshots /\ e \in Entry
      /\ e \in created /\ seen[r].index_uuid # Absent
      /\ entry \in [Request -> Entry \cup {Absent}]
      /\ Sound(seen[r], created, condemned, objects)
      /\ next_uuid \in Nat /\ e.uuid < next_uuid
  BY <1>1 DEF PlanDelete, Inv, Typed, TypeOK, RequestInv, EntryInv, Named, Sound, Manifest,
     UuidsLeft, RepoInv
<1>3. /\ entry'[r] = e
      /\ condemned' = condemned \cup {e.uuid}
      /\ pc' = [pc EXCEPT ![r] = "payload"]
      /\ UNCHANGED <<repo, op, name, seen, seen_etag, creates, next_uuid, created, deleted, torn>>
  BY <1>1, <1>2 DEF PlanDelete, Goto
<1>4. Typed'
  BY <1>1, <1>2, <1>3 DEF Inv, Typed, TypeOK, repo
<1>5. \A s \in Request \ {r} : SameRequest(s)
  BY <1>1, <1>2, <1>3 DEF SameRequest, Inv, Typed, TypeOK
<1>6. Forward
  BY <1>2, <1>3 DEF Forward, repo
<1>7. RepoInv'
  BY <1>3, <1>6, SameManifest DEF repo
<1>8. /\ pc'[r] = "payload" /\ op'[r] = "delete" /\ name'[r] = name[r]
      /\ InFlight(r)' /\ ~Creating(r)'
  BY <1>2, <1>3 DEF Inv, Typed, TypeOK, InFlight, Creating
<1>9. RequestInv(r)'
  <2>1. Sound(seen[r], created, condemned, objects)'
    BY <1>2, <1>3, <1>6, SoundForward DEF Inv, Typed
  <2>2. EtagInv(r)'
    BY <1>2, <1>3, <1>8 DEF Inv, RequestInv, EtagInv, repo, Listed
  <2>3. EntryInv(r)'
    BY <1>2, <1>3, <1>8 DEF EntryInv
  <2> QED
    BY <2>1, <2>2, <2>3 DEF RequestInv
<1>10. UuidsLeft'
  <2>1. Pending' = Pending
    BY <1>2, <1>5, <1>8 DEF Pending, SameRequest
  <2> QED
    BY <1>3, <2>1 DEF Inv, UuidsLeft
<1>11. \A s \in Request \ {r} : Creating(s) => entry[s] \notin created'
  BY <1>3 DEF Inv, RequestInv, EntryInv
<1> QED
  BY <1>4, <1>5, <1>6, <1>7, <1>8, <1>9, <1>10, <1>11, StepInv

\* The keys of different snapshots, and of different objects, differ.
LEMMA KeysApart ==
    ASSUME NEW e, NEW f, NEW i, NEW j
    PROVE  /\ PayloadKey(e, i) = PayloadKey(f, j) => e.uuid = f.uuid
           /\ SummaryKey(e) = SummaryKey(f) => e.uuid = f.uuid
           /\ PayloadKey(e, i) # SummaryKey(f)
  BY DEF PayloadKey, SummaryKey

\* An object is written for a creation, or removed for a condemned snapshot.
LEMMA TouchForward ==
    ASSUME Inv, NEW r \in Request, InFlight(r),
           NEW k \in {PayloadKey(entry[r], seen[r].index_uuid), SummaryKey(entry[r])},
           Touch(r, k), UNCHANGED <<manifest, etag, request, history>>
    PROVE  /\ Forward /\ RepoInv'
           /\ op[r] = "create" => objects' = objects \cup {k}
           /\ objects' \subseteq ({"payload"} \X Uuid \X Uuid) \cup ({"summary"} \X Uuid)
<1>1. op[r] # "create" => entry[r].uuid \in condemned
  BY DEF Inv, RequestInv, EntryInv, Deleting, Typed, TypeOK
<1>2. objects' = IF op[r] = "create" THEN objects \cup {k} ELSE objects \ {k}
  BY DEF Touch
<1>3. ASSUME NEW e \in Entry, NEW i \in Uuid, e.uuid \notin condemned'
      PROVE  /\ PayloadKey(e, i) \in objects => PayloadKey(e, i) \in objects'
             /\ SummaryKey(e) \in objects => SummaryKey(e) \in objects'
  <2>1. CASE op[r] = "create"
    BY <1>2, <2>1
  <2>2. CASE op[r] # "create"
    <3>1. e.uuid # entry[r].uuid
      BY <1>1, <1>3, <2>2 DEF history
    <3>2. k # PayloadKey(e, i) /\ k # SummaryKey(e)
      BY <3>1, KeysApart
    <3> QED
      BY <1>2, <2>2, <3>2
  <2> QED
    BY <2>1, <2>2
<1>4. Forward
  BY <1>3 DEF Forward, history, Inv, UuidsLeft
<1>5. RepoInv'
  BY <1>4, SameManifest DEF history
<1>6. k \in ({"payload"} \X Uuid \X Uuid) \cup ({"summary"} \X Uuid)
  <2>1. entry[r].uuid \in Uuid /\ seen[r].index_uuid \in Uuid
    BY DEF Inv, RequestInv, EntryInv, Entry, Typed, Manifest
  <2> QED
    BY <2>1 DEF PayloadKey, SummaryKey
<1>7. objects \subseteq ({"payload"} \X Uuid \X Uuid) \cup ({"summary"} \X Uuid)
  BY DEF Inv, Typed, TypeOK
<1> QED
  BY <1>2, <1>4, <1>5, <1>6, <1>7

LEMMA TouchInv ==
    ASSUME Inv, NEW r \in Request, TouchPayload(r) \/ TouchSummary(r) PROVE Inv'
<1> USE RepoConstants
<1> DEFINE k == IF pc[r] = "payload" THEN PayloadKey(entry[r], seen[r].index_uuid)
                ELSE SummaryKey(entry[r])
<1>1. /\ pc[r] \in {"payload", "summary"}
      /\ pc' = [pc EXCEPT ![r] = IF pc[r] = "payload" THEN "summary" ELSE "cas"]
      /\ Touch(r, k) /\ UNCHANGED <<manifest, etag, request, history>>
  BY DEF TouchPayload, TouchSummary, Goto
<1>2. InFlight(r)
  BY <1>1 DEF InFlight
<1>3. k \in {PayloadKey(entry[r], seen[r].index_uuid), SummaryKey(entry[r])}
  OBVIOUS
<1>4. /\ Forward /\ RepoInv'
      /\ op[r] = "create" => objects' = objects \cup {k}
      /\ objects' \subseteq ({"payload"} \X Uuid \X Uuid) \cup ({"summary"} \X Uuid)
  <2> HIDE DEF k
  <2> QED
    BY <1>1, <1>2, <1>3, TouchForward
<1>5. Typed'
  BY <1>1, <1>4 DEF Inv, Typed, TypeOK, request, history
<1>6. \A s \in Request \ {r} : SameRequest(s)
  BY <1>1 DEF SameRequest, Inv, Typed, TypeOK, request
<1>7. /\ pc'[r] = (IF pc[r] = "payload" THEN "summary" ELSE "cas") /\ InFlight(r)'
      /\ Creating(r)' = Creating(r) /\ Deleting(r)' = Deleting(r)
  BY <1>1, <1>2 DEF Inv, Typed, TypeOK, InFlight, Creating, Deleting, request
<1>8. RequestInv(r)'
  <2>1. Sound(seen[r], created, condemned, objects)'
    BY <1>1, <1>4, SoundForward DEF Inv, Typed, RequestInv, request
  <2>2. EtagInv(r)'
    BY <1>1, <1>7 DEF Inv, RequestInv, EtagInv, request, history, Listed
  <2>3. EntryInv(r)'
    <3>1. UNCHANGED <<name, entry, seen, created, condemned, next_uuid>>
      BY <1>1 DEF request, history
    <3>2. ASSUME Creating(r), entry[r].uuid \notin condemned
          PROVE  /\ PayloadKey(entry[r], seen[r].index_uuid) \in objects'
                 /\ pc'[r] = "cas" => SummaryKey(entry[r]) \in objects'
      <4>1. objects' = objects \cup {k}
        BY <1>4, <3>2 DEF Creating
      <4>2. pc[r] = "summary" => PayloadKey(entry[r], seen[r].index_uuid) \in objects
        BY <3>2 DEF Inv, RequestInv, EntryInv
      <4> QED
        BY <1>1, <1>7, <4>1, <4>2
    <3>3. EntryInv(r)
      BY DEF Inv, RequestInv
    <3> QED
      BY <1>1, <1>2, <1>7, <3>1, <3>2, <3>3 DEF EntryInv, PayloadKey, SummaryKey
  <2> QED
    BY <2>1, <2>2, <2>3 DEF RequestInv
<1>9. UuidsLeft'
  <2>1. Pending' = Pending
    BY <1>1, <1>6, <1>7 DEF Pending, SameRequest
  <2> QED
    BY <1>1, <2>1 DEF Inv, UuidsLeft, history
<1>10. \A s \in Request \ {r} : Creating(s) => entry[s] \notin created'
  BY <1>1 DEF Inv, RequestInv, EntryInv, history
<1>11. \A s \in Request \ {r} : Creating(s) /\ Creating(r)' => entry[s].uuid # entry'[r].uuid
  BY <1>1, <1>7 DEF Inv, CreationsApart, request
<1> QED
  BY <1>4, <1>5, <1>6, <1>8, <1>9, <1>10, <1>11, StepInv

\* A compare-and-set that succeeds publishes a sound manifest, and the right
\* one when no request was torn.
LEMMA CasInv == ASSUME Inv, NEW r \in Request, compare_and_set(r) PROVE Inv'
<1> USE RepoConstants
<1>1. CASE UNCHANGED <<repo, history>>
  BY <1>1, ResetInv DEF compare_and_set
<1>2. CASE ~UNCHANGED <<repo, history>>
  <2>1. /\ pc[r] = "cas" /\ Reset(r) /\ etag = seen_etag[r]
        /\ manifest' = Edited(r)
        /\ etag' = IF etag = Absent THEN 1 ELSE etag + 1
        /\ created' = IF op[r] = "create" THEN created \cup {entry[r]} ELSE created
        /\ deleted' = IF op[r] = "delete" THEN deleted \cup {entry[r]} ELSE deleted
        /\ UNCHANGED <<objects, creates, next_uuid, condemned, torn>>
    BY <1>2 DEF compare_and_set
  <2>2. /\ InFlight(r) /\ entry[r] \in Entry /\ seen[r] \in Manifest
        /\ entry[r].uuid < next_uuid
        /\ op[r] \in {"create", "delete"} /\ seen[r].index_uuid # Absent
        /\ Sound(seen[r], created, condemned, objects)
        /\ created \subseteq Entry /\ deleted \subseteq created
        /\ next_uuid \in Nat /\ etag \in Nat \cup {Absent}
    BY <2>1 DEF Inv, Typed, TypeOK, RequestInv, EntryInv, InFlight, UuidsLeft
  <2>3. /\ op[r] = "create" => Creating(r)
        /\ op[r] = "delete" => Deleting(r)
    BY <2>2 DEF Creating, Deleting
  <2>4. /\ manifest' \in Manifest
        /\ manifest'.index_uuid = seen[r].index_uuid
        /\ manifest'.snapshots = IF op[r] = "create" THEN seen[r].snapshots \cup {entry[r]}
                                 ELSE seen[r].snapshots \ {entry[r]}
    BY <2>1, <2>2 DEF Edited, Manifest
  <2>5. /\ pc' = [pc EXCEPT ![r] = "idle"] /\ pc'[r] = "idle"
        /\ seen'[r] = EmptyManifest /\ seen_etag'[r] = Absent
        /\ \A s \in Request \ {r} : SameRequest(s)
    BY <2>1 DEF Reset, Inv, Typed, TypeOK, SameRequest
  <2>6. Typed'
    <3>1. EmptyManifest \in Manifest
      BY DEF EmptyManifest, Manifest
    <3>2. etag' \in Nat \cup {Absent}
      BY <2>1, <2>2
    <3>3. created' \subseteq Entry /\ deleted' \subseteq created'
      <4>1. op[r] = "delete" => entry[r] \in created
        BY <2>3 DEF Inv, RequestInv, EntryInv
      <4> QED
        BY <2>1, <2>2, <4>1
    <3> QED
      BY <2>1, <2>4, <3>1, <3>2, <3>3 DEF Inv, Typed, TypeOK, Reset
  <2>7. Forward
    BY <2>1, <2>2 DEF Forward
  <2>8. Sound(manifest, created, condemned, objects)'
    <3>1. CASE op[r] = "create"
      <4>1. \A f \in seen[r].snapshots : f.name # entry[r].name
        BY <2>3, <3>1 DEF Inv, RequestInv, EntryInv
      <4>2. entry[r].uuid \notin condemned => Stored(entry[r], seen[r].index_uuid, objects)
        BY <2>1, <2>3, <3>1 DEF Inv, RequestInv, EntryInv, Stored
      <4> QED
        BY <2>1, <2>2, <2>4, <3>1, <4>1, <4>2 DEF Sound
    <3>2. CASE op[r] # "create"
      BY <2>1, <2>2, <2>4, <3>2 DEF Sound
    <3> QED
      BY <3>1, <3>2
  <2>9. CasProtects'
    <3> SUFFICES ASSUME ~torn' PROVE created' \ deleted' = manifest'.snapshots
      BY DEF CasProtects, Listed
    <3>1. ~torn
      BY <2>1
    <3>2. created \ deleted = manifest.snapshots
      BY <3>1 DEF Inv, RepoInv, CasProtects, Listed
    <3>3. seen[r].snapshots = manifest.snapshots
      BY <2>1, <3>1 DEF Inv, RequestInv, EtagInv, Listed
    <3>4. CASE op[r] = "create"
      <4>1. entry[r] \notin created
        BY <2>3, <3>4 DEF Inv, RequestInv, EntryInv
      <4> QED
        BY <2>1, <2>2, <2>4, <3>2, <3>3, <3>4, <4>1
    <3>5. CASE op[r] = "delete"
      BY <2>1, <2>4, <3>2, <3>3, <3>5
    <3> QED
      BY <2>2, <3>4, <3>5
  <2>10. RepoInv'
    <3>1. etag' # Absent
      BY <2>1, <2>2
    <3>2. \A e \in created' : e.uuid < next_uuid'
      BY <2>1, <2>2 DEF Inv, RepoInv
    <3> QED
      BY <2>8, <2>9, <3>1, <3>2 DEF RepoInv
  <2>11. RequestInv(r)' /\ ~Creating(r)'
    <3>1. Sound(seen[r], created, condemned, objects)'
      BY <2>5 DEF Sound, EmptyManifest
    <3>2. EtagInv(r)'
      BY <2>5 DEF EtagInv
    <3>3. EntryInv(r)' /\ ~Creating(r)'
      BY <2>5 DEF EntryInv, InFlight, Creating, Deleting
    <3> QED
      BY <3>1, <3>2, <3>3 DEF RequestInv
  <2>12. UuidsLeft'
    <3>1. Pending' = Pending
      BY <2>1, <2>5 DEF Pending, SameRequest
    <3> QED
      BY <2>1, <3>1 DEF Inv, UuidsLeft
  <2>13. \A s \in Request \ {r} : Creating(s) => entry[s] \notin created'
    <3> SUFFICES ASSUME NEW s \in Request \ {r}, Creating(s) PROVE entry[s] \notin created'
      OBVIOUS
    <3>1. entry[s] \notin created
      BY DEF Inv, RequestInv, EntryInv
    <3>2. op[r] = "create" => entry[s].uuid # entry[r].uuid
      BY <2>3 DEF Inv, CreationsApart
    <3> QED
      BY <2>1, <3>1, <3>2
  <2> QED
    BY <2>5, <2>6, <2>7, <2>10, <2>11, <2>12, <2>13, StepInv
<1> QED
  BY <1>1, <1>2

LEMMA InitInv == Init => Inv
<1> SUFFICES ASSUME Init PROVE Inv
  OBVIOUS
<1> USE RepoConstants DEF Init
<1>1. EmptyManifest \in Manifest
  BY DEF EmptyManifest, Manifest
<1>2. Typed
  BY <1>1 DEF Typed, TypeOK
<1>3. Pending = {}
  BY DEF Pending
<1>4. UuidsLeft
  BY <1>3, FS_EmptySet DEF UuidsLeft
<1>5. Sound(EmptyManifest, created, condemned, objects)
  BY DEF Sound, EmptyManifest
<1>6. RepoInv
  BY <1>5 DEF RepoInv, CasProtects, Listed, EmptyManifest
<1>7. \A r \in Request : RequestInv(r) /\ ~Creating(r)
  BY <1>5 DEF RequestInv, EtagInv, EntryInv, Creating, Deleting, InFlight
<1> QED
  BY <1>2, <1>4, <1>6, <1>7 DEF Inv, CreationsApart

\* Every step of the repository keeps the invariant.
LEMMA NextInv == Inv /\ [Next]_vars => Inv'
<1> SUFFICES ASSUME Inv, [Next]_vars PROVE Inv'
  OBVIOUS
<1>1. ASSUME NEW r \in Request, PlanRefused(r) \/ Fail(r) PROVE Inv'
  BY <1>1, ResetInv DEF PlanRefused, Fail
<1>2. CASE UNCHANGED vars
  <2>1. UNCHANGED <<manifest, etag, objects, pc, op, name, seen, seen_etag, entry, creates,
                    next_uuid, created, condemned, deleted, torn>>
    BY <1>2 DEF vars, repo, request, history
  <2>2. Forward /\ (\A s \in Request : SameRequest(s))
    BY <2>1 DEF Forward, SameRequest, Inv, UuidsLeft
  <2>3. \A s \in Request : RequestInv(s)'
    <3>1. \A s \in Request : Creating(s) => entry[s] \notin created'
      BY <2>1 DEF Inv, RequestInv, EntryInv
    <3> QED
      BY <2>2, <3>1, OtherRequest
  <2>4. RepoInv'
    BY <2>1, <2>2, SameManifest
  <2>5. Typed' /\ UuidsLeft' /\ CreationsApart'
    BY <2>1 DEF Inv, Typed, TypeOK, UuidsLeft, Pending, CreationsApart, Creating, InFlight
  <2> QED
    BY <2>3, <2>4, <2>5 DEF Inv
<1> QED
  BY <1>1, <1>2, GetManifestInv, ReadEtagInv, PlanCreateInv, PlanDeleteInv, TouchInv, CasInv
     DEF Next

\* The inductive invariant holds of every reachable state.
THEOREM InvHolds == Spec => []Inv
  BY InitInv, NextInv, PTL DEF Spec

\* The root manifest always names every snapshot once, each with its objects
\* unless a deletion went after them, however requests race, fail or tear
\* their reads of the manifest and its ETag.
THEOREM ManifestSoundHolds == Spec => []ManifestSound
<1>1. Inv => ManifestSound
  BY DEF Inv, Typed, RepoInv, Sound, Stored, ManifestSound, NamesUnique, ListedIsComplete,
     Listed, Complete
<1> QED
  BY <1>1, InvHolds, PTL

\* While no read was torn, the listed snapshots are those created and not
\* deleted: no acknowledged update is lost and no deleted snapshot returns.
THEOREM CasProtectsHolds == Spec => []CasProtects
<1>1. Inv => CasProtects
  BY DEF Inv, RepoInv
<1> QED
  BY <1>1, InvHolds, PTL

-----------------------------------------------------------------------------
(* Lifecycle management: the invariant next to the one of the repository.  *)

Day == Start .. End
Moment == [day : Day, sec : Nat]
LogEntry == [name : Day, ok : BOOLEAN, finished : Moment]
Stage == {"wake", "skip", "start", "create", "record", "list", "select", "prune", "pruning", "end"}
Job == [stage : Stage, policy : Policies, from : {"tick", "request"}, at : Moment, ok : BOOLEAN,
        uuid : Uuid \cup {0}, listed : SUBSET Name, prune : SUBSET Day]

SlmTyped ==
    /\ now \in Moment /\ registered \in BOOLEAN
    /\ policy \in Policies \cup {NoPolicy}
    /\ executions \in Seq(LogEntry)
    /\ taken \in Seq(Uuid)
    /\ job \in [Request -> Job \cup {NoJob}]
    /\ pruned \subseteq [uuid : Uuid, min_count : Nat]

\* A snapshot of this name was logged, and c others after it.
OldEnough(n, c) ==
    \E k \in DOMAIN taken : [name |-> n, uuid |-> taken[k]] \in created /\ Len(taken) - k >= c

\* What a job has asked of the repository, and what it will ask.
JobInv(r) ==
    /\ Active(r) /\ pc[r] # "idle" => job[r].stage \in {"create", "pruning"}
    /\ job[r].stage \in {"wake", "start"} => ~job[r].ok
    /\ job[r].stage = "create" => pc[r] # "idle" /\ op[r] = "create" /\ name[r] = job[r].at.day
    /\ job[r].stage = "record" /\ job[r].ok
          => [name |-> job[r].at.day, uuid |-> job[r].uuid] \in created
    /\ job[r].stage = "prune" => job[r].prune # {}
    /\ job[r].stage \in {"prune", "pruning"} =>
          \A n \in job[r].prune : OldEnough(n, job[r].policy.retention.min_count)
    /\ job[r].stage = "pruning" => /\ pc[r] # "idle" /\ op[r] = "delete"
                                   /\ OldEnough(name[r], job[r].policy.retention.min_count)

\* A request works on the snapshot it was asked for.
EntryNamed(r) == InFlight(r) => entry[r].name = name[r]

\* The successes in the log are snapshots that were logged, in that order:
\* at[k] is when.
LogInv ==
    \E at \in [DOMAIN executions -> 0 .. Len(taken)] :
        /\ \A k \in DOMAIN executions : executions[k].ok =>
              /\ at[k] \in DOMAIN taken
              /\ [name |-> executions[k].name, uuid |-> taken[at[k]]] \in created
        /\ \A j, k \in DOMAIN executions :
              j < k /\ executions[j].ok /\ executions[k].ok => at[j] < at[k]

SlmInv ==
    /\ SlmTyped
    /\ \A r \in Request : JobInv(r) /\ EntryNamed(r)
    /\ LogInv
    /\ RetentionKeepsNewest

-----------------------------------------------------------------------------
(* The clock.                                                              *)

LEMMA LeastOfSet ==
    ASSUME NEW S \in SUBSET Nat, S # {}
    PROVE  Least(S) \in S /\ \A x \in S : Least(S) <= x
  BY LeastNat DEF Least

\* An instant is on the day it is given for.
LEMMA InstantInDay ==
    ASSUME NEW d \in Nat, NEW s \in Nat, s < SecondsPerDay
    PROVE  Instant(d, s) = [day |-> d, sec |-> s]
<1>1. s \div 86400 = 0 /\ s % 86400 = s
  BY SMT DEF SecondsPerDay
<1> QED
  BY <1>1, SMT DEF Instant

LEMMA ClockTyped ==
    /\ First \in Times /\ First \in Moment
    /\ \A t \in Moment : Later(t).day <= End => Later(t) \in Moment
<1> USE SlmConstants
<1>1. Instants \subseteq Nat /\ Day \subseteq Nat
  BY DEF Day
<1>2. First \in Times
  <2> DEFINE m == Instant(Start, Least(Instants))
  <2>1. Least(Instants) \in Instants /\ \A x \in Instants : Least(Instants) <= x
    BY <1>1, LeastOfSet
  <2>2. m = [day |-> Start, sec |-> Least(Instants)] /\ m \in Times
    BY <2>1, InstantInDay DEF Times
  <2>3. \A x \in Times : NotAfter(m, x)
    <3> SUFFICES ASSUME NEW d \in Start .. End, NEW s \in Instants PROVE NotAfter(m, Instant(d, s))
      BY DEF Times
    <3>1. Instant(d, s) = [day |-> d, sec |-> s]
      BY InstantInDay
    <3>2. Least(Instants) <= s /\ Least(Instants) \in Nat /\ s \in Nat
      BY <1>1, <2>1
    <3> HIDE DEF m
    <3> QED
      BY <2>2, <3>1, <3>2 DEF NotAfter, Before
  <2> QED
    BY <2>2, <2>3 DEF First
<1>3. Times \subseteq Moment
  BY InstantInDay DEF Times, Moment, Day
<1>4. ASSUME NEW t \in Moment, Later(t).day <= End PROVE Later(t) \in Moment
  <2> DEFINE today == {s \in Instants : s > t.sec}
  <2>1. t.day \in Day /\ t.day \in Nat /\ t.day + 1 \in Nat /\ t.sec \in Nat
    <3>1. t.day \in Day /\ t.sec \in Nat
      BY DEF Moment
    <3>2. t.day \in Nat
      BY <1>1, <3>1
    <3> QED
      BY <3>1, <3>2
  <2>2. CASE today # {}
    <3>1. Least(today) \in Nat /\ Least(today) < SecondsPerDay
      <4>1. today \in SUBSET Nat
        BY <1>1
      <4> QED
        BY <2>2, <4>1, LeastOfSet
    <3>2. Later(t) = [day |-> t.day, sec |-> Least(today)]
      BY <2>1, <2>2, <3>1, InstantInDay DEF Later
    <3> QED
      BY <2>1, <3>1, <3>2 DEF Moment
  <2>3. CASE today = {}
    <3>1. Least(Instants) \in Nat /\ Least(Instants) < SecondsPerDay
      BY <1>1, LeastOfSet
    <3>2. Later(t) = [day |-> t.day + 1, sec |-> Least(Instants)]
      BY <2>1, <2>3, <3>1, InstantInDay DEF Later
    <3>3. t.day + 1 \in Day
      BY <1>4, <2>1, <3>2 DEF Day
    <3> QED
      BY <3>1, <3>2, <3>3 DEF Moment
  <2> QED
    BY <2>2, <2>3
<1> QED
  BY <1>2, <1>3, <1>4

-----------------------------------------------------------------------------
(* What the log was told of only grows.                                    *)

Grows ==
    /\ created \subseteq created'
    /\ taken' = taken \/ \E u \in Uuid : taken' = Append(taken, u)

LEMMA TakenGrows ==
    ASSUME SlmTyped, Grows
    PROVE  /\ taken' \in Seq(Uuid) /\ Len(taken) \in Nat /\ Len(taken') \in Nat
           /\ Len(taken) <= Len(taken')
           /\ DOMAIN taken \subseteq DOMAIN taken' /\ DOMAIN taken \subseteq Nat
           /\ \A k \in DOMAIN taken : taken'[k] = taken[k]
<1>1. taken \in Seq(Uuid)
  BY DEF SlmTyped
<1>2. Len(taken) \in Nat /\ DOMAIN taken = 1 .. Len(taken)
  BY <1>1, LenProperties
<1>3. ASSUME NEW u \in Uuid, taken' = Append(taken, u)
      PROVE  /\ taken' \in Seq(Uuid) /\ Len(taken') = Len(taken) + 1
             /\ DOMAIN taken' = 1 .. (Len(taken) + 1)
             /\ \A k \in DOMAIN taken : taken'[k] = taken[k]
  BY <1>1, <1>2, <1>3, AppendProperties
<1>4. CASE taken' = taken
  BY <1>1, <1>2, <1>4
<1>5. ASSUME NEW u \in Uuid, taken' = Append(taken, u)
      PROVE  /\ Len(taken) <= Len(taken') /\ Len(taken') \in Nat
             /\ DOMAIN taken \subseteq DOMAIN taken'
  BY <1>2, <1>3, <1>5
<1> QED
  BY <1>2, <1>3, <1>4, <1>5 DEF Grows

LEMMA OldStays ==
    ASSUME SlmTyped, Grows, NEW n, NEW c \in Nat, OldEnough(n, c)
    PROVE  OldEnough(n, c)'
<1>1. PICK k \in DOMAIN taken : /\ [name |-> n, uuid |-> taken[k]] \in created
                                /\ Len(taken) - k >= c
  BY DEF OldEnough
<1>2. /\ k \in DOMAIN taken' /\ taken'[k] = taken[k] /\ k \in Nat
      /\ Len(taken) \in Nat /\ Len(taken') \in Nat /\ Len(taken) <= Len(taken')
  BY TakenGrows
<1>3. Len(taken') - k >= c
  BY <1>1, <1>2
<1>4. [name |-> n, uuid |-> taken'[k]] \in created'
  BY <1>1, <1>2 DEF Grows
<1> QED
  BY <1>2, <1>3, <1>4 DEF OldEnough

LEMMA LogStays ==
    ASSUME SlmTyped, Grows, LogInv, executions' = executions
    PROVE  LogInv'
<1>1. PICK at \in [DOMAIN executions -> 0 .. Len(taken)] :
        /\ \A k \in DOMAIN executions : executions[k].ok =>
              /\ at[k] \in DOMAIN taken
              /\ [name |-> executions[k].name, uuid |-> taken[at[k]]] \in created
        /\ \A j, k \in DOMAIN executions :
              j < k /\ executions[j].ok /\ executions[k].ok => at[j] < at[k]
  BY DEF LogInv
<1>2. /\ Len(taken) \in Nat /\ Len(taken') \in Nat /\ Len(taken) <= Len(taken')
      /\ DOMAIN taken \subseteq DOMAIN taken'
      /\ \A k \in DOMAIN taken : taken'[k] = taken[k]
  BY TakenGrows
<1>3. at \in [DOMAIN executions' -> 0 .. Len(taken')]
  BY <1>2
<1>4. \A k \in DOMAIN executions : executions[k].ok =>
         /\ at[k] \in DOMAIN taken'
         /\ [name |-> executions[k].name, uuid |-> taken'[at[k]]] \in created'
  BY <1>1, <1>2 DEF Grows
<1> QED
  BY <1>1, <1>3, <1>4 DEF LogInv

\* Reuse of a name is not undone.
LEMMA RetentionStays ==
    ASSUME SlmTyped, Grows, RetentionKeepsNewest, pruned' = pruned
    PROVE  RetentionKeepsNewest'
<1> SUFFICES ASSUME \A e, f \in created' : e.name = f.name => e = f PROVE MinCountProtects'
  BY DEF RetentionKeepsNewest
<1>1. MinCountProtects
  BY DEF RetentionKeepsNewest, Grows
<1> SUFFICES ASSUME NEW x \in pruned
             PROVE  \E k \in DOMAIN taken' : taken'[k] = x.uuid /\ Len(taken') - k >= x.min_count
  BY DEF MinCountProtects
<1>0. x.min_count \in Nat
  BY DEF SlmTyped
<1>2. PICK k \in DOMAIN taken : taken[k] = x.uuid /\ Len(taken) - k >= x.min_count
  BY <1>1 DEF MinCountProtects
<1>3. /\ k \in DOMAIN taken' /\ taken'[k] = taken[k] /\ k \in Nat
      /\ Len(taken) \in Nat /\ Len(taken') \in Nat /\ Len(taken) <= Len(taken')
  BY TakenGrows
<1> QED
  BY <1>0, <1>2, <1>3

-----------------------------------------------------------------------------
(* The steps of the repository, as a job sees them.                        *)

\* A request keeps its operation and its name to its end, and only a
\* compare-and-set ends in an acknowledgement.
LEMMA RepoStepFacts ==
    ASSUME Inv, NEW r \in Request, RepoStep(r), EntryNamed(r)
    PROVE  /\ pc[r] # "idle"
           /\ \A s \in Request \ {r} : SameRequest(s)
           /\ created \subseteq created'
           /\ pc'[r] # "idle" => /\ op'[r] = op[r] /\ name'[r] = name[r] /\ EntryNamed(r)'
                                 /\ created' = created /\ deleted' = deleted
           /\ EntryNamed(r)'
           /\ created' # created => /\ op[r] = "create" /\ InFlight(r)
                                    /\ created' = created \cup {entry[r]}
           /\ deleted' # deleted => op[r] = "delete" /\ InFlight(r)
<1>1. /\ pc \in [Request -> {"idle", "etag", "plan", "payload", "summary", "cas"}]
      /\ op \in [Request -> {"create", "delete"}] /\ name \in [Request -> Name \cup {Absent}]
      /\ seen \in [Request -> Manifest] /\ seen_etag \in [Request -> Nat \cup {Absent}]
      /\ entry \in [Request -> Entry \cup {Absent}]
  BY DEF Inv, Typed, TypeOK
<1>2. CASE ReadEtag(r)
  BY <1>1, <1>2 DEF ReadEtag, Goto, SameRequest, EntryNamed, InFlight
<1>3. CASE PlanCreate(r)
  <2>1. /\ pc' = [pc EXCEPT ![r] = "payload"] /\ pc[r] = "plan"
        /\ entry' = [entry EXCEPT ![r] = [name |-> name[r], uuid |-> next_uuid]]
        /\ UNCHANGED <<op, name, seen_etag, created, deleted>>
        /\ seen' = seen \/ \E i : seen' = [seen EXCEPT ![r].index_uuid = i]
    BY <1>3 DEF PlanCreate, Goto
  <2>2. \A s \in Request \ {r} : seen'[s] = seen[s]
    BY <1>1, <2>1
  <2> QED
    BY <1>1, <2>1, <2>2 DEF SameRequest, EntryNamed, InFlight
<1>4. CASE PlanDelete(r)
  <2>1. PICK e \in Named(r) : entry' = [entry EXCEPT ![r] = e]
    BY <1>4 DEF PlanDelete
  <2>2. e.name = name[r]
    BY <2>1 DEF Named
  <2>3. /\ pc' = [pc EXCEPT ![r] = "payload"] /\ pc[r] = "plan"
        /\ UNCHANGED <<op, name, seen, seen_etag, created, deleted>>
    BY <1>4 DEF PlanDelete, Goto
  <2> QED
    BY <1>1, <2>1, <2>2, <2>3 DEF SameRequest, EntryNamed, InFlight
<1>5. CASE PlanRefused(r) \/ Fail(r)
  <2>1. Reset(r) /\ pc[r] # "idle" /\ UNCHANGED <<created, deleted>>
    BY <1>5 DEF PlanRefused, Fail, history
  <2> QED
    BY <1>1, <2>1 DEF Reset, SameRequest, EntryNamed, InFlight
<1>6. CASE TouchPayload(r) \/ TouchSummary(r)
  <2>1. /\ pc[r] \in {"payload", "summary"}
        /\ pc' = [pc EXCEPT ![r] = "summary"] \/ pc' = [pc EXCEPT ![r] = "cas"]
        /\ UNCHANGED <<op, name, seen, seen_etag, entry, created, deleted>>
    BY <1>6 DEF TouchPayload, TouchSummary, Goto, request, history
  <2> QED
    BY <1>1, <2>1 DEF SameRequest, EntryNamed, InFlight
<1>7. CASE compare_and_set(r)
  <2>1. /\ pc[r] = "cas" /\ Reset(r)
        /\ created' = created \/ (op[r] = "create" /\ created' = created \cup {entry[r]})
        /\ deleted' = deleted \/ op[r] = "delete"
    BY <1>7 DEF compare_and_set, history
  <2>2. \A s \in Request \ {r} : SameRequest(s)
    BY <1>1, <2>1 DEF Reset, SameRequest
  <2>3. pc'[r] = "idle"
    BY <1>1, <2>1 DEF Reset
  <2> QED
    BY <2>1, <2>2, <2>3 DEF EntryNamed, InFlight
<1> QED
  BY <1>2, <1>3, <1>4, <1>5, <1>6, <1>7 DEF RepoStep

\* A request that starts.
LEMMA GetManifestFacts ==
    ASSUME Inv, NEW r \in Request, NEW o \in {"create", "delete"}, NEW n \in Name,
           GetManifest(r, o, n)
    PROVE  /\ pc[r] = "idle" /\ pc'[r] # "idle" /\ op'[r] = o /\ name'[r] = n
           /\ EntryNamed(r)'
           /\ \A s \in Request \ {r} : SameRequest(s)
           /\ UNCHANGED <<created, deleted>>
<1>1. /\ pc \in [Request -> {"idle", "etag", "plan", "payload", "summary", "cas"}]
      /\ op \in [Request -> {"create", "delete"}] /\ name \in [Request -> Name \cup {Absent}]
      /\ seen \in [Request -> Manifest]
  BY DEF Inv, Typed, TypeOK
<1> QED
  BY <1>1 DEF GetManifest, Goto, SameRequest, EntryNamed, InFlight

\* A request that does not move keeps what is known of its job.
LEMMA OtherJob ==
    ASSUME SlmTyped, Grows, NEW s \in Request, SameRequest(s), job'[s] = job[s],
           JobInv(s), EntryNamed(s)
    PROVE  JobInv(s)' /\ EntryNamed(s)'
<1>1. EntryNamed(s)'
  BY DEF EntryNamed, InFlight, SameRequest
<1>2. Active(s)' = Active(s)
  BY DEF Active
<1>3. job[s].stage \in {"prune", "pruning"} => job[s].policy.retention.min_count \in Nat
  <2> SUFFICES ASSUME job[s].stage \in {"prune", "pruning"}
               PROVE  job[s].policy.retention.min_count \in Nat
    OBVIOUS
  <2>1. job[s] \in Job
    BY DEF SlmTyped, NoJob
  <2> QED
    BY <2>1, SlmConstants DEF Job
<1>4. ASSUME job[s].stage \in {"prune", "pruning"}, NEW n,
             OldEnough(n, job[s].policy.retention.min_count)
      PROVE  OldEnough(n, job[s].policy.retention.min_count)'
  <2>1. PICK c \in Nat : c = job[s].policy.retention.min_count
    BY <1>3, <1>4
  <2>2. OldEnough(n, c)'
    BY <1>4, <2>1, OldStays
  <2> QED
    BY <2>1, <2>2 DEF OldEnough
<1>5. /\ job[s].stage \in {"prune", "pruning"} =>
            \A n \in job[s].prune : OldEnough(n, job[s].policy.retention.min_count)'
      /\ job[s].stage = "pruning" => OldEnough(name[s], job[s].policy.retention.min_count)'
  <2>1. name'[s] = name[s]
    BY DEF SameRequest
  <2>2. ASSUME job[s].stage = "pruning"
        PROVE  OldEnough(name[s], job[s].policy.retention.min_count)'
    <3>1. PICK n : n = name[s]
      OBVIOUS
    <3>2. OldEnough(n, job[s].policy.retention.min_count)'
      BY <1>4, <2>2, <3>1 DEF JobInv
    <3> QED
      BY <2>1, <3>1, <3>2 DEF OldEnough
  <2> QED
    BY <1>4, <2>2 DEF JobInv
<1>6. JobInv(s)'
  BY <1>2, <1>5 DEF JobInv, SameRequest, Grows
<1> QED
  BY <1>1, <1>6

-----------------------------------------------------------------------------
(* The steps.                                                              *)

\* A step of one request: the others stay where they are.
LEMMA OneJob ==
    ASSUME SlmInv, Grows, NEW r \in Request,
           \A s \in Request \ {r} : SameRequest(s) /\ job'[s] = job[s],
           SlmTyped', JobInv(r)', EntryNamed(r)', LogInv', RetentionKeepsNewest'
    PROVE  SlmInv'
<1>1. ASSUME NEW s \in Request \ {r} PROVE JobInv(s)' /\ EntryNamed(s)'
  BY <1>1, OtherJob DEF SlmInv
<1> QED
  BY <1>1 DEF SlmInv

\* What a step without acknowledgement leaves of the log and of retention.
LEMMA QuietStep ==
    ASSUME SlmInv, UNCHANGED <<created, taken, pruned, executions>>
    PROVE  Grows /\ LogInv' /\ RetentionKeepsNewest'
<1>1. Grows
  BY DEF Grows
<1> QED
  BY <1>1, LogStays, RetentionStays DEF SlmInv

LEMMA SameRequests ==
    ASSUME UNCHANGED vars
    PROVE  /\ \A s \in Request : SameRequest(s)
           /\ UNCHANGED <<created, deleted>>
           /\ \A s \in Request : EntryNamed(s) => EntryNamed(s)'
<1>1. UNCHANGED <<pc, op, name, seen, seen_etag, entry, created, deleted>>
  BY DEF vars, request, history
<1> QED
  BY <1>1 DEF SameRequest, EntryNamed, InFlight

\* The clock, the registries, and a tick that finds nothing due.
LEMMA RegistryStep ==
    ASSUME SlmInv, UNCHANGED <<vars, job, taken, pruned>>,
           executions' = executions \/ executions' = <<>>,
           now' \in Moment, registered' \in BOOLEAN, policy' \in Policies \cup {NoPolicy}
    PROVE  SlmInv'
<1>1. /\ \A s \in Request : SameRequest(s) /\ job'[s] = job[s]
      /\ created' = created /\ Grows
  BY SameRequests DEF Grows
<1>2. SlmTyped'
  <2>1. executions' \in Seq(LogEntry)
    BY EmptySeq DEF SlmInv, SlmTyped
  <2> QED
    BY <2>1 DEF SlmInv, SlmTyped
<1>3. \A s \in Request : JobInv(s)' /\ EntryNamed(s)'
  BY <1>1, OtherJob DEF SlmInv
<1>4. LogInv'
  <2>1. CASE executions' = executions
    BY <1>1, <2>1, LogStays DEF SlmInv
  <2>2. CASE executions' = <<>>
    <3> DEFINE at == [k \in {} |-> 0]
    <3>1. DOMAIN executions' = {} /\ at \in [DOMAIN executions' -> 0 .. Len(taken')]
      BY <2>2
    <3> QED
      BY <3>1 DEF LogInv
  <2> QED
    BY <2>1, <2>2
<1>5. RetentionKeepsNewest'
  BY <1>1, RetentionStays DEF SlmInv
<1> QED
  BY <1>2, <1>3, <1>4, <1>5 DEF SlmInv

\* A job moves on without the repository.
LEMMA JobStep ==
    ASSUME SlmInv, NEW r \in Request, NEW j \in Job \cup {NoJob}, SetJob(r, j),
           UNCHANGED <<vars, now, registered, policy, executions, taken, pruned>>,
           JobInv(r)'
    PROVE  SlmInv'
<1>1. /\ \A s \in Request : SameRequest(s)
      /\ \A s \in Request \ {r} : job'[s] = job[s]
      /\ created' = created /\ EntryNamed(r)'
  BY SameRequests DEF SlmInv, SlmTyped, SetJob
<1>2. Grows /\ LogInv' /\ RetentionKeepsNewest'
  BY <1>1, QuietStep
<1>3. SlmTyped'
  BY DEF SlmInv, SlmTyped, SetJob
<1> QED
  BY <1>1, <1>2, <1>3, OneJob

\* A job that has not come to the repository, or has left it.
LEMMA PlainJob ==
    ASSUME NEW r \in Request, pc'[r] = "idle",
           job'[r].stage \in {"none", "list", "select", "end"}
    PROVE  JobInv(r)'
  BY DEF JobInv, Active

LEMMA ExecutionIs ==
    ASSUME SlmTyped, policy # NoPolicy, NEW from \in {"tick", "request"}
    PROVE  /\ Execution(policy, from, now) \in Job
           /\ Execution(policy, from, now).stage = "start" /\ ~Execution(policy, from, now).ok
           /\ Execution(policy, from, now).from = from /\ Execution(policy, from, now).at = now
           /\ Execution(policy, from, now).policy = policy
<1>1. policy \in Policies /\ now \in Moment
  BY DEF SlmTyped
<1> QED
  BY <1>1 DEF Execution, Job, Stage

\* A job that is started, or about to be.
LEMMA StartJob ==
    ASSUME SlmInv, NEW r \in Request, pc[r] = "idle", NEW j \in Job, ~j.ok,
           j.stage \in {"wake", "skip", "start"}, SetJob(r, j),
           UNCHANGED <<vars, now, registered, policy, executions, taken, pruned>>
    PROVE  SlmInv'
<1>1. job'[r] = j /\ pc'[r] = "idle"
  BY DEF SlmInv, SlmTyped, SetJob, vars
<1>2. JobInv(r)'
  BY <1>1 DEF JobInv
<1> QED
  BY <1>2, JobStep

LEMMA DecideStep ==
    ASSUME SlmInv, pc[Scheduler] = "idle", NEW e \in Job, ~e.ok, NEW fire, Decide(e, fire),
           UNCHANGED <<vars, now, registered, policy, executions, taken, pruned>>
    PROVE  SlmInv'
<1>1. PICK g \in {"start", "skip"} : SetJob(Scheduler, [e EXCEPT !.stage = g])
  BY DEF Decide
<1>2. [e EXCEPT !.stage = g] \in Job /\ [e EXCEPT !.stage = g].stage = g /\ ~[e EXCEPT !.stage = g].ok
  BY DEF Job, Stage
<1>3. Scheduler \in Request
  BY SlmConstants
<1> QED
  BY <1>1, <1>2, <1>3, StartJob

LEMMA TickStep == ASSUME SlmInv, Tick PROVE SlmInv'
<1> DEFINE e == Execution(policy, "tick", now)
<1>1. /\ pc[Scheduler] = "idle" /\ policy # NoPolicy
      /\ UNCHANGED <<vars, now, registered, policy, executions, taken, pruned>>
      /\ Scheduler \in Request
  BY SlmConstants DEF Tick
<1>2. e \in Job /\ ~e.ok
  BY <1>1, ExecutionIs DEF SlmInv
<1>3. Decide(e, next_fire) \/ SetJob(Scheduler, [e EXCEPT !.stage = "wake"])
  BY DEF Tick
<1> HIDE DEF e
<1>4. CASE Decide(e, next_fire)
  BY <1>1, <1>2, <1>4, DecideStep
<1>5. CASE SetJob(Scheduler, [e EXCEPT !.stage = "wake"])
  <2>1. [e EXCEPT !.stage = "wake"] \in Job /\ [e EXCEPT !.stage = "wake"].stage = "wake"
        /\ ~[e EXCEPT !.stage = "wake"].ok
    BY <1>2 DEF Job, Stage
  <2> QED
    BY <1>1, <1>5, <2>1, StartJob
<1> QED
  BY <1>3, <1>4, <1>5

LEMMA LookBackStep == ASSUME SlmInv, LookBack PROVE SlmInv'
<1>1. /\ job[Scheduler].stage = "wake" /\ Scheduler \in Request
      /\ Decide(job[Scheduler], FireOf(job[Scheduler]))
      /\ UNCHANGED <<vars, now, registered, policy, executions, taken, pruned>>
  BY SlmConstants DEF LookBack
<1>2. job[Scheduler] \in Job
  BY <1>1 DEF SlmInv, SlmTyped, NoJob
<1>3. ~job[Scheduler].ok /\ pc[Scheduler] = "idle"
  BY <1>1 DEF SlmInv, JobInv, Active
<1> QED
  BY <1>1, <1>2, <1>3, DecideStep

LEMMA SkipTickStep == ASSUME SlmInv, SkipTick PROVE SlmInv'
<1>1. /\ job[Scheduler].stage = "skip" /\ SetJob(Scheduler, NoJob) /\ Scheduler \in Request
      /\ UNCHANGED <<vars, now, registered, policy, executions, taken, pruned>>
  BY SlmConstants DEF SkipTick
<1>2. pc[Scheduler] = "idle"
  BY <1>1 DEF SlmInv, JobInv, Active
<1>3. job'[Scheduler] = NoJob /\ pc'[Scheduler] = "idle" /\ NoJob.stage = "none"
  BY <1>1, <1>2 DEF SlmInv, SlmTyped, SetJob, vars, NoJob
<1>4. JobInv(Scheduler)'
  BY <1>1, <1>3, PlainJob
<1> QED
  BY <1>1, <1>4, JobStep

LEMMA ExecuteStep == ASSUME SlmInv, NEW r \in Request, Execute(r) PROVE SlmInv'
<1>1. /\ pc[r] = "idle" /\ policy # NoPolicy /\ SetJob(r, Execution(policy, "request", now))
      /\ UNCHANGED <<vars, now, registered, policy, executions, taken, pruned>>
  BY DEF Execute, slm
<1>2. /\ Execution(policy, "request", now) \in Job /\ ~Execution(policy, "request", now).ok
      /\ Execution(policy, "request", now).stage = "start"
  BY <1>1, ExecutionIs DEF SlmInv
<1> QED
  BY <1>1, <1>2, StartJob

LEMMA ListStep == ASSUME Inv, SlmInv, NEW r \in Request, List(r) PROVE SlmInv'
<1> DEFINE j == [job[r] EXCEPT !.stage = "select", !.listed = {e.name : e \in manifest.snapshots}]
<1>1. /\ job[r].stage = "list" /\ SetJob(r, j)
      /\ UNCHANGED <<vars, now, registered, policy, executions, taken, pruned>>
  BY DEF List, slm, slm_history
<1>2. job[r] \in Job /\ pc[r] = "idle"
  <2>1. job[r] \in Job
    BY <1>1 DEF SlmInv, SlmTyped, NoJob
  <2>2. JobInv(r) /\ Active(r)
    BY <1>1 DEF SlmInv, Active
  <2> QED
    BY <1>1, <2>1, <2>2 DEF JobInv
<1>3. {e.name : e \in manifest.snapshots} \in SUBSET Name
  <2>1. manifest.snapshots \subseteq Entry
    BY DEF Inv, Typed, TypeOK, Manifest
  <2> QED
    BY <2>1 DEF Entry
<1>4. j \in Job /\ j.stage = "select"
  BY <1>2, <1>3 DEF Job, Stage
<1>5. job'[r] = j /\ pc'[r] = "idle"
  BY <1>1, <1>2 DEF SlmInv, SlmTyped, SetJob, vars
<1>6. JobInv(r)'
  BY <1>4, <1>5, PlainJob
<1> QED
  BY <1>1, <1>4, <1>6, JobStep

LEMMA EndJobStep == ASSUME SlmInv, NEW r \in Request, EndJob(r) PROVE SlmInv'
<1>1. /\ job[r].stage = "end" /\ SetJob(r, NoJob)
      /\ UNCHANGED <<vars, now, registered, policy, executions, taken, pruned>>
  BY DEF EndJob
<1>2. pc[r] = "idle"
  BY <1>1 DEF SlmInv, JobInv, Active
<1>3. job'[r] = NoJob /\ pc'[r] = "idle" /\ NoJob.stage = "none"
  BY <1>1, <1>2 DEF SlmInv, SlmTyped, SetJob, vars, NoJob
<1>4. JobInv(r)'
  BY <1>3, PlainJob
<1> QED
  BY <1>1, <1>4, JobStep

\* Retention leaves min_count of the snapshots that were logged later.
LEMMA PrunedAreOld ==
    ASSUME SlmInv, NEW ret, ret.min_count \in Nat, ret.max_count \in Nat \cup {-1},
           NEW listed, NEW n \in Pruned(ret, executions, listed)
    PROVE  n \in Day /\ OldEnough(n, ret.min_count)
<1> DEFINE done == Successful(executions, listed)
<1>1. \A k \in done : Newer(done, k) >= keep_count(ret) /\ ret.max_count # -1
                      => Newer(done, k) >= ret.min_count
  <2> SUFFICES ASSUME NEW k \in done, Newer(done, k) >= keep_count(ret), ret.max_count # -1
               PROVE  Newer(done, k) >= ret.min_count
    OBVIOUS
  <2>1. DOMAIN executions = 1 .. Len(executions) /\ Len(executions) \in Nat
    BY LenProperties DEF SlmInv, SlmTyped
  <2>2. {j \in done : j > k} \in SUBSET (1 .. Len(executions))
    BY <2>1 DEF Successful
  <2>3. Newer(done, k) \in Nat
    <3>1. IsFiniteSet(1 .. Len(executions))
      BY <2>1, FS_Interval
    <3>2. IsFiniteSet({j \in done : j > k})
      BY <2>2, <3>1, FS_Subset
    <3> QED
      BY <3>2, FS_CardinalityType DEF Newer
  <2>4. keep_count(ret) \in Nat /\ keep_count(ret) >= ret.min_count
    BY DEF keep_count, Larger
  <2> HIDE DEF done
  <2> QED
    BY <2>3, <2>4
<1>2. PICK k \in done : n = executions[k].name /\ Newer(done, k) >= ret.min_count
  BY <1>1 DEF Pruned
<1>3. PICK at \in [DOMAIN executions -> 0 .. Len(taken)] :
        /\ \A i \in DOMAIN executions : executions[i].ok =>
              /\ at[i] \in DOMAIN taken
              /\ [name |-> executions[i].name, uuid |-> taken[at[i]]] \in created
        /\ \A i, j \in DOMAIN executions :
              i < j /\ executions[i].ok /\ executions[j].ok => at[i] < at[j]
  BY DEF SlmInv, LogInv
<1>4. /\ DOMAIN executions = 1 .. Len(executions) /\ Len(executions) \in Nat
      /\ DOMAIN taken = 1 .. Len(taken) /\ Len(taken) \in Nat
      /\ \A i \in DOMAIN executions : executions[i] \in LogEntry
  BY LenProperties, ElementOfSeq DEF SlmInv, SlmTyped
<1>5. /\ done \subseteq DOMAIN executions /\ k \in DOMAIN executions
      /\ \A i \in done : executions[i].ok /\ i \in Nat
  BY <1>2, <1>4 DEF Successful
<1> HIDE DEF done
<1> DEFINE later == {j \in done : j > k}
           places == (at[k] + 1) .. Len(taken)
           f == [j \in later |-> at[j]]
<1>6. at[k] \in DOMAIN taken /\ at[k] \in Nat /\ at[k] <= Len(taken)
  <2>1. at[k] \in DOMAIN taken
    BY <1>2, <1>3, <1>5
  <2> QED
    BY <1>4, <2>1
<1>7. \A j \in later : at[j] \in places
  <2> SUFFICES ASSUME NEW j \in later PROVE at[j] \in places
    OBVIOUS
  <2>1. at[j] \in DOMAIN taken /\ at[k] < at[j]
    BY <1>2, <1>3, <1>4, <1>5
  <2> QED
    BY <1>4, <1>6, <2>1
<1>8. \A i, j \in later : at[i] = at[j] => i = j
  <2> SUFFICES ASSUME NEW i \in later, NEW j \in later, i # j PROVE at[i] # at[j]
    OBVIOUS
  <2>1. i \in Nat /\ j \in Nat /\ (i < j \/ j < i) /\ executions[i].ok /\ executions[j].ok
        /\ i \in DOMAIN executions /\ j \in DOMAIN executions
    BY <1>5
  <2>2. at[i] < at[j] \/ at[j] < at[i]
    BY <1>3, <2>1
  <2>3. at[i] \in Nat /\ at[j] \in Nat
    BY <1>4, <1>6, <1>7
  <2> QED
    BY <2>2, <2>3
<1> HIDE DEF later, places
<1>9. f \in Injection(later, places)
  BY <1>7, <1>8 DEF Injection, IsInjective
<1>10. /\ IsFiniteSet(places) /\ Cardinality(places) = Len(taken) - at[k]
  <2>1. PICK a \in Int, b \in Int : a = at[k] + 1 /\ b = Len(taken)
    <3>1. at[k] + 1 \in Int
      BY <1>6
    <3>2. Len(taken) \in Int
      BY <1>4
    <3> QED
      BY <3>1, <3>2
  <2>2. places = a .. b
    BY <2>1 DEF places
  <2>3. IsFiniteSet(a .. b) /\ Cardinality(a .. b) = IF a > b THEN 0 ELSE b - a + 1
    BY FS_Interval
  <2>4. (IF a > b THEN 0 ELSE b - a + 1) = Len(taken) - at[k]
    BY <1>4, <1>6, <2>1
  <2> QED
    BY <2>2, <2>3, <2>4
<1>11. /\ Cardinality(later) <= Len(taken) - at[k] /\ IsFiniteSet(later)
  BY <1>9, <1>10, FS_Injection
<1>12. Cardinality(later) >= ret.min_count /\ Cardinality(later) \in Nat
  BY <1>2, <1>11, FS_CardinalityType DEF Newer, later
<1>13. Len(taken) - at[k] >= ret.min_count
  BY <1>4, <1>6, <1>11, <1>12
<1>14. n \in Day /\ [name |-> n, uuid |-> taken[at[k]]] \in created
  BY <1>2, <1>3, <1>4, <1>5 DEF LogEntry
<1> QED
  BY <1>6, <1>13, <1>14 DEF OldEnough

LEMMA SelectStep == ASSUME SlmInv, NEW r \in Request, Select(r) PROVE SlmInv'
<1> DEFINE ret == job[r].policy.retention
           names == Pruned(ret, executions, job[r].listed)
           j == [job[r] EXCEPT !.stage = IF names = {} THEN "end" ELSE "prune", !.prune = names]
<1>1. /\ job[r].stage = "select" /\ SetJob(r, j)
      /\ UNCHANGED <<vars, now, registered, policy, executions, taken, pruned>>
  BY DEF Select, slm, slm_history
<1>2. job[r] \in Job /\ pc[r] = "idle"
  <2>1. job[r] \in Job
    BY <1>1 DEF SlmInv, SlmTyped, NoJob
  <2>2. JobInv(r) /\ Active(r)
    BY <1>1 DEF SlmInv, Active
  <2> QED
    BY <1>1, <2>1, <2>2 DEF JobInv
<1>3. ret.min_count \in Nat /\ ret.max_count \in Nat \cup {-1}
  BY <1>2, SlmConstants DEF Job
<1>4. \A n \in names : n \in Day /\ OldEnough(n, ret.min_count)
  <2> SUFFICES ASSUME NEW n \in names PROVE n \in Day /\ OldEnough(n, ret.min_count)
    OBVIOUS
  <2>1. PICK R, L : R = ret /\ L = job[r].listed
    OBVIOUS
  <2> HIDE DEF ret
  <2> QED
    BY <1>3, <2>1, PrunedAreOld
<1> HIDE DEF names
<1>5. /\ j \in Job /\ j.prune = names /\ j.policy = job[r].policy
      /\ j.stage = IF names = {} THEN "end" ELSE "prune"
  BY <1>2, <1>4 DEF Job, Stage
<1> HIDE DEF j
<1>6. job'[r] = j /\ pc'[r] = "idle" /\ UNCHANGED <<taken, created>>
  BY <1>1, <1>2 DEF SlmInv, SlmTyped, SetJob, vars, history
<1>7. JobInv(r)'
  <2>1. CASE names = {}
    BY <1>5, <1>6, <2>1, PlainJob
  <2>2. CASE names # {}
    <3>1. \A n \in names : OldEnough(n, job[r].policy.retention.min_count)'
      BY <1>4, <1>5, <1>6 DEF OldEnough
    <3> QED
      BY <1>5, <1>6, <2>2, <3>1 DEF JobInv
  <2> QED
    BY <2>1, <2>2
<1> QED
  BY <1>1, <1>5, <1>7, JobStep

\* A job goes to the repository.
LEMMA AskStep ==
    ASSUME Inv, SlmInv, NEW r \in Request, NEW o \in {"create", "delete"}, NEW n \in Name,
           GetManifest(r, o, n), NEW j \in Job \cup {NoJob}, SetJob(r, j),
           UNCHANGED <<now, registered, policy, executions, taken, pruned>>,
           j.stage = "create" => o = "create" /\ n = j.at.day,
           j.stage = "pruning" => /\ o = "delete" /\ OldEnough(n, j.policy.retention.min_count)
                                  /\ \A m \in j.prune : OldEnough(m, j.policy.retention.min_count),
           j.stage \in {"none", "create", "pruning"}
    PROVE  SlmInv'
<1>1. /\ pc[r] = "idle" /\ pc'[r] # "idle" /\ op'[r] = o /\ name'[r] = n
      /\ EntryNamed(r)'
      /\ \A s \in Request \ {r} : SameRequest(s)
      /\ UNCHANGED <<created, deleted>>
  BY GetManifestFacts
<1>2. job'[r] = j /\ \A s \in Request \ {r} : job'[s] = job[s]
  BY DEF SlmInv, SlmTyped, SetJob
<1>3. Grows /\ LogInv' /\ RetentionKeepsNewest'
  BY <1>1, QuietStep
<1>4. SlmTyped'
  BY DEF SlmInv, SlmTyped, SetJob
<1>5. JobInv(r)'
  BY <1>1, <1>2 DEF JobInv, OldEnough, Active
<1> QED
  BY <1>1, <1>2, <1>3, <1>4, <1>5, OneJob

LEMMA StartStep == ASSUME Inv, SlmInv, NEW r \in Request, StartSnapshot(r) PROVE SlmInv'
<1>1. /\ job[r].stage = "start"
      /\ UNCHANGED <<now, registered, policy, executions, taken, pruned>>
  BY DEF StartSnapshot, slm, slm_history
<1>2. job[r] \in Job
  BY <1>1 DEF SlmInv, SlmTyped, NoJob
<1>3. job[r].at.day \in Name
  BY <1>2, SlmConstants DEF Job, Moment, Day
<1>4. CASE registered
  <2> DEFINE j == [job[r] EXCEPT !.stage = "create"]
  <2>1. GetManifest(r, "create", job[r].at.day) /\ SetJob(r, j)
    BY <1>4 DEF StartSnapshot
  <2>2. j \in Job /\ j.stage = "create" /\ j.at = job[r].at
    BY <1>2 DEF Job, Stage
  <2> HIDE DEF j
  <2> QED
    BY <1>1, <1>3, <2>1, <2>2, AskStep
<1>5. CASE ~registered
  <2> DEFINE j == [job[r] EXCEPT !.stage = "record"]
  <2>1. UNCHANGED vars /\ SetJob(r, j)
    BY <1>5 DEF StartSnapshot
  <2>2. j \in Job /\ j.stage = "record" /\ j.ok = job[r].ok
    BY <1>2 DEF Job, Stage
  <2>3. job'[r] = j /\ pc'[r] = pc[r]
    BY <2>1 DEF SlmInv, SlmTyped, SetJob, vars
  <2>4. pc[r] = "idle" /\ ~job[r].ok
    <3>1. JobInv(r) /\ Active(r)
      BY <1>1 DEF SlmInv, Active
    <3> QED
      BY <1>1, <3>1 DEF JobInv
  <2> HIDE DEF j
  <2>5. JobInv(r)'
    BY <2>2, <2>3, <2>4 DEF JobInv
  <2> QED
    BY <1>1, <2>1, <2>2, <2>5, JobStep
<1> QED
  BY <1>4, <1>5

LEMMA PruneStep == ASSUME Inv, SlmInv, NEW r \in Request, Prune(r) PROVE SlmInv'
<1> DEFINE next == Least(job[r].prune)
           j == [job[r] EXCEPT !.stage = "pruning", !.prune = @ \ {next}]
<1>1. /\ job[r].stage = "prune" /\ GetManifest(r, "delete", next) /\ SetJob(r, j)
      /\ UNCHANGED <<now, registered, policy, executions, taken, pruned>>
  BY DEF Prune, slm, slm_history
<1>2. job[r] \in Job
  BY <1>1 DEF SlmInv, SlmTyped, NoJob
<1>3. /\ job[r].prune # {}
      /\ \A n \in job[r].prune : OldEnough(n, job[r].policy.retention.min_count)
  BY <1>1 DEF SlmInv, JobInv
<1>4. next \in job[r].prune /\ next \in Name
  <2>1. job[r].prune \subseteq Day /\ Day \subseteq Nat /\ Day \subseteq Name
    BY <1>2, SlmConstants DEF Job, Day
  <2>2. next \in job[r].prune
    BY <1>3, <2>1, LeastOfSet
  <2> QED
    BY <2>1, <2>2
<1> HIDE DEF next
<1>5. j \in Job /\ j.stage = "pruning" /\ j.policy = job[r].policy /\ j.prune \subseteq job[r].prune
  BY <1>2 DEF Job, Stage
<1> HIDE DEF j
<1> QED
  BY <1>1, <1>3, <1>4, <1>5, AskStep

LEMMA UserStep == ASSUME Inv, SlmInv, NEW r \in Request, UserRequest(r) PROVE SlmInv'
<1>1. PICK o \in {"create", "delete"}, n \in Name : GetManifest(r, o, n)
  BY DEF UserRequest
<1>2. /\ UNCHANGED <<now, registered, policy, executions, taken, pruned>>
      /\ job' = job /\ ~Active(r)
  BY DEF UserRequest, slm
<1>3. job[r] \in Job \cup {NoJob} /\ job[r].stage = "none"
  BY <1>2 DEF SlmInv, SlmTyped, Active
<1>4. SetJob(r, job[r])
  BY <1>2 DEF SetJob, SlmInv, SlmTyped
<1> QED
  BY <1>1, <1>2, <1>3, <1>4, AskStep

\* The log keeps the newest executions, the new one last.
LEMMA RecordedSeq ==
    ASSUME NEW log \in Seq(LogEntry), NEW e \in LogEntry
    PROVE  \E d \in 0 .. Len(log) :
              /\ record_execution(log, e) \in Seq(LogEntry)
              /\ Len(record_execution(log, e)) = Len(log) + 1 - d
              /\ \A i \in 1 .. (Len(log) + 1 - d) :
                    record_execution(log, e)[i] = IF i + d = Len(log) + 1 THEN e ELSE log[i + d]
<1> DEFINE q == Append(log, e)
           N == Len(log)
           c == EXECUTION_LOG_CAPACITY
<1>1. N \in Nat /\ c \in Nat \ {0} /\ DOMAIN log = 1 .. N
  BY LenProperties, SlmConstants
<1>2. /\ q \in Seq(LogEntry) /\ Len(q) = N + 1 /\ \A i \in 1 .. N : q[i] = log[i]
      /\ q[N + 1] = e
  BY AppendProperties
<1>3. record_execution(log, e) = IF N + 1 - c > 0 THEN SubSeq(q, N + 1 - c + 1, N + 1) ELSE q
  <2>1. record_execution(log, e)
        = IF Len(q) - c > 0 THEN SubSeq(q, (Len(q) - c) + 1, Len(q)) ELSE q
    BY DEF record_execution
  <2> HIDE DEF q, N, c
  <2> QED
    BY <1>1, <1>2, <2>1
<1> HIDE DEF q, N, c
<1>4. \A i \in 1 .. (N + 1) : q[i] = (IF i = N + 1 THEN e ELSE log[i]) /\ q[i] \in LogEntry
  BY <1>1, <1>2, ElementOfSeq
<1>5. CASE N + 1 - c > 0
  <2>1. PICK d \in 0 .. N : d = N + 1 - c
    BY <1>1, <1>5
  <2>2. d \in Nat /\ d + 1 \in Int /\ N + 1 \in Int /\ d + 1 <= N + 1
    BY <1>1, <2>1
  <2>3. \A i \in (d + 1) .. (N + 1) : q[i] \in LogEntry
    BY <1>1, <1>4, <2>2
  <2>4. record_execution(log, e) = SubSeq(q, d + 1, N + 1)
    BY <1>3, <1>5, <2>1
  <2>5. /\ SubSeq(q, d + 1, N + 1) \in Seq(LogEntry)
        /\ Len(SubSeq(q, d + 1, N + 1)) = (N + 1) - (d + 1) + 1
        /\ \A i \in 1 .. ((N + 1) - (d + 1) + 1) :
              SubSeq(q, d + 1, N + 1)[i] = q[(d + 1) + i - 1]
    BY <2>2, <2>3, SubSeqProperties
  <2>6. /\ (N + 1) - (d + 1) + 1 = N + 1 - d
        /\ \A i \in 1 .. (N + 1 - d) : (d + 1) + i - 1 = i + d /\ i + d \in 1 .. (N + 1)
    BY <1>1, <2>2
  <2>7. \A i \in 1 .. (N + 1 - d) :
           SubSeq(q, d + 1, N + 1)[i] = IF i + d = N + 1 THEN e ELSE log[i + d]
    BY <1>4, <2>5, <2>6
  <2> QED
    BY <2>4, <2>5, <2>6, <2>7 DEF N
<1>6. CASE ~(N + 1 - c > 0)
  <2>1. record_execution(log, e) = q
    BY <1>3, <1>6
  <2>2. 0 \in 0 .. N /\ N + 1 - 0 = N + 1 /\ \A i \in 1 .. (N + 1) : i + 0 = i
    BY <1>1
  <2>3. \A i \in 1 .. (N + 1 - 0) : q[i] = IF i + 0 = N + 1 THEN e ELSE log[i + 0]
    BY <1>4, <2>2
  <2> QED
    BY <1>2, <2>1, <2>2, <2>3 DEF N
<1> QED
  BY <1>5, <1>6

\* What the log is told of, once it was told of one more snapshot.
LEMMA TakenMore ==
    ASSUME SlmTyped, NEW u \in Uuid, taken' = Append(taken, u)
    PROVE  /\ taken' \in Seq(Uuid) /\ Len(taken') = Len(taken) + 1
           /\ \A k \in DOMAIN taken : taken'[k] = taken[k]
           /\ taken'[Len(taken) + 1] = u
<1>1. taken \in Seq(Uuid) /\ DOMAIN taken = 1 .. Len(taken)
  BY LenProperties DEF SlmTyped
<1> QED
  BY <1>1, AppendProperties

\* The log is written: a success is the last snapshot it was told of.
LEMMA RecordedLog ==
    ASSUME SlmTyped, LogInv, Grows, NEW e \in LogEntry,
           executions' = record_execution(executions, e),
           e.ok => /\ Len(taken') = Len(taken) + 1
                   /\ [name |-> e.name, uuid |-> taken'[Len(taken')]] \in created'
    PROVE  executions' \in Seq(LogEntry) /\ LogInv'
<1> DEFINE N == Len(executions)
<1>1. /\ executions \in Seq(LogEntry) /\ N \in Nat /\ DOMAIN executions = 1 .. N
      /\ DOMAIN taken = 1 .. Len(taken)
  BY LenProperties DEF SlmTyped
<1>2. /\ taken' \in Seq(Uuid) /\ Len(taken) \in Nat /\ Len(taken') \in Nat
      /\ Len(taken) <= Len(taken') /\ DOMAIN taken \subseteq DOMAIN taken'
      /\ \A k \in DOMAIN taken : taken'[k] = taken[k]
  BY TakenGrows
<1>3. DOMAIN taken' = 1 .. Len(taken')
  BY <1>2, LenProperties
<1>4. PICK d \in 0 .. N :
        /\ executions' \in Seq(LogEntry) /\ Len(executions') = N + 1 - d
        /\ \A i \in 1 .. (N + 1 - d) :
              executions'[i] = IF i + d = N + 1 THEN e ELSE executions[i + d]
  BY <1>1, RecordedSeq
<1>5. PICK at \in [DOMAIN executions -> 0 .. Len(taken)] :
        /\ \A k \in DOMAIN executions : executions[k].ok =>
              /\ at[k] \in DOMAIN taken
              /\ [name |-> executions[k].name, uuid |-> taken[at[k]]] \in created
        /\ \A j, k \in DOMAIN executions :
              j < k /\ executions[j].ok /\ executions[k].ok => at[j] < at[k]
  BY DEF LogInv
<1> HIDE DEF N
<1> DEFINE new == [i \in 1 .. (N + 1 - d) |-> IF i + d = N + 1 THEN Len(taken') ELSE at[i + d]]
<1>6. DOMAIN executions' = 1 .. (N + 1 - d)
  BY <1>4, LenProperties
<1>7. ASSUME NEW i \in 1 .. (N + 1 - d)
      PROVE  /\ i \in Nat
             /\ i + d = N + 1 => new[i] = Len(taken') /\ executions'[i] = e
             /\ i + d # N + 1 => /\ i + d \in DOMAIN executions /\ new[i] = at[i + d]
                                 /\ executions'[i] = executions[i + d]
  <2>1. i \in Nat /\ i + d \in 1 .. (N + 1)
    BY <1>1
  <2>2. i + d # N + 1 => i + d \in 1 .. N
    BY <1>1, <2>1
  <2> QED
    BY <1>1, <1>4, <2>1, <2>2
<1>8. new \in [DOMAIN executions' -> 0 .. Len(taken')]
  <2>1. 0 .. Len(taken) \subseteq 0 .. Len(taken') /\ Len(taken') \in 0 .. Len(taken')
    BY <1>2
  <2>2. \A i \in 1 .. (N + 1 - d) : new[i] \in 0 .. Len(taken')
    <3> SUFFICES ASSUME NEW i \in 1 .. (N + 1 - d) PROVE new[i] \in 0 .. Len(taken')
      OBVIOUS
    <3> HIDE DEF new
    <3>1. CASE i + d = N + 1
      BY <1>7, <2>1, <3>1
    <3>2. CASE i + d # N + 1
      BY <1>7, <2>1, <3>2
    <3> QED
      BY <3>1, <3>2
  <2> QED
    BY <1>6, <2>2
<1> HIDE DEF new
<1>9. ASSUME NEW i \in DOMAIN executions', executions'[i].ok
      PROVE  /\ new[i] \in DOMAIN taken'
             /\ [name |-> executions'[i].name, uuid |-> taken'[new[i]]] \in created'
  <2>1. CASE i + d = N + 1
    <3>1. new[i] = Len(taken') /\ executions'[i] = e
      BY <1>6, <1>7, <2>1
    <3>2. Len(taken') \in DOMAIN taken'
      <4>1. Len(taken') = Len(taken) + 1
        BY <1>9, <3>1
      <4> QED
        BY <1>2, <1>3, <4>1
    <3> QED
      BY <1>9, <3>1, <3>2
  <2>2. CASE i + d # N + 1
    <3>1. i + d \in DOMAIN executions /\ new[i] = at[i + d] /\ executions'[i] = executions[i + d]
      BY <1>6, <1>7, <2>2
    <3>2. /\ at[i + d] \in DOMAIN taken
          /\ [name |-> executions[i + d].name, uuid |-> taken[at[i + d]]] \in created
      BY <1>5, <1>9, <3>1
    <3>3. taken'[at[i + d]] = taken[at[i + d]]
      BY <1>2, <3>2
    <3> QED
      BY <1>2, <3>1, <3>2, <3>3 DEF Grows
  <2> QED
    BY <2>1, <2>2
<1>10. ASSUME NEW i \in DOMAIN executions', NEW k \in DOMAIN executions', i < k,
              executions'[i].ok, executions'[k].ok
       PROVE  new[i] < new[k]
  <2>1. i \in Nat /\ k \in Nat /\ d \in Nat /\ N \in Nat /\ k + d <= N + 1 /\ i + d # N + 1
    BY <1>1, <1>6, <1>10
  <2>2. /\ i + d \in DOMAIN executions /\ new[i] = at[i + d] /\ executions'[i] = executions[i + d]
    BY <1>6, <1>7, <2>1
  <2>3. CASE k + d = N + 1
    <3>1. new[k] = Len(taken') /\ executions'[k] = e
      BY <1>6, <1>7, <2>3
    <3>2. Len(taken') = Len(taken) + 1 /\ at[i + d] \in 1 .. Len(taken)
      BY <1>1, <1>5, <1>10, <2>2, <3>1
    <3> QED
      BY <1>2, <2>2, <3>1, <3>2
  <2>4. CASE k + d # N + 1
    <3>1. k + d \in DOMAIN executions /\ new[k] = at[k + d] /\ executions'[k] = executions[k + d]
      BY <1>6, <1>7, <2>4
    <3>2. i + d < k + d
      BY <1>10, <2>1
    <3> QED
      BY <1>5, <1>10, <2>2, <3>1, <3>2
  <2> QED
    BY <2>3, <2>4
<1>11. LogInv'
  BY <1>8, <1>9, <1>10 DEF LogInv
<1> QED
  BY <1>4, <1>11

LEMMA RecordStep == ASSUME Inv, SlmInv, NEW r \in Request, Record(r) PROVE SlmInv'
<1> DEFINE e == [name |-> job[r].at.day, ok |-> job[r].ok, finished |-> now]
           j == [job[r] EXCEPT !.stage = IF job[r].ok /\ registered THEN "list" ELSE "end"]
<1>1. /\ job[r].stage = "record" /\ executions' = record_execution(executions, e)
      /\ taken' = IF job[r].ok THEN Append(taken, job[r].uuid) ELSE taken
      /\ SetJob(r, j)
      /\ UNCHANGED <<vars, now, registered, policy, pruned>>
  BY DEF Record
<1>2. job[r] \in Job /\ pc[r] = "idle" /\ SlmTyped
      /\ (job[r].ok => [name |-> job[r].at.day, uuid |-> job[r].uuid] \in created)
  <2>1. job[r] \in Job
    BY <1>1 DEF SlmInv, SlmTyped, NoJob
  <2>2. JobInv(r) /\ Active(r) /\ SlmTyped
    BY <1>1 DEF SlmInv, Active
  <2> QED
    BY <1>1, <2>1, <2>2 DEF JobInv
<1>3. /\ e \in LogEntry /\ e.ok = job[r].ok /\ e.name = job[r].at.day
  <2>1. job[r].at.day \in Day /\ job[r].ok \in BOOLEAN /\ now \in Moment
    BY <1>2 DEF Job, Moment, SlmTyped
  <2> QED
    BY <2>1 DEF LogEntry
<1>4. created' = created /\ pc'[r] = "idle" /\ \A s \in Request : SameRequest(s)
  BY <1>1, <1>2, SameRequests DEF SameRequest
<1>5. /\ job'[r] = j /\ \A s \in Request \ {r} : job'[s] = job[s]
  BY <1>1, <1>2 DEF SlmTyped, SetJob
<1>6. j \in Job /\ j.stage \in {"list", "end"}
  BY <1>2 DEF Job, Stage
<1> HIDE DEF e, j
<1>7. job[r].ok => /\ job[r].uuid \in Uuid /\ taken' = Append(taken, job[r].uuid)
                   /\ Len(taken') = Len(taken) + 1 /\ taken'[Len(taken')] = job[r].uuid
  <2> SUFFICES ASSUME job[r].ok
               PROVE  /\ job[r].uuid \in Uuid /\ taken' = Append(taken, job[r].uuid)
                      /\ Len(taken') = Len(taken) + 1 /\ taken'[Len(taken')] = job[r].uuid
    OBVIOUS
  <2>1. job[r].uuid \in Uuid
    <3>1. [name |-> job[r].at.day, uuid |-> job[r].uuid] \in Entry
      BY <1>2 DEF Inv, Typed
    <3> QED
      BY <3>1 DEF Entry
  <2>2. PICK u \in Uuid : u = job[r].uuid
    BY <2>1
  <2>3. taken' = Append(taken, u)
    BY <1>1, <2>2
  <2> QED
    BY <1>2, <2>2, <2>3, TakenMore
<1>8. Grows
  BY <1>1, <1>4, <1>7 DEF Grows
<1>9. executions' \in Seq(LogEntry) /\ LogInv'
  <2>1. e.ok => /\ Len(taken') = Len(taken) + 1
                /\ [name |-> e.name, uuid |-> taken'[Len(taken')]] \in created'
    BY <1>2, <1>3, <1>4, <1>7
  <2> QED
    BY <1>1, <1>2, <1>3, <1>8, <2>1, RecordedLog DEF SlmInv
<1>10. SlmTyped'
  <2>1. taken' \in Seq(Uuid)
    BY <1>2, <1>8, TakenGrows
  <2> QED
    BY <1>1, <1>2, <1>6, <1>9, <2>1 DEF SlmTyped, SetJob
<1>11. JobInv(r)'
  BY <1>4, <1>5, <1>6, PlainJob
<1>12. EntryNamed(r)'
  BY <1>4 DEF SlmInv, EntryNamed, InFlight, SameRequest
<1>13. RetentionKeepsNewest'
  BY <1>1, <1>2, <1>8, RetentionStays DEF SlmInv
<1> QED
  BY <1>4, <1>5, <1>8, <1>9, <1>10, <1>11, <1>12, <1>13, OneJob

\* A step at the repository, for a job or for a user.
LEMMA RequestStepStep == ASSUME Inv, SlmInv, NEW r \in Request, RequestStep(r) PROVE SlmInv'
<1> DEFINE min == job[r].policy.retention.min_count
<1>0. PICK answered \in BOOLEAN : SetJob(r, Outcome(r, answered))
  BY DEF RequestStep
<1>1. /\ RepoStep(r) /\ SetJob(r, Outcome(r, answered))
      /\ pruned' = IF Active(r) /\ deleted' # deleted
                   THEN pruned \cup {[uuid |-> entry[r].uuid, min_count |-> min]} ELSE pruned
      /\ UNCHANGED <<now, registered, policy, executions, taken>>
  BY <1>0 DEF RequestStep, slm
<1>2. SlmTyped /\ JobInv(r) /\ EntryNamed(r) /\ LogInv /\ RetentionKeepsNewest
  BY DEF SlmInv
<1>3. /\ pc[r] # "idle"
      /\ \A s \in Request \ {r} : SameRequest(s)
      /\ created \subseteq created'
      /\ pc'[r] # "idle" => /\ op'[r] = op[r] /\ name'[r] = name[r]
                            /\ created' = created /\ deleted' = deleted
      /\ EntryNamed(r)'
      /\ created' # created => /\ op[r] = "create" /\ InFlight(r)
                               /\ created' = created \cup {entry[r]}
      /\ deleted' # deleted => op[r] = "delete" /\ InFlight(r)
  BY <1>1, <1>2, RepoStepFacts
<1>4. /\ job'[r] = Outcome(r, answered) /\ \A s \in Request \ {r} : job'[s] = job[s]
  BY <1>1, <1>2 DEF SlmTyped, SetJob
<1>5. Grows
  BY <1>1, <1>3 DEF Grows
<1>6. LogInv'
  BY <1>1, <1>2, <1>5, LogStays
<1>7. InFlight(r) => entry[r] \in Entry /\ entry[r].uuid \in Uuid
  BY DEF Inv, RequestInv, EntryInv, Entry
<1>8. SUFFICES /\ Outcome(r, answered) \in Job \cup {NoJob} /\ JobInv(r)'
               /\ pruned' \subseteq [uuid : Uuid, min_count : Nat] /\ RetentionKeepsNewest'
  <2>1. Outcome(r, answered) \in Job \cup {NoJob} /\ pruned' \subseteq [uuid : Uuid, min_count : Nat] => SlmTyped'
    BY <1>1, <1>2 DEF SlmTyped, SetJob
  <2> QED
    BY <1>3, <1>4, <1>5, <1>6, <2>1, OneJob
<1>9. CASE ~Active(r)
  <2>1. job[r].stage = "none" /\ Outcome(r, answered) = job[r] /\ pruned' = pruned
    BY <1>1, <1>9 DEF Active, Outcome
  <2>2. JobInv(r)'
    BY <1>4, <2>1 DEF JobInv, Active
  <2>3. RetentionKeepsNewest'
    BY <1>2, <1>5, <2>1, RetentionStays
  <2> QED
    BY <1>2, <2>1, <2>2, <2>3 DEF SlmTyped
<1>10. CASE Active(r) /\ pc'[r] # "idle"
  <2>1. Outcome(r, answered) = job[r] /\ pruned' = pruned /\ job[r].stage \in {"create", "pruning"}
    BY <1>1, <1>2, <1>3, <1>10 DEF Outcome, JobInv
  <2>2. created' = created /\ taken' = taken /\ op'[r] = op[r] /\ name'[r] = name[r]
    BY <1>1, <1>3, <1>10
  <2>3. JobInv(r)'
    BY <1>2, <1>4, <1>10, <2>1, <2>2 DEF JobInv, Active, OldEnough
  <2>4. RetentionKeepsNewest'
    BY <1>2, <1>5, <2>1, RetentionStays
  <2> QED
    BY <1>2, <2>1, <2>3, <2>4 DEF SlmTyped
<1>11. CASE job[r].stage = "create" /\ pc'[r] = "idle"
  <2>1. op[r] = "create" /\ name[r] = job[r].at.day
    BY <1>2, <1>11 DEF JobInv
  <2>2. pruned' = pruned
    BY <1>1, <1>3, <2>1
  <2> DEFINE new == answered /\ created' # created
             j == [job[r] EXCEPT !.stage = "record", !.ok = new,
                                 !.uuid = IF new THEN entry[r].uuid ELSE 0]
  <2>3. job[r] \in Job
    BY <1>2, <1>11 DEF SlmTyped, NoJob
  <2>4. Outcome(r, answered) = j
    BY <1>11 DEF Outcome, Active
  <2>5. new => entry[r].uuid \in Uuid /\ entry[r] \in Entry /\ entry[r].name = name[r]
               /\ entry[r] \in created'
    BY <1>2, <1>3, <1>7 DEF EntryNamed
  <2>6. /\ j \in Job /\ j.stage = "record" /\ j.ok = new /\ j.at = job[r].at
        /\ new => j.uuid = entry[r].uuid
    <3>1. PICK b \in BOOLEAN : b = new
      OBVIOUS
    <3>2. PICK u \in Uuid \cup {0} : u = IF new THEN entry[r].uuid ELSE 0
      BY <2>5
    <3>3. j = [job[r] EXCEPT !.stage = "record", !.ok = b, !.uuid = u]
      BY <3>1, <3>2
    <3> HIDE DEF j
    <3> QED
      BY <2>3, <3>1, <3>2, <3>3 DEF Job, Stage
  <2> HIDE DEF j
  <2>7. JobInv(r)'
    <3>1. new => [name |-> j.at.day, uuid |-> j.uuid] \in created'
      <4> SUFFICES ASSUME new PROVE [name |-> j.at.day, uuid |-> j.uuid] \in created'
        OBVIOUS
      <4>1. entry[r] = [name |-> entry[r].name, uuid |-> entry[r].uuid]
        BY <2>5 DEF Entry
      <4> QED
        BY <2>1, <2>5, <2>6, <4>1
    <3> HIDE DEF new
    <3> QED
      BY <1>4, <1>11, <2>4, <2>6, <3>1 DEF JobInv
  <2>8. RetentionKeepsNewest'
    BY <1>2, <1>5, <2>2, RetentionStays
  <2> QED
    BY <1>2, <2>2, <2>4, <2>6, <2>7, <2>8 DEF SlmTyped
<1>12. CASE job[r].stage = "pruning" /\ pc'[r] = "idle"
  <2>1. /\ op[r] = "delete" /\ OldEnough(name[r], min)
        /\ \A n \in job[r].prune : OldEnough(n, min)
    BY <1>2, <1>12 DEF JobInv
  <2>2. created' = created /\ taken' = taken
    BY <1>1, <1>3, <2>1
  <2>3. job[r] \in Job
    BY <1>2, <1>12 DEF SlmTyped, NoJob
  <2>4. min \in Nat
    BY <2>3, SlmConstants DEF Job
  <2> DEFINE j == [job[r] EXCEPT !.stage = IF job[r].prune = {} THEN "end" ELSE "prune"]
  <2>5. Outcome(r, answered) = j
    BY <1>12 DEF Outcome, Active
  <2>6. /\ j \in Job /\ j.prune = job[r].prune /\ j.policy = job[r].policy
        /\ j.stage = IF job[r].prune = {} THEN "end" ELSE "prune"
    BY <2>3 DEF Job, Stage
  <2> HIDE DEF j
  <2>7. JobInv(r)'
    <3>1. \A n \in job[r].prune : OldEnough(n, min)'
      <4>1. job'[r].policy = job[r].policy
        BY <1>4, <2>5, <2>6
      <4> QED
        BY <2>1, <2>2, <4>1 DEF OldEnough
    <3> QED
      BY <1>4, <1>12, <2>5, <2>6, <3>1 DEF JobInv
  <2>8. pruned' \subseteq [uuid : Uuid, min_count : Nat]
    <3>1. deleted' # deleted => [uuid |-> entry[r].uuid, min_count |-> min] \in [uuid : Uuid, min_count : Nat]
      BY <1>3, <1>7, <2>4
    <3>2. pruned \subseteq [uuid : Uuid, min_count : Nat]
      BY <1>2 DEF SlmTyped
    <3> QED
      BY <1>1, <3>1, <3>2
  <2>9. RetentionKeepsNewest'
    <3>1. CASE deleted' = deleted
      BY <1>1, <1>2, <1>5, <3>1, RetentionStays
    <3>2. CASE deleted' # deleted
      <4> SUFFICES ASSUME \A e, f \in created : e.name = f.name => e = f
                   PROVE  MinCountProtects'
        BY <2>2 DEF RetentionKeepsNewest
      <4>1. MinCountProtects
        BY <1>2 DEF RetentionKeepsNewest
      <4>2. PICK k \in DOMAIN taken : /\ [name |-> name[r], uuid |-> taken[k]] \in created
                                      /\ Len(taken) - k >= min
        BY <2>1 DEF OldEnough
      <4>3. entry[r] \in created /\ entry[r].name = name[r]
        BY <1>2, <1>3, <2>1, <3>2 DEF Inv, RequestInv, EntryInv, Deleting, EntryNamed
      <4>4. entry[r] = [name |-> name[r], uuid |-> taken[k]]
        BY <4>2, <4>3
      <4>5. entry[r].uuid = taken[k]
        BY <4>4
      <4>6. \A x \in pruned' : \/ x \in pruned
                               \/ x.uuid = entry[r].uuid /\ x.min_count = min
        BY <1>1
      <4> HIDE DEF min
      <4> QED
        BY <2>2, <4>1, <4>2, <4>5, <4>6 DEF MinCountProtects
    <3> QED
      BY <3>1, <3>2
  <2> QED
    BY <2>5, <2>6, <2>7, <2>8, <2>9
<1> QED
  BY <1>2, <1>3, <1>9, <1>10, <1>11, <1>12 DEF JobInv, Active

-----------------------------------------------------------------------------
(* The theorems.                                                           *)

LEMMA SlmInitInv == SlmInit => SlmInv
<1> SUFFICES ASSUME SlmInit PROVE SlmInv
  OBVIOUS
<1>1. SlmTyped
  BY ClockTyped, EmptySeq DEF SlmInit, SlmTyped
<1>2. \A r \in Request : JobInv(r) /\ EntryNamed(r)
  BY DEF SlmInit, Init, JobInv, EntryNamed, InFlight, Active, NoJob
<1>3. LogInv
  <2> DEFINE at == [k \in {} |-> 0]
  <2>1. DOMAIN executions = {} /\ at \in [DOMAIN executions -> 0 .. Len(taken)]
    BY DEF SlmInit
  <2> QED
    BY <2>1 DEF LogInv
<1>4. RetentionKeepsNewest
  BY DEF SlmInit, RetentionKeepsNewest, MinCountProtects
<1> QED
  BY <1>1, <1>2, <1>3, <1>4 DEF SlmInv

LEMMA SlmNextInv == Inv /\ SlmInv /\ [SlmNext]_all_vars => SlmInv'
<1> SUFFICES ASSUME Inv, SlmInv, [SlmNext]_all_vars PROVE SlmInv'
  OBVIOUS
<1>1. /\ now \in Moment /\ registered \in BOOLEAN /\ policy \in Policies \cup {NoPolicy}
  BY DEF SlmInv, SlmTyped
<1>2. CASE UNCHANGED all_vars
  <2>1. UNCHANGED <<vars, now, registered, policy, executions, job, taken, pruned>>
    BY <1>2 DEF all_vars, slm, slm_history
  <2> QED
    BY <1>1, <2>1, RegistryStep
<1>3. CASE PassesTime
  <2>1. /\ now' = Later(now) /\ Later(now).day <= End
        /\ UNCHANGED <<vars, registered, policy, executions, job, taken, pruned>>
    BY <1>3 DEF PassesTime, slm_history
  <2>2. now' \in Moment
    BY <1>1, <2>1, ClockTyped
  <2> QED
    BY <1>1, <2>1, <2>2, RegistryStep
<1>4. CASE SeedNextFire \/ RemovePolicy
  <2>1. /\ UNCHANGED <<vars, now, registered, job, taken, pruned>>
        /\ executions' = executions \/ executions' = <<>>
        /\ policy' = policy \/ policy' = NoPolicy
    BY <1>4 DEF SeedNextFire, RemovePolicy
  <2> QED
    BY <1>1, <2>1, RegistryStep
<1>5. ASSUME NEW known \in BOOLEAN, RegisterRepository(known) PROVE SlmInv'
  <2>1. /\ UNCHANGED <<vars, now, policy, executions, job, taken, pruned>>
        /\ registered' = known
    BY <1>5 DEF RegisterRepository
  <2> QED
    BY <1>1, <2>1, RegistryStep
<1>6. ASSUME NEW p \in Policies, PutPolicy(p) PROVE SlmInv'
  <2>1. UNCHANGED <<vars, now, registered, executions, job, taken, pruned>> /\ policy' = p
    BY <1>6 DEF PutPolicy
  <2> QED
    BY <1>1, <2>1, RegistryStep
<1>7. ASSUME NEW r \in Request,
             \/ Execute(r) \/ UserRequest(r) \/ RequestStep(r) \/ StartSnapshot(r)
             \/ Record(r) \/ List(r) \/ Select(r) \/ Prune(r) \/ EndJob(r)
      PROVE  SlmInv'
  BY <1>7, ExecuteStep, UserStep, RequestStepStep, StartStep, RecordStep, ListStep, SelectStep,
     PruneStep, EndJobStep
<1> QED
  BY <1>2, <1>3, <1>4, <1>5, <1>6, <1>7, TickStep, LookBackStep, SkipTickStep DEF SlmNext

\* Policies and users reach the repository by its operations alone.
LEMMA SlmRepoStep == SlmInv /\ [SlmNext]_all_vars => [Next]_vars
<1> SUFFICES ASSUME SlmInv, [SlmNext]_all_vars PROVE [Next]_vars
  OBVIOUS
<1>1. CASE UNCHANGED all_vars
  BY <1>1 DEF all_vars
<1>2. CASE PassesTime \/ Tick \/ LookBack \/ SkipTick \/ SeedNextFire \/ RemovePolicy
  BY <1>2 DEF PassesTime, Tick, LookBack, SkipTick, SeedNextFire, RemovePolicy
<1>3. CASE \/ \E known \in BOOLEAN : RegisterRepository(known)
           \/ \E p \in Policies : PutPolicy(p)
  BY <1>3 DEF RegisterRepository, PutPolicy
<1>4. ASSUME NEW r \in Request,
             Execute(r) \/ Record(r) \/ List(r) \/ Select(r) \/ EndJob(r)
      PROVE  UNCHANGED vars
  BY <1>4 DEF Execute, Record, List, Select, EndJob
<1>5. ASSUME NEW r \in Request, UserRequest(r) \/ RequestStep(r) PROVE Next
  BY <1>5 DEF UserRequest, RequestStep, RepoStep, Next
<1>6. ASSUME NEW r \in Request, StartSnapshot(r) PROVE [Next]_vars
  <2>1. job[r] \in Job
    BY <1>6 DEF StartSnapshot, SlmInv, SlmTyped, NoJob
  <2>2. job[r].at.day \in Name
    BY <2>1, SlmConstants DEF Job, Moment, Day
  <2> QED
    BY <1>6, <2>2 DEF StartSnapshot, Next
<1>7. ASSUME NEW r \in Request, Prune(r) PROVE Next
  <2>1. job[r] \in Job /\ job[r].prune # {}
    <3>1. job[r].stage = "prune" /\ job[r] \in Job \cup {NoJob} /\ JobInv(r)
      BY <1>7 DEF Prune, SlmInv, SlmTyped
    <3> QED
      BY <3>1 DEF NoJob, JobInv
  <2>2. job[r].prune \subseteq Day /\ Day \subseteq Nat /\ Day \subseteq Name
    BY <2>1, SlmConstants DEF Job, Day
  <2>3. Least(job[r].prune) \in Name
    BY <2>1, <2>2, LeastOfSet
  <2> QED
    BY <1>7, <2>3 DEF Prune, Next
<1> QED
  BY <1>1, <1>2, <1>3, <1>4, <1>5, <1>6, <1>7 DEF SlmNext

\* Both invariants together.
THEOREM SlmInvHolds == SlmSpec => [](Inv /\ SlmInv)
<1>1. SlmInit => Inv /\ SlmInv
  BY SlmInitInv, InitInv DEF SlmInit
<1>2. Inv /\ SlmInv /\ [SlmNext]_all_vars => (Inv /\ SlmInv)'
  BY SlmNextInv, SlmRepoStep, NextInv
<1> QED
  BY <1>1, <1>2, PTL DEF SlmSpec

\* Snapshot lifecycle management implements the repository: its scheduler, its
\* retention and the requests of users are requests like any others, so all
\* that is proved of the repository holds under it.
THEOREM SlmImplementsRepo == SlmSpec => Spec
<1>1. SlmInit => Init
  BY DEF SlmInit
<1> QED
  BY <1>1, SlmRepoStep, SlmInvHolds, PTL DEF SlmSpec, Spec

\* The manifest stays sound, and acknowledged snapshots stay listed until their
\* deletion, while policies run.
THEOREM SlmRepoHolds == SlmSpec => []ManifestSound /\ []CasProtects
  BY SlmImplementsRepo, ManifestSoundHolds, CasProtectsHolds, PTL

\* Retention never deletes one of the min_count newest snapshots of a policy,
\* as long as no name is given to a second snapshot.
THEOREM RetentionKeepsNewestHolds == SlmSpec => []RetentionKeepsNewest
<1>1. Inv /\ SlmInv => RetentionKeepsNewest
  BY DEF SlmInv
<1> QED
  BY <1>1, SlmInvHolds, PTL

-----------------------------------------------------------------------------
(* Every day runs.                                                         *)

AnyTime == [day : Nat, sec : Nat]

\* A tick that has not found the policy due, or not yet.
Deciding(r) == job[r].stage \in {"wake", "skip"}

\* A tick decides at once, or its day has run and it is over before the next
\* day's DailyAt.
TickInv(r) ==
    /\ Active(r) /\ job[r].from = "tick" =>
          /\ r = Scheduler
          /\ ~Deciding(r) => job[r].at.day \in ran
          /\ NotAfter(job[r].at, now) /\ Before(now, Instant(job[r].at.day + 1, DailyAt))
    /\ Deciding(r) => job[r].from = "tick" /\ job[r].at = now

DailyTyped ==
    /\ now \in Times /\ since \in AnyTime
    /\ seeding \in Policies \cup {NoPolicy}
    /\ next_fire = <<>> \/ \E f \in AnyTime : next_fire = <<f>>
    /\ job[Scheduler].stage = "skip" => \E f \in AnyTime : found = <<f>>
    /\ \A k \in DOMAIN executions : /\ executions[k].finished \in Times
                                    /\ NotAfter(executions[k].finished, now)

\* A fire that is not later than the first DailyAt to come, and beyond today's
\* only when today has run.
Early(f) ==
    /\ NotAfter(f, FirstDailyAt(now))
    /\ Owed(now) # {} /\ Before(Instant(now.day, DailyAt), f) => now.day \in ran

\* The next fire is such a fire, and the one a tick is about to store, which is
\* yet to come.
FireInv ==
    /\ next_fire # <<>> => Early(next_fire[1])
    /\ job[Scheduler].stage = "skip" => Early(found[1]) /\ ~NotAfter(found[1], now)

\* A stored policy has a next fire, or was put just now.
SeedInv ==
    /\ next_fire = <<>> /\ policy # NoPolicy => seeding # NoPolicy
    /\ seeding # NoPolicy => since = now
    /\ job[Scheduler].stage = "wake" => since = now

DailyInv ==
    /\ DailyTyped
    /\ \A r \in Request : TickInv(r)
    /\ FireInv
    /\ SeedInv
    /\ owed \subseteq ran

LEMMA OnDay ==
    ASSUME NEW d \in Nat
    PROVE  Instant(d, DailyAt) = [day |-> d, sec |-> DailyAt]
  BY InstantInDay, SlmConstants

LEMMA FirstDailyAtIs ==
    ASSUME NEW t \in AnyTime
    PROVE  /\ FirstDailyAt(t) = [day |-> IF t.sec < DailyAt THEN t.day ELSE t.day + 1, sec |-> DailyAt]
           /\ FirstDailyAt(t) \in AnyTime
<1>1. t.day \in Nat /\ t.day + 1 \in Nat /\ t.sec \in Nat /\ DailyAt \in Nat
  BY SlmConstants DEF AnyTime
<1> QED
  BY <1>1, OnDay DEF FirstDailyAt, AnyTime

LEMMA TimesTyped ==
    ASSUME NEW t \in Times
    PROVE  t \in AnyTime /\ t.sec < SecondsPerDay /\ t.day \in Day
<1>1. PICK d \in Start .. End, s \in Instants : t = Instant(d, s)
  BY DEF Times
<1>2. d \in Nat /\ s \in Nat /\ s < SecondsPerDay
  BY SlmConstants
<1>3. t = [day |-> d, sec |-> s]
  BY <1>1, <1>2, InstantInDay
<1> QED
  BY <1>2, <1>3 DEF AnyTime, Day

\* The second before an instant has the same first DailyAt to come, unless the
\* instant is one.
LEMMA JustBeforeFirst ==
    ASSUME NEW t \in Times
    PROVE  /\ FirstDailyAt(JustBefore(t)) \in AnyTime
           /\ NotAfter(FirstDailyAt(JustBefore(t)), FirstDailyAt(t))
<1>1. t.day \in Nat /\ t.sec \in Nat /\ t.sec < SecondsPerDay /\ t \in AnyTime
  BY TimesTyped DEF AnyTime
<1>2. DailyAt \in Nat /\ DailyAt < SecondsPerDay
  BY SlmConstants
<1>3. CASE t.sec = 0
  <2>1. JustBefore(t) = [day |-> t.day - 1, sec |-> SecondsPerDay - 1]
    BY <1>1, <1>3, SMT DEF JustBefore, Instant, SecondsPerDay
  <2>2. FirstDailyAt(JustBefore(t)) = Instant(t.day, DailyAt)
    <3>1. ~(JustBefore(t).sec < DailyAt) /\ JustBefore(t).day + 1 = t.day
      BY <1>1, <1>2, <2>1, SMT DEF SecondsPerDay
    <3> QED
      BY <3>1 DEF FirstDailyAt
  <2>3. FirstDailyAt(JustBefore(t)) = [day |-> t.day, sec |-> DailyAt]
    BY <1>1, <2>2, OnDay
  <2>4. FirstDailyAt(t) = [day |-> IF t.sec < DailyAt THEN t.day ELSE t.day + 1, sec |-> DailyAt]
    BY <1>1, FirstDailyAtIs
  <2> QED
    BY <1>1, <1>2, <2>3, <2>4 DEF NotAfter, Before, AnyTime
<1>4. CASE t.sec # 0
  <2>1. JustBefore(t) = [day |-> t.day, sec |-> t.sec - 1]
    <3>1. /\ (t.sec + SecondsPerDay - 1) \div 86400 = 1
          /\ (t.sec + SecondsPerDay - 1) % 86400 = t.sec - 1
      BY <1>1, <1>4, SMT DEF SecondsPerDay
    <3> QED
      BY <1>1, <3>1, SMT DEF JustBefore, Instant
  <2>2. JustBefore(t) \in AnyTime
    BY <1>1, <1>4, <2>1 DEF AnyTime
  <2>3. FirstDailyAt(JustBefore(t)) = [day |-> IF t.sec - 1 < DailyAt THEN t.day ELSE t.day + 1, sec |-> DailyAt]
    BY <2>1, <2>2, FirstDailyAtIs
  <2> QED
    BY <1>1, <1>2, <2>2, <2>3, FirstDailyAtIs DEF NotAfter, Before
<1> QED
  BY <1>3, <1>4

LEMMA FiresAtFirst ==
    ASSUME NEW p \in Policies, FiresDaily(p), NEW t \in Times
    PROVE  Fires[p][t] = <<FirstDailyAt(t)>> /\ Fires[p][JustBefore(t)] = <<FirstDailyAt(JustBefore(t))>>
<1> DEFINE S == Times \cup {JustBefore(x) : x \in Times}
<1>1. \A u \in S : Fires[p][u] = next_fire_after(parse(p.schedule).ok, u)
  BY DEF Fires
<1>2. t \in S /\ JustBefore(t) \in S
  OBVIOUS
<1>3. \A u \in S : next_fire_after(parse(p.schedule).ok, u) = <<FirstDailyAt(u)>>
  BY DEF FiresDaily
<1> HIDE DEF S
<1>4. \A u \in S : Fires[p][u] = <<FirstDailyAt(u)>>
  BY <1>1, <1>3
<1> QED
  BY <1>2, <1>4

\* The clock goes from an instant to a later one, of that day or the next.
LEMMA LaterIs ==
    ASSUME NEW t \in Times, Later(t).day <= End
    PROVE  /\ Later(t) \in Times
           /\ Before(t, Later(t))
           /\ Later(t).day \in {t.day, t.day + 1}
<1> DEFINE today == {s \in Instants : s > t.sec}
<1>1. /\ t.day \in Nat /\ t.sec \in Nat /\ t.day \in Start .. End
      /\ Instants \in SUBSET Nat /\ Instants # {} /\ \A s \in Instants : s < SecondsPerDay
      /\ Start \in Nat /\ End \in Nat
  BY SlmConstants, TimesTyped DEF AnyTime, Day
<1>2. CASE today # {}
  <2>1. Least(today) \in Instants /\ Least(today) > t.sec
    <3>1. today \in SUBSET Nat
      BY <1>1
    <3> QED
      BY <1>2, <3>1, LeastOfSet
  <2>2. Later(t) = Instant(t.day, Least(today))
    BY <1>2 DEF Later
  <2>3. Later(t) = [day |-> t.day, sec |-> Least(today)]
    BY <1>1, <2>1, <2>2, InstantInDay
  <2>4. Later(t) \in Times
    BY <1>1, <2>1, <2>2 DEF Times
  <2> HIDE DEF today
  <2> QED
    BY <1>1, <2>1, <2>3, <2>4 DEF Before
<1>3. CASE today = {}
  <2>1. Least(Instants) \in Instants
    BY <1>1, LeastOfSet
  <2>2. Later(t) = Instant(t.day + 1, Least(Instants))
    BY <1>3 DEF Later
  <2>3. Later(t) = [day |-> t.day + 1, sec |-> Least(Instants)]
    <3>1. Least(Instants) \in Nat /\ Least(Instants) < SecondsPerDay
      BY <1>1, <2>1
    <3>2. t.day + 1 \in Nat
      BY <1>1
    <3> QED
      BY <2>2, <3>1, <3>2, InstantInDay
  <2>4. t.day + 1 \in Start .. End
    BY <1>1, <2>3
  <2>5. Later(t) \in Times
    BY <2>1, <2>2, <2>4 DEF Times
  <2> HIDE DEF today
  <2> QED
    BY <1>1, <2>3, <2>5 DEF Before
<1> QED
  BY <1>2, <1>3

\* A job that runs goes on from where and when it was started.
SameJob(r) ==
    \/ job'[r] = job[r]
    \/ /\ ~Deciding(r) /\ ~Deciding(r)'
       /\ Active(r)' => Active(r) /\ job'[r].from = job[r].from /\ job'[r].at = job[r].at

LEMMA TickStays ==
    ASSUME NEW r \in Request, TickInv(r), SameJob(r), UNCHANGED <<now, ran>> PROVE TickInv(r)'
<1>1. CASE job'[r] = job[r]
  BY <1>1 DEF TickInv, Active, Deciding
<1>2. CASE job'[r] # job[r]
  BY <1>2 DEF TickInv, SameJob
<1> QED
  BY <1>1, <1>2

\* What is said of a fire holds as long as the clock, the policy and the fire do
\* not change.
LEMMA FireStays ==
    ASSUME DailyInv, UNCHANGED <<now, policy, next_fire, seeding, found, since, ran>>,
           SameJob(Scheduler)
    PROVE  FireInv' /\ SeedInv' /\ (job'[Scheduler].stage = "skip" => \E f \in AnyTime : found' = <<f>>)
<1>1. \A g \in {"wake", "skip"} : job'[Scheduler].stage = g => job[Scheduler].stage = g
  BY DEF SameJob, Deciding
<1>2. Owed(now)' = Owed(now) /\ FirstDailyAt(now)' = FirstDailyAt(now)
  BY DEF Owed, FirstDailyAt
<1>3. FireInv'
  BY <1>1, <1>2 DEF DailyInv, FireInv, Early
<1> QED
  BY <1>1, <1>3 DEF DailyInv, DailyTyped, SeedInv

\* A step that leaves the clock, the policy and its next fire alone.
LEMMA DailyQuiet ==
    ASSUME DailyInv, UNCHANGED <<now, policy, executions, next_fire, seeding, found, since, ran, owed>>,
           \A r \in Request : SameJob(r)
    PROVE  DailyInv'
<1>1. FireInv' /\ SeedInv' /\ (job'[Scheduler].stage = "skip" => \E f \in AnyTime : found' = <<f>>)
  BY FireStays, SlmConstants
<1>2. DailyTyped'
  BY <1>1 DEF DailyInv, DailyTyped
<1>3. \A r \in Request : TickInv(r)'
  BY TickStays DEF DailyInv
<1> QED
  BY <1>1, <1>2, <1>3 DEF DailyInv

LEMMA DailyInit == SlmInit => DailyInv
<1> SUFFICES ASSUME SlmInit PROVE DailyInv
  OBVIOUS
<1>1. now \in Times
  BY ClockTyped DEF SlmInit
<1>2. since \in AnyTime
  <2>1. Never = [day |-> 0, sec |-> 0]
    BY InstantInDay, SMT DEF Never, SecondsPerDay
  <2> QED
    BY <2>1 DEF SlmInit, AnyTime
<1>3. \A r \in Request : job[r].stage = "none"
  BY DEF SlmInit, NoJob
<1> QED
  BY <1>1, <1>2, <1>3, SlmConstants DEF SlmInit, DailyInv, DailyTyped, TickInv, FireInv, SeedInv, Active, Deciding

\* Time passes: a next fire that has come stays due until a tick has run.
LEMMA DailyPasses == ASSUME DailyInv, SlmTyped, PassesTime PROVE DailyInv'
<1>1. /\ seeding = NoPolicy /\ Later(now).day <= End /\ now' = Later(now)
      /\ Active(Scheduler) => Before(Later(now), Instant(job[Scheduler].at.day + 1, DailyAt))
      /\ ~Deciding(Scheduler) /\ Scheduler \in Request
      /\ UNCHANGED <<policy, executions, next_fire, seeding, found, job, since, ran, owed>>
  BY SlmConstants DEF PassesTime, slm_history, Deciding
<1>2. now \in Times /\ now' \in Times /\ Before(now, now') /\ now'.day \in {now.day, now.day + 1}
  BY <1>1, LaterIs DEF DailyInv, DailyTyped
<1>3. now \in AnyTime /\ now' \in AnyTime /\ DailyAt \in Nat
  BY <1>2, TimesTyped, SlmConstants
<1>4. ASSUME NEW t \in AnyTime, NotAfter(t, now) PROVE NotAfter(t, now')
  BY <1>2, <1>3, <1>4 DEF NotAfter, Before, AnyTime
<1>5. DailyTyped'
  <2>1. \A k \in DOMAIN executions : NotAfter(executions[k].finished, now')
    BY <1>4, TimesTyped DEF DailyInv, DailyTyped
  <2> QED
    BY <1>1, <1>2, <2>1 DEF DailyInv, DailyTyped
<1>6. ASSUME NEW r \in Request PROVE TickInv(r)'
  <2>0. ~Deciding(r) /\ ~Deciding(r)'
    <3>1. ~Deciding(r)
      BY <1>1 DEF DailyInv, TickInv, Deciding, Active
    <3> QED
      BY <1>1, <3>1 DEF Deciding
  <2> SUFFICES ASSUME Active(r), job[r].from = "tick"
               PROVE  /\ r = Scheduler /\ job[r].at.day \in ran
                      /\ NotAfter(job[r].at, now')
                      /\ Before(now', Instant(job[r].at.day + 1, DailyAt))
    BY <1>1, <2>0 DEF TickInv, Active
  <2>1. r = Scheduler /\ job[r].at.day \in ran /\ NotAfter(job[r].at, now)
    BY <2>0 DEF DailyInv, TickInv
  <2>2. job[r].at \in AnyTime
    <3>1. job[r] \in Job
      BY DEF SlmTyped, Active, NoJob
    <3>2. Day \subseteq Nat
      BY SlmConstants DEF Day
    <3> QED
      BY <3>1, <3>2 DEF Job, Moment, AnyTime
  <2> QED
    BY <1>1, <1>4, <2>1, <2>2
<1>7. FireInv'
  <2> SUFFICES ASSUME NEW f \in AnyTime, next_fire = <<f>>
               PROVE  /\ NotAfter(f, FirstDailyAt(now)')
                      /\ Owed(now)' # {} /\ Before(Instant(now.day, DailyAt)', f) => now'.day \in ran'
    BY <1>1 DEF FireInv, Early, DailyInv, DailyTyped, Deciding
  <2>1. /\ NotAfter(f, FirstDailyAt(now))
        /\ Owed(now) # {} /\ Before(Instant(now.day, DailyAt), f) => now.day \in ran
    BY DEF DailyInv, FireInv, Early
  <2>2. /\ FirstDailyAt(now) = [day |-> IF now.sec < DailyAt THEN now.day ELSE now.day + 1, sec |-> DailyAt]
        /\ FirstDailyAt(now)' = [day |-> IF now'.sec < DailyAt THEN now'.day ELSE now'.day + 1, sec |-> DailyAt]
    <3>1. FirstDailyAt(now)' = FirstDailyAt(now')
      BY DEF FirstDailyAt
    <3> QED
      BY <1>3, <3>1, FirstDailyAtIs
  <2>3. NotAfter(f, FirstDailyAt(now)')
    <3>1. NotAfter(FirstDailyAt(now), FirstDailyAt(now)')
      BY <1>2, <1>3, <2>2 DEF NotAfter, Before, AnyTime
    <3> QED
      BY <1>3, <2>1, <2>2, <3>1 DEF NotAfter, Before, AnyTime
  <2>4. ASSUME Owed(now)' # {}, Before(Instant(now.day, DailyAt)', f) PROVE now'.day \in ran'
    <3>1. /\ Instant(now.day, DailyAt) = [day |-> now.day, sec |-> DailyAt]
          /\ Instant(now.day, DailyAt)' = [day |-> now'.day, sec |-> DailyAt]
      BY <1>3, OnDay DEF AnyTime
    <3>2. Before(since, [day |-> now'.day, sec |-> DailyAt])
      BY <1>1, <2>4, <3>1 DEF Owed
    <3>3. now'.day = now.day /\ now.sec >= DailyAt
      BY <1>2, <1>3, <2>1, <2>2, <2>4, <3>1 DEF NotAfter, Before, AnyTime
    <3>4. Owed(now) # {}
      BY <1>3, <3>1, <3>2, <3>3 DEF Owed, NotAfter, Before, AnyTime
    <3> QED
      BY <1>1, <2>1, <2>4, <3>1, <3>3, <3>4
  <2> QED
    BY <2>3, <2>4
<1>8. SeedInv'
  BY <1>1 DEF DailyInv, SeedInv, Deciding
<1> QED
  BY <1>1, <1>5, <1>6, <1>7, <1>8 DEF DailyInv

LEMMA NothingOwed ==
    ASSUME now \in AnyTime, since = now PROVE Owed(now) = {}
  BY OnDay, SlmConstants DEF Owed, NotAfter, Before, AnyTime

LEMMA DailyPut ==
    ASSUME DailyInv, NEW p \in Policies, PutPolicy(p) PROVE DailyInv'
<1>1. /\ policy' = p /\ seeding' = p /\ since' = now
      /\ UNCHANGED <<now, executions, next_fire, found, job, ran, owed>>
  BY DEF PutPolicy
<1>2. now \in AnyTime
  BY TimesTyped DEF DailyInv, DailyTyped
<1>3. Owed(now)' = {}
  <2>1. now' \in AnyTime /\ since' = now'
    BY <1>1, <1>2
  <2> QED
    BY <2>1, OnDay, SlmConstants DEF Owed, NotAfter, Before, AnyTime
<1>4. DailyTyped' /\ \A r \in Request : TickInv(r)'
  BY <1>1, <1>2 DEF DailyInv, DailyTyped, TickInv, Active, Deciding
<1>5. FireInv' /\ SeedInv'
  BY <1>1, <1>3, SlmConstants DEF DailyInv, FireInv, Early, SeedInv, FirstDailyAt
<1> QED
  BY <1>1, <1>4, <1>5 DEF DailyInv

LEMMA DailySeed ==
    ASSUME DailyInv, \A p \in Policies : FiresDaily(p), SeedNextFire PROVE DailyInv'
<1>1. /\ seeding # NoPolicy /\ next_fire' = Fires[seeding][now] /\ seeding' = NoPolicy /\ since' = now
      /\ UNCHANGED <<now, policy, executions, found, job, ran, owed>>
  BY DEF SeedNextFire
<1>2. now \in Times /\ now \in AnyTime /\ seeding \in Policies
  BY <1>1, TimesTyped DEF DailyInv, DailyTyped
<1>3. next_fire' = <<FirstDailyAt(now)>> /\ FirstDailyAt(now) \in AnyTime
  BY <1>1, <1>2, FiresAtFirst, FirstDailyAtIs
<1>4. Owed(now)' = {}
  <2>1. now' \in AnyTime /\ since' = now'
    BY <1>1, <1>2
  <2> QED
    BY <2>1, OnDay, SlmConstants DEF Owed, NotAfter, Before, AnyTime
<1>5. DailyTyped'
  BY <1>1, <1>2, <1>3 DEF DailyInv, DailyTyped
<1>6. \A r \in Request : TickInv(r)'
  BY <1>1 DEF DailyInv, TickInv, Active, Deciding
<1>7. FireInv'
  <2>1. next_fire'[1] = FirstDailyAt(now)' /\ NotAfter(next_fire'[1], FirstDailyAt(now)')
    BY <1>1, <1>3 DEF FirstDailyAt, NotAfter
  <2>2. job'[Scheduler].stage = "skip" => Early(found[1])' /\ ~NotAfter(found[1], now)'
    BY <1>1, <1>4 DEF DailyInv, FireInv, Early, FirstDailyAt
  <2> QED
    BY <1>4, <2>1, <2>2 DEF FireInv, Early
<1>8. SeedInv'
  BY <1>1, <1>3 DEF SeedInv
<1> QED
  BY <1>1, <1>5, <1>6, <1>7, <1>8 DEF DailyInv

LEMMA DailyRemove == ASSUME DailyInv, RemovePolicy PROVE DailyInv'
<1>1. /\ policy' = NoPolicy /\ executions' = <<>> /\ next_fire' = <<>>
      /\ UNCHANGED <<now, seeding, found, job, since, ran, owed>>
  BY DEF RemovePolicy
<1>2. DailyTyped'
  BY <1>1 DEF DailyInv, DailyTyped
<1>3. \A r \in Request : TickInv(r)'
  BY <1>1 DEF DailyInv, TickInv, Active, Deciding
<1>4. FireInv' /\ SeedInv'
  BY <1>1 DEF DailyInv, FireInv, Early, Owed, FirstDailyAt, SeedInv
<1> QED
  BY <1>1, <1>2, <1>3, <1>4 DEF DailyInv

\* A tick decides on a fire that is early enough.
LEMMA DailyDecides ==
    ASSUME DailyInv, SlmTyped, NEW e \in Job, e.from = "tick", e.at = now,
           NEW f \in AnyTime, Early(f), Decide(e, <<f>>),
           UNCHANGED <<now, policy, executions, next_fire, seeding, since, owed>>
    PROVE  DailyInv'
<1>1. Scheduler \in Request /\ now \in Times /\ now \in AnyTime /\ DailyAt \in Nat
  BY TimesTyped, SlmConstants DEF DailyInv, DailyTyped
<1>2. Instant(now.day + 1, DailyAt) = [day |-> now.day + 1, sec |-> DailyAt]
  <2>1. now.day + 1 \in Nat
    BY <1>1 DEF AnyTime
  <2> QED
    BY <2>1, OnDay
<1>3. NotAfter(now, now) /\ Before(now, Instant(now.day + 1, DailyAt))
  BY <1>1, <1>2 DEF NotAfter, Before, AnyTime
<1>4. Owed(now)' = Owed(now) /\ FirstDailyAt(now)' = FirstDailyAt(now)
  BY DEF Owed, FirstDailyAt
<1>5. PICK g \in {"start", "skip"} :
         /\ job' = [job EXCEPT ![Scheduler] = [e EXCEPT !.stage = g]]
         /\ g = "start" => ran' = ran \cup {now.day} /\ found' = found
         /\ g = "skip" => ran' = ran /\ found' = <<f>> /\ ~NotAfter(f, now)
  <2>1. CASE due(<<f>>, e.at)
    BY <2>1 DEF Decide, SetJob
  <2>2. CASE ~due(<<f>>, e.at)
    BY <2>2 DEF Decide, SetJob, due
  <2> QED
    BY <2>1, <2>2
<1>6. /\ job'[Scheduler].stage = g /\ job'[Scheduler].from = "tick" /\ job'[Scheduler].at = now
      /\ \A r \in Request \ {Scheduler} : job'[r] = job[r]
      /\ ran \subseteq ran'
  BY <1>1, <1>5 DEF SlmTyped, Job
<1>7. ASSUME NEW r \in Request PROVE TickInv(r)'
  <2>1. CASE r = Scheduler
    BY <1>3, <1>5, <1>6, <2>1 DEF TickInv, Active, Deciding
  <2>2. CASE r # Scheduler
    <3>1. job'[r] = job[r] /\ TickInv(r)
      BY <1>6, <2>2 DEF DailyInv
    <3> QED
      BY <1>6, <2>2, <3>1 DEF TickInv, Active, Deciding
  <2> QED
    BY <2>1, <2>2
<1>8. FireInv'
  <2>1. next_fire # <<>> => Early(next_fire[1])
    BY DEF DailyInv, FireInv
  <2>2. next_fire' # <<>> => Early(next_fire[1])'
    BY <1>4, <1>6, <2>1 DEF Early
  <2>3. g = "skip" => Early(found[1])' /\ ~NotAfter(found[1], now)'
    BY <1>4, <1>5 DEF Early
  <2> QED
    BY <1>6, <2>2, <2>3 DEF FireInv
<1>9. DailyTyped' /\ SeedInv'
  BY <1>5, <1>6 DEF DailyInv, DailyTyped, SeedInv
<1> QED
  BY <1>6, <1>7, <1>8, <1>9 DEF DailyInv

LEMMA DailyTicks ==
    ASSUME DailyInv, SlmTyped, Tick PROVE DailyInv'
<1> DEFINE e == Execution(policy, "tick", now)
<1>1. /\ policy # NoPolicy /\ Scheduler \in Request
      /\ UNCHANGED <<now, policy, executions, next_fire, seeding, since, owed>>
  BY SlmConstants DEF Tick
<1>2. e \in Job /\ e.from = "tick" /\ e.at = now
  BY <1>1, ExecutionIs
<1>3. CASE next_fire # <<>>
  <2>1. PICK f \in AnyTime : next_fire = <<f>> /\ Early(f)
    BY <1>3 DEF DailyInv, DailyTyped, FireInv
  <2>2. Decide(e, <<f>>)
    BY <1>3, <2>1 DEF Tick
  <2> HIDE DEF e
  <2> QED
    BY <1>1, <1>2, <2>1, <2>2, DailyDecides
<1>4. CASE next_fire = <<>>
  <2>1. job' = [job EXCEPT ![Scheduler] = [e EXCEPT !.stage = "wake"]] /\ UNCHANGED <<ran, found>>
    BY <1>4 DEF Tick, SetJob
  <2> HIDE DEF e
  <2>2. /\ job'[Scheduler].stage = "wake" /\ job'[Scheduler].from = "tick" /\ job'[Scheduler].at = now
        /\ \A r \in Request \ {Scheduler} : job'[r] = job[r]
    BY <1>1, <1>2, <2>1 DEF SlmTyped, Job
  <2>3. since = now
    BY <1>1, <1>4 DEF DailyInv, SeedInv
  <2>4. now \in AnyTime /\ DailyAt \in Nat
    BY TimesTyped, SlmConstants DEF DailyInv, DailyTyped
  <2>5. NotAfter(now, now) /\ Before(now, Instant(now.day + 1, DailyAt))
    <3>1. now.day + 1 \in Nat
      BY <2>4 DEF AnyTime
    <3>2. Instant(now.day + 1, DailyAt) = [day |-> now.day + 1, sec |-> DailyAt]
      BY <3>1, OnDay
    <3> QED
      BY <2>4, <3>2 DEF NotAfter, Before, AnyTime
  <2>6. ASSUME NEW r \in Request PROVE TickInv(r)'
    <3>1. CASE r = Scheduler
      BY <1>1, <2>2, <2>5, <3>1 DEF TickInv, Active, Deciding
    <3>2. CASE r # Scheduler
      <4>1. job'[r] = job[r] /\ TickInv(r)
        BY <2>2, <3>2 DEF DailyInv
      <4> QED
        BY <1>1, <2>1, <4>1, TickStays DEF SameJob
    <3> QED
      BY <3>1, <3>2
  <2>7. DailyTyped' /\ SeedInv' /\ FireInv'
    BY <1>1, <1>4, <2>1, <2>2, <2>3 DEF DailyInv, DailyTyped, SeedInv, FireInv
  <2> QED
    BY <1>1, <2>1, <2>6, <2>7 DEF DailyInv
<1> QED
  BY <1>3, <1>4

\* A fire that is looked for is early enough: the policy was put just now.
LEMMA DailyLooksBack ==
    ASSUME DailyInv, SlmTyped, \A p \in Policies : FiresDaily(p), LookBack PROVE DailyInv'
<1> DEFINE e == job[Scheduler]
           fire == FireOf(e)
<1>1. /\ e.stage = "wake" /\ Decide(e, fire) /\ Scheduler \in Request
      /\ UNCHANGED <<now, policy, executions, next_fire, seeding, since, owed>>
  BY SlmConstants DEF LookBack
<1>2. e \in Job
  BY <1>1 DEF SlmTyped, NoJob
<1>3. e.from = "tick" /\ e.at = now /\ since = now
  BY <1>1 DEF DailyInv, TickInv, SeedInv, Deciding
<1>4. now \in Times /\ now \in AnyTime /\ e.policy \in Policies
  BY <1>2, TimesTyped DEF DailyInv, DailyTyped, Job
<1>5. Owed(now) = {}
  BY <1>3, <1>4, NothingOwed
<1> HIDE DEF e
<1>6. PICK f \in AnyTime : fire = <<f>> /\ NotAfter(f, FirstDailyAt(now))
  <2>1. CASE executions = <<>>
    <3>1. fire = <<FirstDailyAt(JustBefore(now))>>
      BY <1>3, <1>4, <2>1, FiresAtFirst DEF FireOf
    <3> QED
      BY <1>4, <3>1, JustBeforeFirst
  <2>2. CASE executions # <<>>
    <3> DEFINE t == executions[Len(executions)].finished
    <3>1. t \in Times /\ NotAfter(t, now)
      <4>1. Len(executions) \in DOMAIN executions
        BY <2>2, LenProperties, EmptySeq DEF SlmTyped
      <4> QED
        BY <4>1 DEF DailyInv, DailyTyped
    <3>2. fire = Fires[e.policy][t]
      BY <2>2 DEF FireOf
    <3> HIDE DEF t
    <3>3. fire = <<FirstDailyAt(t)>>
      BY <1>4, <3>1, <3>2, FiresAtFirst
    <3>4. t \in AnyTime
      BY <3>1, TimesTyped
    <3>5. FirstDailyAt(t) \in AnyTime /\ NotAfter(FirstDailyAt(t), FirstDailyAt(now))
      BY <1>4, <3>1, <3>4, FirstDailyAtIs DEF NotAfter, Before, AnyTime
    <3> QED
      BY <3>3, <3>5
  <2> QED
    BY <2>1, <2>2
<1>7. Early(f) /\ Decide(e, <<f>>)
  BY <1>1, <1>5, <1>6 DEF Early
<1> QED
  BY <1>1, <1>2, <1>3, <1>7, DailyDecides

\* A tick that stores a fire to come leaves today as it is: it has run, or is
\* not owed.
LEMMA DailySkips == ASSUME DailyInv, SlmTyped, SkipTick PROVE DailyInv'
<1>1. /\ job[Scheduler].stage = "skip" /\ job' = [job EXCEPT ![Scheduler] = NoJob]
      /\ next_fire' = found /\ owed' = owed \cup Owed(job[Scheduler].at) /\ Scheduler \in Request
      /\ UNCHANGED <<now, policy, executions, seeding, since, ran>>
  BY SlmConstants DEF SkipTick, SetJob
<1>2. PICK f \in AnyTime : found = <<f>>
  BY <1>1 DEF DailyInv, DailyTyped
<1>3. Early(f) /\ ~NotAfter(f, now) /\ job[Scheduler].at = now
  BY <1>1, <1>2 DEF DailyInv, FireInv, TickInv, Deciding
<1>4. now \in AnyTime /\ DailyAt \in Nat
  BY TimesTyped, SlmConstants DEF DailyInv, DailyTyped
<1>5. Owed(now) \subseteq ran
  <2> SUFFICES ASSUME Owed(now) # {} PROVE Owed(now) \subseteq ran
    OBVIOUS
  <2>1. NotAfter(Instant(now.day, DailyAt), now) /\ Owed(now) = {now.day}
    BY DEF Owed
  <2>2. Instant(now.day, DailyAt) = [day |-> now.day, sec |-> DailyAt]
    BY <1>4, OnDay DEF AnyTime
  <2>3. Before(Instant(now.day, DailyAt), f)
    BY <1>3, <1>4, <2>1, <2>2 DEF NotAfter, Before, AnyTime
  <2> QED
    BY <1>3, <2>1, <2>3 DEF Early
<1>6. job'[Scheduler].stage = "none" /\ \A r \in Request \ {Scheduler} : job'[r] = job[r]
  BY <1>1 DEF SlmTyped, NoJob
<1>7. ASSUME NEW r \in Request PROVE TickInv(r)'
  <2>1. CASE r = Scheduler
    BY <1>6, <2>1 DEF TickInv, Active, Deciding
  <2>2. CASE r # Scheduler
    <3>1. job'[r] = job[r] /\ TickInv(r)
      BY <1>6, <2>2 DEF DailyInv
    <3> QED
      BY <1>1, <3>1 DEF TickInv, Active, Deciding
  <2> QED
    BY <2>1, <2>2
<1>8. FireInv'
  <2>1. Early(f)' <=> Early(f)
    BY <1>1 DEF Early, Owed, FirstDailyAt
  <2> QED
    BY <1>1, <1>2, <1>3, <1>6, <2>1 DEF FireInv, Early
<1>9. DailyTyped' /\ SeedInv'
  BY <1>1, <1>2, <1>6 DEF DailyInv, DailyTyped, SeedInv
<1> QED
  BY <1>1, <1>3, <1>5, <1>7, <1>8, <1>9 DEF DailyInv

LEMMA DailyExecute ==
    ASSUME DailyInv, SlmTyped, NEW r \in Request, Execute(r) PROVE DailyInv'
<1>1. /\ r # Scheduler /\ job' = [job EXCEPT ![r] = Execution(policy, "request", now)]
      /\ UNCHANGED <<now, policy, executions, next_fire, seeding, found, since, ran, owed>>
  BY DEF Execute, SetJob, slm
<1>2. /\ job'[r].from = "request" /\ job'[r].stage = "start"
      /\ \A s \in Request \ {r} : job'[s] = job[s]
  BY <1>1 DEF SlmTyped, Execution
<1>3. \A s \in Request : TickInv(s)'
  BY <1>1, <1>2 DEF DailyInv, TickInv, Active, Deciding
<1>4. job'[Scheduler] = job[Scheduler]
  BY <1>1, <1>2, SlmConstants
<1>5. FireInv' /\ SeedInv' /\ DailyTyped'
  <2>1. SameJob(Scheduler)
    BY <1>4 DEF SameJob
  <2> QED
    BY <1>1, <2>1, FireStays DEF DailyInv, DailyTyped
<1> QED
  BY <1>1, <1>3, <1>4, <1>5 DEF DailyInv

\* An execution is logged as finished at an instant of the clock.
LEMMA DailyRecord ==
    ASSUME DailyInv, SlmTyped, NEW r \in Request, Record(r) PROVE DailyInv'
<1> DEFINE e == [name |-> job[r].at.day, ok |-> job[r].ok, finished |-> now]
           j == [job[r] EXCEPT !.stage = IF job[r].ok /\ registered THEN "list" ELSE "end"]
<1>1. /\ job[r].stage = "record" /\ job' = [job EXCEPT ![r] = j]
      /\ executions' = record_execution(executions, e)
      /\ UNCHANGED <<now, policy, next_fire, seeding, found, since, ran, owed>>
  BY DEF Record, SetJob
<1>2. job[r] \in Job
  BY <1>1 DEF SlmTyped, NoJob
<1>3. e \in LogEntry
  <2>1. job[r].at.day \in Day /\ job[r].ok \in BOOLEAN /\ now \in Moment
    BY <1>2 DEF Job, Moment, SlmTyped
  <2> QED
    BY <2>1 DEF LogEntry
<1>4. \A s \in Request : SameJob(s)
  BY <1>1, <1>2 DEF SlmTyped, SameJob, Active, Job, Deciding
<1>5. e.finished = now
  OBVIOUS
<1> HIDE DEF e, j
<1>6. ASSUME NEW k \in DOMAIN executions'
      PROVE  executions'[k].finished \in Times /\ NotAfter(executions'[k].finished, now)
  <2>1. executions \in Seq(LogEntry) /\ Len(executions) \in Nat
        /\ DOMAIN executions = 1 .. Len(executions)
    BY LenProperties DEF SlmTyped
  <2>2. PICK d \in 0 .. Len(executions) :
           /\ executions' \in Seq(LogEntry) /\ Len(executions') = Len(executions) + 1 - d
           /\ \A i \in 1 .. (Len(executions) + 1 - d) :
                 executions'[i] = IF i + d = Len(executions) + 1 THEN e ELSE executions[i + d]
    BY <1>1, <1>3, <2>1, RecordedSeq
  <2>3. k \in 1 .. (Len(executions) + 1 - d)
    BY <2>2, LenProperties
  <2>4. executions'[k] = e \/ (k + d \in DOMAIN executions /\ executions'[k] = executions[k + d])
    BY <2>1, <2>2, <2>3
  <2> QED
    BY <1>5, <2>4 DEF DailyInv, DailyTyped, NotAfter
<1>7. FireInv' /\ SeedInv' /\ (job'[Scheduler].stage = "skip" => \E f \in AnyTime : found' = <<f>>)
  BY <1>1, <1>4, FireStays, SlmConstants
<1>8. \A s \in Request : TickInv(s)'
  BY <1>1, <1>4, TickStays DEF DailyInv
<1>9. DailyTyped'
  BY <1>1, <1>6, <1>7 DEF DailyInv, DailyTyped
<1> QED
  BY <1>1, <1>7, <1>8, <1>9 DEF DailyInv

\* A tick that ends looks for the next fire from now: not past a day that has
\* not run.
LEMMA DailyEnd ==
    ASSUME DailyInv, SlmTyped, \A p \in Policies : FiresDaily(p), NEW r \in Request, EndJob(r)
    PROVE  DailyInv'
<1>1. /\ job[r].stage = "end" /\ job' = [job EXCEPT ![r] = NoJob]
      /\ UNCHANGED <<now, policy, executions, seeding, found, since, ran>>
  BY DEF EndJob, SetJob
<1>2. \A s \in Request : SameJob(s)
  BY <1>1 DEF SlmTyped, SameJob, Active, NoJob, Deciding
<1>3. CASE job[r].from # "tick"
  BY <1>1, <1>2, <1>3, DailyQuiet DEF EndJob
<1>4. CASE job[r].from = "tick"
  <2> DEFINE at == job[r].at
  <2>1. next_fire' = Fires[job[r].policy][now] /\ owed' = owed \cup Owed(at)
    BY <1>4 DEF EndJob
  <2>2. job[r] \in Job /\ Active(r)
    BY <1>1 DEF SlmTyped, NoJob, Active
  <2>3. at.day \in ran /\ NotAfter(at, now) /\ Before(now, Instant(at.day + 1, DailyAt))
    BY <1>1, <1>4, <2>2 DEF DailyInv, TickInv, Deciding
  <2>4. at \in AnyTime
    <3>1. Day \subseteq Nat
      BY SlmConstants DEF Day
    <3> QED
      BY <2>2, <3>1 DEF Job, Moment, AnyTime
  <2> HIDE DEF at
  <2>5. now \in Times /\ now \in AnyTime /\ DailyAt \in Nat
    BY TimesTyped, SlmConstants DEF DailyInv, DailyTyped
  <2>6. next_fire' = <<FirstDailyAt(now)>> /\ FirstDailyAt(now) \in AnyTime
    BY <2>1, <2>2, <2>5, FiresAtFirst, FirstDailyAtIs DEF Job
  <2>7. Owed(at) \subseteq ran
    BY <2>3 DEF Owed
  <2>8. Owed(now) # {} => now.day \in ran
    <3>1. /\ Instant(now.day, DailyAt) = [day |-> now.day, sec |-> DailyAt]
          /\ Instant(at.day + 1, DailyAt) = [day |-> at.day + 1, sec |-> DailyAt]
      <4>1. now.day \in Nat /\ at.day + 1 \in Nat
        BY <2>4, <2>5 DEF AnyTime
      <4> QED
        BY <4>1, OnDay
    <3>2. Owed(now) # {} => NotAfter([day |-> now.day, sec |-> DailyAt], now)
      BY <3>1 DEF Owed
    <3>3. Owed(now) # {} => now.day = at.day
      BY <2>3, <2>4, <2>5, <3>1, <3>2 DEF NotAfter, Before, AnyTime
    <3> QED
      BY <2>3, <3>3
  <2>9. job'[Scheduler].stage = "none"
    <3>1. r = Scheduler
      BY <1>4, <2>2 DEF DailyInv, TickInv
    <3> QED
      BY <1>1, <3>1 DEF SlmTyped, NoJob
  <2>10. FireInv'
    <3>1. next_fire'[1] = FirstDailyAt(now)' /\ NotAfter(next_fire'[1], FirstDailyAt(now)')
      BY <1>1, <2>6 DEF FirstDailyAt, NotAfter
    <3>2. Owed(now)' = Owed(now)
      BY <1>1 DEF Owed
    <3> QED
      BY <1>1, <2>8, <2>9, <3>1, <3>2 DEF FireInv, Early
  <2>11. DailyTyped' /\ SeedInv'
    BY <1>1, <2>6, <2>9 DEF DailyInv, DailyTyped, SeedInv
  <2>12. \A s \in Request : TickInv(s)'
    BY <1>1, <1>2, TickStays DEF DailyInv
  <2> QED
    BY <1>1, <2>1, <2>7, <2>10, <2>11, <2>12 DEF DailyInv
<1> QED
  BY <1>3, <1>4

\* The other steps of a request.
LEMMA DailyOther ==
    ASSUME DailyInv, Inv, SlmInv, NEW r \in Request,
           \/ UserRequest(r) \/ RequestStep(r) \/ StartSnapshot(r) \/ List(r) \/ Select(r) \/ Prune(r)
    PROVE  DailyInv'
<1>1. UNCHANGED <<now, policy, executions, next_fire, seeding, found, since, ran, owed>>
  BY DEF UserRequest, RequestStep, StartSnapshot, List, Select, Prune, slm, slm_history
<1>2. job \in [Request -> Job \cup {NoJob}] /\ JobInv(r)
  BY DEF SlmInv, SlmTyped
<1>3. SUFFICES \A s \in Request : SameJob(s)
  BY <1>1, DailyQuiet
<1>4. ASSUME NEW j, SetJob(r, j),
             \/ j = job[r]
             \/ /\ ~Deciding(r) /\ j.stage \notin {"wake", "skip"}
                /\ j.stage # "none" => Active(r) /\ j.from = job[r].from /\ j.at = job[r].at
      PROVE  \A s \in Request : SameJob(s)
  BY <1>2, <1>4 DEF SetJob, SameJob, Active, Deciding
<1>5. CASE UserRequest(r)
  BY <1>5 DEF UserRequest, SameJob, Active
<1>6. CASE StartSnapshot(r)
  <2>1. job[r] \in Job /\ Active(r)
    BY <1>2, <1>6 DEF StartSnapshot, NoJob, Active
  <2>0. ~Deciding(r)
    BY <1>6 DEF StartSnapshot, Deciding
  <2>2. \/ SetJob(r, [job[r] EXCEPT !.stage = "create"]) \/ SetJob(r, [job[r] EXCEPT !.stage = "record"])
    BY <1>6 DEF StartSnapshot
  <2> QED
    BY <1>4, <2>0, <2>1, <2>2 DEF Job
<1>7. CASE List(r)
  <2> DEFINE names == {e.name : e \in manifest.snapshots}
  <2>1. job[r] \in Job /\ Active(r)
    BY <1>2, <1>7 DEF List, NoJob, Active
  <2>0. ~Deciding(r)
    BY <1>7 DEF List, Deciding
  <2>2. SetJob(r, [job[r] EXCEPT !.stage = "select", !.listed = names])
    BY <1>7 DEF List
  <2> HIDE DEF names
  <2> QED
    BY <1>4, <2>0, <2>1, <2>2 DEF Job
<1>8. CASE Select(r)
  <2> DEFINE names == Pruned(job[r].policy.retention, executions, job[r].listed)
  <2>1. job[r] \in Job /\ Active(r)
    BY <1>2, <1>8 DEF Select, NoJob, Active
  <2>0. ~Deciding(r)
    BY <1>8 DEF Select, Deciding
  <2>2. SetJob(r, [job[r] EXCEPT !.stage = IF names = {} THEN "end" ELSE "prune", !.prune = names])
    BY <1>8 DEF Select
  <2> HIDE DEF names
  <2> QED
    BY <1>4, <2>0, <2>1, <2>2 DEF Job
<1>9. CASE Prune(r)
  <2> DEFINE rest == job[r].prune \ {Least(job[r].prune)}
  <2>1. job[r] \in Job /\ Active(r)
    BY <1>2, <1>9 DEF Prune, NoJob, Active
  <2>0. ~Deciding(r)
    BY <1>9 DEF Prune, Deciding
  <2>2. SetJob(r, [job[r] EXCEPT !.stage = "pruning", !.prune = rest])
    BY <1>9, <2>1 DEF Prune, Job
  <2> HIDE DEF rest
  <2> QED
    BY <1>4, <2>0, <2>1, <2>2 DEF Job
<1>10. CASE RequestStep(r)
  <2>1. PICK answered \in BOOLEAN : SetJob(r, Outcome(r, answered)) /\ pc[r] # "idle"
    BY <1>10, RepoStepFacts DEF RequestStep, SlmInv
  <2>2. CASE pc'[r] # "idle" \/ ~Active(r)
    BY <1>4, <2>1, <2>2 DEF Outcome, Active
  <2>3. CASE Active(r) /\ pc'[r] = "idle" /\ job[r].stage = "create"
    <3> DEFINE new == answered /\ created' # created
               u == IF new THEN entry[r].uuid ELSE 0
    <3>1. job[r] \in Job
      BY <1>2, <2>3 DEF Active, NoJob
    <3>2. Outcome(r, answered) = [job[r] EXCEPT !.stage = "record", !.ok = new, !.uuid = u]
      BY <2>3 DEF Outcome
    <3> HIDE DEF new, u
    <3> QED
      BY <1>4, <2>1, <2>3, <3>1, <3>2 DEF Job, Deciding
  <2>4. CASE Active(r) /\ pc'[r] = "idle" /\ job[r].stage = "pruning"
    <3>1. job[r] \in Job
      BY <1>2, <2>4 DEF Active, NoJob
    <3>2. Outcome(r, answered) = [job[r] EXCEPT !.stage = IF job[r].prune = {} THEN "end" ELSE "prune"]
      BY <2>4 DEF Outcome
    <3> QED
      BY <1>4, <2>1, <2>4, <3>1, <3>2 DEF Job, Deciding
  <2> QED
    BY <1>2, <2>1, <2>2, <2>3, <2>4 DEF JobInv
<1> QED
  BY <1>5, <1>6, <1>7, <1>8, <1>9, <1>10

LEMMA DailyNext ==
    ASSUME \A p \in Policies : FiresDaily(p), Inv, SlmInv, DailyInv, [SlmNext]_all_vars
    PROVE  DailyInv'
<1>1. SlmTyped
  BY DEF SlmInv
<1>2. CASE UNCHANGED all_vars \/ \E known \in BOOLEAN : RegisterRepository(known)
  <2>1. UNCHANGED <<now, policy, executions, next_fire, seeding, found, since, ran, owed, job>>
    BY <1>2 DEF all_vars, slm, slm_history, RegisterRepository
  <2> QED
    BY <2>1, DailyQuiet DEF SameJob
<1>3. CASE PassesTime \/ Tick \/ LookBack \/ SkipTick \/ SeedNextFire \/ RemovePolicy
  BY <1>1, <1>3, DailyPasses, DailyTicks, DailyLooksBack, DailySkips, DailySeed, DailyRemove
<1>4. CASE \E p \in Policies : PutPolicy(p)
  BY <1>4, DailyPut
<1>5. ASSUME NEW r \in Request,
             \/ Execute(r) \/ UserRequest(r) \/ RequestStep(r) \/ StartSnapshot(r)
             \/ Record(r) \/ List(r) \/ Select(r) \/ Prune(r) \/ EndJob(r)
      PROVE  DailyInv'
  BY <1>1, <1>5, DailyExecute, DailyRecord, DailyEnd, DailyOther
<1> QED
  BY <1>2, <1>3, <1>4, <1>5 DEF SlmNext

\* A policy meant to run every day does, however long its executions take within
\* the clock's assumption, and however often it is put, removed and executed by
\* hand, if its schedule fires at the first DailyAt after any instant: what
\* next_fire_after computes for one schedule is TLC's to say (MCSlm).
THEOREM EveryDayRunsHolds ==
    ASSUME \A p \in Policies \cap Daily : FiresDaily(p)
    PROVE  SlmSpec => []EveryDayRuns
<1> DEFINE D == Policies \subseteq Daily => DailyInv
<1>1. SlmInit => D
  BY DailyInit
<1>2. Inv /\ SlmInv /\ D /\ [SlmNext]_all_vars => D'
  BY DailyNext
<1>3. D => EveryDayRuns
  BY DEF DailyInv, EveryDayRuns
<1> HIDE DEF D
<1> QED
  BY <1>1, <1>2, <1>3, SlmInvHolds, PTL DEF SlmSpec
=============================================================================
