-------------------------------- MODULE Slm ---------------------------------
(***************************************************************************)
(* Snapshot lifecycle management (surch-api, slm/): the registry of        *)
(* policies, their execution log and next fire, the scheduler's tick, the  *)
(* manual execution of a policy and the retention that follows, running    *)
(* next to the snapshot requests of users on the same repository.          *)
(*                                                                         *)
(* One policy id is modelled.  A request of SnapshotRepo is a user's, or   *)
(* works for a policy: job[r] says at which step.  The name of a snapshot  *)
(* of the policy is the day its execution was started (`{now/d}`).         *)
(***************************************************************************)
EXTENDS SnapshotRepo, Sequences, Cron

CONSTANTS
    Policies,               \* the policies that may be put under the id
    Daily,                  \* those meant to run every day at DailyAt
    DailyAt,
    Scheduler,              \* the request that is the scheduler's task
    Start, End, Instants,   \* the first and the last day, the seconds of a day that are told apart
    EXECUTION_LOG_CAPACITY,
    MaxAsks                 \* bound on the requests of users

SecondsPerDay == 86400
NoPolicy == [kind |-> "none"]

\* The day is a snapshot name; retention counts are those of the policy's JSON,
\* -1 for a max_count that is not set.
ASSUME SlmConstants ==
    /\ Scheduler \in Request
    /\ Start \in Nat /\ End \in Nat /\ Start <= End /\ Start .. End \subseteq Name
    /\ Instants \subseteq Nat /\ Instants # {} /\ \A s \in Instants : s < SecondsPerDay
    /\ DailyAt \in Nat /\ DailyAt < SecondsPerDay
    /\ EXECUTION_LOG_CAPACITY \in Nat \ {0}
    /\ NoPolicy \notin Policies
    /\ \A p \in Policies : /\ p.retention.min_count \in Nat
                           /\ p.retention.max_count \in Nat \cup {-1}

VARIABLES
    now,
    registered,     \* the repository is known
    policy,         \* the policy under the id, or NoPolicy
    executions,     \* its log; oldest first
    next_fire,      \* <<>> when there is none
    seeding,        \* the policy put_policy has stored without its next fire yet, or NoPolicy
    found,          \* the fire a tick goes by and has not stored yet, <<>> when there is none
    job,
    \* history
    asks,
    since,          \* when the policy was last put
    ran,            \* days on which a tick executed the policy
    owed,           \* days on which a tick found the policy at the time of day it is set to, or later
    taken,          \* uuids of the snapshots the log was told of, in that order
    pruned          \* the snapshots retention deleted, with the min_count it went by

slm == <<now, registered, policy, executions, next_fire, seeding, found>>
slm_history == <<asks, since, ran, owed, taken, pruned>>
all_vars == <<vars, slm, job, slm_history>>

\* The clock starts at the first instant of a day.
Times == {Instant(d, s) : d \in Start .. End, s \in Instants}

\* When a policy fires after an instant, or after the second before it.
JustBefore(t) == Instant(t.day - 1, t.sec + SecondsPerDay - 1)
Fires == [p \in Policies |-> [t \in Times \cup {JustBefore(x) : x \in Times} |-> next_fire_after(parse(p.schedule).ok, t)]]

NoJob == [stage |-> "none"]
Never == Instant(0, 0)

First == CHOOSE t \in Times : \A x \in Times : NotAfter(t, x)

SlmInit ==
    /\ Init
    /\ now = First /\ registered = TRUE
    /\ policy = NoPolicy /\ executions = <<>> /\ next_fire = <<>> /\ seeding = NoPolicy /\ found = <<>>
    /\ job = [r \in Request |-> NoJob]
    /\ asks = 0 /\ since = Never /\ ran = {} /\ owed = {} /\ taken = <<>> /\ pruned = {}

Ask == asks < MaxAsks /\ asks' = asks + 1

Active(r) == job[r].stage # "none"
SetJob(r, j) == job' = [job EXCEPT ![r] = j]

-----------------------------------------------------------------------------
(* The clock.                                                              *)

Least(S) == CHOOSE s \in S : \A x \in S : s <= x

Later(t) ==
    LET today == {s \in Instants : s > t.sec}
    IN  IF today # {} THEN Instant(t.day, Least(today)) ELSE Instant(t.day + 1, Least(Instants))

\* A tick is over before the time policies are set to on the next day, and
\* nothing to speak of passes between the two locks of put_policy, or between
\* those of a tick that has not found a policy due.
PassesTime ==
    /\ seeding = NoPolicy
    /\ job[Scheduler].stage \notin {"wake", "skip"}
    /\ Later(now).day <= End
    /\ Active(Scheduler) => Before(Later(now), Instant(job[Scheduler].at.day + 1, DailyAt))
    /\ now' = Later(now)
    /\ UNCHANGED <<vars, registered, policy, executions, next_fire, seeding, found, job, slm_history>>

-----------------------------------------------------------------------------
(* The registries.                                                         *)

\* PUT and DELETE of the repository.
RegisterRepository(known) ==
    /\ Ask /\ registered # known
    /\ registered' = known
    /\ UNCHANGED <<vars, now, policy, executions, next_fire, seeding, found, job, since, ran, owed, taken, pruned>>

\* upsert leaves the log and the next fire of an earlier policy alone.
PutPolicy(p) ==
    /\ Ask /\ seeding = NoPolicy /\ is_valid(p.schedule)
    /\ policy' = p /\ seeding' = p /\ since' = now
    /\ UNCHANGED <<vars, now, registered, executions, next_fire, found, job, ran, owed, taken, pruned>>

\* The second half of put_policy, under a lock of its own.
SeedNextFire ==
    /\ seeding # NoPolicy
    /\ next_fire' = Fires[seeding][now]
    /\ seeding' = NoPolicy /\ since' = now
    /\ UNCHANGED <<vars, now, registered, policy, executions, found, job, asks, ran, owed, taken, pruned>>

RemovePolicy ==
    /\ Ask /\ policy # NoPolicy
    /\ policy' = NoPolicy /\ executions' = <<>> /\ next_fire' = <<>>
    /\ UNCHANGED <<vars, now, registered, seeding, found, job, since, ran, owed, taken, pruned>>

-----------------------------------------------------------------------------
(* run_tick and execute_policy, up to the snapshot.                        *)

Execution(p, from, t) == [stage |-> "start", policy |-> p, from |-> from, at |-> t, ok |-> FALSE, uuid |-> 0, listed |-> {}, prune |-> {}]

\* Mutant: a fire at this very instant is left to a later tick.
due_later(fire, t) == fire # <<>> /\ Before(fire[1], t)

due(fire, t) == fire # <<>> /\ NotAfter(fire[1], t)

\* The day of a tick, if it comes after the time a daily policy is set to, and
\* the policy was put before.
Owed(t) == LET set == Instant(t.day, DailyAt) IN IF Before(since, set) /\ NotAfter(set, t) THEN {t.day} ELSE {}

\* What a tick makes of a fire: the policy runs, or the fire is to be stored.
Decide(e, fire) ==
    \/ /\ due(fire, e.at)
       /\ SetJob(Scheduler, [e EXCEPT !.stage = "start"]) /\ ran' = ran \cup {e.at.day}
       /\ UNCHANGED found
    \/ /\ ~due(fire, e.at)
       /\ SetJob(Scheduler, [e EXCEPT !.stage = "skip"]) /\ found' = fire
       /\ UNCHANGED ran

\* The scheduler wakes up: the policy and its next fire are read under one lock.
Tick ==
    LET e == Execution(policy, "tick", now)
    IN  /\ ~Active(Scheduler) /\ pc[Scheduler] = "idle" /\ policy # NoPolicy
        /\ \/ next_fire # <<>> /\ Decide(e, next_fire)
           \/ next_fire = <<>> /\ SetJob(Scheduler, [e EXCEPT !.stage = "wake"]) /\ UNCHANGED <<ran, found>>
        /\ UNCHANGED <<vars, now, registered, policy, executions, next_fire, seeding, asks, since, owed, taken, pruned>>

\* A fire that is not known is looked for after the last execution, or from now.
FireOf(e) == Fires[e.policy][IF executions # <<>> THEN executions[Len(executions)].finished ELSE JustBefore(e.at)]

LookBack ==
    /\ job[Scheduler].stage = "wake"
    /\ Decide(job[Scheduler], FireOf(job[Scheduler]))
    /\ UNCHANGED <<vars, now, registered, policy, executions, next_fire, seeding, asks, since, owed, taken, pruned>>

\* set_next_fire of a tick that found nothing to do.
SkipTick ==
    /\ job[Scheduler].stage = "skip"
    /\ next_fire' = found /\ found' = <<>>
    /\ owed' = owed \cup Owed(job[Scheduler].at)
    /\ SetJob(Scheduler, NoJob)
    /\ UNCHANGED <<vars, now, registered, policy, executions, seeding, asks, since, ran, taken, pruned>>

Execute(r) ==
    /\ Ask /\ r # Scheduler /\ ~Active(r) /\ pc[r] = "idle" /\ policy # NoPolicy
    /\ SetJob(r, Execution(policy, "request", now))
    /\ UNCHANGED <<vars, slm, since, ran, owed, taken, pruned>>

\* The repository is looked up; without one the execution has failed.
StartSnapshot(r) ==
    /\ job[r].stage = "start"
    /\ IF registered
       THEN GetManifest(r, "create", job[r].at.day) /\ SetJob(r, [job[r] EXCEPT !.stage = "create"])
       ELSE UNCHANGED vars /\ SetJob(r, [job[r] EXCEPT !.stage = "record"])
    /\ UNCHANGED <<slm, slm_history>>

-----------------------------------------------------------------------------
(* The log and retention.                                                  *)

record_execution(log, e) ==
    LET q == Append(log, e) n == Len(q) - EXECUTION_LOG_CAPACITY
    IN  IF n > 0 THEN SubSeq(q, n + 1, Len(q)) ELSE q

\* The log is written also when the policy was removed meanwhile.
Record(r) ==
    /\ job[r].stage = "record"
    /\ executions' = record_execution(executions, [name |-> job[r].at.day, ok |-> job[r].ok, finished |-> now])
    /\ taken' = IF job[r].ok THEN Append(taken, job[r].uuid) ELSE taken
    /\ SetJob(r, [job[r] EXCEPT !.stage = IF job[r].ok /\ registered THEN "list" ELSE "end"])
    /\ UNCHANGED <<vars, now, registered, policy, next_fire, seeding, found, asks, since, ran, owed, pruned>>

\* list_snapshots: the manifest is read once.
List(r) ==
    /\ job[r].stage = "list"
    /\ SetJob(r, [job[r] EXCEPT !.stage = "select", !.listed = {e.name : e \in manifest.snapshots}])
    /\ UNCHANGED <<vars, slm, slm_history>>

Larger(a, b) == IF a < b THEN b ELSE a

\* Seconds of a retention duration; one that does not parse is ignored.
parse_retention_duration(d) ==
    LET unit == CASE d[2] = "s" -> 1 [] d[2] = "m" -> 60 [] d[2] = "h" -> 3600 [] d[2] = "d" -> SecondsPerDay
    IN  d[1] * unit

Age(t) == (now.day - t.day) * SecondsPerDay + now.sec - t.sec

keep_count(retention) == Larger(retention.max_count, retention.min_count)

\* The executions of the log whose snapshot is listed, and how many others of
\* them are more recent.
Successful(log, listed) == {k \in DOMAIN log : log[k].ok /\ log[k].name \in listed}
Newer(successful, k) == Cardinality({j \in successful : j > k})

\* Mutant: the newest go.
PrunedNewest(retention, log, listed) ==
    LET successful == Successful(log, listed)
    IN  {log[k].name : k \in {i \in successful :
            Cardinality({j \in successful : j < i}) >= keep_count(retention)}}

\* The oldest beyond the count and those that are too old; min_count of the
\* newest are never among them.
Pruned(retention, log, listed) ==
    LET successful == Successful(log, listed)
        excess     == {k \in successful : /\ retention.max_count # -1
                                         /\ Newer(successful, k) >= keep_count(retention)}
        expired    == {k \in successful :
                          /\ Newer(successful, k) >= retention.min_count
                          /\ retention.expire_after # <<>>
                          /\ Age(log[k].finished) >= parse_retention_duration(retention.expire_after)}
    IN  {log[k].name : k \in excess \cup expired}

Select(r) ==
    LET names == Pruned(job[r].policy.retention, executions, job[r].listed)
    IN  /\ job[r].stage = "select"
        /\ SetJob(r, [job[r] EXCEPT !.stage = IF names = {} THEN "end" ELSE "prune", !.prune = names])
        /\ UNCHANGED <<vars, slm, slm_history>>

\* delete_snapshot of the next name, in the order of the names (BTreeSet); an
\* error is logged and left.
Prune(r) ==
    LET next == Least(job[r].prune)
    IN  /\ job[r].stage = "prune"
        /\ GetManifest(r, "delete", next)
        /\ SetJob(r, [job[r] EXCEPT !.stage = "pruning", !.prune = @ \ {next}])
        /\ UNCHANGED <<slm, slm_history>>

\* After its snapshot a tick looks for the next fire of the schedule it read.
EndJob(r) ==
    /\ job[r].stage = "end"
    /\ SetJob(r, NoJob)
    /\ IF job[r].from = "tick"
       THEN /\ next_fire' = Fires[job[r].policy][now]
            /\ owed' = owed \cup Owed(job[r].at)
       ELSE UNCHANGED <<next_fire, owed>>
    /\ UNCHANGED <<vars, now, registered, policy, executions, seeding, found, asks, since, ran, taken, pruned>>

-----------------------------------------------------------------------------
(* The repository's steps, and what a job makes of their outcome.          *)

RepoStep(r) ==
    \/ ReadEtag(r) \/ PlanCreate(r) \/ PlanDelete(r) \/ PlanRefused(r)
    \/ TouchPayload(r) \/ TouchSummary(r) \/ compare_and_set(r) \/ Fail(r)

\* A request that has written the manifest may still end in an error, when the
\* ETag cannot be read again.
Outcome(r, answered) ==
    CASE pc'[r] # "idle" \/ ~Active(r) -> job[r]
      [] pc'[r] = "idle" /\ job[r].stage = "create" ->
             LET ok == answered /\ created' # created
             IN  [job[r] EXCEPT !.stage = "record", !.ok = ok, !.uuid = IF ok THEN entry[r].uuid ELSE 0]
      [] pc'[r] = "idle" /\ job[r].stage = "pruning" -> [job[r] EXCEPT !.stage = IF job[r].prune = {} THEN "end" ELSE "prune"]

RequestStep(r) ==
    /\ RepoStep(r)
    /\ \E answered \in BOOLEAN : (answered \/ r \in Failing) /\ SetJob(r, Outcome(r, answered))
    /\ pruned' = IF Active(r) /\ deleted' # deleted THEN pruned \cup {[uuid |-> entry[r].uuid, min_count |-> job[r].policy.retention.min_count]} ELSE pruned
    /\ UNCHANGED <<slm, asks, since, ran, owed, taken>>

\* A user's request.
UserRequest(r) ==
    /\ Ask /\ r # Scheduler /\ ~Active(r)
    /\ \E o \in {"create", "delete"}, n \in Name : GetManifest(r, o, n)
    /\ UNCHANGED <<slm, job, since, ran, owed, taken, pruned>>

SlmNext ==
    \/ PassesTime \/ Tick \/ LookBack \/ SkipTick \/ SeedNextFire \/ RemovePolicy
    \/ \E known \in BOOLEAN : RegisterRepository(known)
    \/ \E p \in Policies : PutPolicy(p)
    \/ \E r \in Request : \/ Execute(r) \/ UserRequest(r) \/ RequestStep(r)
                          \/ StartSnapshot(r) \/ Record(r) \/ List(r) \/ Select(r) \/ Prune(r) \/ EndJob(r)

SlmSpec == SlmInit /\ [][SlmNext]_all_vars

-----------------------------------------------------------------------------
(* Properties.                                                             *)

\* A policy that is meant to run every day runs on every day on which the
\* scheduler wakes up after the time of day it is set to: a tick that found the
\* policy, put before that time, has executed it on that day.
EveryDayRuns == Policies \subseteq Daily => owed \subseteq ran

\* What that takes of a schedule: after any instant it fires at the first DailyAt
\* to come.
FirstDailyAt(t) == Instant(IF t.sec < DailyAt THEN t.day ELSE t.day + 1, DailyAt)
FiresDaily(p) ==
    \A t \in Times \cup {JustBefore(x) : x \in Times} :
        next_fire_after(parse(p.schedule).ok, t) = <<FirstDailyAt(t)>>

\* slm/mod.rs: "`min_count` protects the newest successful snapshots from
\* pruning": what retention deletes is older than min_count successful snapshots
\* of the policy, counted in the order the log was told of them.
MinCountProtects ==
    \A x \in pruned : \E k \in DOMAIN taken : taken[k] = x.uuid /\ Len(taken) - k >= x.min_count

\* That holds however executions, deletions and removals of the policy
\* interleave, as long as no name is given to a second snapshot: retention goes
\* by name.
RetentionKeepsNewest == (\A e, f \in created : e.name = f.name => e = f) => MinCountProtects
=============================================================================
