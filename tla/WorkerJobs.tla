----------------------------- MODULE WorkerJobs -----------------------------
(***************************************************************************)
(* The scheduled jobs of the worker replicas: the Redis leases that make   *)
(* a job a singleton (app/workers/lease.py), the health flag each job      *)
(* leaves behind (_coordinated() of app/workers/service.py), the heartbeat *)
(* keys written from those flags, and the API that reads the keys          *)
(* (_refresh_worker_health() of app/main.py).                              *)
(*                                                                         *)
(* A lease token is named after the scheduler entry that drew it; an entry *)
(* has one run at a time (max_instances = 1).  What a job does is left to  *)
(* the other modules: here it completes or raises.                         *)
(***************************************************************************)
EXTENDS Naturals, FiniteSets

CONSTANTS
    Replicas,      \* worker processes
    Entries,       \* the scheduler entries that are modelled
    Failing,       \* the entries whose job may raise
    MaxFaults,     \* bound: crashes, stops and Redis calls that fail
    LapsesUsed     \* whether a job may outlive the TTL of its lease

None    == "none"
NoToken == << >>   \* the key of a lease is absent

\* The job (the lease name) and the component of an entry of start_scheduler().
JobOf(i) ==
    CASE i \in {"h1_scan", "m15_setup_update", "m5_confirmation"} -> "market-scan"
      [] i = "heartbeat" -> "worker-heartbeat"
      [] OTHER -> i

Component(i) ==
    CASE JobOf(i) = "market-scan" -> "strategy_worker"
      [] i \in {"execution", "position_management"} -> "execution_worker"
      [] i = "notification_outbox" -> "notification_worker"
      [] OTHER -> None

Jobs       == {JobOf(i) : i \in Entries}
Components == {Component(i) : i \in Entries} \ {None}
Runs       == Replicas \X Entries
Job(x)     == JobOf(x[2])

ASSUME EntryAssumption == Failing \subseteq Entries /\ MaxFaults \in Nat

VARIABLES
    up,        \* the replicas that are started
    healthy,   \* healthy[r][c]: _component_healthy
    running,   \* the runs that hold a RedisLease and have not ended
    lapsed,    \* ghost: those among them whose lease ended under them
    lock,      \* lock[j]: the token stored under the key of job j
    beating,   \* beating[r]: components a heartbeat of r still has to write
    key,       \* key[c]: the heartbeat key: "none", "fresh" or "old"
    reported,  \* reported[c]: the health the API recorded last
    last,      \* ghost, last[i]: how the last run of an entry ended
    faults     \* how many faults happened

leases == <<running, lapsed, lock>>
jobsVars   == <<up, healthy, leases, beating, key, reported, last, faults>>

JobsInit ==
    /\ up = {}
    /\ healthy = [r \in Replicas |-> [c \in Components |-> FALSE]]
    /\ running = {} /\ lapsed = {}
    /\ lock = [j \in Jobs |-> NoToken]
    /\ beating = [r \in Replicas |-> {}]
    /\ key = [c \in Components |-> "none"]
    /\ reported = [c \in Components |-> FALSE]
    /\ last = [i \in Entries |-> None]
    /\ faults = 0

JobsTypeOK ==
    /\ up \subseteq Replicas
    /\ healthy \in [Replicas -> [Components -> BOOLEAN]]
    /\ running \subseteq Runs /\ lapsed \subseteq running
    /\ lock \in [Jobs -> Runs \union {NoToken}]
    /\ beating \in [Replicas -> SUBSET Components]
    /\ key \in [Components -> {"none", "fresh", "old"}]
    /\ reported \in [Components -> BOOLEAN]
    /\ last \in [Entries -> {None, "COMPLETED", "FAILED"}]
    /\ faults \in Nat

OneFault == faults < MaxFaults /\ faults' = faults + 1

-----------------------------------------------------------------------------
(***************************************************************************)
(* RedisLeaseManager.                                                      *)
(***************************************************************************)

\* SET key token NX: the key is absent.
Free(j) == lock[j] = NoToken

\* acquire() returns a lease.
Acquire(x) ==
    /\ x[1] \in up /\ x \notin running /\ Free(Job(x))
    /\ lock' = [lock EXCEPT ![Job(x)] = x]
    /\ running' = running \union {x}
    /\ beating' = IF x[2] = "heartbeat" THEN [beating EXCEPT ![x[1]] = Components] ELSE beating
    /\ UNCHANGED <<up, healthy, lapsed, key, reported, last, faults>>

\* The SET is applied and its reply lost: None is returned, and nobody has the token.
AcquireLost(x) ==
    /\ x[1] \in up /\ x \notin running /\ Free(Job(x)) /\ OneFault
    /\ lock' = [lock EXCEPT ![Job(x)] = x]
    /\ UNCHANGED <<up, healthy, running, lapsed, beating, key, reported, last>>

\* Mutant: a release deletes the key whoever owns it.
ReleasedAny(j, x) == NoToken

\* The compare-and-delete of _RELEASE_SCRIPT.
Released(j, x) == IF lock[j] = x THEN NoToken ELSE lock[j]

\* release() in the finally clause of run(); the call to Redis may fail.
Release(x) ==
    /\ running' = running \ {x}
    /\ lapsed' = lapsed \ {x}
    /\ \/ lock' = [lock EXCEPT ![Job(x)] = Released(Job(x), x)] /\ UNCHANGED faults
       \/ UNCHANGED lock /\ OneFault

\* Mutant: the key is stored without an expiry.
ExpiresNever(j) == FALSE

\* PX: the TTL ends, with the holder gone or, if it is slow, still at work.
Expires(j) == lock[j] # NoToken /\ (LapsesUsed \/ lock[j] \notin running)

LeaseExpires(j) ==
    /\ Expires(j)
    /\ lapsed' = lapsed \union ({lock[j]} \intersect running)
    /\ lock' = [lock EXCEPT ![j] = NoToken]
    /\ UNCHANGED <<up, healthy, running, beating, key, reported, last, faults>>

-----------------------------------------------------------------------------
(***************************************************************************)
(* _coordinated() and the heartbeat.                                       *)
(***************************************************************************)

\* The flag of the component, set by every job of that component.
Flag(x, h) ==
    IF Component(x[2]) = None THEN healthy
    ELSE [healthy EXCEPT ![x[1]][Component(x[2])] = h]

Ended(x, status) ==
    /\ Release(x)
    /\ healthy' = Flag(x, status = "COMPLETED")
    /\ last' = [last EXCEPT ![x[2]] = status]

\* The job returns.
Complete(x) ==
    /\ x \in running
    /\ x[2] = "heartbeat" => beating[x[1]] = {}
    /\ Ended(x, "COMPLETED")
    /\ UNCHANGED <<up, beating, key, reported>>

\* The job raises: contained, flagged and journalled (record_job_failure).
JobFails(x) ==
    /\ x \in running /\ x[2] \in Failing
    /\ Ended(x, "FAILED")
    /\ beating' = IF x[2] = "heartbeat" THEN [beating EXCEPT ![x[1]] = {}] ELSE beating
    /\ UNCHANGED <<up, key, reported>>

\* heartbeat(): one component after the other, SET with a TTL or DELETE.
Beat(r, c) ==
    /\ c \in beating[r]
    /\ beating' = [beating EXCEPT ![r] = @ \ {c}]
    /\ key' = [key EXCEPT ![c] = IF healthy[r][c] THEN "fresh" ELSE "none"]
    /\ UNCHANGED <<up, healthy, leases, reported, last, faults>>

\* A key is too old for the API after two intervals and gone after three.
KeyAged(c) == IF key[c] = "fresh" THEN "old" ELSE "none"

KeyAges(c) ==
    /\ key[c] # "none"
    /\ key' = [key EXCEPT ![c] = KeyAged(c)]
    /\ UNCHANGED <<up, healthy, leases, beating, reported, last, faults>>

-----------------------------------------------------------------------------
(***************************************************************************)
(* Processes.                                                              *)
(***************************************************************************)

\* startup(), then start_scheduler(): every flag is set and the first heartbeat
\* is written outside the lease.  A startup that fails leaves no flag and raises.
Start(r) ==
    /\ r \notin up
    /\ up' = up \union {r}
    /\ healthy' = [healthy EXCEPT ![r] = [c \in Components |-> TRUE]]
    /\ key' = [c \in Components |-> "fresh"]
    /\ UNCHANGED <<leases, beating, reported, last, faults>>

\* shutdown(): the scheduler cancels its jobs, which release their leases, and
\* the STOPPED heartbeat deletes the keys.
Stop(r) ==
    /\ r \in up /\ OneFault
    /\ up' = up \ {r}
    /\ healthy' = [healthy EXCEPT ![r] = [c \in Components |-> FALSE]]
    /\ running' = {x \in running : x[1] # r}
    /\ lapsed' = {x \in lapsed : x[1] # r}
    /\ lock' = [j \in Jobs |-> IF lock[j] \in running /\ lock[j][1] = r THEN NoToken ELSE lock[j]]
    /\ key' = [c \in Components |-> "none"]
    /\ beating' = [beating EXCEPT ![r] = {}]
    /\ UNCHANGED <<reported, last>>

\* The process dies: its leases and keys are left to their TTL.
ReplicaCrash(r) ==
    /\ r \in up /\ OneFault
    /\ up' = up \ {r}
    /\ healthy' = [healthy EXCEPT ![r] = [c \in Components |-> FALSE]]
    /\ running' = {x \in running : x[1] # r}
    /\ lapsed' = {x \in lapsed : x[1] # r}
    /\ beating' = [beating EXCEPT ![r] = {}]
    /\ UNCHANGED <<lock, key, reported, last>>

\* Mutant: a missing key leaves the recorded health alone.
ReportsLast(c) == key[c] = "fresh" \/ (key[c] = "none" /\ reported[c])

\* A key that is there and not older than two intervals.
Reports(c) == key[c] = "fresh"

\* _refresh_worker_health().
RefreshWorkerHealth ==
    /\ reported' = [c \in Components |-> Reports(c)]
    /\ UNCHANGED <<up, healthy, leases, beating, key, last, faults>>

Ends(x) == Complete(x) \/ JobFails(x)

JobsNext ==
    \/ \E r \in Replicas : Start(r) \/ Stop(r) \/ ReplicaCrash(r) \/ \E c \in Components : Beat(r, c)
    \/ \E x \in Runs : Acquire(x) \/ AcquireLost(x) \/ Ends(x)
    \/ \E j \in Jobs : LeaseExpires(j)
    \/ \E c \in Components : KeyAges(c)
    \/ RefreshWorkerHealth

JobsSpec == JobsInit /\ [][JobsNext]_jobsVars

-----------------------------------------------------------------------------
(***************************************************************************)
(* Properties.                                                             *)
(***************************************************************************)

\* Two runs of one job overlap only when the lease of one of them ended under it:
\* a late release never takes the lease of the next holder away, and a crash, a
\* stop or a lost reply never lets two runs in.
OverlapOnlyAfterLapse ==
    \A x, y \in running \ lapsed : Job(x) = Job(y) => x = y

\* Every job goes on being run, whatever a crash or a lost reply left behind in
\* Redis.
JobsKeepRunning == \A j \in Jobs : []<>(\E x \in running : Job(x) = j)

\* Once every replica is down for good the API reports every component unhealthy
\* for good, also when the last of them died without deleting its keys.
DeadIsReported == <>[](up = {}) => <>[](\A c \in Components : ~reported[c])

\* A component one of whose jobs raises at every run is reported unhealthy from
\* time to time.
FailureIsReported ==
    \A i \in {e \in Entries : Component(e) # None} :
        <>[](last[i] = "FAILED") => []<>(~reported[Component(i)])

=============================================================================
