---------------------------- MODULE ConfigUpdates ----------------------------
(***************************************************************************)
(* Changes of the strategy or of the risk configuration: the copy the API  *)
(* process holds (RuntimeControls of app/api/runtime.py), the versions in  *)
(* PostgreSQL, and the configuration the worker builds from the active one *)
(* with its own defaults (_risk_limits() and _strategy() of                *)
(* app/workers/service.py).                                                *)
(*                                                                         *)
(* Three fields that the code wants in order stand for the payload: daily  *)
(* <= weekly <= account for risk, fast < slow < long for the strategy.     *)
(* Activating a version is one step here; its race with another activation *)
(* is followed in RuntimeControls.                                         *)
(***************************************************************************)
EXTENDS Naturals, Sequences, FiniteSets

CONSTANTS
    Requests,      \* threads of the API that serve one request at a time
    Values,        \* values of a field, all within its bounds
    MaxUpdates,   \* bound: requests
    MaxFailedCommits,   \* bound: commits that fail
    MaxRestarts    \* bound: restarts of the API

Names == {"low", "middle", "high"}

ASSUME ConfigAssumption == Values \subseteq Nat

\* The settings, or the defaults of GoldStrategyConfig
Defaults == [low |-> 1, middle |-> 2, high |-> 3]

Nothing == << >>

VARIABLES
    subject,    \* the configuration that is followed: "risk" or "strategy"
    copy,       \* [version, values] of RuntimeControls
    thread,     \* thread[r]: the version a request is about to store
    versions,   \* the stored versions in the order of their commits
    current,    \* index of the active one, 0 for none
    count       \* requests, failures and restarts so far

configVars == <<subject, copy, thread, versions, current, count>>

NoThread == [pc |-> "idle"]

\* RuntimeControls.__init__(): every risk field is there, no strategy field.
InitialMemory ==
    [version |-> 0, values |-> IF subject = "risk" THEN Defaults ELSE Nothing]

ConfigInit ==
    /\ subject \in {"risk", "strategy"}
    /\ copy = InitialMemory /\ thread = [r \in Requests |-> NoThread]
    /\ versions = << >> /\ current = 0
    /\ count = [requests |-> 0, failures |-> 0, restarts |-> 0]

Updated(values, change) ==
    [n \in DOMAIN values \cup DOMAIN change |->
        IF n \in DOMAIN change THEN change[n] ELSE values[n]]

-----------------------------------------------------------------------------
(* The API.                                                                *)

InOrder(values) ==
    IF subject = "risk"
    THEN values["low"] <= values["middle"] /\ values["middle"] <= values["high"]
    ELSE values["low"] < values["middle"] /\ values["middle"] < values["high"]

\* Mutant: only the fields of the request are compared.
RelationshipsOfChange(values, change) == DOMAIN change = Names => InOrder(change)

\* _validate_risk_relationships(), _validate_strategy_relationships(): the
\* strategy fields are compared when all of them are in the payload.
Relationships(values, change) ==
    Names \subseteq DOMAIN Updated(values, change) => InOrder(Updated(values, change))

\* update_risk(), update_strategy(): the copy changes under the lock, before
\* anything is stored; the thread keeps the configuration it will store.
Update(r, change) ==
    /\ thread[r].pc = "idle" /\ count.requests < MaxUpdates
    /\ Relationships(copy.values, change)
    /\ copy' = [version |-> copy.version + 1,
                  values |-> Updated(copy.values, change)]
    /\ thread' = [thread EXCEPT ![r] = [pc |-> "storing", config |-> copy', change |-> change]]
    /\ count' = [count EXCEPT !.requests = @ + 1]
    /\ UNCHANGED <<subject, versions, current>>

Stored(version) == \E i \in DOMAIN versions : versions[i].version = version

\* add_version() with activate: the row is inserted and made the active one.
\* A strategy version is unique, a risk version is a time stamp.
Store(r) ==
    /\ thread[r].pc = "storing"
    /\ subject = "strategy" => ~Stored(thread[r].config.version)
    /\ versions' = Append(versions, thread[r].config)
    /\ current' = Len(versions')
    /\ thread' = [thread EXCEPT ![r] = NoThread]
    /\ UNCHANGED <<subject, copy, count>>

\* The insert collides or the commit fails: the session is rolled back and the
\* request answered with an error.
StoreFails(r) ==
    /\ thread[r].pc = "storing"
    /\ \/ /\ subject = "strategy" /\ Stored(thread[r].config.version)
          /\ UNCHANGED count
       \/ /\ count.failures < MaxFailedCommits
          /\ count' = [count EXCEPT !.failures = @ + 1]
    /\ thread' = [thread EXCEPT ![r] = NoThread]
    /\ UNCHANGED <<subject, copy, versions, current>>

\* _load_durable_controls(): restore_risk(), restore_strategy()
RestartApi ==
    /\ count.restarts < MaxRestarts
    /\ count' = [count EXCEPT !.restarts = @ + 1]
    /\ copy' = IF current = 0 THEN InitialMemory ELSE versions[current]
    /\ thread' = [r \in Requests |-> NoThread]
    /\ UNCHANGED <<subject, versions, current>>

Changes ==
    UNION {[d -> Values] : d \in {d \in SUBSET Names : Cardinality(d) \in 1 .. 2}}

Done == count.requests = MaxUpdates /\ UNCHANGED configVars

ConfigNext ==
    \/ \E r \in Requests : Store(r) \/ StoreFails(r) \/ \E c \in Changes : Update(r, c)
    \/ RestartApi
    \/ Done

ConfigSpec == ConfigInit /\ [][ConfigNext]_configVars

-----------------------------------------------------------------------------
(* The worker.                                                             *)

\* _risk_limits(), _strategy(): the active payload over the own defaults
WorkerConfig ==
    IF current = 0 THEN Defaults ELSE Updated(Defaults, versions[current].values)

-----------------------------------------------------------------------------
(* Properties.                                                             *)

\* Whatever requests are served, fail or race, and whichever version ends up
\* active, the worker's limits are in order: RiskLimits and, for the strategy,
\* GoldStrategyConfig can be built from what the API stored.
WorkerCanBuild == InOrder(WorkerConfig)

\* A version names one configuration: signals and trades carry the version of
\* the strategy they came from.  Commits in another order than the updates,
\* followed by a restart, make the API draw a version again.
VersionsIdentify ==
    \A i, j \in DOMAIN versions : versions[i].version = versions[j].version => versions[i] = versions[j]

\* Whatever updates of the API are served, fail or race, _risk_limits() of the
\* worker can build its limits from the active risk version, and a strategy version
\* names one configuration.
VersionsUsable ==
    /\ subject = "risk" => WorkerCanBuild
    /\ subject = "strategy" => VersionsIdentify

\* A stored configuration differs from the active one only in what its own
\* request changed.
OnlyRequestedChanges ==
    [][versions' # versions =>
         \E r \in Requests :
            /\ thread[r].pc = "storing"
            /\ versions'[current'].values =
                 Updated(IF current = 0 THEN InitialMemory.values ELSE versions[current].values,
                         thread[r].change)]_configVars

=============================================================================
