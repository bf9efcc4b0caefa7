--------------------------- MODULE RuntimeControls --------------------------
(***************************************************************************)
(* Mode, kill switch and drawdown latch: held in the memory of each API    *)
(* process (app/api/runtime.py), persisted as versioned configuration rows *)
(* (app/api/v1/admin.py, app/db/repositories/operations.py), and read and  *)
(* latched by the worker (app/workers/service.py).                         *)
(*                                                                         *)
(* A request changes the memory of its process first and persists all of   *)
(* that memory at its end.  Persisting takes three steps another actor can *)
(* come between: the memory is captured, the active rows are selected, and *)
(* the transaction commits: the selected rows are deactivated and the new  *)
(* one is active.  Only a start of the process reads the rows back.        *)
(***************************************************************************)
EXTENDS Integers, FiniteSets

CONSTANTS
    Processes,     \* API processes
    Slots,         \* requests a process may serve at a time
    Environment,   \* settings.trading_env: "paper", "demo" or "production"
    DefaultMode,   \* settings.trading_mode
    Loads,         \* which requests administrators may make: sets of tasks
    MaxRequests,   \* bound: how many requests administrators make
    DrawdownUsed,  \* whether the account may come into drawdown
    FaultsUsed     \* whether commits fail, resets conflict and processes restart

Modes == {"SIGNAL", "SEMI_AUTO", "AUTO"}

ASSUME EnvironmentAssumption == Environment \in {"paper", "demo", "production"}
ASSUME ModeAssumption == DefaultMode \in Modes /\ (Environment = "paper" => DefaultMode = "SIGNAL")
ASSUME BoundAssumption == MaxRequests \in Nat
ASSUME SwitchAssumption == DrawdownUsed \in BOOLEAN /\ FaultsUsed \in BOOLEAN

Tasks    == Processes \X Slots
Controls == [mode : Modes, kill : BOOLEAN, disabled : BOOLEAN]
Default  == [mode |-> DefaultMode, kill |-> FALSE, disabled |-> FALSE]

VARIABLES
    load,      \* the tasks that serve requests, in this behaviour
    memory,    \* memory[p]: the RuntimeControls of API process p
    active,    \* the active rows of config_type "runtime_controls"
    stamp,     \* the last activated_at handed out
    requests,  \* how many requests were made
    pc,        \* pc[t]: "idle", "reset", "capture", "select" or "commit"
    captured,  \* captured[t]: the state request t persists
    seen,      \* seen[t]: the active rows request t selected
    kind,      \* kind[t]: what request t asks for
    latch,     \* the worker's risk snapshot: "idle", "read", "select" or "commit"
    latched,   \* the row it is about to activate
    latchSeen, \* the active rows it selected
    drawdown,  \* the account is at its drawdown limit
    circuit,   \* manual_reenable_required of the circuit breaker
    pulled     \* a kill-switch request was answered and none lifted it since

api    == <<load, memory, requests, pc, captured, seen, kind, pulled>>
worker == <<latch, latched, latchSeen>>
vars   == <<api, worker, active, stamp, drawdown, circuit>>

Init ==
    /\ load \in Loads
    /\ memory = [p \in Processes |-> Default]
    /\ active = {} /\ stamp = 0 /\ requests = 0
    /\ pc = [t \in Tasks |-> "idle"]
    /\ captured = [t \in Tasks |-> Default]
    /\ seen = [t \in Tasks |-> {}]
    /\ kind = [t \in Tasks |-> "mode"]
    /\ latch = "idle" /\ latched = [state |-> Default, at |-> 0] /\ latchSeen = {}
    /\ drawdown = FALSE /\ circuit = FALSE /\ pulled = FALSE

\* active_config(): the newest active row; DurableRuntimeState.from_payload of
\* no row is the default.
Durable ==
    IF active = {} THEN Default
    ELSE (CHOOSE r \in active : \A s \in active : s.at <= r.at).state

-----------------------------------------------------------------------------
(***************************************************************************)
(* Requests of administrators.                                             *)
(***************************************************************************)

Goto(t, p) == pc' = [pc EXCEPT ![t] = p]

\* A mode change runs on a thread of its own.  The other handlers run on the
\* event loop, which none of them yields between the capture and the selection.
LoopIsFree(t) ==
    kind[t] # "mode" => \A u \in Tasks \ {t} : u[1] = t[1] /\ pc[u] = "select" => kind[u] = "mode"

\* Mutant: set_mode() does not look at the drawdown latch.
ValidModeUnlatched(p, m) == m = "SIGNAL" \/ Environment \in {"demo", "production"}

\* _validate_mode(): production is assumed to satisfy live_trading_permitted.
ValidMode(p, m) ==
    /\ m = "SIGNAL" \/ Environment \in {"demo", "production"}
    /\ ~(memory[p].disabled /\ m = "AUTO")

Change(t, controls, request, next) ==
    /\ t \in load /\ pc[t] = "idle" /\ requests < MaxRequests
    /\ requests' = requests + 1
    /\ memory' = [memory EXCEPT ![t[1]] = controls]
    /\ kind' = [kind EXCEPT ![t] = request]
    /\ pulled' = (pulled /\ request # "unkill")
    /\ Goto(t, next)
    /\ UNCHANGED <<load, active, stamp, captured, seen, worker, drawdown, circuit>>

\* POST /mode.  Production AUTO asks for demo evidence, which may be there.
ChangeMode(t) ==
    \E m \in Modes : ValidMode(t[1], m) /\ Change(t, [memory[t[1]] EXCEPT !.mode = m], "mode", "capture")

\* POST /admin/kill-switch.  The broker cancels entries before the persist.
SetKillSwitch(t) ==
    \E on \in BOOLEAN : Change(t, [memory[t[1]] EXCEPT !.kill = on], IF on THEN "kill" ELSE "unkill",
                             "capture")

\* POST /admin/circuit-reset: the memory is reset before the breaker is.
ResetCircuit(t) ==
    Change(t, [mode |-> "SIGNAL", kill |-> memory[t[1]].kill, disabled |-> FALSE], "reset", "reset")

CallManualReset(t) ==
    /\ pc[t] = "reset"
    /\ circuit' = FALSE
    /\ Goto(t, "capture")
    /\ UNCHANGED <<load, memory, requests, captured, seen, kind, pulled, worker, active, stamp, drawdown>>

\* manual_reset() raises a version conflict: the request fails, its memory stays.
ResetConflict(t) ==
    /\ FaultsUsed /\ pc[t] = "reset"
    /\ Goto(t, "idle")
    /\ UNCHANGED <<load, memory, requests, captured, seen, kind, pulled, worker, active, stamp, drawdown,
                   circuit>>

\* _persist_runtime_controls(): durable_state() of the memory as it is now.
Capture(t) ==
    /\ pc[t] = "capture" /\ LoopIsFree(t)
    /\ captured' = [captured EXCEPT ![t] = memory[t[1]]]
    /\ Goto(t, "select")
    /\ UNCHANGED <<load, memory, requests, seen, kind, pulled, worker, active, stamp, drawdown, circuit>>

\* ConfigRepository.activate(): the rows to deactivate, then utc_now().
Select(t) ==
    /\ pc[t] = "select"
    /\ seen' = [seen EXCEPT ![t] = active]
    /\ stamp' = stamp + 1
    /\ captured' = [captured EXCEPT ![t] = [state |-> @, at |-> stamp + 1]]
    /\ Goto(t, "commit")
    /\ UNCHANGED <<load, memory, requests, kind, pulled, worker, active, drawdown, circuit>>

\* The request's session commits; concurrent activations both stay active.
Commit(t) ==
    /\ pc[t] = "commit"
    /\ active' = (active \ seen[t]) \cup {captured[t]}
    /\ pulled' = (pulled \/ (captured[t].state.kill /\ memory[t[1]].kill))
    /\ captured' = [captured EXCEPT ![t] = Default]
    /\ seen' = [seen EXCEPT ![t] = {}]
    /\ Goto(t, "idle")
    /\ UNCHANGED <<load, memory, requests, kind, worker, stamp, drawdown, circuit>>

\* The commit fails and is rolled back; the memory keeps the change.
CommitFails(t) ==
    /\ FaultsUsed /\ pc[t] = "commit"
    /\ captured' = [captured EXCEPT ![t] = Default]
    /\ seen' = [seen EXCEPT ![t] = {}]
    /\ Goto(t, "idle")
    /\ UNCHANGED <<load, memory, requests, kind, pulled, worker, active, stamp, drawdown, circuit>>

Stopped(p) ==
    /\ FaultsUsed
    /\ pc' = [t \in Tasks |-> IF t[1] = p THEN "idle" ELSE pc[t]]
    /\ captured' = [t \in Tasks |-> IF t[1] = p THEN Default ELSE captured[t]]
    /\ seen' = [t \in Tasks |-> IF t[1] = p THEN {} ELSE seen[t]]
    /\ UNCHANGED <<load, requests, kind, pulled, worker, active, stamp, drawdown, circuit>>

\* Mutant: a starting process does not read the rows back.
RestartForgets(p) == Stopped(p) /\ memory' = [memory EXCEPT ![p] = Default]

\* An API process starts again: _load_durable_controls() takes some active row.
Restart(p) ==
    /\ Stopped(p)
    /\ \E m \in (IF active = {} THEN {Default} ELSE {r.state : r \in active}) :
          memory' = [memory EXCEPT ![p] = m]

-----------------------------------------------------------------------------
(***************************************************************************)
(* The worker's risk snapshot.                                             *)
(***************************************************************************)

\* The account reaches its drawdown limit, or recovers.
Market ==
    /\ DrawdownUsed
    /\ drawdown' = ~drawdown
    /\ UNCHANGED <<api, worker, active, stamp, circuit>>

\* snapshot_risk(): evaluate() locks the breaker; a lock leads to the latch.
SnapshotRisk ==
    /\ latch = "idle"
    /\ circuit' = (circuit \/ drawdown)
    /\ latch' = IF circuit' THEN "read" ELSE "idle"
    /\ UNCHANGED <<api, latched, latchSeen, active, stamp, drawdown>>

LatchDone == latch' = "idle" /\ UNCHANGED <<latched, latchSeen, stamp>>

LatchPrepared ==
    /\ stamp' = stamp + 1
    /\ latched' = [state |-> [mode |-> "SIGNAL", kill |-> Durable.kill, disabled |-> TRUE],
                   at |-> stamp + 1]
    /\ latch' = "select"
    /\ UNCHANGED latchSeen

\* Mutant: only an AUTO engine is latched.
LatchReadAutoOnly ==
    /\ latch = "read"
    /\ IF Durable.disabled \/ Durable.mode # "AUTO" THEN LatchDone ELSE LatchPrepared
    /\ UNCHANGED <<api, active, drawdown, circuit>>

\* _latch_drawdown_disable(): read the runtime state; now is taken here.
LatchRead ==
    /\ latch = "read"
    /\ IF Durable.disabled THEN LatchDone ELSE LatchPrepared
    /\ UNCHANGED <<api, active, drawdown, circuit>>

\* _activate_config_sync(): select the active rows, ...
LatchSelect ==
    /\ latch = "select"
    /\ latchSeen' = active
    /\ latch' = "commit"
    /\ UNCHANGED <<api, latched, active, stamp, drawdown, circuit>>

\* ... deactivate them and commit the new row.
LatchCommit ==
    /\ latch = "commit"
    /\ active' = (active \ latchSeen) \cup {latched}
    /\ latch' = "idle"
    /\ latchSeen' = {}
    /\ UNCHANGED <<api, latched, stamp, drawdown, circuit>>

Request(t) == ChangeMode(t) \/ SetKillSwitch(t) \/ ResetCircuit(t)
Serve(t)   == CallManualReset(t) \/ Capture(t) \/ Select(t) \/ Commit(t)
Fault(t)   == ResetConflict(t) \/ CommitFails(t)
Worker     == SnapshotRisk \/ LatchRead \/ LatchSelect \/ LatchCommit

Next ==
    \/ \E t \in Tasks : Request(t) \/ Serve(t) \/ Fault(t)
    \/ \E p \in Processes : Restart(p)
    \/ Market \/ Worker

Spec == Init /\ [][Next]_vars

-----------------------------------------------------------------------------
(***************************************************************************)
(* Properties.                                                             *)
(***************************************************************************)

\* No API memory and no row combines AUTO with the drawdown latch, whatever
\* order mode changes, resets, latches and restarts come in: DurableRuntimeState
\* would refuse to load it and every later job would fail.
NeverAutoWhileLatched ==
    /\ \A p \in Processes : ~(memory[p].disabled /\ memory[p].mode = "AUTO")
    /\ \A r \in active : ~(r.state.disabled /\ r.state.mode = "AUTO")

\* A kill switch that was answered to the administrator stays durable until a
\* request lifts it (docs/operations.md:16): neither a later mode change, a
\* failed commit or a restart, nor the worker's latch may drop it.
KillSwitchDurable == pulled => Durable.kill

\* So it does where one task serves all requests, one after the other, and the
\* worker has latched nothing yet: through mode changes, failed commits, and
\* restarts of this and of other processes of the API.
QuietKillSwitchDurable ==
    (\E t \in Tasks : load = {t}) /\ latched.at = 0 => KillSwitchDurable

\* Account drawdown "always requires an authorized manual reset"
\* (docs/risk-management.md:37): while the breaker asks for it, the durable
\* latch is not lifted.
LatchNeedsReset == [][(Durable.disabled /\ circuit /\ circuit') => Durable'.disabled]_vars

\* Once the breaker asks for manual re-enablement for good, the runtime state
\* ends up latched for good: snapshot_risk() writes the latch again after every
\* request that overwrote it with the memory of its process.
LatchPrevails == <>[]circuit => <>[]Durable.disabled

\* A starting process takes over the state the worker acts on (app/main.py:46):
\* active_version() and active_config() agree on which row is active.
RestartTakesDurable == [][\A p \in Processes : Restart(p) => memory'[p] = Durable]_vars

=============================================================================
