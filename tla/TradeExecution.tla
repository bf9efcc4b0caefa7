--------------------------- MODULE TradeExecution ---------------------------
(***************************************************************************)
(* How worker replicas turn persisted signals into broker orders.          *)
(*                                                                         *)
(* Every replica runs two asyncio jobs that touch execution attempts:      *)
(*   "execution"       execute_signals    (app/workers/service.py)         *)
(*   "reconciliation"  reconcile_unknown_executions, also run by startup() *)
(* Both drive a TradeExecutor (app/execution/executor.py).  What they      *)
(* share is durable: the execution attempt (claim/update of                *)
(* SqlAlchemyIdempotencyStore), the signal, order and position rows that   *)
(* record_execution writes, and the broker itself.  A replica may crash    *)
(* between any two steps, a Redis lease may lapse under a running job, a   *)
(* reply may be lost, and an order may reach the broker's book after the   *)
(* sender has given up on it.                                              *)
(*                                                                         *)
(* One step of a job is the code between two awaits that matter.  A        *)
(* signal stands for its idempotency key "account:signal", and for the     *)
(* broker ticket of the one order that key may create.                     *)
(***************************************************************************)
EXTENDS Integers, FiniteSets

CONSTANTS
    Replicas,         \* worker processes
    Signals,          \* persisted LONG/SHORT signals
    OrderType,        \* settings.entry_order_type: "MARKET" or "PENDING"
    FillProtections,  \* stop states a broker may give a fresh position
    KillSwitchUsed,   \* whether an administrator may pull the kill switch
    NoReplica,        \* an unheld lease
    NoSignal          \* a job that is working on no signal

Protections == {"exact", "wrong", "naked"}

ASSUME OrderTypeAssumption == OrderType \in {"MARKET", "PENDING"}
ASSUME FillAssumption == FillProtections \subseteq Protections /\ FillProtections # {}
ASSUME KillAssumption == KillSwitchUsed \in BOOLEAN
ASSUME NoReplicaAssumption == NoReplica \notin Replicas
ASSUME NoSignalAssumption == NoSignal \notin Signals

VARIABLES
    proc,      \* proc[r]: "up", "down", or "starting" (inside startup())
    lease,     \* lease[k]: the replica whose token is in the Redis key of job k
    lock,      \* lock[r]: the job holding the current executor's _execution_lock
    pc,        \* pc[j]: where job j is
    sig,       \* sig[j]: the signal job j is working on
    todo,      \* todo[j]: the rest of the batch job j has read
    out,       \* out[j]: the ExecutionOutcome job j has computed
    signal,    \* Signal.status
    attempt,   \* ExecutionAttempt.status; "NONE" when there is no row
    order,     \* Order.status; "NONE" when there is no row
    position,  \* Position.state; "NONE" when there is no row
    kill,      \* the durable kill switch read by _runtime_state
    expired,   \* expired[s]: expires_at of signal s has passed
    calm,      \* no fault will happen any more (only FairSpec ever sets it)
    broker,    \* broker[s]: the broker's view of the order of signal s
    sends      \* sends[s]: how often order_send was called for signal s

jobs    == <<pc, sig, todo, out>>
rows    == <<signal, order, position>>
market  == <<broker, sends>>
process == <<proc, lease, lock>>
world   == <<kill, expired, calm>>
vars    == <<process, jobs, rows, attempt, world, market>>

JobKinds == {"execution", "reconciliation"}
Jobs     == Replicas \X JobKinds

Open      == {"exact", "wrong", "naked"}                 \* an open position
Unsettled == {"inflight", "resting"} \cup Open           \* may still be exposure
Pending   == {"SUBMITTED", "UNKNOWN"}                    \* what reconciliation visits
Final     == {"SUCCEEDED", "PROTECTION_FAILED", "REJECTED"}
Outcomes  == Final \cup {"NONE", "UNKNOWN", "BLOCKED", "SAFELY_CLOSED"}

PC == {"idle", "load", "cancel", "pick", "lookup", "positions", "orders", "claim",
       "check", "submit", "send", "await", "matched", "verify", "repair",
       "close", "settle", "record"}

\* The types of the volatile and of the durable state.
ControlTypeOK ==
    /\ proc \in [Replicas -> {"up", "down", "starting"}]
    /\ lease \in [JobKinds -> Replicas \cup {NoReplica}]
    /\ lock \in [Replicas -> JobKinds \cup {"free"}]
    /\ pc \in [Jobs -> PC]
    /\ sig \in [Jobs -> Signals \cup {NoSignal}]
    /\ todo \in [Jobs -> SUBSET Signals]
    /\ out \in [Jobs -> Outcomes]

DataTypeOK ==
    /\ signal \in [Signals -> {"ACTIVE", "EXECUTED", "REJECTED", "ERROR", "EXPIRED"}]
    /\ attempt \in [Signals -> {"NONE", "CLAIMED"} \cup Pending \cup Final]
    /\ order \in [Signals -> {"NONE", "PENDING", "FILLED", "REJECTED"}]
    /\ position \in [Signals -> {"NONE", "POSITION_OPEN", "ERROR", "CLOSED"}]
    /\ kill \in BOOLEAN
    /\ expired \in [Signals -> BOOLEAN]
    /\ calm \in BOOLEAN
    /\ broker \in [Signals -> {"none", "refused", "cancelled", "closed"} \cup Unsettled]
    /\ sends \in [Signals -> Nat]

\* Every variable has its type: no helper ever yields a status the code's
\* enumerations do not have.
TypeOK == ControlTypeOK /\ DataTypeOK

Init ==
    /\ proc = [r \in Replicas |-> "up"]
    /\ lease = [k \in JobKinds |-> NoReplica]
    /\ lock = [r \in Replicas |-> "free"]
    /\ pc = [j \in Jobs |-> "idle"]
    /\ sig = [j \in Jobs |-> NoSignal]
    /\ todo = [j \in Jobs |-> {}]
    /\ out = [j \in Jobs |-> "NONE"]
    /\ signal = [s \in Signals |-> "ACTIVE"]
    /\ attempt = [s \in Signals |-> "NONE"]
    /\ order = [s \in Signals |-> "NONE"]
    /\ position = [s \in Signals |-> "NONE"]
    /\ kill = FALSE
    /\ expired = [s \in Signals |-> FALSE]
    /\ calm = FALSE
    /\ broker = [s \in Signals |-> "none"]
    /\ sends = [s \in Signals |-> 0]

-----------------------------------------------------------------------------
(***************************************************************************)
(* Job bookkeeping.                                                        *)
(***************************************************************************)

At(j, p) == pc[j] = p /\ proc[j[1]] # "down"

Goto(j, p) == /\ pc' = [pc EXCEPT ![j] = p]
              /\ UNCHANGED <<sig, todo, out, process>>

\* Leaving "async with self._execution_lock".  execute_signals replaces the
\* executor, so a job may hold the lock of an executor nobody else uses.
Unlock(j) == lock' = [lock EXCEPT ![j[1]] = IF @ = j[2] THEN "free" ELSE @]

\* execute() or reconcile_unknown() returns outcome o; record_execution is next.
Return(j, o) ==
    /\ pc' = [pc EXCEPT ![j] = "record"]
    /\ out' = [out EXCEPT ![j] = o]
    /\ Unlock(j)
    /\ UNCHANGED <<sig, todo, proc, lease>>

\* The protection of a fill, or a matched order, decides the status to store.
Conclude(j, o) == /\ pc' = [pc EXCEPT ![j] = "settle"]
                  /\ out' = [out EXCEPT ![j] = o]
                  /\ UNCHANGED <<sig, todo, process>>

\* The compare-and-delete release script; a Redis error leaves the key to its TTL.
Release(j) ==
    \/ lease' = [lease EXCEPT ![j[2]] = IF @ = j[1] THEN NoReplica ELSE @]
    \/ UNCHANGED lease

\* The job is over, normally or by an exception that RedisLeaseManager.run
\* contains.  An exception inside startup() ends the process instead, and a
\* startup() that finishes hands over to the scheduler.  startup() holds no lease.
End(j, ok) ==
    /\ pc' = [pc EXCEPT ![j] = "idle"]
    /\ sig' = [sig EXCEPT ![j] = NoSignal]
    /\ todo' = [todo EXCEPT ![j] = {}]
    /\ out' = [out EXCEPT ![j] = "NONE"]
    /\ Unlock(j)
    /\ IF proc[j[1]] = "starting"
       THEN proc' = [proc EXCEPT ![j[1]] = IF ok THEN "up" ELSE "down"] /\ UNCHANGED lease
       ELSE Release(j) /\ UNCHANGED proc

\* Mutant: a claim counted as a refusal.
OutcomeRefusesClaimed(a) ==
    IF a = "CLAIMED" THEN "REJECTED" ELSE IF a \in Pending THEN "UNKNOWN" ELSE a

\* status_map of _outcome_from_record: the outcome of a suppressed duplicate.
OutcomeFromRecord(a) == IF a \in {"CLAIMED", "SUBMITTED", "UNKNOWN"} THEN "UNKNOWN" ELSE a

\* The "allowed" table of SqlAlchemyIdempotencyStore.update.
Allowed(a, b) ==
    \/ a = "CLAIMED" /\ b \in {"SUBMITTED", "REJECTED"}
    \/ a = "SUBMITTED" /\ b \in Final \cup {"UNKNOWN"}
    \/ a = "UNKNOWN" /\ b \in Final

-----------------------------------------------------------------------------
(***************************************************************************)
(* The execution job up to the claim: execute_signals and the read-only    *)
(* first half of _execute_serialized.                                      *)
(***************************************************************************)

\* Mutant: under the kill switch the batch is skipped and nothing is cancelled.
ExecutionStartSkips(r) ==
    LET j == <<r, "execution">> IN
    /\ proc[r] = "up" /\ pc[j] = "idle"
    /\ lease["execution"] = NoReplica
    /\ lease' = [lease EXCEPT !["execution"] = r]
    /\ signal' = [s \in Signals |->
                     IF signal[s] = "ACTIVE" /\ expired[s] THEN "EXPIRED" ELSE signal[s]]
    /\ pc' = [pc EXCEPT ![j] = IF kill THEN "pick" ELSE "load"]
    /\ UNCHANGED <<proc, lock, sig, todo, out, order, position, attempt, world, market>>

\* The lease, expire_signals, and the one read of the runtime state.
ExecutionStart(r) ==
    LET j == <<r, "execution">> IN
    /\ proc[r] = "up" /\ pc[j] = "idle"
    /\ lease["execution"] = NoReplica
    /\ lease' = [lease EXCEPT !["execution"] = r]
    /\ signal' = [s \in Signals |->
                     IF signal[s] = "ACTIVE" /\ expired[s] THEN "EXPIRED" ELSE signal[s]]
    /\ pc' = [pc EXCEPT ![j] = IF kill THEN "cancel" ELSE "load"]
    /\ UNCHANGED <<proc, lock, sig, todo, out, order, position, attempt, world, market>>

\* What the broker holds once the entries in S are cancelled.
Cancelled(S) == [s \in Signals |-> IF s \in S THEN "cancelled" ELSE broker[s]]

\* cancel_pending_entries reads the resting orders and cancels the ones in S.
CancelEntries(j, S) ==
    /\ At(j, "cancel")
    /\ lock[j[1]] = "free"
    /\ broker' = Cancelled(S)
    /\ End(j, TRUE)
    /\ UNCHANGED <<rows, attempt, world, sends>>

Resting == {s \in Signals : broker[s] = "resting"}

CancelPendingEntries(j) == CancelEntries(j, Resting)

\* The broker declines some of the cancellations; the loop goes on.
CancelDeclined(j) == \E S \in SUBSET Resting : CancelEntries(j, S)

\* A new executor, hence a new _execution_lock, and execution_candidates.
LoadCandidates(j) ==
    /\ At(j, "load")
    /\ lock' = [lock EXCEPT ![j[1]] = "free"]
    /\ todo' = [todo EXCEPT ![j] = {s \in Signals : signal[s] = "ACTIVE" /\ ~expired[s]}]
    /\ pc' = [pc EXCEPT ![j] = "pick"]
    /\ UNCHANGED <<proc, lease, sig, out, rows, attempt, world, market>>

\* The next signal of the batch, once the executor's lock is free.  execute()
\* compares the clock with expires_at here, and not again.
Pick(j, s) ==
    /\ At(j, "pick")
    /\ s \in todo[j]
    /\ lock[j[1]] = "free"
    /\ j[2] = "execution" => ~expired[s]
    /\ lock' = [lock EXCEPT ![j[1]] = j[2]]
    /\ sig' = [sig EXCEPT ![j] = s]
    /\ todo' = [todo EXCEPT ![j] = @ \ {s}]
    /\ pc' = [pc EXCEPT ![j] = "lookup"]
    /\ UNCHANGED <<proc, lease, out, rows, attempt, world, market>>

\* SIGNAL_EXPIRED: the signal expired while the batch was waiting.
PickExpired(j, s) ==
    /\ At(j, "pick")
    /\ s \in todo[j]
    /\ lock[j[1]] = "free"
    /\ j[2] = "execution" /\ expired[s]
    /\ sig' = [sig EXCEPT ![j] = s]
    /\ todo' = [todo EXCEPT ![j] = @ \ {s}]
    /\ pc' = [pc EXCEPT ![j] = "record"]
    /\ out' = [out EXCEPT ![j] = "BLOCKED"]
    /\ UNCHANGED <<process, rows, attempt, world, market>>

\* The batch is empty.
Finish(j) ==
    /\ At(j, "pick")
    /\ todo[j] = {}
    /\ End(j, TRUE)
    /\ UNCHANGED <<rows, attempt, world, market>>

\* Health, permission, sizing, circuit breaker and risk gates: each may
\* end the execution as BLOCKED before anything is claimed.
Block(j) ==
    /\ j[2] = "execution"
    /\ pc[j] \in {"lookup", "positions", "orders"} /\ proc[j[1]] # "down"
    /\ Return(j, "BLOCKED")
    /\ UNCHANGED <<rows, attempt, world, market>>

\* idempotency.get of execute(): an existing attempt ends the execution.
ExecutionLookup(j) ==
    /\ j[2] = "execution" /\ At(j, "lookup")
    /\ IF attempt[sig[j]] # "NONE"
       THEN Return(j, OutcomeFromRecord(attempt[sig[j]]))
       ELSE Goto(j, "positions")
    /\ UNCHANGED <<rows, attempt, world, market>>

\* MT5's get_positions raises UnprotectedPositionError if any position has no stop.
PositionsReadable == \A s \in Signals : broker[s] # "naked"

\* Mutant: only a position of the same signal counts as a duplicate.
ExecutionPositionsOwn(j) ==
    /\ j[2] = "execution" /\ At(j, "positions")
    /\ broker[sig[j]] \notin Open
    /\ Goto(j, "orders")
    /\ UNCHANGED <<rows, attempt, world, market>>

\* DUPLICATE_POSITION and the position limits: no position may be open.
ExecutionPositions(j) ==
    /\ j[2] = "execution" /\ At(j, "positions")
    /\ \A s \in Signals : broker[s] \notin Open
    /\ Goto(j, "orders")
    /\ UNCHANGED <<rows, attempt, world, market>>

\* DUPLICATE_PENDING_ORDER: no entry may be resting; all other gates accept.
ExecutionOrders(j) ==
    /\ j[2] = "execution" /\ At(j, "orders")
    /\ \A s \in Signals : broker[s] # "resting"
    /\ Goto(j, "claim")
    /\ UNCHANGED <<rows, attempt, world, market>>

-----------------------------------------------------------------------------
(***************************************************************************)
(* Claim, order_check, announcement and the single send.                   *)
(***************************************************************************)

\* Mutant: the claim is an upsert, so that the loser of a race claims again.
ClaimUpserts(j) ==
    /\ At(j, "claim")
    /\ attempt' = [attempt EXCEPT ![sig[j]] = "CLAIMED"]
    /\ order' = [order EXCEPT ![sig[j]] = "PENDING"]
    /\ Goto(j, "check")
    /\ UNCHANGED <<signal, position, world, market>>

\* The insert of the attempt and its order row in one transaction.  The loser
\* of a race gets the winner's record, or the IntegrityError of the order row.
Claim(j) ==
    /\ At(j, "claim")
    /\ \/ /\ attempt[sig[j]] = "NONE"
          /\ attempt' = [attempt EXCEPT ![sig[j]] = "CLAIMED"]
          /\ order' = [order EXCEPT ![sig[j]] = "PENDING"]
          /\ Goto(j, "check")
       \/ /\ attempt[sig[j]] # "NONE"
          /\ Return(j, OutcomeFromRecord(attempt[sig[j]])) \/ End(j, FALSE)
          /\ UNCHANGED <<attempt, order>>
    /\ UNCHANGED <<signal, position, world, market>>

\* Mutant: the update does not look at the stored status.
UpdateUnchecked(j, a, after) == attempt' = [attempt EXCEPT ![sig[j]] = a] /\ after

\* SqlAlchemyIdempotencyStore.update: a transition outside the table raises.
Update(j, a, after) ==
    IF Allowed(attempt[sig[j]], a)
    THEN attempt' = [attempt EXCEPT ![sig[j]] = a] /\ after
    ELSE End(j, FALSE) /\ UNCHANGED attempt

\* order_check, whose errors count as a refusal.
OrderCheck(j) ==
    /\ At(j, "check")
    /\ \/ Goto(j, "submit") /\ UNCHANGED attempt
       \/ Update(j, "REJECTED", Return(j, "REJECTED"))
    /\ UNCHANGED <<rows, world, market>>

\* SUBMITTED is durable before the broker is called.
Announce(j) ==
    /\ At(j, "submit")
    /\ Update(j, "SUBMITTED", Goto(j, "send"))
    /\ UNCHANGED <<rows, world, market>>

\* place_market_order or place_pending_order is called.
Send(j) ==
    /\ At(j, "send")
    /\ sends' = [sends EXCEPT ![sig[j]] = @ + 1]
    /\ broker' = [broker EXCEPT ![sig[j]] = "inflight"]
    /\ Goto(j, "await")
    /\ UNCHANGED <<rows, attempt, world>>

\* The call returns a report: accepted or refused.
Reply(j) ==
    /\ At(j, "await")
    /\ \/ /\ broker[sig[j]] \notin {"inflight", "refused"}
          /\ IF OrderType = "MARKET"
             THEN Goto(j, "verify") /\ UNCHANGED attempt
             ELSE Update(j, "SUCCEEDED", Return(j, "SUCCEEDED"))
       \/ /\ broker[sig[j]] = "refused"
          /\ Update(j, "REJECTED", Return(j, "REJECTED"))
    /\ UNCHANGED <<rows, world, market>>

\* Mutant: an exception counts as a refusal.
ReplyLostRejects(j) ==
    /\ At(j, "await")
    /\ Update(j, "REJECTED", Return(j, "REJECTED"))
    /\ UNCHANGED <<rows, world, market>>

\* The call raises IndeterminateBrokerResult, TimeoutError or BrokerError.
ReplyLost(j) ==
    /\ At(j, "await")
    /\ Update(j, "UNKNOWN", Return(j, "UNKNOWN"))
    /\ UNCHANGED <<rows, world, market>>

-----------------------------------------------------------------------------
(***************************************************************************)
(* The reconciliation job: reconcile_unknown for every unresolved key.     *)
(***************************************************************************)

\* Mutant: only attempts already marked UNKNOWN are reconciled.
UnknownKeysMarked == {s \in Signals : attempt[s] = "UNKNOWN"}

\* unknown_keys
UnknownKeys == {s \in Signals : attempt[s] \in Pending}

\* The scheduled job, under its lease.
ReconciliationStart(r) ==
    LET j == <<r, "reconciliation">> IN
    /\ proc[r] = "up" /\ pc[j] = "idle"
    /\ lease["reconciliation"] = NoReplica
    /\ lease' = [lease EXCEPT !["reconciliation"] = r]
    /\ pc' = [pc EXCEPT ![j] = "pick"]
    /\ todo' = [todo EXCEPT ![j] = UnknownKeys]
    /\ UNCHANGED <<proc, lock, sig, out, rows, attempt, world, market>>

\* startup(): the same pass without a lease, once the ledger pass before it has
\* read the broker's positions (it raises, and the process exits, if it cannot).
Restart(r) ==
    LET j == <<r, "reconciliation">> IN
    /\ proc[r] = "down"
    /\ PositionsReadable
    /\ proc' = [proc EXCEPT ![r] = "starting"]
    /\ pc' = [pc EXCEPT ![j] = "pick"]
    /\ todo' = [todo EXCEPT ![j] = UnknownKeys]
    /\ UNCHANGED <<lease, lock, sig, out, rows, attempt, world, market>>

\* idempotency.get of reconcile_unknown: only an unresolved attempt is looked up.
ReconciliationLookup(j) ==
    /\ j[2] = "reconciliation" /\ At(j, "lookup")
    /\ IF attempt[sig[j]] \in Pending
       THEN Goto(j, "positions")
       ELSE Return(j, IF attempt[sig[j]] = "NONE" THEN "BLOCKED"
                      ELSE OutcomeFromRecord(attempt[sig[j]]))
    /\ UNCHANGED <<rows, attempt, world, market>>

\* get_positions, matched by signal or correlation key.
ReconciliationPositions(j) ==
    /\ j[2] = "reconciliation" /\ At(j, "positions")
    /\ PositionsReadable
    /\ Goto(j, IF broker[sig[j]] \in Open THEN "matched" ELSE "orders")
    /\ UNCHANGED <<rows, attempt, world, market>>

\* get_orders after a position matched: its protection is verified next.
ReconciliationMatched(j) ==
    /\ At(j, "matched")
    /\ Goto(j, "verify")
    /\ UNCHANGED <<rows, attempt, world, market>>

\* get_orders after no position matched; history is not read.
ReconciliationOrders(j) ==
    /\ j[2] = "reconciliation" /\ At(j, "orders")
    /\ IF broker[sig[j]] = "resting"
       THEN Conclude(j, "SUCCEEDED")
       ELSE Return(j, "UNKNOWN")
    /\ UNCHANGED <<rows, attempt, world, market>>

\* BROKER_UNAVAILABLE_RECONCILIATION_DEFERRED
ReconciliationDeferred(j) ==
    /\ j[2] = "reconciliation"
    /\ pc[j] \in {"positions", "orders", "matched"} /\ proc[j[1]] # "down"
    /\ Return(j, "UNKNOWN")
    /\ UNCHANGED <<rows, attempt, world, market>>

-----------------------------------------------------------------------------
(***************************************************************************)
(* _verify_or_repair_protection, shared by both jobs, and the final update.*)
(***************************************************************************)

\* Mutant: a visible position counts as a protected one.
VerifyVisible(j) ==
    /\ At(j, "verify")
    /\ IF PositionsReadable /\ broker[sig[j]] \in Open
       THEN Conclude(j, "SUCCEEDED")
       ELSE Goto(j, "repair")
    /\ UNCHANGED <<rows, attempt, world, market>>

\* The position is read: with the requested stop and target, or otherwise.
VerifyProtection(j) ==
    /\ At(j, "verify")
    /\ IF PositionsReadable /\ broker[sig[j]] = "exact"
       THEN Conclude(j, "SUCCEEDED")
       ELSE Goto(j, "repair")
    /\ UNCHANGED <<rows, attempt, world, market>>

\* Every visibility attempt fails to read or to find the position.
PositionNotVisible(j) ==
    /\ At(j, "verify")
    /\ Goto(j, "repair")
    /\ UNCHANGED <<rows, attempt, world, market>>

\* modify_position, once, by ticket.
RepairProtection(j) ==
    /\ At(j, "repair")
    /\ IF broker[sig[j]] \in Open
       THEN broker' = [broker EXCEPT ![sig[j]] = "exact"] /\ Conclude(j, "SUCCEEDED")
       ELSE Goto(j, "close") /\ UNCHANGED broker
    /\ UNCHANGED <<rows, attempt, world, sends>>

\* modify_position is declined or raises; what raised may have been applied.
RepairFails(j) ==
    /\ At(j, "repair")
    /\ \/ UNCHANGED broker
       \/ broker[sig[j]] \in Open /\ broker' = [broker EXCEPT ![sig[j]] = "exact"]
    /\ Goto(j, "close")
    /\ UNCHANGED <<rows, attempt, world, sends>>

\* close_position, once, by ticket; a position that is gone cannot be closed.
SafeClose(j) ==
    /\ At(j, "close")
    /\ IF broker[sig[j]] \in Open
       THEN broker' = [broker EXCEPT ![sig[j]] = "closed"] /\ Conclude(j, "SAFELY_CLOSED")
       ELSE Conclude(j, "PROTECTION_FAILED") /\ UNCHANGED broker
    /\ UNCHANGED <<rows, attempt, world, sends>>

\* close_position is declined or raises; what raised may have been applied.
SafeCloseFails(j) ==
    /\ At(j, "close")
    /\ \/ UNCHANGED broker
       \/ broker[sig[j]] \in Open /\ broker' = [broker EXCEPT ![sig[j]] = "closed"]
    /\ Conclude(j, "PROTECTION_FAILED")
    /\ UNCHANGED <<rows, attempt, world, sends>>

\* The final update.  reconcile_unknown answers from the updated record, whose
\* outcome no longer says that the fill was safely closed.
Settle(j) ==
    LET a == IF out[j] = "SAFELY_CLOSED" THEN "PROTECTION_FAILED" ELSE out[j] IN
    /\ At(j, "settle")
    /\ Update(j, a, Return(j, IF j[2] = "execution" THEN out[j] ELSE a))
    /\ UNCHANGED <<rows, world, market>>

-----------------------------------------------------------------------------
(***************************************************************************)
(* record_execution: one transaction over the signal, order and position   *)
(* rows, from the outcome alone.                                           *)
(***************************************************************************)

SignalAfter(o, was) ==
    IF o = "SUCCEEDED" THEN "EXECUTED"
    ELSE IF o = "REJECTED" THEN "REJECTED"
    ELSE IF o \in {"UNKNOWN", "PROTECTION_FAILED", "SAFELY_CLOSED"} THEN "ERROR" ELSE was

OrderAfter(o, was) ==
    IF was = "NONE" \/ o \in {"UNKNOWN", "BLOCKED"} THEN was
    ELSE IF o = "REJECTED" THEN "REJECTED"
    ELSE IF o = "SUCCEEDED" /\ OrderType = "PENDING" THEN "PENDING" ELSE "FILLED"

\* The position row is only ever created here, never changed.
PositionAfter(o, was) ==
    IF was = "NONE" /\ o = "SUCCEEDED" /\ OrderType = "MARKET" THEN "POSITION_OPEN"
    ELSE IF was = "NONE" /\ o = "PROTECTION_FAILED" THEN "ERROR"
    ELSE IF was = "NONE" /\ o = "SAFELY_CLOSED" THEN "CLOSED" ELSE was

RecordExecution(j) ==
    /\ At(j, "record")
    /\ signal' = [signal EXCEPT ![sig[j]] = SignalAfter(out[j], @)]
    /\ order' = [order EXCEPT ![sig[j]] = OrderAfter(out[j], @)]
    /\ position' = [position EXCEPT ![sig[j]] = PositionAfter(out[j], @)]
    /\ pc' = [pc EXCEPT ![j] = "pick"]
    /\ sig' = [sig EXCEPT ![j] = NoSignal]
    /\ out' = [out EXCEPT ![j] = "NONE"]
    /\ UNCHANGED <<process, todo, attempt, world, market>>

-----------------------------------------------------------------------------
(***************************************************************************)
(* Failures of the workers and of Redis.                                   *)
(***************************************************************************)

\* An exception no handler on the way catches, such as a lost database session.
JobError(j) ==
    /\ pc[j] # "idle" /\ proc[j[1]] # "down"
    /\ End(j, FALSE)
    /\ UNCHANGED <<rows, attempt, world, market>>

Crash(r) ==
    /\ ~calm
    /\ proc[r] # "down"
    /\ proc' = [proc EXCEPT ![r] = "down"]
    /\ lock' = [lock EXCEPT ![r] = "free"]
    /\ pc' = [j \in Jobs |-> IF j[1] = r THEN "idle" ELSE pc[j]]
    /\ sig' = [j \in Jobs |-> IF j[1] = r THEN NoSignal ELSE sig[j]]
    /\ todo' = [j \in Jobs |-> IF j[1] = r THEN {} ELSE todo[j]]
    /\ out' = [j \in Jobs |-> IF j[1] = r THEN "NONE" ELSE out[j]]
    /\ UNCHANGED <<lease, rows, attempt, world, market>>

\* The TTL runs out; nothing renews it, whether or not the job still runs.
LeaseExpires(k) ==
    /\ lease[k] # NoReplica
    /\ lease' = [lease EXCEPT ![k] = NoReplica]
    /\ UNCHANGED <<proc, lock, jobs, rows, attempt, world, market>>

-----------------------------------------------------------------------------
(***************************************************************************)
(* The broker, the administrator and the clock.                            *)
(***************************************************************************)

\* What happens to the order of one signal at the broker.
BrokerMoves(s, from, to) ==
    /\ broker[s] \in from
    /\ \E b \in to : broker' = [broker EXCEPT ![s] = b]
    /\ UNCHANGED <<process, jobs, rows, attempt, world, sends>>

BrokerRefuses(s)  == BrokerMoves(s, {"inflight"}, {"refused"})
BrokerAccepts(s)  == BrokerMoves(s, {"inflight"},
                         IF OrderType = "MARKET" THEN FillProtections ELSE {"resting"})
BrokerTriggers(s) == BrokerMoves(s, {"resting"}, FillProtections)
BrokerDrops(s)    == BrokerMoves(s, {"resting"}, {"cancelled"})
BrokerExits(s)    == BrokerMoves(s, Open, {"closed"})

\* POST /admin/kill-switch: the handler cancels the entries it finds, as far as
\* the broker lets it, and only then makes the switch durable.
KillSwitch ==
    /\ KillSwitchUsed /\ ~kill
    /\ \E S \in SUBSET Resting : broker' = Cancelled(S)
    /\ kill' = TRUE
    /\ UNCHANGED <<process, jobs, rows, attempt, expired, calm, sends>>

SignalExpires(s) ==
    /\ ~expired[s]
    /\ expired' = [expired EXCEPT ![s] = TRUE]
    /\ UNCHANGED <<process, jobs, rows, attempt, kill, calm, market>>

-----------------------------------------------------------------------------
ExecutionStep(j) ==
    \/ CancelPendingEntries(j) \/ LoadCandidates(j) \/ ExecutionLookup(j)
    \/ ExecutionPositions(j) \/ ExecutionOrders(j) \/ Block(j)
    \/ Claim(j) \/ OrderCheck(j) \/ Announce(j) \/ Send(j) \/ Reply(j)

ReconciliationStep(j) ==
    \/ ReconciliationLookup(j) \/ ReconciliationPositions(j)
    \/ ReconciliationMatched(j) \/ ReconciliationOrders(j)

SharedStep(j) ==
    \/ Finish(j) \/ VerifyProtection(j) \/ RepairProtection(j) \/ SafeClose(j)
    \/ Settle(j) \/ RecordExecution(j)

PickAny(j) == \E s \in Signals : Pick(j, s) \/ PickExpired(j, s)

JobStep(j) == ExecutionStep(j) \/ ReconciliationStep(j) \/ SharedStep(j)

\* What may go wrong in one job while its process lives.
JobFault(j) ==
    /\ ~calm
    /\ \/ ReplyLost(j) \/ ReconciliationDeferred(j) \/ PositionNotVisible(j)
       \/ RepairFails(j) \/ SafeCloseFails(j) \/ CancelDeclined(j) \/ JobError(j)

BrokerStep(s) ==
    \/ BrokerRefuses(s) \/ BrokerAccepts(s) \/ BrokerTriggers(s)
    \/ BrokerDrops(s) \/ BrokerExits(s)

Next ==
    \/ \E r \in Replicas : ExecutionStart(r) \/ ReconciliationStart(r)
                           \/ Restart(r) \/ Crash(r)
    \/ \E j \in Jobs : JobStep(j) \/ JobFault(j) \/ PickAny(j)
    \/ \E k \in JobKinds : LeaseExpires(k)
    \/ \E s \in Signals : BrokerStep(s) \/ SignalExpires(s)
    \/ KillSwitch

Spec == Init /\ [][Next]_vars

(***************************************************************************)
(* Fairness: asyncio and APScheduler keep running every job; its lock is   *)
(* first-come-first-served; the supervisor restarts a process that exited; *)
(* Redis enforces TTLs; the broker answers.  Faults (JobFault and Crash)   *)
(* happen until an arbitrary moment at which they cease.                   *)
(***************************************************************************)
FaultsCease ==
    /\ ~calm
    /\ calm' = TRUE
    /\ UNCHANGED <<process, jobs, rows, attempt, kill, expired, market>>

Fairness ==
    /\ \A j \in Jobs : WF_vars(JobStep(j)) /\ SF_vars(PickAny(j))
    /\ WF_vars(\E r \in Replicas : ExecutionStart(r))
    /\ WF_vars(\E r \in Replicas : ReconciliationStart(r))
    /\ \A r \in Replicas : WF_vars(Restart(r))
    /\ \A k \in JobKinds : WF_vars(LeaseExpires(k))
    /\ \A s \in Signals : WF_vars(BrokerRefuses(s) \/ BrokerAccepts(s))
    /\ WF_vars(FaultsCease)

FairSpec == Init /\ [][Next \/ FaultsCease]_vars /\ Fairness

\* Runs without a single fault.
QuietSpec == Init /\ [][(~calm /\ FaultsCease) \/ (calm /\ Next)]_vars

-----------------------------------------------------------------------------
(***************************************************************************)
(* Safety.                                                                 *)
(***************************************************************************)

\* No crash, retry, replica race or lapsed lease ever makes the workers call
\* order_send twice for one signal (the claim in _execute_serialized).
AtMostOneSend == \A s \in Signals : sends[s] <= 1

\* Whatever reaches the broker was announced first: an order sent is never
\* behind an attempt that reconciliation would not visit or a duplicate check
\* would not find (the SUBMITTED update precedes place_market_order).
SentIsAnnounced == \A s \in Signals : sends[s] > 0 => attempt[s] \notin {"NONE", "CLAIMED"}

\* A concluded attempt tells the truth about the broker: REJECTED means that no
\* exposure exists or can still appear, and the other two mean that the broker
\* accepted the order (the update calls of execute and reconcile_unknown).
FinalMatchesBroker ==
    \A s \in Signals :
        /\ attempt[s] = "REJECTED" => broker[s] \in {"none", "refused"}
        /\ attempt[s] \in {"SUCCEEDED", "PROTECTION_FAILED"}
               => broker[s] \in Open \cup {"resting", "cancelled", "closed"}

\* A market fill that is reported as SUCCEEDED carries exactly the requested
\* stop and target for as long as it is open (_verify_or_repair_protection).
SucceededIsProtected ==
    OrderType = "MARKET" =>
        \A s \in Signals : attempt[s] = "SUCCEEDED" /\ broker[s] \in Open => broker[s] = "exact"

\* The rows record_execution writes never run ahead of the attempt, whichever
\* job wrote them last, and a row closed by it is closed at the broker.
RowsFollowAttempt ==
    \A s \in Signals :
        /\ signal[s] = "EXECUTED" => attempt[s] = "SUCCEEDED"
        /\ signal[s] = "REJECTED" => attempt[s] = "REJECTED"
        /\ order[s] = "REJECTED" => attempt[s] = "REJECTED"
        /\ order[s] = "FILLED" => attempt[s] \in {"SUCCEEDED", "PROTECTION_FAILED"}
        /\ position[s] = "POSITION_OPEN" => attempt[s] = "SUCCEEDED"
        /\ position[s] \in {"ERROR", "CLOSED"} => attempt[s] = "PROTECTION_FAILED"
        /\ position[s] = "CLOSED" => broker[s] = "closed"

\* The account never has more than the default one open position
\* (MAXIMUM_OPEN_POSITIONS_REACHED and the duplicate gates of RiskGateEngine).
OnePosition == Cardinality({s \in Signals : broker[s] \in Open}) <= 1

\* The workers together implement one submission per signal.
Submission == INSTANCE SingleSubmission WITH status <- attempt, sent <- sends

\* Concurrency, crashes and lost replies are invisible in the durable attempt
\* and the sends: every behaviour is one of SingleSubmission.
ImplementsSingleSubmission == Submission!SubSpec

-----------------------------------------------------------------------------
(***************************************************************************)
(* Liveness, under FairSpec.                                               *)
(***************************************************************************)

\* The broker holds a position or a resting order for signal s.
Held(s) == broker[s] \in Open \cup {"resting"}

\* An order whose sender crashed, failed or lost the reply is found and its
\* attempt concluded while the broker still holds it, by the periodic pass or
\* by the one in startup() (reconcile_unknown_executions).
HeldOrderIsConcluded ==
    \A s \in Signals :
        attempt[s] \in Pending /\ Held(s) ~> attempt[s] \in Final \/ ~Held(s)

\* Once the kill switch is durable, entries stop for good: batches that had
\* already read the runtime state run out, late orders are cancelled after they
\* land, and no entry rests at the broker again (execute_signals).
KillSwitchStopsEntries ==
    kill ~> [](\A s \in Signals : broker[s] \notin {"inflight", "resting"})

\* An attempt left UNKNOWN whose order is settled at the broker, filled and
\* closed again or never accepted, is classified in the end.
UnknownIsClassified ==
    \A s \in Signals :
        attempt[s] = "UNKNOWN" /\ broker[s] \in {"closed", "refused"} ~> attempt[s] \in Final

\* A position without a stop is protected or closed in the end.
NakedIsRepaired ==
    \A s \in Signals : broker[s] = "naked" ~> broker[s] # "naked"

-----------------------------------------------------------------------------
(***************************************************************************)
(* The inductive invariant behind the safety properties.                   *)
(***************************************************************************)

Accepted == Open \cup {"resting", "cancelled", "closed"}

\* Where a job owns its signal but has not sent, and where it concludes it.
PreSend    == {"check", "submit", "send"}
Concluding == {"matched", "verify", "repair", "close", "settle"}
Working    == {"lookup", "positions", "orders", "claim", "await", "record"}
                  \cup PreSend \cup Concluding

\* What the place of a job says about the attempt and the broker, and that an
\* outcome it carries was true when it was computed and stays true.
JobInv(j) ==
    /\ pc[j] \in Working => sig[j] \in Signals
    /\ pc[j] \in {"check", "submit"} => attempt[sig[j]] = "CLAIMED"
    /\ pc[j] = "send" => attempt[sig[j]] = "SUBMITTED"
    /\ pc[j] \in PreSend => sends[sig[j]] = 0
    /\ pc[j] \in {"await"} \cup Concluding => sends[sig[j]] = 1
    /\ pc[j] \in Concluding => broker[sig[j]] \in Accepted
    /\ pc[j] = "settle" => out[j] \in {"SUCCEEDED", "PROTECTION_FAILED", "SAFELY_CLOSED"}
    /\ pc[j] = "settle" /\ out[j] = "SUCCEEDED" /\ OrderType = "MARKET"
           => broker[sig[j]] \notin {"wrong", "naked"}
    /\ pc[j] \in {"settle", "record"} /\ out[j] = "SAFELY_CLOSED" => broker[sig[j]] = "closed"
    /\ pc[j] = "record" => out[j] # "NONE"
    /\ pc[j] = "record" /\ out[j] \in Final => attempt[sig[j]] = out[j]
    /\ pc[j] = "record" /\ out[j] = "SAFELY_CLOSED" => attempt[sig[j]] = "PROTECTION_FAILED"

JobsInv == \A j \in Jobs : JobInv(j)

\* From claim to send a job owns its signal alone.
OwnerInv ==
    \A i, j \in Jobs : pc[i] \in PreSend /\ pc[j] \in PreSend /\ sig[i] = sig[j] => i = j

\* What the attempt says about the sends and the broker.
AttemptInv ==
    \A s \in Signals :
        /\ sends[s] \in {0, 1}
        /\ attempt[s] \in {"NONE", "CLAIMED"} => sends[s] = 0
        /\ sends[s] = 0 <=> broker[s] = "none"
        /\ broker[s] = "resting" => OrderType = "PENDING"
        /\ attempt[s] = "REJECTED" => broker[s] \in {"none", "refused"}
        /\ attempt[s] \in {"SUCCEEDED", "PROTECTION_FAILED"} => broker[s] \in Accepted

IInv == /\ TypeOK /\ JobsInv /\ OwnerInv /\ AttemptInv
        /\ SucceededIsProtected /\ RowsFollowAttempt

=============================================================================
