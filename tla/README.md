# Verification of the GoldFlow trading engine

TLA+ models of the parts of GoldFlow in which a mistake costs money and a unit
test hardly reaches: several worker processes, API processes, a database, Redis
leases, and a broker that may answer late or not at all; and of the algorithms
that decide what is traded. TLC checks the models on small instances, TLAPS
proves the central safety properties for every instance, and `PROJECT.json`
records for each definition the lines of `src/` it stands for.

## The system

| Part | Source (under `src/app/`) | State it changes | Module |
|---|---|---|---|
| Trade executor, execution attempts | `execution/executor.py`, `sqlalchemy_idempotency.py` | attempts, orders, the broker | `TradeExecution`, `PreTrade` |
| Worker jobs, job lease, heartbeats | `workers/service.py`, `runner.py`, `lease.py` | Redis keys, health | `WorkerJobs` |
| Market scan and strategy exits | `workers/service.py` | signals, positions | `MarketScan` |
| Signals and their approval | `api/v1/signals.py`, `workers/persistence.py` | signal rows | `SignalLifecycle` |
| Risk gates, sizing, permission | `risk/` | none | `RiskRules`, `PreTrade`, `LossBudget` |
| Circuit breaker | `risk/circuit_breaker.py` | versioned circuit state | `CircuitBreaker` |
| Runtime controls, admin API | `api/runtime.py`, `api/v1/admin.py` | mode, kill switch, latch | `RuntimeControls` |
| Strategy and risk configuration | the same, `db/repositories/operations.py` | configuration versions | `ConfigUpdates` |
| Broker port | `brokers/retry.py`, `serialized.py`, `mock.py` | orders and positions | `BrokerStack` |
| Broker symbols | `brokers/symbols.py`, `mt5.py` | none | `SymbolResolution` |
| Ledger reconciliation | `execution/reconciliation.py`, `workers/persistence.py` | rows | `LedgerReconciliation` |
| Position management | `execution/positions.py`, `workers/service.py` | stops, partial closes, rows | `PositionManagement` |
| Trade state machine | `domain/state_machine.py` | none | `TradeLifecycle` |
| Outbox | `workers/persistence.py`, `notifications/telegram.py` | notification rows | `Outbox` |
| Candles, market structure | `market/candles.py`, `structure.py` | snapshots | `MarketStructure` |
| Strategy, confidence | `strategies/`, `signals/confidence.py` | none | `GoldStrategy` |
| Backtest, walk-forward | `backtesting/engine.py`, `walk_forward.py` | none | `Backtest`, `WalkForward` |

Every worker replica runs the same scheduled jobs under asyncio. A job takes a
Redis lease with a fixed TTL that nothing renews, so a slow job of one replica
can overlap with the same job of another. The scan evaluates the strategy on
closed candles, stores a signal per bar and closes positions against the trend.
`execute_signals` reads candidates from the database and drives a
`TradeExecutor` through lookup, broker reads, risk gates, claim, `order_check`,
the SUBMITTED update, one send, and the verification of the fill's stop.
`manage_positions` takes the first target, moves the stop to break-even and
trails it. `reconcile` compares the rows with the broker and then runs
`reconcile_unknown` for each attempt that is SUBMITTED or UNKNOWN; `startup()`
does the same without a lease. API processes keep the runtime controls in
memory, persist them with every request, and approve signals. All of them meet
only in the database, in Redis and at the broker.

## Modules

Each component has its state as variables and one action per step that another
actor can see: the code between two awaits, one transaction, or one broker call.
Crashes, failed commits, lost replies, lapsed leases and lost messages are
actions of their own. Data is abstracted to what the properties tell apart.

### TradeExecution, SingleSubmission

State. `proc`, `lease` and `lock` are the processes, the Redis keys and the
`asyncio.Lock` of each replica's current executor. `pc`, `sig`, `todo` and `out`
are the local state of each job: where it is, its signal, the rest of its batch
and its `ExecutionOutcome`. `signal`, `attempt`, `order` and `position` are the
database columns of those names. `kill` and `expired` are the durable kill
switch and the clock. `broker[s]` is what the broker has done with the order of
signal `s` (`none`, `inflight`, `refused`, `resting`, a position that is `exact`,
`wrong` or `naked` in its stop, `cancelled`, `closed`), and `sends[s]` counts
the calls of `order_send`. `calm` exists for liveness only (see below).

Actions. The path of a signal through `_execute_serialized` is `Pick` (or
`PickExpired`), `ExecutionLookup`, `ExecutionPositions`, `ExecutionOrders`,
`Claim`, `OrderCheck`, `Announce`, `Send`, `Reply` or `ReplyLost`,
`VerifyProtection`, `RepairProtection`, `SafeClose`, `Settle`, and then
`RecordExecution` outside the lock. `Block` is every return before the claim.
`ReconciliationLookup`, `ReconciliationPositions`, `ReconciliationMatched` and
`ReconciliationOrders` are `reconcile_unknown`, which shares the protection steps
and `Settle`. `Restart` is `startup()`. `Update` is the transition table of
`SqlAlchemyIdempotencyStore.update`: a forbidden transition raises, and the job
ends. `CancelPendingEntries` is what `execute_signals` does under the kill
switch. `Crash`, `LeaseExpires`, `JobError`, and the `...Fails`, `...Declined`,
`...Deferred` and `...Lost` actions are the failures.

What is abstracted:

- A signal stands for its idempotency key and for the ticket of its one order;
  a stop is right, wrong or missing; prices, volumes and reports are left out.
- A batch is a set: the order by `created_at` is not fixed.
- The mode is AUTO, so that candidates are ACTIVE signals (the other modes are
  in `SignalLifecycle`). The early returns for a disabled AUTO mode and for the
  news filter are batches that end at once.
- `order_check`, health, permission, sizing and the risk gates other than the
  position and order gates may accept or refuse at any time (they are the
  subject of `PreTrade`).
- A report of success carries a ticket and is given only for an order that
  landed; a refusal is final.
- A lease token is the name of its replica: `max_instances=1` lets a replica run
  one instance of a job.
- Cancelling the entries found by one read of the orders is one step.
- The kill switch is not lifted again (its lifting is in `RuntimeControls`).
- The trade row of `record_execution` and the ledger pass are in
  `LedgerReconciliation`; here the pass is only the condition that startup can
  read the broker's positions.

`SingleSubmission` is the promise: per signal one announced send and one
conclusion. `TradeExecution` implements it (`ImplementsSingleSubmission`).

### State that several processes write

- `CircuitState` is the breaker's state of one account and what each operation
  makes of it; `CircuitBreaker` is how callers reach it: read the clock, load the
  newest row, save one row for a period change and one for the operation, each
  save conditional on the version. `CircuitSerial` is the promise: every
  operation reads and writes in one step. Boolean columns are one set of locks,
  time is in hours, fractions are percentages.
- `RuntimeControls`: the memory of each API process, the versioned rows, the
  worker's drawdown latch. Persisting is capture, select and commit; `Restart`
  reads the row back; `Latch...` are the steps of `_latch_drawdown_disable`.
- `ConfigUpdates`: the API's copy, the versions in the database, and what the
  worker builds from the active one with its own defaults. Three fields that the
  code wants in order stand for the payload.
- `WorkerJobs`: scheduler entries, leases, health flags, heartbeat keys and the
  API that reads them. What a job does is left to the other modules.
- `Outbox`: enqueue, claim with stale locks, delivery with bounded attempts,
  completion. Time is left out but for its two effects: a retry becomes due and
  a lock becomes stale.
- `BrokerStack`: bounded retries of reads around one lock around the mock broker
  with its scripted failures.

### The way of a trade

- `MarketScan`: a signal is stored once per bar, and only the scan that stored it
  acts on it. `SignalLifecycle`: saving, approval (read and commit are two steps),
  expiry, loading by mode, execution and its record.
- `SymbolResolution`: which instrument stands for gold while the broker opens and
  closes them for trading, and the duplicate gates that compare equivalents. A
  name is abstracted to its shape.
- `RiskRules` is the arithmetic of sizing, loss gates and demo evidence, over
  integers, with quotients compared by cross products as `Decimal` would.
  `PreTrade` is one run of the executor up to the send; each stage draws what it
  reads when it reads it. `LossBudget` is the budget over a sequence of trades:
  what the broker pays, what the rows record, and the usage the gates see.
- `PositionManagement`: one position, with every await of the job a step in which
  the price, the broker, the strategy exit, a ledger pass or the repair of an
  unconcluded attempt may move. Prices are offsets from the open price.
- `TradeLifecycle` is the transition table of the trade state machine.
- `LedgerReconciliation`: two reads of the broker, two of the rows, then repairs
  row by row, beside `record_execution` and the manual close of the API.

### Analysis and research

- `MarketStructure`: swings and breaks over candles of which the last is forming;
  a scan runs between any two changes.
- `GoldStrategy`: `evaluate()` on drawn evidence. Indicator values are inputs;
  prices are integers in units of the last digit that is kept.
- `Backtest`: the candle loop with exits, fills and decisions. `WalkForward`: the
  split and the folds over timestamps with gaps.

### Instances

`MCTradeExecution` instantiates `TradeExecution`. `MCProgress`, `MCControls`,
`MCTrading` and `MCMarket` each put several components side by side. The
components of one instance share no variable, so a property of one cannot depend
on the others. A variable `part` names the component that moves in a behaviour;
the others keep their initial state. The state graph is then the union of the
components' graphs instead of their product, and a property of a component holds
in the instance exactly if it holds of the component alone. Components that do
interact are composed inside one module: executor and reconciler in
`TradeExecution`, the position's four writers in `PositionManagement`, the
recorder, the pass and the API in `LedgerReconciliation`.

The `...Proofs` modules hold the TLAPS proofs.

## Runs

| Run | Instance | Checks | Result |
|---|---|---|---|
| `trade_execution` | 2 replicas, 1 signal, market, all fills | four invariants and the refinement | holds |
| `conclude_held` | 1 replica, 1 signal, market, fair | `HeldOrderIsConcluded` | holds |
| `kill_switch` | 1 replica, 1 signal, pending, kill switch, fair | `KillSwitchStopsEntries` | holds |
| `limit_quiet` | 1 replica, 2 signals, market, no faults | `OnePosition` | holds |
| `limit_pending` | the same with pending entries | `OnePosition` | violated |
| `limit_lost_reply` | 1 replica, 2 signals, market, faults | `OnePosition` | violated |
| `unknown_history` | 1 replica, 1 signal, fair | `UnknownIsClassified` | violated |
| `naked_fill` | 1 replica, 1 signal, fills without a stop, fair | `NakedIsRepaired` | violated |
| `progress` | `MCProgress` | eight liveness properties | holds |
| `controls` | `MCControls` | safety of what several processes write, `ImplementsSerial` | holds |
| `trading` | `MCTrading` | safety of the way of a trade | holds |
| `market` | `MCMarket` | analysis, strategy, backtest, windows | holds |

Deadlock is checked everywhere but in `trading`, where a closed position or a
spent budget really ends the story.

What the passing runs show:

- `AtMostOneSend`: the claim alone prevents a second send, whatever the lease,
  the executor's lock and the replicas do. `FinalMatchesBroker`,
  `SucceededIsProtected`: a concluded attempt is true of the broker, although the
  sender and the reconciler may conclude it at once. `RowsFollowAttempt`:
  `record_execution` may run late and out of order, but no row claims more than
  the attempt does. `ImplementsSingleSubmission`: attempt and sends behave as if
  one process without failures had handled the signal.
- `HeldOrderIsConcluded`: an order the broker holds is found in the end.
  `KillSwitchStopsEntries`: entries stop although the switch is read only once
  per batch. `OnePosition` holds for market orders without faults.
- `ImplementsSerial`, `DrawdownLatched`, `LossLocksHeldInPeriod`: concurrent
  callers of the breaker lose no lock they have not seen; a drawdown lock ends by
  a manual reset only, and an evaluation lifts no loss lock within its period.
- `NeverAutoWhileLatched`: no memory and no row combines AUTO with the latch.
  `QuietKillSwitchDurable`: an answered kill switch survives restarts and failed
  commits if one process serves one request at a time (see the deviations).
  `LatchPrevails`: the worker's latch comes back after every request that stored
  the controls without it.
- `VersionsUsable`: the worker can build its risk limits from any active version,
  and a strategy version names one configuration.
- `OverlapOnlyAfterLapse`, `JobsKeepRunning`, `DeadIsReported`: two runs of a job
  overlap only if a lease lapsed under one; no crash or lost reply stops a job
  for good; dead workers are reported.
- `OutboxExact`, `PublishedInTheEnd`: what is published was delivered, once if no
  batch outlasts the stale interval, and every event is published in the end.
- `NothingBookedTwice`, `CallsReturn`: behind the port a key is filled once and a
  mutation forwarded once, and every call returns, without a broker too.
- `ApprovedBeforeSent`, `SettledInTheEnd`: SEMI_AUTO sends only what an operator
  approved, across mode changes; every signal row reaches a final status.
- `OneGoldPosition`: one gold position, whichever described instrument an entry
  resolves to. `SentOnlyAsAllowed`, `OrdersFit`, `RecordedWithinBudget`: the
  permission, the evidence, the size, the gates and the budget are what they are
  meant to be at every boundary of the instance.
- `PartialClosesSound`, `StopHolds`, `RowFollowsLifecycle`: the first target is
  taken once, what is left can be traded, the stop never moves away from the
  price and keeps the costs covered, and the row follows the state machine, each
  with one manager and under the conditions named at its definition.
- `AbsenceIsAuthoritative`, `LedgerConverges`: a pass closes no live trade if
  nothing is recorded during it, and rows and broker agree again and again even
  if something is. `ReversalExits`: a position against the trend is closed
  although a crash may follow the stored EXIT signal.
- `NoRepaint`, `StructureIsTrue`: nothing derived from closed candles is
  withdrawn, and the breaks are exactly the first crossings. `DecisionsHold`:
  complete setups are taken, alike in both directions, with levels that hold
  anywhere in the zone. `NoLookAhead`, `BooksAreRight`, `TestsComeLater`: the
  backtest decides on closed candles and books each signal once, and tests come
  after the data their parameters were chosen on.

### Bounds

- `TradeExecution`. One signal is enough for everything that concerns one
  idempotency key, since signals share no state but the lock and the position
  gates; two are used for `OnePosition`. Two replicas give every pair of racing
  jobs. `MaxBusy = 2` limits `trade_execution` to two jobs that are not idle at a
  time: every property relates the steps of at most two jobs, and the proofs cover
  any number. `sends` never exceeds one.
- `controls`. Two callers race at the breaker, around a daily and a weekly change
  (hours 52, 53, 77) and with account readings exactly at each limit;
  `MaxRows = 3` rows allow a period change, an operation and one that was based on
  the row before. Two API processes with two requests each and
  `MaxStamp = 3` rows of controls; three updates of a configuration with one failed
  commit and one restart; two replicas, two jobs and two faults; three events in
  batches of two, so that one worker leaves an event to the other; three calls of
  two tasks.
- `trading`. Two operators and one signal; six instruments of every name shape;
  two tickets and a crash of the pass; prices from the stop to one beyond the
  target, volumes whose half or three quarters leave a remainder just at, above
  and below the minimum; two trades over two days of a two-day week, with limits
  such that the second trade meets the daily limit on the same day and the weekly
  one on the next; orders on both sides of every distance.
- `market`. Six candles hold two swings and a break of each kind; eight candles
  hold a signal, its fill, its exit and a second one; twelve hold four folds.
- `progress`. One row or ticket, two workers, one or two faults: fairness and
  faults matter there, not numbers.

Symmetry is used only in `trade_execution`, which has no liveness property.

### Fairness

- `FairSpec` of `TradeExecution`: asyncio and APScheduler keep running a job that
  can go on (weak fairness of `JobStep`); `asyncio.Lock` is first-come-first-served
  (strong fairness of `PickAny`); the scheduler starts jobs again and the
  supervisor restarts a process that ended; Redis enforces TTLs; the broker
  answers an order in flight. Nothing is assumed about triggers, exits or expiry.
  Faults may happen until `FaultsCease` sets `calm`: a system whose every read
  fails for ever concludes nothing. The liveness runs have one replica: they show
  that the worker that is left, or that comes back, is enough on its own.
- `MCProgress` states the fairness of each component beside it. Scheduled jobs
  run again and go on; requests end; time passes (TTLs, stale locks, expiry); the
  broker's lock is served in order, which is strong fairness of taking it; for
  `ReversalExits` bars close, the reconciliation runs, and a broker that is asked
  again and again does not refuse for ever. A replica that died comes back in
  `JobsKeepRunning` and need not in `DeadIsReported`. Faults are never fair and
  are bounded in number, since no retry helps against a fault without end.

## Where the code departs from its documentation

Four runs keep a counterexample:

- `limit_pending`: the executor reads positions before orders
  (`executor.py:177`). An entry that triggers between the reads is in neither,
  and a second entry is accepted; `docs/risk-management.md:30` sets the maximum
  to one.
- `limit_lost_reply`: an order whose reply was lost is in no gate's count while
  it is in flight.
- `unknown_history`: `docs/operations.md:24` prescribes a search of the history;
  `reconcile_unknown` does not read it, and an attempt whose order left the book
  stays UNKNOWN.
- `naked_fill`: a position without a stop makes `get_positions` of the MT5
  adapter raise. If the sender crashed before the repair, `startup()` and
  reconciliation both fail on it, and the position stays without a stop.

The others are properties stated in the component modules that TLC refutes when
the component's specification is run alone under the constants given. They have no
run of their own; the passing runs use the constants, or the guarded form of the
property, under which the code keeps them. Switches and faults that are not named
are off, other constants are as in the passing runs. For `PositionManagement` they
are `Directions = {1}`, volume 4, `VolumeMin = 2`, half of it taken,
`MaxPrice = 4`, `Risk = Target = Trigger = 2`, `Costs = 1`, `TrailDistance = 0`.
"fair" is the fairness `MCProgress` gives the component.

| Property | Shown with | What happens | Against |
|---|---|---|---|
| `CircuitBreaker!LossLocksEndWithPeriod` | as in `controls` | `get()` compares periods for inequality (`circuit_breaker.py:105`): a caller with an older clock takes the state back and drops the loss lock of the new period | `docs/risk-management.md:37` |
| `RuntimeControls!KillSwitchDurable` | one process, one slot, `DrawdownUsed`, no faults | the worker's latch (`service.py:735`) writes back a copy taken before the switch | `docs/operations.md:16` |
| the same | one process, two slots, no drawdown | a mode change that captured its copy first commits last (`admin.py:49`) | the same |
| `RuntimeControls!LatchNeedsReset` | one process, one slot, `DrawdownUsed` | a request stores a memory that never saw the latch; the worker restores it later | `docs/risk-management.md:37` |
| `RuntimeControls!RestartTakesDurable` | one process, two slots, `FaultsUsed` | two requests leave two active rows, and a restart may take the older (`operations.py:106`) | `main.py:46` |
| `ConfigUpdates!WorkerCanBuild` | `Kind = "strategy"`, `Values = {1, 2, 3}` | the EMA order is checked only if all three are in the payload (`runtime.py:394`) | `runtime.py:399` |
| `ConfigUpdates!OnlyRequestedChanges` | `Kind = "risk"`, one request at a time, `MaxFailedCommits = 1` | a refused change stays in memory and is stored by the next request (`runtime.py:269`) | `docs/api.md:36` |
| `WorkerJobs!FailureIsReported` | one replica; `execution` fails at every run, `position_management` and `heartbeat` do not; fair | two jobs share a health flag, and one hides the other (`service.py:892`) | `observability/health.py:31` |
| `SignalLifecycle!ExecutedStays` | one signal, one operator, `LateRequests` | an approval that read the row before the execution overwrites EXECUTED (`signals.py:78`) | `signals.py:75` |
| `SignalLifecycle!LeftZoneIsOver` | `MaxMoves = 2` | a signal whose price left the zone is executed when it comes back (`service.py:457`) | `docs/strategy.md:58` |
| `LedgerReconciliation!AbsenceIsAuthoritative` | one ticket, `Concurrent` | a fill recorded between the reads of broker and rows is closed in the database (`reconciliation.py:121`); `LedgerConverges` shows that a later pass repairs it | `docs/operations.md:41` |
| `LedgerReconciliation!FilledStaysFilled` | one ticket | the order row of a filled entry is no resting order and becomes CANCELLED (`persistence.py:272`) | `docs/operations.md:40` |
| `LedgerReconciliation!EntryIsRecorded` | one ticket, `RestingUsed`, `Concurrent`, fair | the pass inserts a row with the ticket first, and the record fails for good (`persistence.py:347`) | `docs/operations.md:39` |
| `LedgerReconciliation!GoneTradesClose` | one ticket, `Concurrent`, `ManualUsed`, fair | the manual close leaves the trade open (`positions.py:55` of the API) | `docs/operations.md:40` |
| `PositionManagement!Tp1TakenOnce` | volume 8, `Faults` | a crash between the partial close and its record repeats it (`service.py:603`) | `docs/risk-management.md:57` |
| `PositionManagement!StopHolds` | two managers, `TrailDistance = 2` | a second manager sends a stop computed from an older price (`service.py:202`) | `execution/positions.py:189` |
| the same | `UnknownUsed`, `TrailDistance = 2` | the repair of an unconcluded attempt restores the stop of the request (`executor.py:411`) | `execution/positions.py:127` |
| `PositionManagement!RemainderTradable` | two managers, volume 5 | both read the same volume (`execution/positions.py:91`) | `execution/positions.py:1` |
| `PositionManagement!RowFollowsLifecycle` | `Exits` | TP1_HIT is written over CLOSED (`persistence.py:1346`) | `docs/architecture.md:67` |
| `LossBudget!RecordedWithinBudget` | `BatchSize = 2`, `MaximumWeeklyLoss = 40`, `MaxDays = 0` | both signals of a batch are judged by the usage read before the first (`service.py:454`) | `docs/risk-management.md:36` |
| `LossBudget!RealWithinBudget` | `ExitsUsed`, `MaximumWeeklyLoss = 40`, `MaxDays = 0` | the result of a strategy exit is recorded as zero (`persistence.py:1358`) | `docs/risk-management.md:36` |
| `PreTrade!MissingEvidenceFails` | as `Permission` in `trading` | without daily metrics the demo drawdown counts as zero (`persistence.py:942`) | `docs/risk-management.md:53` |
| `SymbolResolution!OneGoldPosition` | `Described = {}`, `MaximumGoldPositions = 1` | suffixed symbols without currencies are no equivalents (`mt5.py:195`) | `docs/risk-management.md:31` |
| `GoldStrategy!ZoneKeepsRiskReward` | as in `market` | at the far edge of the zone the risk/reward is below the one carried (`gold_h1_m15_m5.py:505`) | `docs/strategy.md:57` |
| `Backtest!StopEndsPosition` | as in `market` | a candle wholly beyond the stop does not contain it (`engine.py:116`) | `engine.py:114` |
| `WalkForward!FoldsHaveFixedWidth` | as in `market` | the end of a fold depends on the distance of the last two candles (`walk_forward.py:48`) | `walk_forward.py:97` |

## Proofs

The theorems hold for all sets of replicas, signals, callers, processes, workers,
operators, symbols, tickets, candles and orders, for all prices, volumes and limits,
and without the bounds of the runs, wherever the constants satisfy the named
assumptions of the component. Those are types and ranges of constants that the
code's own validation enforces (a positive minimum volume, percentages between 1 and
100, ...) and null values outside the sets they stand beside.

| Module | Theorem | Statement |
|---|---|---|
| `TradeExecutionProofs` | `TypeCorrect` | `Spec => []TypeOK` |
| | `AtMostOneSendHolds` | `Spec => []AtMostOneSend` |
| | `SentIsAnnouncedHolds` | `Spec => []SentIsAnnounced` |
| | `FinalMatchesBrokerHolds` | `Spec => []FinalMatchesBroker` |
| | `SucceededIsProtectedHolds` | `Spec => []SucceededIsProtected` |
| | `RowsFollowAttemptHolds` | `Spec => []RowsFollowAttempt` |
| | `Refinement` | `Spec => ImplementsSingleSubmission` |
| | `OnePositionHolds` | `QuietSpec => []OnePosition`, if `OrderType = "MARKET"` and one replica |
| `ControlsProofs` | `SerialRefinement` | `CircuitSpec => ImplementsSerial` |
| | `DrawdownLatchedHolds` | `CircuitSpec => DrawdownLatched` |
| | `LossLocksHeldInPeriodHolds` | `CircuitSpec => LossLocksHeldInPeriod` |
| | `DrawdownNeedsManualHolds` | `CircuitSpec => []DrawdownNeedsManual` |
| | `NeverAutoWhileLatchedHolds` | `Spec => []NeverAutoWhileLatched` |
| | `QuietKillSwitchDurableHolds` | `Spec => []QuietKillSwitchDurable` |
| | `VersionsUsableHolds` | `ConfigSpec => []VersionsUsable` |
| `WorkerProofs` | `OverlapOnlyAfterLapseHolds` | `JobsSpec => []OverlapOnlyAfterLapse` |
| | `PublishedWasGotHolds` | `OutboxSpec => []PublishedWasGot` |
| | `OutboxExactHolds` | `OutboxSpec => []OutboxExact`, if `~SlowUsed` |
| | `NothingBookedTwiceHolds` | `PortSpec => []NothingBookedTwice` |
| `EntryProofs` | `SizingIsLargest` | `SizedVolume(e, loss) = LargestVolume(e, loss)` |
| | `RecordedWithinBudgetHolds` | `BudgetSpec => []RecordedWithinBudget`, if `BatchSize = 1` |
| | `SentOnlyAsAllowedHolds` | `PreSpec => []SentOnlyAsAllowed` |
| | `OrdersFitHolds` | `PreSpec => []OrdersFit` |
| | `ApprovedBeforeSentHolds` | `Spec => ApprovedBeforeSent` |
| `PositionProofs` | `OneGoldPositionHolds` | `SymbolsSpec => []OneGoldPosition`, if `GoldIsRecognised` |
| | `AbsenceIsAuthoritativeHolds` | `LedgerSpec => AbsenceIsAuthoritative`, if `Concurrent = FALSE` |
| | `PartialClosesSoundHolds` | `ManageSpec => []PartialClosesSound`, if `OneManager` |
| | `StopHoldsHolds` | `ManageSpec => StopHolds`, if `OneManager` |
| | `RowFollowsLifecycleHolds` | `ManageSpec => RowFollowsLifecycle`, if `OneManager` |
| `MarketProofs` | `DecisionsHoldHolds` | `StrategySpec => DecisionsHold` |
| | `NoLookAheadHolds` | `BacktestSpec => []NoLookAhead` |
| | `BooksAreRightHolds` | `BacktestSpec => []BooksAreRight` |
| | `TestsComeLaterHolds` | `WalkSpec => []TestsComeLater` |
| `MarketStructureProofs` | `StructureIsTrueHolds` | `StructureSpec => []StructureIsTrue`, if `ClosedOnly = TRUE` |
| | `NoRepaintHolds` | `StructureSpec => NoRepaint`, if `ClosedOnly = TRUE` |

`TypeOK`, `SentIsAnnounced` and `DrawdownNeedsManual` are stated by theorems only;
`PublishedWasGot` is checked as a part of `OutboxExact`.

The conditions of ten theorems are those under which the runs check the property.
`OnePosition`: market orders, one replica and, by `QuietSpec`, no faults; `limit_pending`
and `limit_lost_reply` show it violated otherwise, and so it is if a second replica
enters after the lease of the first has lapsed.
`GoldIsRecognised`: every gold symbol carries its currencies or a known name.
`Concurrent = FALSE`: no entry is recorded while a ledger pass is under way.
`OneManager`: `manage_positions` does not outlive its lease, so that one replica
manages at a time. `BatchSize = 1`: one signal is due per run of `execute_signals`.
The table of deviations shows for these what the code does otherwise (for `OneManager`
with `StopHolds` and `RemainderTradable`). `~SlowUsed`: no batch of the outbox outlasts
the stale interval; `OutboxExact` is about that case, since a second worker may claim
a stale row by design. `ClosedOnly = TRUE` is the default of
`use_closed_candles_only` (`settings.py:89`). With it off the forming candle is
analysed and stored like a closed one, which violates `StructureIsTrue` at the first
scan.

None of the properties is inductive alone, `SizingIsLargest` apart, which is about
operators. The arguments:

**TradeExecution.** `IInv` adds what the place of a job says about shared state
(`JobInv`): from `Claim` to `Send` a job's signal has not been sent and its
attempt is still what the job wrote; from the reply on it has been sent once;
while a fill is being concluded the broker has accepted it; an outcome waiting for
`record_execution` agrees with the attempt. `OwnerInv` says that at most one job
is between claim and send for a signal, which is what the insert guarantees.
`AttemptInv` ties the attempt to `sends` and `broker`; in particular nothing is at
the broker before the send, which is why a reconciler that visits a SUBMITTED
attempt too early finds nothing and changes nothing. The argument is by frames. A
step moves one job (`OnlyJob`) and changes at most one of: nothing durable
(`ReadOnlyStep`), its own attempt (`AttemptStep`), or what the broker holds
(`MarketStep`, for moves that `LegalMove` allows). Each action is then one short
lemma. The seven actions that write an attempt or send map to steps of
`SingleSubmission`, all others to stutters. `AloneInv`, for `OnePosition`: between its
read of the positions and its send the executor knows that nothing is open or on its
way, and an order on its way is the one whose reply it awaits. A fault ends that
knowledge, since the job leaves and the order stays.

**CircuitBreaker.** `BasisInv`: what a caller holds under a version is the row of
that version. A save that succeeds therefore changes the row it was computed
from, and maps to one step of `CircuitSerial`; everything else stutters. The
properties of the locks are proved from what `CircuitState`'s operations do to them.

**RuntimeControls.** `LoadableInv`: every copy of the controls (memory, captured,
rows, what the latch read) is one that `Loadable` accepts, and operations keep it
so. `QuietInv`, for the kill switch: while one task has served all requests there is
one active row, what the task holds between its steps carries an answered switch,
and so does the memory it will capture from next.

**ConfigUpdates.** `RiskInv`: the API's copy, what a request is about to store and
every version are in order with the defaults filled in, also after a failed commit.
`VersionInv`: the unique key refuses a version that the API draws again after a
restart.

**WorkerJobs.** `Owns`: a run under which no lease lapsed owns its key. Two such
runs of one job would own the same key. The release script deletes only the
caller's token, which is what keeps `Owns`.

**Outbox.** `GotInv`: a worker that holds the result "delivered" holds it for an
event that arrived, and a worker without a batch holds no result. `ExactInv`: the
batches of two workers are disjoint and their rows locked, and an event that arrived
more often than workers died is delivered, or about to be completed.

**BrokerStack.** The deals are a sequence; `FillInv` says that a key has at most one
deal "in", and a report if it has one,
`BookInv` that a position is the sum of its deals, and `AttemptInv` bounds what a
call has forwarded by its attempts so far.

**Sizing and gates.** `SizingIsLargest` is division with remainder: the next step of
volume would exceed the risk. `PreInv` collects what each stage established and no
later stage undoes. That the broker accepts what the gates accept follows for every
order from the two sets of rules.

**LossBudget.** `BudgetInv`: a trade counts for the day at most what it put at risk,
so closing or reconciling one never raises the sum of losses and open risk; the batch
that is under way was judged by a usage at least as large as today's, and the gate
leaves room for the one entry it admits.

**SignalLifecycle.** `StageInv`: a row that is APPROVED, and every signal of a batch
loaded in SEMI_AUTO, was agreed to; mode changes between loading and sending do not
matter.

**SymbolResolution.** `GoldInv`: every open gold position is on a listed symbol, and
there is one, since an entry resolves to a symbol whose equivalents include every
listed gold symbol.

**LedgerReconciliation.** `GoneInv`: from the read of the broker's positions on, a row
that is open and was not in that read has a position that is gone for good; the
repairs of a pass are for such rows only.

**PositionManagement.** `CloseInv`: what a manager is about to close leaves a tradable
rest of the volume as it is now, and between the read of the events and the record of
TP1 no event is added. `StopInv`: a stop about to be sent is better than the present
one, and a break-even about to be recorded covers the costs. `RowInv`: the row is
still in the state a manager planned from.

**GoldStrategy.** `StrategyInv` types the evidence and says that a direction was
signalled on a trend. Symmetry is a lemma about `Decision` under exchanged
directions, the levels follow from the arithmetic of zone, stop and targets.

**Backtest.** `RunOK` counts signals against trades, expiries and what is held, and
orders the times of a signal, its evidence and its fill; `OpenUntouched` is kept
because a bar looks for an exit before it does anything else.

**WalkForward.** `WalkInv` says that the timestamps increase. The rest is about
the folds: each window is an interval of indices whose end is the first candle at or
after a time, and the windows of one offset follow each other.

**MarketStructure.** `StructureInv`: the analysis is that of the first candles of the
history, and the stored snapshots are its beginning. The rest is about the walk.
`WalkSteps`: it satisfies its recursion. `WalkOfPrefix`: over the first candles it does
what the walk over all does up to there, since a swing is known only once its right
span has closed. `BrokenIs` and `EventsAre` say what it has computed by candle t: a
level is broken if some candle closed beyond it while it was the latest, and the breaks
are the expected ones of the candles so far, no level twice. The latest level has been
the latest ever since it was confirmed (`LevelBefore`), so "not broken yet" is the same
as "no candle since then closed beyond it".

Sums over sequences (`Sums`) are recursive functions, so what they compute takes
induction. `SumsProofs` proves an induction rule in terms of sets (`NatInd`: a set
that contains 0 and with each n also n + 1 contains all naturals; from the least
element of a set, `LeastNat`) and derives from it what the other modules use: the
sum of a sequence with one entry added, replaced or bounded.

Only model-checked:

- Liveness, out of the prover's reach, as is ENABLED: the eight properties of
  `progress`, `HeldOrderIsConcluded` and `KillSwitchStopsEntries`.

## Not modelled

- Indicators, backtest metrics and reports: decimal arithmetic over series, without
  state.
- Domain values, database declarations, configuration, logging, observability:
  no protocol and no shared state beyond what the components above keep.
- The HTTP and WebSocket layers but for the operations named: request parsing,
  authentication, read-only queries and fan-out change nothing the engine reads.
- MT5 connection handling, ticks, rates and margin: calls into an external
  terminal; what the engine does with their failures is modelled where it happens.
- The session and news calendars: pure functions of the clock; whether they block
  is an input of `PreTrade`.
- The symbol ranking of `market/`: used by its unit test only.
- Fixed and structure trailing: they share the improvement rule of the ATR trailing
  that is modelled.
