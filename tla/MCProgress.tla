----------------------------- MODULE MCProgress -----------------------------
(***************************************************************************)
(* Model-checking instance of what must happen in the end: in the jobs,    *)
(* the outbox, the broker port, the scan's exit, the life of a signal, the *)
(* reconciliation of the rows and the drawdown latch.                      *)
(*                                                                         *)
(* The parts share no variable, so what holds of one of them does not      *)
(* depend on what the others do.  `part' names the one that moves in a     *)
(* behaviour; the others keep their initial state.  The state graph is the *)
(* union of the graphs of the parts instead of their product, and a        *)
(* property of a part holds here if and only if it holds of the part       *)
(* alone.                                                                  *)
(***************************************************************************)
EXTENDS Naturals

VARIABLES
    part,
    up, healthy, running, lapsed, lock, beating, key, reported, last, faults,
    rows, got, batch, result, tries, failures,
    call, portLock, connected, reports, positions, orders, deals, forwarded, calls, flips,
    bar, against, barRows, open, plan, activeMode, scan, crashes,
    row, past, inZone, left, mode, request, agreed, attempt, job, count,
    broker, entry, answer, own, recovered, position, trade, passAt, sawPositions, sawOrders,
    rowStatus, orderStatus, todo, passCrashes,
    load, memory, active, stamp, requests, pc, captured, seen, kind, latch, latched, latchSeen,
    drawdown, circuit, pulled

jobsVars   == <<up, healthy, running, lapsed, lock, beating, key, reported, last, faults>>
outboxVars == <<rows, got, batch, result, tries, failures>>
portVars   == <<call, portLock, connected, reports, positions, orders, deals, forwarded, calls,
                flips>>
scanVars   == <<bar, against, barRows, open, plan, activeMode, scan, crashes>>
signalVars == <<row, past, inZone, left, mode, request, agreed, attempt, job, count>>
ledgerVars == <<broker, entry, answer, own, recovered, position, trade, passAt, sawPositions,
                sawOrders, rowStatus, orderStatus, todo, passCrashes>>
latchVars  == <<load, memory, active, stamp, requests, pc, captured, seen, kind, latch, latched,
                latchSeen, drawdown, circuit, pulled>>

Jobs == INSTANCE WorkerJobs WITH
    Replicas <- {"r1", "r2"}, Entries <- {"execution", "heartbeat"}, Failing <- {"execution"},
    MaxFaults <- 2, LapsesUsed <- FALSE

Outbox == INSTANCE Outbox WITH
    Workers <- {"w1", "w2"}, NumEvents <- 2, Limit <- 2, MaxAttempts <- 2, MaxFailures <- 2,
    SlowUsed <- TRUE

Port == INSTANCE BrokerStack WITH
    Clients <- {"scan", "manage"}, Keys <- {"k1"}, Volumes <- {1},
    MaximumAttempts <- 2, MaxCalls <- 3, MaxFlips <- 1

Scan == INSTANCE MarketScan WITH MaxCrashes <- 1, rows <- barRows, mode <- activeMode

Signal == INSTANCE SignalLifecycle WITH
    Signals <- {"s1"}, Operators <- {"o1"}, Modes <- {"SIGNAL", "SEMI_AUTO", "AUTO"},
    MaxMoves <- 0, MaxModes <- 1, MaxCrashes <- 1, LateRequests <- TRUE

Ledger == INSTANCE LedgerReconciliation WITH
    Tickets <- {"t1"}, RestingUsed <- TRUE, LostReplies <- TRUE, Concurrent <- TRUE,
    ManualUsed <- FALSE, MaxBrokenPasses <- 1, result <- answer, crashes <- passCrashes

Latch == INSTANCE RuntimeControls WITH
    Processes <- {"p1"}, Slots <- {1}, Loads <- {{<<"p1", 1>>}}, Environment <- "demo", DefaultMode <- "SIGNAL",
    MaxRequests <- 2, DrawdownUsed <- TRUE, FaultsUsed <- FALSE

-----------------------------------------------------------------------------

\* In "jobs" a replica that went down may stay down, in "restarted" it comes back.
Parts == {"jobs", "restarted", "outbox", "port", "scan", "signal", "ledger", "latch"}

Init ==
    /\ part \in Parts
    /\ Jobs!JobsInit /\ Outbox!OutboxInit /\ Port!PortInit /\ Scan!Init /\ Signal!Init
    /\ Ledger!LedgerInit /\ Latch!Init
    /\ part # "scan" => activeMode = "AUTO"
    /\ part # "signal" => mode = "AUTO"

JobsMove == part \in {"jobs", "restarted"}

Next ==
    \/ /\ JobsMove /\ Jobs!JobsNext
       /\ UNCHANGED <<part, outboxVars, portVars, scanVars, signalVars, ledgerVars, latchVars>>
    \/ /\ part = "outbox" /\ Outbox!OutboxNext
       /\ UNCHANGED <<part, jobsVars, portVars, scanVars, signalVars, ledgerVars, latchVars>>
    \/ /\ part = "port" /\ Port!PortNext
       /\ UNCHANGED <<part, jobsVars, outboxVars, scanVars, signalVars, ledgerVars, latchVars>>
    \/ /\ part = "scan" /\ Scan!Next
       /\ UNCHANGED <<part, jobsVars, outboxVars, portVars, signalVars, ledgerVars, latchVars>>
    \/ /\ part = "signal" /\ Signal!Next
       /\ UNCHANGED <<part, jobsVars, outboxVars, portVars, scanVars, ledgerVars, latchVars>>
    \/ /\ part = "ledger" /\ Ledger!LedgerNext
       /\ UNCHANGED <<part, jobsVars, outboxVars, portVars, scanVars, signalVars, latchVars>>
    \/ /\ part = "latch" /\ Latch!Next
       /\ UNCHANGED <<part, jobsVars, outboxVars, portVars, scanVars, signalVars, ledgerVars>>

-----------------------------------------------------------------------------
(***************************************************************************)
(* Fairness, of the part that moves.                                       *)
(***************************************************************************)

\* The schedulers fire for ever, jobs end, keys age and the API polls.  A
\* container that went down comes back in "restarted" only.
JobsFairness ==
    /\ \A x \in Jobs!Runs : /\ WF_jobsVars(JobsMove /\ Jobs!Acquire(x))
                            /\ WF_jobsVars(JobsMove /\ Jobs!Ends(x))
    /\ \A r \in {"r1", "r2"} :
          /\ \A c \in Jobs!Components : WF_jobsVars(JobsMove /\ Jobs!Beat(r, c))
          /\ WF_jobsVars(part = "restarted" /\ Jobs!Start(r))
    /\ \A j \in Jobs!Jobs : WF_jobsVars(JobsMove /\ Jobs!LeaseExpires(j))
    /\ \A c \in Jobs!Components : WF_jobsVars(JobsMove /\ Jobs!KeyAges(c))
    /\ WF_jobsVars(JobsMove /\ Jobs!RefreshWorkerHealth)

\* The outbox job is scheduled for ever, and time passes.
OutboxFairness ==
    /\ WF_outboxVars(part = "outbox" /\ Outbox!Time)
    /\ \A w \in {"w1", "w2"} : WF_outboxVars(part = "outbox" /\ Outbox!Work(w))

\* asyncio runs every task that can run, and its lock serves the waiting tasks in
\* the order they came.
PortFairness ==
    \A t \in {"scan", "manage"} : /\ WF_portVars(part = "port" /\ Port!Step(t))
                                  /\ SF_portVars(part = "port" /\ Port!Lock(t))

\* The scheduler starts every scan and the scan goes on; bars close; the
\* reconciliation runs; a broker that is asked again and again does not refuse
\* for ever.
ScanFairness ==
    /\ WF_scanVars(part = "scan" /\ (Scan!Evaluate \/ Scan!SaveSignal \/ Scan!RecordExit))
    /\ WF_scanVars(part = "scan" /\ (Scan!ExitCloses \/ Scan!ExitFails))
    /\ SF_scanVars(part = "scan" /\ Scan!ExitCloses)
    /\ SF_scanVars(part = "scan" /\ Scan!NewBar)
    /\ SF_scanVars(part = "scan" /\ Scan!Reconciles)

\* The execution job is scheduled for ever, requests end, and time passes.
SignalFairness ==
    /\ WF_signalVars(part = "signal" /\ Signal!JobStep)
    /\ WF_signalVars(part = "signal" /\ Signal!ApproveCommit("o1"))
    /\ WF_signalVars(part = "signal" /\ Signal!Expire("s1"))

\* The job is scheduled every minute and runs to its end but for the crashes, and
\* the executor offers an entry again until it is recorded.
LedgerFairness ==
    /\ WF_ledgerVars(part = "ledger" /\ Ledger!Pass)
    /\ WF_ledgerVars(part = "ledger" /\ Ledger!Match("t1"))
    /\ WF_ledgerVars(part = "ledger" /\ Ledger!RecordEntry("t1"))

\* Requests are served to their end, and the snapshot job runs every minute.
LatchFairness ==
    /\ WF_latchVars(part = "latch" /\ Latch!Worker)
    /\ WF_latchVars(part = "latch" /\ Latch!Serve(<<"p1", 1>>))

Spec ==
    /\ Init
    /\ [][Next]_<<part, jobsVars, outboxVars, portVars, scanVars, signalVars, ledgerVars, latchVars>>
    /\ JobsFairness /\ OutboxFairness /\ PortFairness /\ ScanFairness
    /\ SignalFairness /\ LedgerFairness /\ LatchFairness

-----------------------------------------------------------------------------
(***************************************************************************)
(* The properties of the parts, each for the behaviours of its part.       *)
(***************************************************************************)

\* Every job of start_scheduler() goes on being run, whatever a crash or a lost
\* reply left behind in Redis, if workers are restarted.
JobsKeepRunning == part = "restarted" => Jobs!JobsKeepRunning

\* When every worker is down for good, _refresh_worker_health() reports every
\* component unhealthy for good, also when the last one died with its keys set.
DeadIsReported == part = "jobs" => Jobs!DeadIsReported

\* dispatch_outbox() publishes every event for good, through deaths, failures, and
\* late completions that put a published row back.
PublishedInTheEnd == part = "outbox" => Outbox!PublishedInTheEnd

\* Every call of the broker port returns to its task, also without a broker.
CallsReturn == part = "port" => Port!CallsReturn

\* While the trend is against it and the mode is AUTO, a position is closed, also
\* when _execute_strategy_exit() crashed or was refused after save_signal().
ReversalExits == part = "scan" => Scan!ReversalExits

\* Every signal row reaches a final status for good, also when approve_signal()
\* commits after the expiry.
SettledInTheEnd == part = "signal" => Signal!SettledInTheEnd

\* Whatever a pass of the reconciliation read while the broker and the executor
\* went on, the rows agree with the broker again and again, and the trade of a
\* position that is gone at the broker is closed by some pass.
LedgerConverges == part = "ledger" => Ledger!MatchesInTheEnd /\ Ledger!GoneTradesClose

\* While the breaker asks for manual re-enablement, snapshot_risk() puts the latch
\* back after every request that stored the controls without it.
LatchPrevails == part = "latch" => Latch!LatchPrevails

=============================================================================
