----------------------------- MODULE LossBudget -----------------------------
(***************************************************************************)
(* The daily and weekly loss budget over a sequence of trades: what the    *)
(* broker really pays, what the trade rows record of it, and the RiskUsage *)
(* computed from those rows that the gates and the circuit breaker use.    *)
(*                                                                         *)
(* The rows are written by record_execution(), record_position_action()    *)
(* and the recovery ledger of app/workers/persistence.py, the usage is     *)
(* read once per run of execute_signals().  The gates admit one position   *)
(* at a time, so at most one trade is open at the broker; the row of an    *)
(* earlier one may still be open.                                          *)
(***************************************************************************)
EXTENDS RiskRules, Sums

CONSTANTS
    Deposit,        \* the balance at the start
    StopLosses,     \* loss of one unit of volume at the stop, per signal
    BatchSize,      \* how many signals one run of execute_signals() may enter
    ExitsUsed,      \* whether the strategy exits positions itself
    MaxTrades,      \* bound: trades
    MaxDays,        \* bound: days
    WeekLength      \* days of a week

ASSUME BudgetAssumption ==
    /\ Deposit \in Nat \ {0}
    /\ StopLosses \subseteq Nat \ {0}
    /\ BatchSize \in Nat \ {0}
    /\ WeekLength \in Nat \ {0}

VARIABLES
    day,        \* UTC day
    balance,    \* balance of the account at the broker
    trades,     \* the trades: broker position and trade row
    peak,       \* highest equity among the account snapshots
    locks,      \* locks of the circuit breaker
    batch,      \* usage and size of the running execute_signals()
    granted     \* ghost: equity the last accepted order was judged by

budgetVars == <<day, balance, trades, peak, locks, batch, granted>>

NoBatch == [left |-> 0]

Trade(risk) ==
    [risk |-> risk, open |-> TRUE, pnl |-> 0, endDay |-> 0,      \* at the broker
     row |-> "open", stored |-> 0, recorded |-> 0, closedDay |-> 0]

Week(d) == d \div WeekLength

Counted(condition, amount) == IF condition THEN amount ELSE 0

LossOf(pnl) == Counted(pnl < 0, 0 - pnl)

Floating == Sum([i \in DOMAIN trades |-> Counted(trades[i].open, trades[i].pnl)])
Equity   == balance + Floating

BudgetInit ==
    /\ day = 0 /\ balance = Deposit /\ trades = << >> /\ peak = NoPeak
    /\ locks = {} /\ batch = NoBatch /\ granted = Deposit

-----------------------------------------------------------------------------
(* The broker and the clock.                                               *)

\* The price moves between the stop and the target; the stop bounds the loss.
ProfitMoves(i) ==
    /\ trades[i].open
    /\ \E pnl \in {0 - trades[i].risk, 0, trades[i].risk} \ {trades[i].pnl} :
         trades' = [trades EXCEPT ![i].pnl = pnl]
    /\ UNCHANGED <<day, balance, peak, locks, batch, granted>>

ClosedAtBroker(t) == [t EXCEPT !.open = FALSE, !.endDay = day]

\* The stop or the target closes the position.
BrokerCloses(i) ==
    /\ trades[i].open /\ trades[i].pnl # 0
    /\ balance' = balance + trades[i].pnl
    /\ trades' = [trades EXCEPT ![i] = ClosedAtBroker(@)]
    /\ UNCHANGED <<day, peak, locks, batch, granted>>

\* The day ends; CircuitBreaker.get() drops the loss locks of a past period.
NextDay ==
    /\ day < MaxDays
    /\ day' = day + 1
    /\ locks' = locks \ ({"DAILY_LOSS_LIMIT_REACHED"} \cup
          (IF Week(day + 1) # Week(day) THEN {"WEEKLY_LOSS_LIMIT_REACHED"} ELSE {}))
    /\ UNCHANGED <<balance, trades, peak, batch, granted>>

-----------------------------------------------------------------------------
(* risk_usage() and execute_signals().                                     *)

LostOnDay(t)  == Counted(t.row = "closed" /\ t.closedDay = day, LossOf(t.recorded))
LostInWeek(t) == Counted(t.row = "closed" /\ Week(t.closedDay) = Week(day), LossOf(t.recorded))
AtRisk(t)     == Counted(t.row = "open", t.risk)

RiskUsage ==
    [daily  |-> Sum([i \in DOMAIN trades |-> LostOnDay(trades[i])]),
     weekly |-> Sum([i \in DOMAIN trades |-> LostInWeek(trades[i])]),
     open   |-> Sum([i \in DOMAIN trades |-> AtRisk(trades[i])]),
     peak   |-> peak]

BatchStarts ==
    /\ batch = NoBatch
    /\ batch' = [left |-> BatchSize, usage |-> RiskUsage]
    /\ UNCHANGED <<day, balance, trades, peak, locks, granted>>

\* The breaker latches what the usage breaches, then the gates judge the trade.
EnterTrade(loss) ==
    LET volume == SizedVolume(Equity, loss)
        risk   == CashRisk(volume, loss)
        found  == LossReasons(Equity, batch.usage, 0)
    IN  /\ batch.left > 0 /\ Len(trades) < MaxTrades
        /\ \A i \in DOMAIN trades : ~trades[i].open
        /\ volume # NoVolume
        /\ locks' = locks \cup found
        /\ batch' = IF batch.left = 1 THEN NoBatch ELSE [batch EXCEPT !.left = @ - 1]
        /\ IF locks' = {} /\ LossReasons(Equity, batch.usage, risk) = {}
           THEN trades' = Append(trades, Trade(risk)) /\ granted' = Equity
           ELSE UNCHANGED <<trades, granted>>
        /\ UNCHANGED <<day, balance, peak>>

BatchEnds ==
    /\ batch # NoBatch
    /\ batch' = NoBatch
    /\ UNCHANGED <<day, balance, trades, peak, locks, granted>>

-----------------------------------------------------------------------------
(* What the rows record.                                                   *)

\* _execute_strategy_exit(): the position is closed and its row takes over
\* position.realized_pnl, which nothing has set.
ExitTrade(i) ==
    /\ ExitsUsed /\ trades[i].open /\ trades[i].row = "open"
    /\ balance' = balance + trades[i].pnl
    /\ trades' = [trades EXCEPT ![i] =
         [ClosedAtBroker(@) EXCEPT !.row = "closed", !.recorded = 0, !.closedDay = day]]
    /\ UNCHANGED <<day, peak, locks, batch, granted>>

\* A pass of the reconciliation: an open position's profit is stored, a row
\* whose position is gone is closed with the profit stored last.
Reconciled(t) ==
    IF t.open THEN [t EXCEPT !.stored = t.pnl]
    ELSE [t EXCEPT !.row = "closed", !.recorded = t.stored, !.closedDay = day]

ReconcileTrade(i) ==
    /\ trades[i].row = "open"
    /\ trades' = [trades EXCEPT ![i] = Reconciled(@)]
    /\ trades' # trades
    /\ UNCHANGED <<day, balance, peak, locks, batch, granted>>

SnapshotAccount ==
    /\ Equity > peak
    /\ peak' = Equity
    /\ UNCHANGED <<day, balance, trades, locks, batch, granted>>

\* snapshot_risk(): the breaker is evaluated with a usage of its own.
SnapshotRisk ==
    /\ ~(LossReasons(Equity, RiskUsage, 0) \subseteq locks)
    /\ locks' = locks \cup LossReasons(Equity, RiskUsage, 0)
    /\ UNCHANGED <<day, balance, trades, peak, batch, granted>>

BudgetNext ==
    \/ NextDay \/ BatchStarts \/ BatchEnds \/ SnapshotAccount \/ SnapshotRisk
    \/ \E loss \in StopLosses : EnterTrade(loss)
    \/ \E i \in DOMAIN trades :
         ProfitMoves(i) \/ BrokerCloses(i) \/ ExitTrade(i) \/ ReconcileTrade(i)

BudgetSpec == BudgetInit /\ [][BudgetNext]_budgetVars

-----------------------------------------------------------------------------
(* Properties.                                                             *)

\* The losses recorded for the day, and for the week, together with the risk
\* of the trades that are open, stay below the limit of the equity the last
\* order was judged by, whatever reconciles or closes after the order.
RecordedWithinBudget ==
    /\ (RiskUsage.daily + RiskUsage.open) * Thousand < granted * MaximumDailyLoss
    /\ (RiskUsage.weekly + RiskUsage.open) * Thousand < granted * MaximumWeeklyLoss

LostToday ==
    Sum([i \in DOMAIN trades |->
           Counted(~trades[i].open /\ trades[i].endDay = day, LossOf(trades[i].pnl))])

\* What the broker really took today, with what it can still take, stays below
\* the daily limit of the equity the last order was judged by.
RealWithinBudget ==
    (LostToday + Sum([i \in DOMAIN trades |-> Counted(trades[i].open, trades[i].risk)])) * Thousand
       < granted * MaximumDailyLoss

=============================================================================
