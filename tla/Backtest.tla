------------------------------ MODULE Backtest ------------------------------
(***************************************************************************)
(* BacktestEngine.run() of app/backtesting/engine.py: one step per M5      *)
(* candle, in which the open position is checked against its stop and      *)
(* target, a pending signal expires or is filled, and the strategy is      *)
(* evaluated on the candles that have closed.                              *)
(*                                                                         *)
(* Time counts M5 periods: candle t covers [t, t + 1).  A slow candle is   *)
(* SlowLength periods long and stands for M15 and H1.  What the strategy   *)
(* answers is drawn; what it is is the subject of GoldStrategy.  Spread,   *)
(* slippage and commission are one cost per side and unit of volume.       *)
(***************************************************************************)
EXTENDS Integers, Sequences, FiniteSetsExt

CONSTANTS
    TestCandles,      \* [open, high, low, close]
    Signals,          \* [long, low, high, stop, target, life] of entries
    SlowLength,       \* M5 periods of a slow candle
    InitialBalance, RiskPercent, Cost,
    MinimumVolume, MaximumVolume,
    CloseAtEnd,       \* config.close_open_position_at_end
    MaxSteps          \* bound: M5 candles

CandleRows == [open : Int, high : Int, low : Int, close : Int]
SignalRows ==
    [long : BOOLEAN, low : Int, high : Int, stop : Int, target : Int, life : Nat,
     time : Nat, expires : Nat, seen : Nat]

ASSUME BacktestAssumption ==
    /\ SlowLength \in Nat \ {0} /\ InitialBalance \in Nat \ {0}
    /\ RiskPercent \in 1 .. 100 /\ Cost \in Nat
    /\ MinimumVolume \in Nat \ {0} /\ MaximumVolume \in Nat /\ MaximumVolume >= MinimumVolume
    /\ TestCandles \subseteq CandleRows /\ Signals \subseteq SignalRows
    /\ CloseAtEnd \in BOOLEAN

VARIABLES
    time,     \* timestamp of the next M5 candle
    run,      \* the local variables of run()
    ranges,   \* the candles since the position was filled
    ended

backtestVars == <<time, run, ranges, ended>>

None == {}    \* no pending signal, no position; otherwise a set with one record
Count(held) == IF held = None THEN 0 ELSE 1

BacktestInit ==
    /\ time = 0 /\ ranges = << >> /\ ended = FALSE
    /\ run = [balance |-> InitialBalance, curve |-> <<0>>, trades |-> 0,
              pending |-> None, position |-> None, generated |-> 0, expired |-> 0]

Within(price, c) == c.low <= price /\ price <= c.high

-----------------------------------------------------------------------------
(* Filling and closing.                                                    *)

Entry(s, c) ==
    IF s.low <= c.open /\ c.open <= s.high THEN c.open
    ELSE IF c.open < s.low THEN s.low ELSE s.high

\* risk budget over the risk of one unit, capped, in whole steps
Volume(balance, risk) ==
    LET volume == (Max({balance, 0}) * RiskPercent) \div (100 * risk)
    IN  IF volume < MinimumVolume THEN 0 ELSE Min({volume, MaximumVolume})

\* _fill_pending(): None, or the position
FillPending(s, c, balance) ==
    LET sign  == IF s.long THEN 1 ELSE -1
        price == Entry(s, c) + sign * Cost
        risk  == sign * (price - s.stop)
    IN  IF c.high < s.low \/ c.low > s.high \/ risk <= 0 \/ Volume(balance, risk) = 0
        THEN None
        ELSE {[signal |-> s, price |-> price, opened |-> time,
               volume |-> Volume(balance, risk)]}

\* _trigger(): the stop is looked at first
Triggered(p, c) ==
    IF Within(p.signal.stop, c) THEN {p.signal.stop}
    ELSE IF Within(p.signal.target, c) THEN {p.signal.target} ELSE {}

\* _close(): the trade is booked at the end of the candle
Closed(r, p, exit) ==
    LET sign == IF p.signal.long THEN 1 ELSE -1
        net  == (sign * (exit - p.price) - Cost) * p.volume
    IN  [r EXCEPT !.balance = @ + net, !.curve = Append(@, time + 1),
                  !.trades = @ + 1, !.position = None]

-----------------------------------------------------------------------------
(* The three parts of the loop body, each from the locals before it.       *)

AfterTrigger(r, c) ==
    LET hits == UNION {Triggered(p, c) : p \in r.position}
    IN  IF hits = {} THEN r
        ELSE Closed(r, CHOOSE p \in r.position : TRUE, CHOOSE x \in hits : TRUE)

\* Mutant: the candle that fills a signal is not looked at again.
AfterPendingUntriggered(r, c) ==
    IF r.position # None \/ r.pending = None THEN r
    ELSE LET s == CHOOSE s \in r.pending : TRUE
             filled == FillPending(s, c, r.balance)
         IN  IF time >= s.expires
             THEN [r EXCEPT !.pending = None, !.expired = @ + 1]
             ELSE IF filled = None THEN r
             ELSE [r EXCEPT !.pending = None, !.position = filled]

AfterPending(r, c) ==
    IF r.position # None \/ r.pending = None THEN r
    ELSE LET s == CHOOSE s \in r.pending : TRUE
             filled == FillPending(s, c, r.balance)
         IN  IF time >= s.expires
             THEN [r EXCEPT !.pending = None, !.expired = @ + 1]
             ELSE IF filled = None THEN r
             ELSE AfterTrigger([r EXCEPT !.pending = None, !.position = filled], c)

\* Mutant: a slow candle is available from its start on.
AvailableFromStart == time \div SlowLength + 1

\* available_ends: the slow candles that have closed by the decision
Available == (time + 1) \div SlowLength

Pending(s) == [s EXCEPT !.time = time + 1, !.expires = time + 1 + s.life, !.seen = Available]

MayPend(r) == r.position = None /\ r.pending = None

AfterDecision(r, c, exit, entry) ==
    IF Available = 0 THEN r
    ELSE IF exit
    THEN IF r.position = None THEN r
         ELSE Closed(r, CHOOSE p \in r.position : TRUE, c.close)
    ELSE IF entry # None /\ MayPend(r)
    THEN [r EXCEPT !.pending = {Pending(s) : s \in entry}, !.generated = @ + 1]
    ELSE r

\* exit: the strategy answers EXIT; entry: it answers with this signal
Bar(c, exit, entry) ==
    /\ ~ended /\ time < MaxSteps
    /\ run' = AfterDecision(AfterPending(AfterTrigger(run, c), c), c, exit, entry)
    /\ ranges' = IF run'.position = None THEN << >>
                 ELSE IF run'.position = run.position THEN Append(ranges, c) ELSE <<c>>
    /\ time' = time + 1
    /\ UNCHANGED ended

\* After the last candle: an open position may be closed, a pending signal is
\* counted as expired, the curve is brought to the end.
End ==
    LET at == [run EXCEPT !.expired = @ + Count(run.pending), !.pending = None]
        net(p) == ((IF p.signal.long THEN 1 ELSE -1)
                      * (ranges[Len(ranges)].close - p.price) - Cost) * p.volume
        booked == IF CloseAtEnd /\ at.position # None
                  THEN [at EXCEPT !.balance = @ + net(CHOOSE p \in at.position : TRUE),
                                  !.curve = Append(@, time), !.trades = @ + 1,
                                  !.position = None]
                  ELSE at
    IN  /\ ~ended /\ time > 0
        /\ run' = IF booked.curve[Len(booked.curve)] # time
                  THEN [booked EXCEPT !.curve = Append(@, time)] ELSE booked
        /\ ended' = TRUE
        /\ ranges' = << >>
        /\ UNCHANGED time

BacktestDone == ended /\ UNCHANGED backtestVars

BacktestNext ==
    \/ \E c \in TestCandles, exit \in BOOLEAN, entry \in {None} \cup {{s} : s \in Signals} :
         Bar(c, exit, entry)
    \/ End
    \/ BacktestDone

BacktestSpec == BacktestInit /\ [][BacktestNext]_backtestVars

-----------------------------------------------------------------------------
(* Properties.                                                             *)

\* A decision uses slow candles that had closed when it was taken, and a
\* signal is filled no earlier than it was given.
NoLookAhead ==
    /\ \A s \in run.pending \cup {p.signal : p \in run.position} :
          s.seen * SlowLength <= s.time
    /\ \A p \in run.position : p.signal.time <= p.opened

\* Every signal is accounted for once: it expired, became a trade, is pending
\* or is the open position.
SignalsAccounted ==
    run.generated = run.expired + run.trades
                    + Count(run.pending) + Count(run.position)

\* The equity curve has one point per time, in order: no two trades are booked
\* on the same candle.
CurveIncreases ==
    \A i \in 1 .. Len(run.curve) - 1 : run.curve[i] < run.curve[i + 1]

\* No candle since the fill, the filling one included, traded at the stop or at
\* the target of a position that is still open.
OpenUntouched ==
    \A p \in run.position, i \in DOMAIN ranges :
        ~Within(p.signal.stop, ranges[i]) /\ ~Within(p.signal.target, ranges[i])

\* No candle since the fill traded at the stop or at the target of a position that
\* is still open, every signal is accounted for once, and the equity curve has one
\* point per time, in order.
BooksAreRight == OpenUntouched /\ SignalsAccounted /\ CurveIncreases

\* No candle since the fill traded at or beyond the stop of a position that is
\* still open.
StopEndsPosition ==
    \A p \in run.position, i \in DOMAIN ranges :
        IF p.signal.long THEN ranges[i].low > p.signal.stop
                         ELSE ranges[i].high < p.signal.stop

=============================================================================
