---------------------------- MODULE GoldStrategy ----------------------------
(***************************************************************************)
(* GoldTrendPullbackStrategy.evaluate(): what the strategy makes of the    *)
(* closed H1, M15 and M5 candles and of the open position, and the levels  *)
(* of the signal it returns (app/strategies/gold_h1_m15_m5.py,             *)
(* app/signals/confidence.py).                                             *)
(*                                                                         *)
(* The indicators and the structure are inputs: their values are drawn     *)
(* when they are read, and only the flags the code derives from them are   *)
(* kept.  Prices are integers in units of the last digit _decimal() keeps. *)
(***************************************************************************)
EXTENDS Integers, FiniteSetsExt

CONSTANTS
    Levels,                    \* closes and averages of H1 and M15
    M5Candles,                 \* [open, high, low, close] of M5
    Spreads,                   \* spreads, the current one and the average
    Closes, Ranges,            \* last M5 close, ATR
    Depths,                    \* how far the recent extreme is from the close
    RequireLongAlignment,      \* config.require_ema_long_alignment
    ConfidenceThreshold,       \* config.confidence_threshold
    MaximumSpread              \* config.maximum_spread

ASSUME StrategyAssumption ==
    /\ ConfidenceThreshold \in 0 .. 100
    /\ MaximumSpread \in Nat \ {0}
    /\ Levels \cup Closes \subseteq Int /\ Spreads \cup Ranges \cup Depths \subseteq Nat
    /\ \A x \in Closes \cup Depths : x % 5 = 0
    /\ \A x \in Ranges : x > 0 /\ x % 100 = 0

VARIABLES
    stage,      \* what has been derived so far
    evidence,   \* the flags of the two directions, and the quality of the spread
    position,   \* direction of the open position
    signal      \* the signal returned last

strategyVars == <<stage, evidence, position, signal>>

Flat       == "NONE"
Directions == {"LONG", "SHORT"}
Opposite(d) == IF d = "LONG" THEN "SHORT" ELSE "LONG"

NoSignal   == [action |-> "WAIT", levels |-> {}]
Blank      == [trend |-> FALSE, structure |-> FALSE, pullback |-> FALSE,
               confirmed |-> FALSE, momentum |-> FALSE]
NoEvidence == [LONG |-> Blank, SHORT |-> Blank, spread |-> [points |-> 0, allowed |-> FALSE]]

StrategyInit == stage = "history" /\ evidence = NoEvidence /\ position = Flat /\ signal = NoSignal

\* _has_history() fails: WAIT, whatever the position is
Warmup ==
    /\ stage = "history"
    /\ stage' = "warmup" /\ signal' = NoSignal
    /\ UNCHANGED <<evidence, position>>

-----------------------------------------------------------------------------
(* _trend_flags()                                                          *)

Structure(d) == IF d = "LONG" THEN "BULLISH" ELSE "BEARISH"

\* long_ema, short_ema
Aligned(d, close, fast, slow, earlier, long) ==
    IF d = "LONG"
    THEN /\ close > fast /\ fast > slow /\ slow > earlier
         /\ RequireLongAlignment => close > long
    ELSE /\ close < fast /\ fast < slow /\ slow < earlier
         /\ RequireLongAlignment => close < long

Trend(close, fast, slow, earlier, long, bias, recent) ==
    LET structure(d) == Structure(d) \in {bias, recent}
        flags(d) == [Blank EXCEPT !.structure = structure(d),
                                  !.trend = structure(d)
                                     /\ Aligned(d, close, fast, slow, earlier, long)]
    IN  /\ stage = "history"
        /\ evidence' = [NoEvidence EXCEPT !.LONG = flags("LONG"), !.SHORT = flags("SHORT")]
        /\ stage' = "trend"
        /\ UNCHANGED <<position, signal>>

-----------------------------------------------------------------------------
(* _pullback_flags(); near: the candle touched the zone around the fast    *)
(* average.                                                                *)

Pullback(close, slow, near, recent) ==
    LET flag(d) == /\ near
                   /\ IF d = "LONG" THEN close >= slow ELSE close <= slow
                   /\ recent # Structure(Opposite(d))
    IN  /\ stage = "trend"
        /\ evidence' = [evidence EXCEPT !.LONG.pullback = flag("LONG"),
                                        !.SHORT.pullback = flag("SHORT")]
        /\ stage' = "pullback"
        /\ UNCHANGED <<position, signal>>

-----------------------------------------------------------------------------
(* _confirmation_flags()                                                   *)

Rises(c) == c.close > c.open
Falls(c) == c.close < c.open

\* _bullish_engulfing(), _bearish_engulfing()
Engulfing(d, p, c) ==
    IF d = "LONG" THEN Falls(p) /\ Rises(c) /\ c.open <= p.close /\ c.close >= p.open
                  ELSE Rises(p) /\ Falls(c) /\ c.open >= p.close /\ c.close <= p.open

\* _rejection() with a wick of 1.5 bodies; a body is at least 1/20 of the range
Rejection(d, c) ==
    LET body  == Max({20 * (c.close - c.open), 20 * (c.open - c.close), c.high - c.low})
        lower == Min({c.open, c.close}) - c.low
        upper == c.high - Max({c.open, c.close})
    IN  IF d = "LONG" THEN Rises(c) /\ lower * 40 >= body * 3
                      ELSE Falls(c) /\ upper * 40 >= body * 3

\* steps: the directions whose last swing continues (HIGHER_LOW, LOWER_HIGH)
Confirmation(p, c, high, low, steps) ==
    LET flag(d) == \/ Engulfing(d, p, c) \/ Rejection(d, c)
                   \/ (IF d = "LONG" THEN c.close > high ELSE c.close < low)
                   \/ d \in steps
    IN  /\ stage = "pullback"
        /\ evidence' = [evidence EXCEPT !.LONG.confirmed = flag("LONG"),
                                        !.SHORT.confirmed = flag("SHORT")]
        /\ stage' = "confirmation"
        /\ UNCHANGED <<position, signal>>

-----------------------------------------------------------------------------
(* _quality()                                                              *)

\* round() of numerator / denominator, a half to the even side
Rounded(numerator, denominator) ==
    LET whole == numerator \div denominator
        rest  == 2 * (numerator % denominator)
    IN  IF rest < denominator THEN whole
        ELSE IF rest > denominator THEN whole + 1 ELSE whole + (whole % 2)

\* spread_quality() times its weight 5
SpreadQuality(current, average) ==
    LET scaled == (15 * average) - (5 * current)    \* over 2 * average
    IN  IF current > MaximumSpread \/ (average > 0 /\ scaled <= 0)
        THEN [points |-> 0, allowed |-> FALSE]
        ELSE [points |-> IF average = 0 THEN (IF current = 0 THEN 5 ELSE Rounded(5, 2))
                         ELSE Min({5, Rounded(scaled, 2 * average)}),
              allowed |-> TRUE]

\* momentum: the directions whose RSI window holds; volatile: ATR within bounds
Quality(current, average, volatile, momentum) ==
    /\ stage = "confirmation"
    /\ evidence' = [evidence EXCEPT !.spread = SpreadQuality(current, average),
                                    !.LONG.momentum = volatile /\ "LONG" \in momentum,
                                    !.SHORT.momentum = volatile /\ "SHORT" \in momentum]
    /\ stage' = "quality"
    /\ UNCHANGED <<position, signal>>

-----------------------------------------------------------------------------
(* score_confidence() and evaluate()                                       *)

Weight(flag, points) == IF flag THEN points ELSE 0

Score(e, d) ==
    Weight(e[d].trend, 30) + Weight(e[d].pullback, 25) + Weight(e[d].confirmed, 25)
    + Weight(e[d].structure, 10) + e.spread.points + Weight(e[d].momentum, 5)

\* Mutant: the candidates are sorted the other way round.
SelectedLower(e) == IF Score(e, "LONG") <= Score(e, "SHORT") THEN "LONG" ELSE "SHORT"

\* The higher score, LONG if they are equal
Selected(e) == IF Score(e, "LONG") >= Score(e, "SHORT") THEN "LONG" ELSE "SHORT"

Complete(e, d) == e[d].trend /\ e[d].pullback /\ e[d].confirmed

Decision(e, open) ==
    IF open # Flat
    THEN IF e[Opposite(open)].trend THEN "EXIT" ELSE "WAIT"
    ELSE IF /\ Complete(e, Selected(e))
            /\ e.spread.allowed
            /\ Score(e, Selected(e)) >= ConfidenceThreshold
         THEN Selected(e) ELSE "WAIT"

Stop(d, close, half, range, extreme) ==
    IF d = "LONG" THEN Min({extreme - range \div 10, close - half - (range * 125) \div 100})
                  ELSE Max({extreme + range \div 10, close + half + (range * 125) \div 100})

\* _trade_signal(): entry zone, stop and targets at 1.8 and 2 times the risk
TradeLevels(d, close, range, depth) ==
    LET half    == (range * 15) \div 100
        extreme == IF d = "LONG" THEN close - depth ELSE close + depth
        stop    == Stop(d, close, half, range, extreme)
        target(r) == close + ((close - stop) * r) \div 5
    IN  [low |-> close - half, high |-> close + half, stop |-> stop,
         targets |-> {target(9), target(10)}]

Evaluate(close, range, depth) ==
    LET action == Decision(evidence, position)
    IN  /\ stage = "quality"
        /\ signal' = [action |-> action,
                      levels |-> IF action \in Directions
                                 THEN {TradeLevels(action, close, range, depth)} ELSE {}]
        /\ stage' = "decided"
        /\ UNCHANGED <<evidence, position>>

-----------------------------------------------------------------------------
(* What follows a decision.                                                *)

Enters ==
    /\ stage = "decided" /\ signal.action \in Directions /\ position = Flat
    /\ position' = signal.action
    /\ UNCHANGED <<stage, evidence, signal>>

\* The strategy's exit, the stop or the target
Leaves ==
    /\ stage = "decided" /\ position # Flat
    /\ position' = Flat
    /\ UNCHANGED <<stage, evidence, signal>>

\* The next scan sees the same closed candles, or new ones.
Rescan == stage = "decided" /\ stage' = "quality" /\ UNCHANGED <<evidence, position, signal>>

NewBar ==
    /\ stage \in {"warmup", "decided"}
    /\ stage' = "history" /\ evidence' = NoEvidence /\ signal' = NoSignal
    /\ UNCHANGED position

Biases == {"BULLISH", "BEARISH", "RANGE"}

StrategyNext ==
    \/ \E close, fast, slow, earlier, long \in Levels, bias, recent \in Biases :
         Trend(close, fast, slow, earlier, long, bias, recent)
    \/ \E close, slow \in Levels, near \in BOOLEAN, recent \in Biases :
         Pullback(close, slow, near, recent)
    \/ \E p, c \in M5Candles, high, low \in Levels, steps \in SUBSET Directions :
         low <= high /\ Confirmation(p, c, high, low, steps)
    \/ \E current, average \in Spreads, volatile \in BOOLEAN,
          momentum \in SUBSET Directions : Quality(current, average, volatile, momentum)
    \/ \E close \in Closes, range \in Ranges, depth \in Depths : Evaluate(close, range, depth)
    \/ Warmup \/ Enters \/ Leaves \/ Rescan \/ NewBar

StrategySpec == StrategyInit /\ [][StrategyNext]_strategyVars

-----------------------------------------------------------------------------
(* Properties.                                                             *)

\* A setup that meets every requirement of one direction is taken in that
\* direction: the score the other direction collects never hides it.
SetupIsTaken ==
    [][(stage = "quality" /\ stage' = "decided" /\ position = Flat) =>
         \A d \in Directions :
            (Complete(evidence, d) /\ evidence.spread.allowed
             /\ Score(evidence, d) >= ConfidenceThreshold) => signal'.action = d]_strategyVars

Mirrored(e) == [LONG |-> e["SHORT"], SHORT |-> e["LONG"], spread |-> e.spread]

\* The strategy treats the two directions alike: the mirrored evidence and
\* position get the mirrored decision, the rule for equal scores included.
Symmetric ==
    stage = "quality" =>
        LET here  == Decision(evidence, position)
            there == Decision(Mirrored(evidence),
                              IF position = Flat THEN Flat ELSE Opposite(position))
        IN  there = IF here \in Directions THEN Opposite(here) ELSE here

\* A position that was entered on a signal is not given up by a later scan of
\* the same candles.
EntryStands ==
    [][(stage = "quality" /\ signal.action \in Directions /\ position = signal.action) =>
         signal'.action # "EXIT"]_strategyVars

\* Wherever in its entry zone the signal is filled, the stop is behind the
\* price and the targets are ahead of it.
LevelsHoldInZone ==
    \A l \in signal.levels : \A price \in {l.low, l.high} :
        IF signal.action = "LONG"
        THEN l.stop < price /\ \A t \in l.targets : t > price
        ELSE l.stop > price /\ \A t \in l.targets : t < price

\* evaluate() takes a setup that meets every requirement of one direction; a later
\* scan of the same candles does not give the position up; the mirrored evidence
\* gets the mirrored decision; and wherever in its zone the signal is filled, the
\* stop is behind the price and the targets are ahead of it.
DecisionsHold == SetupIsTaken /\ EntryStands /\ [](Symmetric /\ LevelsHoldInZone)

\* Wherever in its entry zone the signal is filled, every target is worth 1.8
\* times the risk, the figure the signal carries and the gates ask for.
ZoneKeepsRiskReward ==
    \A l \in signal.levels : \A price \in {l.low, l.high}, t \in l.targets :
        IF signal.action = "LONG" THEN (t - price) * 5 >= (price - l.stop) * 9
                                  ELSE (price - t) * 5 >= (l.stop - price) * 9

=============================================================================
