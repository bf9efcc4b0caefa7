---------------------------- MODULE MarketProofs ----------------------------
(***************************************************************************)
(* Theorems about the strategy and the research: the decisions of          *)
(* evaluate(), the replay of the backtest and the division of the data for *)
(* walk-forward tests, for any candles, signals, spreads and windows.      *)
(***************************************************************************)
EXTENDS GoldStrategy, Backtest, WalkForward, TLAPS

-----------------------------------------------------------------------------
(***************************************************************************)
(* GoldStrategy. The two directions never have a trend at once, and a      *)
(* complete setup outscores the other direction whatever the spread and    *)
(* the momentum give.                                                      *)
(***************************************************************************)

FlagRows ==
    [trend : BOOLEAN, structure : BOOLEAN, pullback : BOOLEAN, confirmed : BOOLEAN,
     momentum : BOOLEAN]
EvidenceRows ==
    [LONG : FlagRows, SHORT : FlagRows, spread : [points : Int, allowed : BOOLEAN]]

\* No two trends at once, and no trend without its structure.
EvidenceOK(e) ==
    /\ e \in EvidenceRows
    /\ e.LONG.trend => e.LONG.structure /\ ~e.SHORT.trend
    /\ e.SHORT.trend => e.SHORT.structure

\* The inductive invariant: a signal of a direction rests on the evidence still kept,
\* which has the trend of that direction.
StrategyInv ==
    /\ EvidenceOK(evidence)
    /\ position \in Directions \cup {Flat}
    /\ signal.action \in Directions =>
          stage \in {"quality", "decided"} /\ evidence[signal.action].trend
    /\ LevelsHoldInZone

-----------------------------------------------------------------------------
(* The decision.                                                           *)

LEMMA Scores ==
    ASSUME NEW e, EvidenceOK(e)
    PROVE  /\ Complete(e, "LONG")  => Score(e, "LONG") > Score(e, "SHORT")
           /\ Complete(e, "SHORT") => Score(e, "SHORT") > Score(e, "LONG")
           /\ Score(e, "LONG") \in Int /\ Score(e, "SHORT") \in Int
<1>1. PICK p \in Int : p = e.spread.points
  BY DEF EvidenceOK, EvidenceRows
<1>2. PICK l \in FlagRows : l = e["LONG"]
  BY DEF EvidenceOK, EvidenceRows
<1>3. PICK s \in FlagRows : s = e["SHORT"]
  BY DEF EvidenceOK, EvidenceRows
<1>4. /\ l.trend => l.structure /\ ~s.trend
      /\ s.trend => s.structure
  BY <1>2, <1>3 DEF EvidenceOK
<1> DEFINE value(f) == Weight(f.trend, 30) + Weight(f.pullback, 25) + Weight(f.confirmed, 25)
                       + Weight(f.structure, 10) + p + Weight(f.momentum, 5)
<1>5. Score(e, "LONG") = value(l) /\ Score(e, "SHORT") = value(s)
  BY <1>1, <1>2, <1>3 DEF Score
<1>6. ASSUME NEW f \in FlagRows
      PROVE  /\ value(f) \in Int
             /\ ~f.trend => value(f) <= 65 + p
             /\ f.trend /\ f.pullback /\ f.confirmed /\ f.structure => value(f) >= 90 + p
  BY DEF Weight, FlagRows
<1> HIDE DEF value
<1>7. /\ Complete(e, "LONG") => l.trend /\ l.pullback /\ l.confirmed
      /\ Complete(e, "SHORT") => s.trend /\ s.pullback /\ s.confirmed
  BY <1>2, <1>3 DEF Complete
<1>8. Complete(e, "LONG") => Score(e, "LONG") > Score(e, "SHORT")
  <2>1. Complete(e, "LONG") => value(l) >= 90 + p /\ value(s) <= 65 + p
    BY <1>4, <1>6, <1>7
  <2> QED
    BY <1>5, <1>6, <2>1
<1>9. Complete(e, "SHORT") => Score(e, "SHORT") > Score(e, "LONG")
  <2>1. Complete(e, "SHORT") => value(s) >= 90 + p /\ value(l) <= 65 + p
    BY <1>4, <1>6, <1>7
  <2> QED
    BY <1>5, <1>6, <2>1
<1> QED
  BY <1>5, <1>6, <1>8, <1>9

LEMMA DecisionIs ==
    ASSUME NEW e, EvidenceOK(e), NEW d \in Directions, Complete(e, d)
    PROVE  Selected(e) = d
<1>1. d = "LONG" \/ d = "SHORT"
  BY DEF Directions
<1>2. /\ Complete(e, "LONG")  => Score(e, "LONG") > Score(e, "SHORT")
      /\ Complete(e, "SHORT") => Score(e, "SHORT") > Score(e, "LONG")
      /\ Score(e, "LONG") \in Int /\ Score(e, "SHORT") \in Int
  BY Scores
<1> QED
  BY <1>1, <1>2 DEF Selected

LEMMA Mirror ==
    ASSUME NEW e, EvidenceOK(e), NEW m, m = Mirrored(e)
    PROVE  /\ EvidenceOK(m) /\ m.spread = e.spread
           /\ m["LONG"] = e["SHORT"] /\ m["SHORT"] = e["LONG"]
BY DEF Mirrored, EvidenceOK, EvidenceRows

LEMMA MirroredScores ==
    ASSUME NEW e, EvidenceOK(e), NEW m, m = Mirrored(e), NEW d \in Directions
    PROVE  /\ Score(m, d) = Score(e, Opposite(d)) /\ Complete(m, d) = Complete(e, Opposite(d))
           /\ m[d].trend = e[Opposite(d)].trend
<1>1. /\ m.spread = e.spread /\ m["LONG"] = e["SHORT"] /\ m["SHORT"] = e["LONG"]
  BY Mirror
<1>2. m[d] = e[Opposite(d)]
  BY <1>1 DEF Opposite, Directions
<1> QED
  BY <1>1, <1>2 DEF Score, Complete

LEMMA MirroredDecision ==
    ASSUME NEW e, EvidenceOK(e), NEW open \in Directions \cup {Flat}, NEW here, NEW there,
           here = Decision(e, open),
           there = Decision(Mirrored(e), IF open = Flat THEN Flat ELSE Opposite(open))
    PROVE  there = IF here \in Directions THEN Opposite(here) ELSE here
<1>0. PICK m : m = Mirrored(e)
  OBVIOUS
<1>1. \A d \in Directions : /\ Score(m, d) = Score(e, Opposite(d))
                            /\ Complete(m, d) = Complete(e, Opposite(d))
                            /\ m[d].trend = e[Opposite(d)].trend
  BY <1>0, MirroredScores
<1>2. EvidenceOK(m) /\ m.spread = e.spread
  BY <1>0, Mirror
<1>d. \A d \in Directions : Opposite(d) \in Directions /\ Opposite(Opposite(d)) = d
  BY DEF Directions, Opposite
<1>3. CASE open # Flat
  <2>1. open \in Directions /\ Opposite(open) # Flat
    BY <1>3 DEF Directions, Opposite, Flat
  <2>2. here = IF e[Opposite(open)].trend THEN "EXIT" ELSE "WAIT"
    BY <1>3 DEF Decision
  <2>3. there = IF m[Opposite(Opposite(open))].trend THEN "EXIT" ELSE "WAIT"
    BY <1>0, <1>3, <2>1 DEF Decision
  <2>4. m[Opposite(Opposite(open))].trend = e[Opposite(open)].trend
    BY <1>1, <1>d, <2>1
  <2>5. here = there /\ here \notin Directions
    BY <2>2, <2>3, <2>4 DEF Directions
  <2> QED
    BY <2>5
<1>4. CASE open = Flat
  <2> DEFINE ok(x) == /\ Complete(x, Selected(x)) /\ x.spread.allowed
                      /\ Score(x, Selected(x)) >= ConfidenceThreshold
  <2>1. here = IF ok(e) THEN Selected(e) ELSE "WAIT"
    BY <1>4 DEF Decision
  <2>2. there = IF ok(m) THEN Selected(m) ELSE "WAIT"
    BY <1>0, <1>4 DEF Decision
  <2>3. Selected(e) \in Directions /\ Selected(m) \in Directions
    BY DEF Selected, Directions
  <2>4. ok(e) => ok(m) /\ Selected(m) = Opposite(Selected(e))
    <3> SUFFICES ASSUME ok(e) PROVE ok(m) /\ Selected(m) = Opposite(Selected(e))
      OBVIOUS
    <3>1. PICK d \in Directions : d = Opposite(Selected(e))
      BY <1>d, <2>3
    <3>2. Opposite(d) = Selected(e)
      BY <1>d, <2>3, <3>1
    <3>3. Complete(m, d) /\ Score(m, d) = Score(e, Selected(e))
      BY <1>1, <3>2
    <3>4. Selected(m) = d
      BY <1>2, <3>3, DecisionIs
    <3> QED
      BY <1>2, <3>1, <3>3, <3>4
  <2>5. ok(m) => ok(e)
    <3> SUFFICES ASSUME ok(m) PROVE ok(e)
      OBVIOUS
    <3>1. PICK d \in Directions : d = Opposite(Selected(m))
      BY <1>d, <2>3
    <3>2. Complete(e, d) /\ Score(e, d) = Score(m, Selected(m))
      BY <1>1, <2>3, <3>1
    <3>3. Selected(e) = d
      BY <3>2, DecisionIs
    <3> QED
      BY <1>2, <3>2, <3>3
  <2>6. "WAIT" \notin Directions
    BY DEF Directions
  <2> HIDE DEF ok
  <2> QED
    BY <2>1, <2>2, <2>3, <2>4, <2>5, <2>6
<1> QED
  BY <1>3, <1>4

-----------------------------------------------------------------------------
(* The levels.                                                             *)

LEMMA MinOfTwo ==
    ASSUME NEW a \in Int, NEW b \in Int PROVE Min({a, b}) = IF a <= b THEN a ELSE b
BY DEF Min

LEMMA MaxOfTwo ==
    ASSUME NEW a \in Int, NEW b \in Int PROVE Max({a, b}) = IF a >= b THEN a ELSE b
BY DEF Max

\* Behind(d, l): the zone of the levels l lies between their stop and their targets.
Behind(d, l) ==
    \A price \in {l.low, l.high} :
        IF d = "LONG" THEN l.stop < price /\ \A t \in l.targets : t > price
                      ELSE l.stop > price /\ \A t \in l.targets : t < price

LEMMA LevelsBehind ==
    ASSUME NEW d \in Directions, NEW close \in Closes, NEW range \in Ranges, NEW depth \in Depths,
           NEW l, l = TradeLevels(d, close, range, depth)
    PROVE  Behind(d, l)
<1>1. /\ close \in Int /\ range \in Nat /\ range > 0 /\ range % 100 = 0 /\ depth \in Nat
  BY StrategyAssumption
<1>2. PICK k \in Nat : range = 100 * k /\ k > 0
  <2>1. range = 100 * (range \div 100) + (range % 100) /\ range \div 100 \in Nat
    BY <1>1
  <2> QED
    BY <1>1, <2>1
<1>3. (range * 15) \div 100 = 15 * k /\ range \div 10 = 10 * k /\ (range * 125) \div 100 = 125 * k
  BY <1>2
<1>e. PICK extreme : extreme = IF d = "LONG" THEN close - depth ELSE close + depth
  OBVIOUS
<1>4. extreme \in Int /\ extreme = IF d = "LONG" THEN close - depth ELSE close + depth
  BY <1>1, <1>e
<1>h. PICK half : half = (range * 15) \div 100
  OBVIOUS
<1>s. PICK stop : stop = Stop(d, close, half, range, extreme)
  OBVIOUS
<1> DEFINE target(r) == close + ((close - stop) * r) \div 5
<1>l. l = [low |-> close - half, high |-> close + half, stop |-> stop,
           targets |-> {target(9), target(10)}]
  BY <1>e, <1>h, <1>s, Zenon DEF TradeLevels
<1> HIDE DEF target
<1>5. half = 15 * k /\ stop = Stop(d, close, 15 * k, range, extreme)
  BY <1>3, <1>h, <1>s
<1>6. /\ l.low = close - 15 * k /\ l.high = close + 15 * k /\ l.stop = stop
      /\ l.targets = {target(9), target(10)}
  BY <1>5, <1>l
<1>7. CASE d = "LONG"
  <2>1. stop = Min({extreme - 10 * k, close - 15 * k - 125 * k})
    BY <1>3, <1>5, <1>7 DEF Stop
  <2>2. stop \in Int /\ stop <= close - 140 * k
    <3>1. extreme - 10 * k \in Int /\ close - 15 * k - 125 * k \in Int
      BY <1>1, <1>2, <1>4
    <3>2. stop = IF extreme - 10 * k <= close - 15 * k - 125 * k
                 THEN extreme - 10 * k ELSE close - 15 * k - 125 * k
      BY <2>1, <3>1, MinOfTwo
    <3> QED
      BY <1>1, <1>2, <1>4, <3>1, <3>2
  <2>3. PICK gap \in Nat : gap = close - stop /\ gap >= 140 * k
    BY <1>1, <1>2, <2>2
  <2>4. (gap * 9) \div 5 >= gap /\ (gap * 10) \div 5 >= gap
        /\ (gap * 9) \div 5 \in Int /\ (gap * 10) \div 5 \in Int
    OBVIOUS
  <2>5. target(9) = close + (gap * 9) \div 5 /\ target(10) = close + (gap * 10) \div 5
    BY <2>3 DEF target
  <2>6. \A t \in {target(9), target(10)} : t > close + 15 * k /\ t > close - 15 * k
    BY <1>1, <1>2, <2>3, <2>4, <2>5
  <2>7. stop < close - 15 * k /\ stop < close + 15 * k
    BY <1>1, <1>2, <2>2
  <2> QED
    BY <1>6, <1>7, <2>6, <2>7 DEF Behind
<1>8. CASE d = "SHORT"
  <2>1. stop = Max({extreme + 10 * k, close + 15 * k + 125 * k})
    BY <1>3, <1>5, <1>8 DEF Stop
  <2>2. stop \in Int /\ stop >= close + 140 * k
    <3>1. extreme + 10 * k \in Int /\ close + 15 * k + 125 * k \in Int
      BY <1>1, <1>2, <1>4
    <3>2. stop = IF extreme + 10 * k >= close + 15 * k + 125 * k
                 THEN extreme + 10 * k ELSE close + 15 * k + 125 * k
      BY <2>1, <3>1, MaxOfTwo
    <3> QED
      BY <1>1, <1>2, <1>4, <1>8, <3>1, <3>2
  <2>3. PICK gap \in Nat : close - stop = -gap /\ gap >= 140 * k
    <3>1. stop - close \in Nat /\ close - stop = -(stop - close) /\ stop - close >= 140 * k
      BY <1>1, <1>2, <2>2
    <3> QED
      BY <3>1
  <2>4. ((-gap) * 9) \div 5 <= -gap /\ ((-gap) * 10) \div 5 <= -gap
        /\ ((-gap) * 9) \div 5 \in Int /\ ((-gap) * 10) \div 5 \in Int
    OBVIOUS
  <2>5. target(9) = close + ((-gap) * 9) \div 5 /\ target(10) = close + ((-gap) * 10) \div 5
    BY <2>3 DEF target
  <2>6. \A t \in {target(9), target(10)} : t < close + 15 * k /\ t < close - 15 * k
    BY <1>1, <1>2, <2>3, <2>4, <2>5
  <2>7. stop > close - 15 * k /\ stop > close + 15 * k
    BY <1>1, <1>2, <2>2
  <2> QED
    BY <1>6, <1>8, <2>6, <2>7 DEF Behind
<1> QED
  BY <1>7, <1>8 DEF Directions

-----------------------------------------------------------------------------
(* The steps.                                                              *)

LEMMA InitStrategy == StrategyInit => StrategyInv
<1> SUFFICES ASSUME StrategyInit PROVE StrategyInv
  OBVIOUS
<1>1. EvidenceOK(evidence)
  BY DEF StrategyInit, NoEvidence, Blank, EvidenceOK, EvidenceRows, FlagRows
<1> QED
  BY <1>1 DEF StrategyInit, StrategyInv, NoSignal, Directions, LevelsHoldInZone

LEMMA BlankEvidence == EvidenceOK(NoEvidence)
BY DEF NoEvidence, Blank, EvidenceOK, EvidenceRows, FlagRows

LEMMA TrendKeeps ==
    ASSUME StrategyInv, NEW close \in Levels, NEW fast \in Levels, NEW slow \in Levels,
           NEW earlier \in Levels, NEW long \in Levels, NEW bias \in Biases, NEW recent \in Biases,
           Trend(close, fast, slow, earlier, long, bias, recent)
    PROVE  StrategyInv'
<1> DEFINE st(d) == Structure(d) \in {bias, recent}
           tr(d) == st(d) /\ Aligned(d, close, fast, slow, earlier, long)
           flags(d) == [Blank EXCEPT !.structure = st(d), !.trend = tr(d)]
<1>1. /\ evidence' = [NoEvidence EXCEPT !.LONG = flags("LONG"), !.SHORT = flags("SHORT")]
      /\ stage = "history" /\ stage' = "trend" /\ position' = position /\ signal' = signal
  BY DEF Trend
<1>2. ~(Aligned("LONG", close, fast, slow, earlier, long)
          /\ Aligned("SHORT", close, fast, slow, earlier, long))
  <2>1. fast \in Int /\ slow \in Int
    BY StrategyAssumption
  <2> QED
    BY <2>1 DEF Aligned
<1>3. \A d \in Directions : st(d) \in BOOLEAN /\ tr(d) \in BOOLEAN /\ (tr(d) => st(d))
  BY DEF Aligned
<1>4. ~(tr("LONG") /\ tr("SHORT"))
  BY <1>2
<1> HIDE DEF st, tr
<1>5. \A d \in Directions :
        flags(d) \in FlagRows /\ flags(d).trend = tr(d) /\ flags(d).structure = st(d)
  BY <1>3 DEF FlagRows, Blank
<1> HIDE DEF flags
<1>6. evidence' = [LONG |-> flags("LONG"), SHORT |-> flags("SHORT"),
                   spread |-> [points |-> 0, allowed |-> FALSE]]
  BY <1>1 DEF NoEvidence
<1>7. EvidenceOK(evidence')
  BY <1>3, <1>4, <1>5, <1>6 DEF EvidenceOK, EvidenceRows, Directions
<1>8. signal'.action \notin Directions
  BY <1>1 DEF StrategyInv
<1>9. LevelsHoldInZone'
  BY <1>1 DEF StrategyInv, LevelsHoldInZone
<1> QED
  BY <1>1, <1>7, <1>8, <1>9 DEF StrategyInv, EvidenceOK

\* A step that adds flags, before the decision.
LEMMA AddingKeeps ==
    ASSUME StrategyInv, stage \notin {"quality", "decided"}, NEW l, NEW s, NEW q,
           l \in FlagRows /\ s \in FlagRows /\ q \in [points : Int, allowed : BOOLEAN],
           l.trend = evidence.LONG.trend /\ l.structure = evidence.LONG.structure,
           s.trend = evidence.SHORT.trend /\ s.structure = evidence.SHORT.structure,
           evidence' = [LONG |-> l, SHORT |-> s, spread |-> q],
           position' = position /\ signal' = signal
    PROVE  StrategyInv'
<1>1. EvidenceOK(evidence')
  <2>1. EvidenceOK(evidence)
    BY DEF StrategyInv
  <2> QED
    BY <2>1 DEF EvidenceOK, EvidenceRows
<1>2. signal'.action \notin Directions
  BY DEF StrategyInv
<1>3. LevelsHoldInZone'
  BY DEF StrategyInv, LevelsHoldInZone
<1> QED
  BY <1>1, <1>2, <1>3 DEF StrategyInv, EvidenceOK

LEMMA FlagType ==
    ASSUME NEW f, f \in FlagRows, NEW x, x \in BOOLEAN
    PROVE  /\ [f EXCEPT !.pullback = x] \in FlagRows /\ [f EXCEPT !.confirmed = x] \in FlagRows
           /\ [f EXCEPT !.momentum = x] \in FlagRows
           /\ [f EXCEPT !.pullback = x].trend = f.trend
           /\ [f EXCEPT !.pullback = x].structure = f.structure
           /\ [f EXCEPT !.confirmed = x].trend = f.trend
           /\ [f EXCEPT !.confirmed = x].structure = f.structure
           /\ [f EXCEPT !.momentum = x].trend = f.trend
           /\ [f EXCEPT !.momentum = x].structure = f.structure
BY DEF FlagRows

LEMMA EvidenceIs ==
    ASSUME StrategyInv
    PROVE  /\ evidence = [LONG |-> evidence.LONG, SHORT |-> evidence.SHORT,
                          spread |-> evidence.spread]
           /\ evidence.LONG \in FlagRows /\ evidence.SHORT \in FlagRows
           /\ evidence.spread \in [points : Int, allowed : BOOLEAN]
BY DEF StrategyInv, EvidenceOK, EvidenceRows

LEMMA PullbackKeeps ==
    ASSUME StrategyInv, NEW close, NEW slow, NEW near \in BOOLEAN, NEW recent,
           Pullback(close, slow, near, recent)
    PROVE  StrategyInv'
<1> DEFINE flag(d) == /\ near
                      /\ IF d = "LONG" THEN close >= slow ELSE close <= slow
                      /\ recent # Structure(Opposite(d))
<1>1. /\ evidence' = [evidence EXCEPT !.LONG.pullback = flag("LONG"),
                                      !.SHORT.pullback = flag("SHORT")]
      /\ stage = "trend" /\ position' = position /\ signal' = signal
  BY Zenon DEF Pullback
<1>2. flag("LONG") \in BOOLEAN /\ flag("SHORT") \in BOOLEAN
  BY Zenon
<1>3. PICK x, y : x = flag("LONG") /\ y = flag("SHORT")
  BY Zenon
<1> HIDE DEF flag
<1>4. PICK l, s : /\ l = [evidence.LONG EXCEPT !.pullback = x]
                  /\ s = [evidence.SHORT EXCEPT !.pullback = y]
  OBVIOUS
<1>5. evidence' = [LONG |-> l, SHORT |-> s, spread |-> evidence.spread]
  BY <1>1, <1>3, <1>4, EvidenceIs
<1>6. /\ l \in FlagRows /\ l.trend = evidence.LONG.trend /\ l.structure = evidence.LONG.structure
      /\ s \in FlagRows /\ s.trend = evidence.SHORT.trend /\ s.structure = evidence.SHORT.structure
  BY <1>2, <1>3, <1>4, EvidenceIs, FlagType
<1> QED
  BY <1>1, <1>5, <1>6, EvidenceIs, AddingKeeps

LEMMA ConfirmationKeeps ==
    ASSUME StrategyInv, NEW p, NEW c, NEW high, NEW low, NEW steps,
           Confirmation(p, c, high, low, steps)
    PROVE  StrategyInv'
<1> DEFINE flag(d) == \/ Engulfing(d, p, c) \/ Rejection(d, c)
                      \/ (IF d = "LONG" THEN c.close > high ELSE c.close < low)
                      \/ d \in steps
<1>1. /\ evidence' = [evidence EXCEPT !.LONG.confirmed = flag("LONG"),
                                      !.SHORT.confirmed = flag("SHORT")]
      /\ stage = "pullback" /\ position' = position /\ signal' = signal
  BY Zenon DEF Confirmation
<1>2. flag("LONG") \in BOOLEAN /\ flag("SHORT") \in BOOLEAN
  BY Zenon
<1>3. PICK x, y : x = flag("LONG") /\ y = flag("SHORT")
  BY Zenon
<1> HIDE DEF flag
<1>4. PICK l, s : /\ l = [evidence.LONG EXCEPT !.confirmed = x]
                  /\ s = [evidence.SHORT EXCEPT !.confirmed = y]
  OBVIOUS
<1>5. evidence' = [LONG |-> l, SHORT |-> s, spread |-> evidence.spread]
  BY <1>1, <1>3, <1>4, EvidenceIs
<1>6. /\ l \in FlagRows /\ l.trend = evidence.LONG.trend /\ l.structure = evidence.LONG.structure
      /\ s \in FlagRows /\ s.trend = evidence.SHORT.trend /\ s.structure = evidence.SHORT.structure
  BY <1>2, <1>3, <1>4, EvidenceIs, FlagType
<1> QED
  BY <1>1, <1>5, <1>6, EvidenceIs, AddingKeeps

LEMMA SpreadType ==
    ASSUME NEW current \in Nat, NEW average \in Nat
    PROVE  SpreadQuality(current, average) \in [points : Int, allowed : BOOLEAN]
<1>1. ASSUME NEW a \in Int, NEW b \in Nat \ {0} PROVE Rounded(a, b) \in Int
  BY DEF Rounded
<1>2. Rounded(5, 2) \in Int
  BY <1>1
<1> DEFINE scaled == (15 * average) - (5 * current)
<1>3. average # 0 => Min({5, Rounded(scaled, 2 * average)}) \in Int
  <2>1. average # 0 => Rounded(scaled, 2 * average) \in Int
    <3>1. scaled \in Int /\ (average # 0 => 2 * average \in Nat \ {0})
      OBVIOUS
    <3> HIDE DEF scaled
    <3> QED
      BY <1>1, <3>1
  <2>2. \A x \in Int : Min({5, x}) \in Int
    BY MinOfTwo
  <2> QED
    BY <2>1, <2>2
<1>4. SpreadQuality(current, average) =
        IF current > MaximumSpread \/ (average > 0 /\ scaled <= 0)
        THEN [points |-> 0, allowed |-> FALSE]
        ELSE [points |-> IF average = 0 THEN (IF current = 0 THEN 5 ELSE Rounded(5, 2))
                         ELSE Min({5, Rounded(scaled, 2 * average)}), allowed |-> TRUE]
  BY DEF SpreadQuality
<1> HIDE DEF scaled
<1> QED
  BY <1>2, <1>3, <1>4

LEMMA QualityKeeps ==
    ASSUME StrategyInv, NEW current \in Spreads, NEW average \in Spreads,
           NEW volatile \in BOOLEAN, NEW momentum, Quality(current, average, volatile, momentum)
    PROVE  StrategyInv'
<1> DEFINE flag(d) == volatile /\ d \in momentum
<1>1. PICK q : q = SpreadQuality(current, average)
  OBVIOUS
<1>2. /\ evidence' = [evidence EXCEPT !.spread = q, !.LONG.momentum = flag("LONG"),
                                      !.SHORT.momentum = flag("SHORT")]
      /\ stage = "confirmation" /\ position' = position /\ signal' = signal
  BY <1>1, Zenon DEF Quality
<1>3. flag("LONG") \in BOOLEAN /\ flag("SHORT") \in BOOLEAN
  BY Zenon
<1>4. PICK x, y : x = flag("LONG") /\ y = flag("SHORT")
  BY Zenon
<1> HIDE DEF flag
<1>5. q \in [points : Int, allowed : BOOLEAN]
  BY <1>1, SpreadType, StrategyAssumption
<1>6. PICK l, s : /\ l = [evidence.LONG EXCEPT !.momentum = x]
                  /\ s = [evidence.SHORT EXCEPT !.momentum = y]
  OBVIOUS
<1>7. evidence' = [LONG |-> l, SHORT |-> s, spread |-> q]
  BY <1>2, <1>4, <1>6, EvidenceIs
<1>8. /\ l \in FlagRows /\ l.trend = evidence.LONG.trend /\ l.structure = evidence.LONG.structure
      /\ s \in FlagRows /\ s.trend = evidence.SHORT.trend /\ s.structure = evidence.SHORT.structure
  BY <1>3, <1>4, <1>6, EvidenceIs, FlagType
<1> QED
  BY <1>2, <1>5, <1>7, <1>8, AddingKeeps

\* evaluate(): an entry rests on the trend of its direction, and an exit on the trend
\* of the other one.
LEMMA DecisionTrend ==
    ASSUME NEW e, NEW open, NEW action, action = Decision(e, open)
    PROVE  action \in Directions => e[action].trend
<1>1. action \in Directions => action = Selected(e) /\ Complete(e, Selected(e))
  BY DEF Decision, Directions
<1> QED
  BY <1>1 DEF Complete

LEMMA EvaluateKeeps ==
    ASSUME StrategyInv, NEW close \in Closes, NEW range \in Ranges, NEW depth \in Depths,
           Evaluate(close, range, depth)
    PROVE  StrategyInv'
<1>1. PICK action : action = Decision(evidence, position)
  OBVIOUS
<1>2. PICK levels : levels = IF action \in Directions
                             THEN {TradeLevels(action, close, range, depth)} ELSE {}
  OBVIOUS
<1>3. /\ signal' = [action |-> action, levels |-> levels]
      /\ stage' = "decided" /\ evidence' = evidence /\ position' = position
  BY <1>1, <1>2 DEF Evaluate
<1>4. signal'.action = action /\ signal'.levels = levels
  BY <1>3
<1>5. action \in Directions => evidence[action].trend
  BY <1>1, DecisionTrend
<1>6. \A l \in levels : Behind(action, l)
  BY <1>2, LevelsBehind
<1>7. LevelsHoldInZone'
  BY <1>4, <1>6 DEF LevelsHoldInZone, Behind
<1> QED
  BY <1>3, <1>4, <1>5, <1>7 DEF StrategyInv, EvidenceOK

LEMMA NextStrategy == StrategyInv /\ [StrategyNext]_strategyVars => StrategyInv'
<1> SUFFICES ASSUME StrategyInv, [StrategyNext]_strategyVars PROVE StrategyInv'
  OBVIOUS
<1>1. CASE UNCHANGED strategyVars
  BY <1>1 DEF strategyVars, StrategyInv, EvidenceOK, LevelsHoldInZone
<1>2. CASE Warmup
  BY <1>2 DEF Warmup, StrategyInv, EvidenceOK, LevelsHoldInZone, NoSignal, Directions
<1>3. CASE Enters
  BY <1>3 DEF Enters, StrategyInv, EvidenceOK, LevelsHoldInZone
<1>4. CASE Leaves
  BY <1>4 DEF Leaves, StrategyInv, EvidenceOK, LevelsHoldInZone
<1>5. CASE Rescan
  BY <1>5 DEF Rescan, StrategyInv, EvidenceOK, LevelsHoldInZone
<1>6. CASE NewBar
  <2>1. evidence' = NoEvidence /\ signal' = NoSignal /\ position' = position
    BY <1>6 DEF NewBar
  <2>2. EvidenceOK(evidence')
    BY <2>1, BlankEvidence
  <2>3. signal'.action \notin Directions /\ LevelsHoldInZone'
    BY <2>1 DEF NoSignal, Directions, LevelsHoldInZone
  <2> QED
    BY <2>1, <2>2, <2>3 DEF StrategyInv, EvidenceOK
<1> QED
  BY <1>1, <1>2, <1>3, <1>4, <1>5, <1>6, TrendKeeps, PullbackKeeps, ConfirmationKeeps,
     QualityKeeps, EvaluateKeeps DEF StrategyNext

LEMMA TakesSetup ==
    ASSUME StrategyInv, StrategyNext, stage = "quality", stage' = "decided", position = Flat,
           NEW d \in Directions, Complete(evidence, d), evidence.spread.allowed,
           Score(evidence, d) >= ConfidenceThreshold
    PROVE  signal'.action = d
<1>1. PICK close \in Closes, range \in Ranges, depth \in Depths : Evaluate(close, range, depth)
  BY DEF StrategyNext, Trend, Pullback, Confirmation, Quality, Warmup, Enters, Leaves, Rescan,
         NewBar
<1>2. signal'.action = Decision(evidence, position)
  BY <1>1 DEF Evaluate
<1>3. Selected(evidence) = d
  BY DecisionIs DEF StrategyInv
<1> QED
  BY <1>2, <1>3 DEF Decision

LEMMA StandsByEntry ==
    ASSUME StrategyInv, [StrategyNext]_strategyVars, stage = "quality",
           signal.action \in Directions, position = signal.action
    PROVE  signal'.action # "EXIT"
<1>1. CASE signal' = signal
  BY <1>1 DEF Directions
<1>2. ASSUME NEW close \in Closes, NEW range \in Ranges, NEW depth \in Depths,
             Evaluate(close, range, depth)
      PROVE  signal'.action # "EXIT"
  <2>1. signal'.action = Decision(evidence, position)
    BY <1>2 DEF Evaluate
  <2>2. evidence[position].trend /\ position \in Directions
    BY DEF StrategyInv
  <2>3. ~evidence[Opposite(position)].trend
    BY <2>2 DEF StrategyInv, EvidenceOK, Directions, Opposite
  <2>4. position # Flat
    BY <2>2 DEF Directions, Flat
  <2> QED
    BY <2>1, <2>3, <2>4 DEF Decision
<1>3. CASE Warmup \/ NewBar
  BY <1>3 DEF Warmup, NewBar
<1> QED
  BY <1>1, <1>2, <1>3 DEF StrategyNext, strategyVars, Trend, Pullback, Confirmation, Quality,
     Enters, Leaves, Rescan

\* evaluate() takes every complete setup, does not give up a position on a second look
\* at the candles it was entered on, treats the directions alike and puts the stop
\* behind the zone and the targets ahead of it, for any prices, spreads and thresholds.
THEOREM DecisionsHoldHolds == StrategySpec => DecisionsHold
<1>1. StrategyInv => Symmetric /\ LevelsHoldInZone
  <2>1. StrategyInv /\ stage = "quality" => Symmetric
    BY MirroredDecision, Zenon DEF StrategyInv, Symmetric
  <2>2. stage # "quality" => Symmetric
    BY DEF Symmetric
  <2> QED
    BY <2>1, <2>2 DEF StrategyInv
<1>2. StrategyInv /\ [StrategyNext]_strategyVars =>
        [(stage = "quality" /\ stage' = "decided" /\ position = Flat) =>
           \A d \in Directions :
              (Complete(evidence, d) /\ evidence.spread.allowed
               /\ Score(evidence, d) >= ConfidenceThreshold) => signal'.action = d]_strategyVars
  BY TakesSetup
<1>3. StrategyInv /\ [StrategyNext]_strategyVars =>
        [(stage = "quality" /\ signal.action \in Directions /\ position = signal.action) =>
           signal'.action # "EXIT"]_strategyVars
  BY StandsByEntry
<1> QED
  BY <1>1, <1>2, <1>3, InitStrategy, NextStrategy, PTL
     DEF StrategySpec, DecisionsHold, SetupIsTaken, EntryStands

-----------------------------------------------------------------------------
(***************************************************************************)
(* Backtest. The locals of run() are followed through the three parts of   *)
(* the loop body: at most one signal is pending or held, and a candle      *)
(* books at most one trade.                                                *)
(***************************************************************************)

PositionRows == [signal : SignalRows, price : Int, opened : Nat, volume : Nat]

RunRows ==
    [balance : Int, curve : Seq(Nat), trades : Nat, pending : SUBSET SignalRows,
     position : SUBSET PositionRows, generated : Nat, expired : Nat]

Last(r) == r.curve[Len(r.curve)]

\* The locals of run() at a time t: at most one signal is pending or held, and it was
\* given before t from candles that had closed.
RunOK(r, t) ==
    /\ r \in RunRows
    /\ r.pending = None \/ \E s : r.pending = {s}
    /\ r.position = None \/ \E p : r.position = {p}
    /\ r.position = None \/ r.pending = None
    /\ \A s \in r.pending : s.seen * SlowLength <= s.time /\ s.time <= t
    /\ \A p \in r.position : p.signal.seen * SlowLength <= p.signal.time /\ p.signal.time <= p.opened
    /\ r.generated = r.expired + r.trades + Count(r.pending) + Count(r.position)
    /\ Len(r.curve) > 0 /\ \A i \in 1 .. Len(r.curve) - 1 : r.curve[i] < r.curve[i + 1]

\* No trade was booked on the candle, or one was and nothing is held or pending.
Unbooked(r) == Last(r) <= time
Booked(r)   == Last(r) = time + 1 /\ r.position = None /\ r.pending = None

Untouched(p, c) == ~Within(p.signal.stop, c) /\ ~Within(p.signal.target, c)

LEMMA QuotientNat ==
    ASSUME NEW a \in Nat, NEW d \in Nat \ {0}
    PROVE  a \div d \in Nat /\ (a \div d) * d <= a
OBVIOUS

\* The locals once a trade is booked.
BookedRow(r, b, curve, n) ==
    [r EXCEPT !.balance = b, !.curve = curve, !.trades = n, !.position = None]

LEMMA BookedFields ==
    ASSUME NEW r \in RunRows, NEW b, NEW curve, NEW n, NEW q,
           b \in Int /\ curve \in Seq(Nat) /\ n \in Nat, q = BookedRow(r, b, curve, n)
    PROVE  /\ q \in RunRows /\ q.curve = curve /\ q.trades = n /\ q.position = None
           /\ q.pending = r.pending /\ q.generated = r.generated /\ q.expired = r.expired
<1> DEFINE u == [r EXCEPT !.balance = b]
           v == [u EXCEPT !.curve = curve]
           w == [v EXCEPT !.trades = n]
<1>1. q = [w EXCEPT !.position = None]
  BY DEF BookedRow
<1>2. /\ u \in RunRows /\ u.pending = r.pending /\ u.generated = r.generated
      /\ u.expired = r.expired
  BY DEF RunRows
<1> HIDE DEF u
<1>3. /\ v \in RunRows /\ v.pending = u.pending /\ v.generated = u.generated
      /\ v.expired = u.expired /\ v.curve = curve
  BY <1>2 DEF RunRows
<1> HIDE DEF v
<1>4. /\ w \in RunRows /\ w.pending = v.pending /\ w.generated = v.generated
      /\ w.expired = v.expired /\ w.curve = v.curve /\ w.trades = n
  BY <1>3 DEF RunRows
<1> HIDE DEF w
<1>5. /\ q \in RunRows /\ q.pending = w.pending /\ q.generated = w.generated
      /\ q.expired = w.expired /\ q.curve = w.curve /\ q.trades = w.trades /\ q.position = None
  BY <1>1, <1>4 DEF RunRows, None
<1> QED
  BY <1>2, <1>3, <1>4, <1>5

LEMMA CurveGrows ==
    ASSUME NEW s \in Seq(Nat), Len(s) > 0, \A i \in 1 .. Len(s) - 1 : s[i] < s[i + 1],
           NEW x \in Nat, s[Len(s)] < x, NEW u, u = Append(s, x)
    PROVE  /\ u \in Seq(Nat) /\ Len(u) > 0 /\ u[Len(u)] = x
           /\ \A i \in 1 .. Len(u) - 1 : u[i] < u[i + 1]
OBVIOUS

\* _close() books one trade.
LEMMA ClosedOK ==
    ASSUME time \in Nat, NEW r, RunOK(r, time), NEW p \in r.position, NEW exit \in Int, Unbooked(r)
    PROVE  RunOK(Closed(r, p, exit), time) /\ Booked(Closed(r, p, exit))
<1> SUFFICES ASSUME NEW q, q = Closed(r, p, exit) PROVE RunOK(q, time) /\ Booked(q)
  OBVIOUS
<1> DEFINE net == ((IF p.signal.long THEN 1 ELSE -1) * (exit - p.price) - Cost) * p.volume
<1>1. q = BookedRow(r, r.balance + net, Append(r.curve, time + 1), r.trades + 1)
  BY DEF Closed, BookedRow
<1>2. /\ r \in RunRows /\ r.curve \in Seq(Nat) /\ r.trades \in Nat /\ r.balance \in Int
      /\ r.generated \in Nat /\ r.expired \in Nat /\ p \in PositionRows
  BY DEF RunOK, RunRows
<1>3. r.balance + net \in Int /\ r.trades + 1 \in Nat
  <2>1. p.price \in Int /\ p.volume \in Int /\ Cost \in Int
    BY <1>2, BacktestAssumption DEF PositionRows
  <2>2. net \in Int
    BY <2>1
  <2> HIDE DEF net
  <2> QED
    BY <1>2, <2>2
<1> HIDE DEF net
<1>b. PICK b : b \in Int /\ b = r.balance + net
  BY <1>3
<1>n. PICK n : n \in Nat /\ n = r.trades + 1
  BY <1>3
<1>c. PICK curve : curve = Append(r.curve, time + 1)
  OBVIOUS
<1>4. /\ curve \in Seq(Nat) /\ Len(curve) > 0 /\ curve[Len(curve)] = time + 1
      /\ \A i \in 1 .. Len(curve) - 1 : curve[i] < curve[i + 1]
  <2>1. Len(r.curve) > 0 /\ \A i \in 1 .. Len(r.curve) - 1 : r.curve[i] < r.curve[i + 1]
    BY DEF RunOK
  <2>2. r.curve[Len(r.curve)] < time + 1 /\ time + 1 \in Nat
    BY <1>2, <2>1 DEF Unbooked, Last
  <2> QED
    BY <1>2, <1>c, <2>1, <2>2, CurveGrows
<1>5. /\ q \in RunRows /\ q.curve = curve /\ q.trades = r.trades + 1
      /\ q.position = None /\ q.pending = r.pending /\ q.generated = r.generated
      /\ q.expired = r.expired
  <2>1. q = BookedRow(r, b, curve, n)
    BY <1>1, <1>b, <1>n, <1>c
  <2> QED
    <3>1. r \in RunRows /\ b \in Int /\ curve \in Seq(Nat) /\ n \in Nat
      BY <1>2, <1>b, <1>n, <1>4
    <3>2. /\ q \in RunRows /\ q.curve = curve /\ q.trades = n /\ q.position = None
          /\ q.pending = r.pending /\ q.generated = r.generated /\ q.expired = r.expired
      BY <3>1, <2>1, BookedFields
    <3> QED
      BY <3>2, <1>n
<1>6. r.pending = None /\ r.position # None
  BY DEF RunOK, None
<1>7. q.generated = q.expired + q.trades + Count(q.pending) + Count(q.position)
  BY <1>2, <1>5, <1>6 DEF RunOK, Count
<1>8. RunOK(q, time)
  BY <1>4, <1>5, <1>6, <1>7 DEF RunOK, None
<1>9. Booked(q)
  BY <1>4, <1>5, <1>6 DEF Booked, Last
<1> QED
  BY <1>8, <1>9

LEMMA TriggerOK ==
    ASSUME time \in Nat, NEW r, RunOK(r, time), Unbooked(r), NEW c \in TestCandles
    PROVE  /\ RunOK(AfterTrigger(r, c), time)
           /\ Unbooked(AfterTrigger(r, c)) \/ Booked(AfterTrigger(r, c))
           /\ \A p \in AfterTrigger(r, c).position : Untouched(p, c)
           /\ AfterTrigger(r, c) = r \/ AfterTrigger(r, c).position = None
<1> DEFINE hits == UNION {Triggered(p, c) : p \in r.position}
<1>1. CASE hits = {}
  <2>1. AfterTrigger(r, c) = r
    BY <1>1 DEF AfterTrigger
  <2>2. \A p \in r.position : Triggered(p, c) = {}
    BY <1>1, Zenon
  <2>3. \A p \in r.position : Untouched(p, c)
    BY <2>2 DEF Triggered, Untouched
  <2> QED
    BY <2>1, <2>3
<1>2. CASE hits # {}
  <2> DEFINE p == CHOOSE p \in r.position : TRUE
             x == CHOOSE x \in hits : TRUE
  <2>1. AfterTrigger(r, c) = Closed(r, p, x)
    BY <1>2 DEF AfterTrigger
  <2>2. p \in r.position
    BY <1>2, Zenon
  <2>3. x \in hits
    BY <1>2, Zenon
  <2>4. \A o \in r.position : o.signal.stop \in Int /\ o.signal.target \in Int
    BY DEF RunOK, RunRows, PositionRows, SignalRows
  <2>5. \A o \in r.position : Triggered(o, c) \subseteq Int
    BY <2>4 DEF Triggered
  <2>6. x \in Int
    BY <2>3, <2>5, Zenon
  <2> HIDE DEF p, x
  <2>7. RunOK(Closed(r, p, x), time) /\ Booked(Closed(r, p, x))
    BY <2>2, <2>6, ClosedOK
  <2> QED
    BY <2>1, <2>7 DEF Booked, None
<1> QED
  BY <1>1, <1>2

LEMMA VolumeType ==
    ASSUME NEW balance \in Int, NEW risk \in Int, risk > 0 PROVE Volume(balance, risk) \in Nat
<1> DEFINE cap == Max({balance, 0})
<1>1. cap \in Nat
  <2>1. cap = IF balance >= 0 THEN balance ELSE 0
    BY MaxOfTwo
  <2> QED
    BY <2>1
<1> HIDE DEF cap
<1>2. cap * RiskPercent \in Nat /\ 100 * risk \in Nat \ {0}
  <2>1. RiskPercent \in Nat
    BY BacktestAssumption
  <2> QED
    BY <1>1, <2>1
<1> DEFINE volume == (cap * RiskPercent) \div (100 * risk)
<1>3. volume \in Nat
  BY <1>2, QuotientNat
<1>4. Volume(balance, risk) = IF volume < MinimumVolume THEN 0 ELSE Min({volume, MaximumVolume})
  BY DEF Volume, cap
<1> HIDE DEF volume
<1>5. Min({volume, MaximumVolume}) = IF volume <= MaximumVolume THEN volume ELSE MaximumVolume
  BY <1>3, MinOfTwo, BacktestAssumption
<1> QED
  BY <1>3, <1>4, <1>5, BacktestAssumption

LEMMA FillOK ==
    ASSUME time \in Nat, NEW s \in SignalRows, NEW c \in TestCandles, NEW balance \in Int,
           FillPending(s, c, balance) # None
    PROVE  \E p \in PositionRows : /\ FillPending(s, c, balance) = {p}
                                   /\ p.signal = s /\ p.opened = time
<1> DEFINE sign  == IF s.long THEN 1 ELSE -1
           price == Entry(s, c) + sign * Cost
           risk  == sign * (price - s.stop)
           vol   == Volume(balance, risk)
           p == [signal |-> s, price |-> price, opened |-> time, volume |-> vol]
<1>1. s.low \in Int /\ s.high \in Int /\ s.stop \in Int /\ c.open \in Int
  BY BacktestAssumption DEF SignalRows, CandleRows
<1>2. price \in Int
  BY <1>1, BacktestAssumption DEF Entry
<1>3. risk \in Int
  BY <1>1, <1>2
<1>4. FillPending(s, c, balance) = {p} /\ ~(risk <= 0)
  BY DEF FillPending
<1> HIDE DEF price, risk
<1>5. vol \in Nat
  BY <1>3, <1>4, VolumeType
<1> HIDE DEF vol
<1>6. p \in PositionRows /\ p.signal = s /\ p.opened = time
  BY <1>2, <1>5 DEF PositionRows
<1> QED
  BY <1>4, <1>6

LEMMA PendingOK ==
    ASSUME time \in Nat, NEW r, RunOK(r, time), Unbooked(r) \/ Booked(r), NEW c \in TestCandles,
           \A p \in r.position : Untouched(p, c),
           NEW q, q = AfterPending(r, c)
    PROVE  /\ RunOK(q, time) /\ (Unbooked(q) \/ Booked(q))
           /\ \A p \in q.position : Untouched(p, c)
           /\ r.position # None => q = r
<1>1. CASE r.position # None \/ r.pending = None
  BY <1>1 DEF AfterPending
<1>2. CASE ~(r.position # None \/ r.pending = None)
  <2> DEFINE s == CHOOSE s \in r.pending : TRUE
             filled == FillPending(s, c, r.balance)
  <2>1. r.pending = {s}
    <3>1. PICK x : r.pending = {x}
      BY <1>2 DEF RunOK
    <3> QED
      BY <3>1, Zenon
  <2>2. q = IF time >= s.expires
            THEN [r EXCEPT !.pending = None, !.expired = r.expired + 1]
            ELSE IF filled = None THEN r
            ELSE AfterTrigger([r EXCEPT !.pending = None, !.position = filled], c)
    BY <1>2 DEF AfterPending
  <2> HIDE DEF s
  <2>3. /\ r \in RunRows /\ r.balance \in Int /\ r.expired \in Nat /\ r.expired + 1 \in Nat
        /\ r.generated \in Nat /\ r.trades \in Nat /\ s \in SignalRows
        /\ s.seen * SlowLength <= s.time /\ s.time <= time
        /\ r.generated = r.expired + r.trades + 1 /\ Unbooked(r) /\ r.position = None
        /\ Len(r.curve) > 0 /\ \A i \in 1 .. Len(r.curve) - 1 : r.curve[i] < r.curve[i + 1]
    BY SMTT(40), <1>2, <2>1 DEF RunOK, RunRows, Count, None, Booked
  <2>4. CASE time >= s.expires
    <3>1. q = [r EXCEPT !.pending = None, !.expired = r.expired + 1]
      BY <2>2, <2>4
    <3>2. /\ q \in RunRows /\ q.pending = None /\ q.expired = r.expired + 1 /\ q.curve = r.curve
          /\ q.position = r.position /\ q.generated = r.generated /\ q.trades = r.trades
      BY <2>3, <3>1 DEF RunRows, None
    <3>3. RunOK(q, time)
      BY SMTT(40), <2>3, <3>2 DEF RunOK, Count, None
    <3>4. Unbooked(q)
      BY <2>3, <3>2 DEF Unbooked, Last
    <3> QED
      BY <1>2, <3>2, <3>3, <3>4 DEF None
  <2>5. CASE ~(time >= s.expires) /\ filled = None
    BY <1>2, <2>2, <2>5
  <2>6. CASE ~(time >= s.expires) /\ filled # None
    <3>1. PICK p \in PositionRows : filled = {p} /\ p.signal = s /\ p.opened = time
      BY <2>3, <2>6, FillOK
    <3> HIDE DEF filled
    <3>2. PICK u : u = [r EXCEPT !.pending = None, !.position = filled]
      OBVIOUS
    <3>3. /\ u \in RunRows /\ u.pending = None /\ u.expired = r.expired /\ u.curve = r.curve
          /\ u.position = filled /\ u.generated = r.generated /\ u.trades = r.trades
      <4>1. filled \in SUBSET PositionRows
        BY <3>1
      <4> QED
        BY <2>3, <3>2, <4>1 DEF RunRows, None
    <3>4. RunOK(u, time)
      <4>1. u.generated = u.expired + u.trades + Count(u.pending) + Count(u.position)
        BY <2>3, <3>1, <3>3 DEF Count, None
      <4>2. \A o \in u.position :
               o.signal.seen * SlowLength <= o.signal.time /\ o.signal.time <= o.opened
        BY <2>3, <3>1, <3>3
      <4> QED
        BY <2>3, <3>1, <3>3, <4>1, <4>2 DEF RunOK, None
    <3>5. Unbooked(u)
      BY <2>3, <3>3 DEF Unbooked, Last
    <3>6. q = AfterTrigger(u, c)
      BY <2>2, <2>6, <3>2
    <3> QED
      BY <1>2, <3>4, <3>5, <3>6, TriggerOK
  <2> QED
    BY <2>4, <2>5, <2>6
<1> QED
  BY <1>1, <1>2

\* on_market(): the decision at the candle's close, which has the timestamp time + 1.
LEMMA PendingSignal ==
    ASSUME time \in Nat, NEW s \in SignalRows, NEW t, t = Pending(s)
    PROVE  t \in SignalRows /\ t.time = time + 1 /\ t.seen * SlowLength <= t.time
<1>1. Available \in Nat /\ Available * SlowLength <= time + 1
  <2>1. time + 1 \in Nat /\ SlowLength \in Nat \ {0}
    BY BacktestAssumption
  <2> QED
    BY <2>1, QuotientNat DEF Available
<1>2. time + 1 \in Nat /\ time + 1 + s.life \in Nat
  BY DEF SignalRows
<1> HIDE DEF Available
<1>3. PICK a : a = Available
  OBVIOUS
<1>4. t = [s EXCEPT !.time = time + 1, !.expires = time + 1 + s.life, !.seen = a]
  BY <1>3 DEF Pending
<1>5. t \in SignalRows /\ t.time = time + 1 /\ t.seen = a
  BY <1>1, <1>2, <1>3, <1>4 DEF SignalRows
<1> QED
  BY <1>1, <1>3, <1>5

LEMMA LaterOK == ASSUME time \in Nat, NEW r, RunOK(r, time) PROVE RunOK(r, time + 1)
<1>1. \A s \in r.pending : s.time \in Nat
  BY DEF RunOK, RunRows, SignalRows
<1>2. \A s \in r.pending : s.time <= time + 1
  BY <1>1 DEF RunOK
<1> QED
  BY <1>2 DEF RunOK

LEMMA LastType == ASSUME NEW t, NEW r, RunOK(r, t) PROVE Last(r) \in Nat
<1>1. r.curve \in Seq(Nat) /\ Len(r.curve) > 0
  BY DEF RunOK, RunRows
<1> QED
  BY <1>1 DEF Last

LEMMA DecisionOK ==
    ASSUME time \in Nat, NEW r, RunOK(r, time), Unbooked(r) \/ Booked(r), NEW c \in TestCandles,
           NEW exit \in BOOLEAN, NEW entry \in {None} \cup {{s} : s \in Signals},
           NEW q, q = AfterDecision(r, c, exit, entry)
    PROVE  /\ RunOK(q, time + 1) /\ Last(q) <= time + 1
           /\ q.position # None => Last(q) <= time
           /\ q.position = r.position \/ q.position = None
<1>0. Last(r) \in Nat
  BY LastType
<1>1. CASE q = r
  <2>1. RunOK(r, time + 1)
    BY LaterOK
  <2> QED
    BY <1>0, <1>1, <2>1 DEF Unbooked, Booked
<1>2. CASE r.position # None /\ q = Closed(r, CHOOSE p \in r.position : TRUE, c.close)
  <2> DEFINE p == CHOOSE p \in r.position : TRUE
  <2>1. p \in r.position
    BY <1>2, Zenon DEF None
  <2>2. c.close \in Int
    BY BacktestAssumption DEF CandleRows
  <2>3. Unbooked(r)
    BY <1>2 DEF Booked
  <2> HIDE DEF p
  <2>4. RunOK(q, time) /\ Booked(q)
    BY <1>2, <2>1, <2>2, <2>3, ClosedOK DEF p
  <2> QED
    BY <2>4, LaterOK DEF Booked
<1>3. CASE /\ entry # None /\ MayPend(r)
           /\ q = [r EXCEPT !.pending = {Pending(s) : s \in entry}, !.generated = r.generated + 1]
  <2>1. PICK s \in Signals : entry = {s}
    BY <1>3
  <2>2. PICK t : t = Pending(s)
    OBVIOUS
  <2>3. t \in SignalRows /\ t.time = time + 1 /\ t.seen * SlowLength <= t.time
    BY <2>2, PendingSignal, BacktestAssumption
  <2>4. {Pending(x) : x \in entry} = {t}
    BY <2>1, <2>2
  <2>5. PICK n : n = r.generated + 1
    OBVIOUS
  <2>6. PICK held : held = {t}
    OBVIOUS
  <2>7. /\ r \in RunRows /\ n \in Nat /\ held \in SUBSET SignalRows /\ r.generated \in Nat
        /\ r.expired \in Nat /\ r.trades \in Nat
    BY SMTT(40), <2>3, <2>5, <2>6 DEF RunOK, RunRows
  <2>8. q = [r EXCEPT !.pending = held, !.generated = n]
    BY <1>3, <2>4, <2>5, <2>6
  <2>9. /\ q \in RunRows /\ q.pending = held /\ q.expired = r.expired /\ q.curve = r.curve
        /\ q.position = r.position /\ q.generated = n /\ q.trades = r.trades
    BY <2>7, <2>8 DEF RunRows
  <2>10. r.position = None /\ r.pending = None
    BY <1>3 DEF MayPend
  <2>11. q.generated = q.expired + q.trades + Count(q.pending) + Count(q.position)
    <3>1. r.generated = r.expired + r.trades
      BY <2>7, <2>10 DEF RunOK, Count
    <3> QED
      BY <2>5, <2>6, <2>7, <2>9, <2>10, <3>1 DEF Count, None
  <2>12. RunOK(q, time + 1)
    <3>1. \A x \in q.pending : x.seen * SlowLength <= x.time /\ x.time <= time + 1
      <4>1. \A x \in q.pending : x = t
        BY <2>6, <2>9
      <4>2. t.time <= time + 1
        BY <2>3
      <4> QED
        BY <2>3, <4>1, <4>2
    <3> QED
      BY <2>6, <2>9, <2>10, <2>11, <3>1 DEF RunOK, None
  <2>13. Last(q) = Last(r)
    BY <2>9 DEF Last
  <2> QED
    BY <1>0, <2>9, <2>10, <2>12, <2>13 DEF Unbooked, Booked
<1> QED
  BY <1>1, <1>2, <1>3 DEF AfterDecision

\* The inductive invariant.
BacktestInv ==
    /\ time \in Nat /\ ranges \in Seq(CandleRows) /\ ended \in BOOLEAN
    /\ RunOK(run, time) /\ Unbooked(run)
    /\ ~ended /\ run.position # None => Last(run) < time /\ Len(ranges) > 0
    /\ OpenUntouched

LEMMA InitBacktest == BacktestInit => BacktestInv
<1> SUFFICES ASSUME BacktestInit PROVE BacktestInv
  OBVIOUS
<1>1. run \in RunRows
  BY BacktestAssumption DEF BacktestInit, RunRows, None
<1>2. RunOK(run, time)
  BY <1>1 DEF BacktestInit, RunOK, None, Count
<1>3. Last(run) = 0 /\ time = 0 /\ ranges \in Seq(CandleRows) /\ run.position = {}
  BY DEF BacktestInit, Last, None
<1>4. Unbooked(run)
  BY <1>3 DEF Unbooked
<1>5. OpenUntouched
  BY <1>3 DEF OpenUntouched
<1>6. time \in Nat /\ ended = FALSE /\ run.position = None
  BY <1>3 DEF BacktestInit, None
<1> QED
  BY <1>2, <1>3, <1>4, <1>5, <1>6 DEF BacktestInv

LEMMA BarKeeps ==
    ASSUME BacktestInv, NEW c \in TestCandles, NEW exit \in BOOLEAN,
           NEW entry \in {None} \cup {{s} : s \in Signals}, Bar(c, exit, entry)
    PROVE  BacktestInv'
<1>0. time \in Nat /\ RunOK(run, time) /\ Unbooked(run) /\ ranges \in Seq(CandleRows)
  BY DEF BacktestInv
<1>1. PICK u : u = AfterTrigger(run, c)
  OBVIOUS
<1>2. /\ RunOK(u, time) /\ (Unbooked(u) \/ Booked(u)) /\ \A p \in u.position : Untouched(p, c)
      /\ u = run \/ u.position = None
  BY <1>0, <1>1, TriggerOK
<1>3. PICK v : v = AfterPending(u, c)
  OBVIOUS
<1>4. /\ RunOK(v, time) /\ (Unbooked(v) \/ Booked(v)) /\ \A p \in v.position : Untouched(p, c)
  BY <1>0, <1>2, <1>3, PendingOK
<1>5. PICK w : w = AfterDecision(v, c, exit, entry)
  OBVIOUS
<1>6. /\ RunOK(w, time + 1) /\ Last(w) <= time + 1 /\ (w.position # None => Last(w) <= time)
      /\ \A p \in w.position : Untouched(p, c)
  <2>1. /\ RunOK(w, time + 1) /\ Last(w) <= time + 1 /\ (w.position # None => Last(w) <= time)
        /\ w.position = v.position \/ w.position = None
    BY SMTT(40), <1>0, <1>4, <1>5, DecisionOK
  <2> QED
    BY <1>4, <2>1 DEF None
<1>7. run' = w /\ time' = time + 1 /\ ended' = ended /\ ended = FALSE
      /\ ranges' = IF w.position = None THEN << >>
                   ELSE IF w.position = run.position THEN Append(ranges, c) ELSE <<c>>
  BY <1>1, <1>3, <1>5 DEF Bar
<1>8. c \in CandleRows
  BY BacktestAssumption
<1>9. /\ ranges' \in Seq(CandleRows) /\ (w.position # None => Len(ranges') > 0)
      /\ \A p \in w.position, i \in DOMAIN ranges' : Untouched(p, ranges'[i])
  <2>1. CASE w.position = None
    BY <1>7, <2>1 DEF None
  <2>2. CASE w.position # None /\ w.position = run.position
    <3>1. ranges' = Append(ranges, c)
      BY <1>7, <2>2
    <3>2. /\ ranges' \in Seq(CandleRows) /\ Len(ranges') > 0
          /\ \A i \in DOMAIN ranges' : 
               ranges'[i] = c \/ (i \in DOMAIN ranges /\ ranges'[i] = ranges[i])
      BY <1>0, <1>8, <3>1
    <3>3. \A p \in w.position, i \in DOMAIN ranges : Untouched(p, ranges[i])
      BY <2>2 DEF BacktestInv, OpenUntouched, Untouched
    <3> QED
      BY <1>6, <3>2, <3>3
  <2>3. CASE w.position # None /\ w.position # run.position
    <3>1. ranges' = <<c>>
      BY <1>7, <2>3
    <3> QED
      BY <1>6, <1>8, <3>1
  <2> QED
    BY <2>1, <2>2, <2>3
<1>10. OpenUntouched'
  BY <1>7, <1>9 DEF OpenUntouched, Untouched
<1>11. RunOK(run', time') /\ Last(run') <= time' /\ time' \in Nat
       /\ (run'.position # None => Last(run') < time' /\ Len(ranges') > 0)
  <2>1. Last(w) \in Nat
    BY <1>6, LastType
  <2> QED
    BY <1>0, <1>6, <1>7, <1>9, <2>1
<1> QED
  BY <1>7, <1>9, <1>10, <1>11 DEF BacktestInv, Unbooked, RunOK, Last

\* After the loop: the signal still pending expires, the position is closed when the
\* configuration says so, and the curve ends at the last candle.
LEMMA ClosedAtEnd ==
    ASSUME BacktestInv, ~ended, NEW u, RunOK(u, time), Last(u) = Last(run),
           u.position = run.position, u.pending = None, NEW p \in u.position,
           NEW exit \in Int, NEW q,
           q = BookedRow(u, u.balance + ((IF p.signal.long THEN 1 ELSE -1) * (exit - p.price)
                                            - Cost) * p.volume,
                         Append(u.curve, time), u.trades + 1)
    PROVE  RunOK(q, time) /\ Last(q) = time /\ q.position = None
<1> DEFINE net == ((IF p.signal.long THEN 1 ELSE -1) * (exit - p.price) - Cost) * p.volume
<1>1. q = BookedRow(u, u.balance + net, Append(u.curve, time), u.trades + 1)
  OBVIOUS
<1>2. /\ u \in RunRows /\ u.curve \in Seq(Nat) /\ u.trades \in Nat /\ u.balance \in Int
      /\ u.generated \in Nat /\ u.expired \in Nat /\ p \in PositionRows
  BY DEF RunOK, RunRows
<1>3. u.balance + net \in Int /\ u.trades + 1 \in Nat
  <2>1. p.price \in Int /\ p.volume \in Int /\ Cost \in Int
    BY <1>2, BacktestAssumption DEF PositionRows
  <2>2. net \in Int
    BY <2>1
  <2> HIDE DEF net
  <2> QED
    BY SMTT(40), <1>2, <2>2
<1> HIDE DEF net
<1>b. PICK b : b \in Int /\ b = u.balance + net
  BY <1>3
<1>n. PICK n : n \in Nat /\ n = u.trades + 1
  BY <1>3
<1>c. PICK curve : curve = Append(u.curve, time)
  OBVIOUS
<1>4. /\ curve \in Seq(Nat) /\ Len(curve) > 0 /\ curve[Len(curve)] = time
      /\ \A i \in 1 .. Len(curve) - 1 : curve[i] < curve[i + 1]
  <2>1. Len(u.curve) > 0 /\ \A i \in 1 .. Len(u.curve) - 1 : u.curve[i] < u.curve[i + 1]
    BY DEF RunOK
  <2>2. u.curve[Len(u.curve)] < time /\ time \in Nat
    BY DEF BacktestInv, Last, None
  <2> QED
    BY <1>2, <1>c, <2>1, <2>2, CurveGrows
<1>5. /\ q \in RunRows /\ q.curve = curve /\ q.trades = n /\ q.position = None
      /\ q.pending = u.pending /\ q.generated = u.generated /\ q.expired = u.expired
  <2>1. q = BookedRow(u, b, curve, n)
    BY <1>1, <1>b, <1>n, <1>c
  <2>2. u \in RunRows /\ b \in Int /\ curve \in Seq(Nat) /\ n \in Nat
    BY <1>2, <1>b, <1>n, <1>4
  <2> QED
    BY SMTT(40), <2>1, <2>2, BookedFields
<1>6. q.generated = q.expired + q.trades + Count(q.pending) + Count(q.position)
  <2>1. u.generated = u.expired + u.trades + 1
    BY <1>2 DEF RunOK, Count, None
  <2> QED
    BY SMTT(40), <1>2, <1>5, <1>n, <2>1 DEF Count, None
<1>7. RunOK(q, time)
  BY <1>4, <1>5, <1>6 DEF RunOK, None
<1> QED
  BY <1>4, <1>5, <1>7 DEF Last

LEMMA EndKeeps == ASSUME BacktestInv, End PROVE BacktestInv'
<1>0. time \in Nat /\ RunOK(run, time) /\ Last(run) <= time /\ ended = FALSE
      /\ ranges \in Seq(CandleRows)
  BY DEF BacktestInv, Unbooked, End
<1> DEFINE u == [run EXCEPT !.expired = @ + Count(run.pending), !.pending = None]
           net(p) == ((IF p.signal.long THEN 1 ELSE -1)
                         * (ranges[Len(ranges)].close - p.price) - Cost) * p.volume
           p == CHOOSE p \in u.position : TRUE
           booked == IF CloseAtEnd /\ u.position # None
                     THEN [u EXCEPT !.balance = @ + net(p), !.curve = Append(@, time),
                                    !.trades = @ + 1, !.position = None]
                     ELSE u
<1>a. /\ run' = IF booked.curve[Len(booked.curve)] # time
                THEN [booked EXCEPT !.curve = Append(@, time)] ELSE booked
      /\ ended' = TRUE /\ ranges' = << >> /\ time' = time
  BY Zenon DEF End
<1>b. booked = IF CloseAtEnd /\ u.position # None
               THEN BookedRow(u, u.balance + net(p), Append(u.curve, time), u.trades + 1)
               ELSE u
  BY DEF BookedRow
<1> HIDE DEF booked
<1>1. PICK n : n = run.expired + Count(run.pending)
  OBVIOUS
<1>2. u = [run EXCEPT !.expired = n, !.pending = None]
  BY <1>1
<1> HIDE DEF u
<1>3. /\ RunOK(u, time) /\ u.curve = run.curve /\ u.position = run.position /\ u.pending = None
  <2>1. /\ run \in RunRows /\ run.expired \in Nat /\ run.generated \in Nat /\ run.trades \in Nat
        /\ n \in Nat
    BY SMTT(40), <1>0, <1>1 DEF RunOK, RunRows, Count
  <2>2. /\ u \in RunRows /\ u.expired = n /\ u.pending = None /\ u.curve = run.curve
        /\ u.position = run.position /\ u.generated = run.generated /\ u.trades = run.trades
    BY <1>2, <2>1 DEF RunRows, None
  <2>3. u.generated = u.expired + u.trades + Count(u.pending) + Count(u.position)
    <3>1. Count(run.pending) \in Nat /\ Count(run.position) \in Nat /\ Count(None) = 0
      BY DEF Count
    <3>2. run.generated = run.expired + run.trades + Count(run.pending) + Count(run.position)
      BY <1>0 DEF RunOK
    <3> QED
      BY <1>1, <2>1, <2>2, <3>1, <3>2
  <2> QED
    BY <1>0, <2>2, <2>3 DEF RunOK, None
<1>4. Last(u) = Last(run)
  BY <1>3 DEF Last
<1>5. PICK v : v = booked
  OBVIOUS
<1>6. RunOK(v, time) /\ Last(v) <= time
  <2>1. CASE CloseAtEnd /\ u.position # None
    <3>1. p \in u.position
      BY <2>1, Zenon DEF None
    <3>2. ranges[Len(ranges)].close \in Int
      <4>1. Len(ranges) > 0
        BY <1>0, <1>3, <2>1 DEF BacktestInv
      <4>2. ranges[Len(ranges)] \in CandleRows
        BY <1>0, <4>1
      <4> QED
        BY <4>2 DEF CandleRows
    <3>3. v = BookedRow(u, u.balance + net(p), Append(u.curve, time), u.trades + 1)
      BY <1>5, <1>b, <2>1
    <3> HIDE DEF p
    <3>4. RunOK(v, time) /\ Last(v) = time
      BY <1>0, <1>3, <1>4, <3>1, <3>2, <3>3, ClosedAtEnd
    <3> QED
      BY <1>0, <3>4
  <2>2. CASE ~(CloseAtEnd /\ u.position # None)
    BY <1>0, <1>3, <1>4, <1>5, <1>b, <2>2
  <2> QED
    BY <2>1, <2>2
<1>7. /\ run' = IF v.curve[Len(v.curve)] # time THEN [v EXCEPT !.curve = Append(v.curve, time)] ELSE v
      /\ ended' = TRUE /\ ranges' = << >> /\ time' = time
  BY <1>5, <1>a
<1>8. RunOK(run', time) /\ Last(run') <= time
  <2>1. CASE v.curve[Len(v.curve)] = time
    BY <1>6, <1>7, <2>1
  <2>2. CASE v.curve[Len(v.curve)] # time
    <3>1. PICK curve : curve = Append(v.curve, time)
      OBVIOUS
    <3>2. PICK q : q = [v EXCEPT !.curve = curve]
      OBVIOUS
    <3>3. /\ v \in RunRows /\ v.curve \in Seq(Nat) /\ Len(v.curve) > 0
          /\ \A i \in 1 .. Len(v.curve) - 1 : v.curve[i] < v.curve[i + 1]
      BY <1>6 DEF RunOK, RunRows
    <3>4. v.curve[Len(v.curve)] < time
      BY <1>0, <1>6, <2>2, <3>3 DEF Last
    <3>5. /\ curve \in Seq(Nat) /\ Len(curve) > 0 /\ curve[Len(curve)] = time
          /\ \A i \in 1 .. Len(curve) - 1 : curve[i] < curve[i + 1]
      BY <1>0, <3>1, <3>3, <3>4, CurveGrows
    <3>6. /\ q \in RunRows /\ q.expired = v.expired /\ q.pending = v.pending /\ q.curve = curve
          /\ q.position = v.position /\ q.generated = v.generated /\ q.trades = v.trades
      BY <3>2, <3>3, <3>5 DEF RunRows
    <3>7. RunOK(q, time)
      BY <1>6, <3>5, <3>6 DEF RunOK
    <3>8. Last(q) = time
      BY <3>5, <3>6 DEF Last
    <3>9. run' = q
      BY <1>7, <2>2, <3>1, <3>2
    <3> QED
      BY <1>0, <3>7, <3>8, <3>9
  <2> QED
    BY <2>1, <2>2
<1>9. OpenUntouched'
  BY <1>7 DEF OpenUntouched
<1>10. RunOK(run', time') /\ Last(run') <= time' /\ time' \in Nat /\ ranges' \in Seq(CandleRows)
       /\ ended' = TRUE
  BY <1>0, <1>7, <1>8
<1> QED
  BY <1>9, <1>10 DEF BacktestInv, Unbooked, RunOK, Last

LEMMA NextBacktest == BacktestInv /\ [BacktestNext]_backtestVars => BacktestInv'
<1> SUFFICES ASSUME BacktestInv, [BacktestNext]_backtestVars PROVE BacktestInv'
  OBVIOUS
<1>1. CASE UNCHANGED backtestVars
  BY <1>1 DEF backtestVars, BacktestInv, RunOK, Unbooked, Last, OpenUntouched, Count
<1> QED
  BY <1>1, BarKeeps, EndKeeps DEF BacktestNext, BacktestDone

LEMMA BacktestInvariance == BacktestSpec => []BacktestInv
  BY InitBacktest, NextBacktest, PTL DEF BacktestSpec

\* What a signal was computed from had closed when it was given, and it was given before
\* the position it led to was opened, for any candles, signals and costs.
THEOREM NoLookAheadHolds == BacktestSpec => []NoLookAhead
<1>1. BacktestInv => NoLookAhead
  BY DEF BacktestInv, RunOK, NoLookAhead
<1> QED
  BY <1>1, BacktestInvariance, PTL

\* Every signal ends as a trade, an expiry, or is still held; the curve never steps
\* back; a position still open was reached by none of the candles it saw.
THEOREM BooksAreRightHolds == BacktestSpec => []BooksAreRight
<1>1. BacktestInv => BooksAreRight
  BY DEF BacktestInv, RunOK, BooksAreRight, SignalsAccounted, CurveIncreases
<1> QED
  BY <1>1, BacktestInvariance, PTL

-----------------------------------------------------------------------------
(***************************************************************************)
(* WalkForward. The timestamps increase, so a slice between two of them is *)
(* an interval of indices.                                                 *)
(***************************************************************************)

\* The timestamps increase.
WalkInv ==
    /\ m5 \in Seq(Nat) /\ Len(m5) >= 2
    /\ \A i, j \in 1 .. Len(m5) : i < j => m5[i] < m5[j]

LEMMA InitWalk == WalkInit => WalkInv
<1> SUFFICES ASSUME WalkInit PROVE WalkInv
  OBVIOUS
<1>1. m5 = <<0, 1>>
  BY DEF WalkInit
<1>2. m5 \in Seq(Nat) /\ Len(m5) = 2 /\ m5[1] = 0 /\ m5[2] = 1
  BY <1>1
<1> QED
  BY <1>2 DEF WalkInv

LEMMA NextWalk == WalkInv /\ [WalkNext]_m5 => WalkInv'
<1> SUFFICES ASSUME WalkInv, [WalkNext]_m5 PROVE WalkInv'
  OBVIOUS
<1>1. CASE UNCHANGED m5
  BY <1>1 DEF WalkInv
<1>2. ASSUME NEW d \in Distances, Candle(d) PROVE WalkInv'
  <2>1. d \in Nat /\ d > 0
    BY WindowAssumption
  <2>2. PICK x : x = m5[Len(m5)] + d
    OBVIOUS
  <2>3. m5' = Append(m5, x)
    BY <1>2, <2>2 DEF Candle
  <2>4. x \in Nat /\ m5[Len(m5)] < x
    BY <2>1, <2>2 DEF WalkInv
  <2>5. /\ m5' \in Seq(Nat) /\ Len(m5') = Len(m5) + 1 /\ m5'[Len(m5) + 1] = x
        /\ \A i \in 1 .. Len(m5) : m5'[i] = m5[i]
    BY <2>3, <2>4 DEF WalkInv
  <2>6. \A i \in 1 .. Len(m5) : m5[i] < x /\ m5[i] \in Nat
    BY <2>4 DEF WalkInv
  <2>7. ASSUME NEW i \in 1 .. Len(m5'), NEW j \in 1 .. Len(m5'), i < j PROVE m5'[i] < m5'[j]
    <3>1. Len(m5) \in Nat
      BY DEF WalkInv
    <3>2. i \in 1 .. Len(m5) /\ (j \in 1 .. Len(m5) \/ j = Len(m5) + 1)
      BY <2>5, <2>7, <3>1
    <3> QED
      BY <2>5, <2>6, <2>7, <3>2 DEF WalkInv
  <2> QED
    BY <2>5, <2>7 DEF WalkInv
<1> QED
  BY <1>1, <1>2 DEF WalkNext, WalkDone

\* A slice between two candles of the data is the interval of their indices, and one
\* up to the last candle and the distance of the last two reaches the end.
LEMMA SliceBetween ==
    ASSUME WalkInv, NEW a \in 1 .. Len(m5), NEW b \in 1 .. Len(m5)
    PROVE  Slice(m5[a], m5[b]) = a .. b - 1
<1>1. /\ Len(m5) \in Nat /\ DOMAIN m5 = 1 .. Len(m5) /\ \A i \in 1 .. Len(m5) : m5[i] \in Nat
      /\ \A i, j \in 1 .. Len(m5) : i < j => m5[i] < m5[j]
  BY DEF WalkInv
<1>2. ASSUME NEW i \in 1 .. Len(m5)
      PROVE  (m5[i] >= m5[a] /\ m5[i] < m5[b]) <=> (a <= i /\ i < b)
  <2>1. i < a => m5[i] < m5[a]
    BY <1>1
  <2>2. a < i => m5[a] < m5[i]
    BY <1>1
  <2>3. i < b => m5[i] < m5[b]
    BY <1>1
  <2>4. b < i => m5[b] < m5[i]
    BY <1>1
  <2>5. m5[i] \in Nat /\ m5[a] \in Nat /\ m5[b] \in Nat /\ i \in Int /\ a \in Int /\ b \in Int
    BY <1>1
  <2> QED
    BY <2>1, <2>2, <2>3, <2>4, <2>5
<1> QED
  BY <1>1, <1>2 DEF Slice

LEMMA SliceFrom ==
    ASSUME WalkInv, NEW a \in 1 .. Len(m5), NEW e \in Nat
    PROVE  /\ \A i \in Slice(m5[a], e) : a <= i /\ i \in 1 .. Len(m5)
           /\ \A b \in 1 .. Len(m5) : m5[b] < e => a .. b \subseteq Slice(m5[a], e)
<1>1. /\ Len(m5) \in Nat /\ DOMAIN m5 = 1 .. Len(m5) /\ \A i \in 1 .. Len(m5) : m5[i] \in Nat
      /\ \A i, j \in 1 .. Len(m5) : i < j => m5[i] < m5[j]
  BY DEF WalkInv
<1>2. ASSUME NEW i \in Slice(m5[a], e) PROVE a <= i /\ i \in 1 .. Len(m5)
  <2>1. i \in 1 .. Len(m5) /\ m5[i] >= m5[a]
    BY <1>1 DEF Slice
  <2>2. i < a => m5[i] < m5[a]
    BY <1>1, <2>1
  <2>3. m5[i] \in Nat /\ m5[a] \in Nat
    BY <1>1, <2>1
  <2> QED
    BY <2>1, <2>2, <2>3
<1>3. ASSUME NEW b \in 1 .. Len(m5), m5[b] < e, NEW i \in a .. b PROVE i \in Slice(m5[a], e)
  <2>1. i \in 1 .. Len(m5) /\ a <= i /\ i <= b
    BY <1>1
  <2>2. m5[i] >= m5[a]
    <3>1. a < i => m5[a] < m5[i]
      BY <1>1, <2>1
    <3>2. m5[i] \in Nat /\ m5[a] \in Nat
      BY <1>1, <2>1
    <3> QED
      BY <2>1, <3>1, <3>2
  <2>3. m5[i] < e
    <3>1. i < b => m5[i] < m5[b]
      BY <1>1, <2>1
    <3>2. m5[i] \in Nat /\ m5[b] \in Nat
      BY <1>1, <2>1
    <3> QED
      BY <1>3, <2>1, <3>1, <3>2
  <2> QED
    BY <1>1, <2>1, <2>2, <2>3 DEF Slice
<1> QED
  BY <1>2, <1>3

LEMMA SplitInOrder ==
    ASSUME WalkInv, NEW a, NEW b, NEW c, NEW d, NEW s,
           a \in Nat /\ b \in Nat /\ c \in Nat /\ d \in Nat,
           a < b /\ b < c /\ c < d /\ d <= Len(m5), s = Split(a, b, c, d)
    PROVE  /\ s.train = a + 1 .. b /\ s.validation = b + 1 .. c
           /\ c + 1 .. d \subseteq s.test /\ \A i \in s.test : c + 1 <= i /\ i \in 1 .. Len(m5)
<1>1. Len(m5) \in Nat /\ Len(m5) >= 2 /\ m5 \in Seq(Nat)
  BY DEF WalkInv
<1>2. PICK step : step = m5[Len(m5)] - m5[Len(m5) - 1]
  OBVIOUS
<1>3. step \in Nat /\ step > 0
  <2>1. Len(m5) \in 1 .. Len(m5) /\ Len(m5) - 1 \in 1 .. Len(m5) /\ Len(m5) - 1 < Len(m5)
    BY <1>1
  <2>2. m5[Len(m5) - 1] < m5[Len(m5)]
    BY <2>1 DEF WalkInv
  <2>3. m5[Len(m5)] \in Nat /\ m5[Len(m5) - 1] \in Nat
    BY <1>1, <2>1
  <2> QED
    BY <1>2, <2>2, <2>3
<1>4. PICK e : e = m5[d] + step
  OBVIOUS
<1>5. a + 1 \in 1 .. Len(m5) /\ b + 1 \in 1 .. Len(m5) /\ c + 1 \in 1 .. Len(m5) /\ d \in 1 .. Len(m5)
  BY <1>1
<1>6. e \in Nat /\ m5[d] < e
  <2>1. m5[d] \in Nat
    BY <1>1, <1>5
  <2> QED
    BY <1>3, <1>4, <2>1
<1>7. /\ s.train = Slice(m5[a + 1], m5[b + 1]) /\ s.validation = Slice(m5[b + 1], m5[c + 1])
      /\ s.test = Slice(m5[c + 1], e)
  BY <1>2, <1>4 DEF Split
<1>8. Slice(m5[a + 1], m5[b + 1]) = a + 1 .. b + 1 - 1
  BY <1>5, SliceBetween
<1>9. Slice(m5[b + 1], m5[c + 1]) = b + 1 .. c + 1 - 1
  BY <1>5, SliceBetween
<1>10. /\ \A i \in Slice(m5[c + 1], e) : c + 1 <= i /\ i \in 1 .. Len(m5)
       /\ c + 1 .. d \subseteq Slice(m5[c + 1], e)
  BY <1>5, <1>6, SliceFrom
<1>11. b + 1 - 1 = b /\ c + 1 - 1 = c
  OBVIOUS
<1> QED
  BY <1>7, <1>8, <1>9, <1>10, <1>11

LEMMA FoldsFollow == WalkInv => FoldsInOrder
<1> SUFFICES ASSUME WalkInv, NEW o \in Offsets, NEW f, f = Fold(o)
             PROVE  /\ Before(f.train, f.validation) /\ Before(f.validation, f.test)
                    /\ f.train = o + 1 .. o + TrainBars
                    /\ f.validation = o + TrainBars + 1 .. o + TrainBars + ValidationBars
                    /\ TestBegins(o) .. o + TrainBars + ValidationBars + TestBars \subseteq f.test
  BY Zenon DEF FoldsInOrder
<1>1. PICK b, c, d : /\ b = o + TrainBars /\ c = o + TrainBars + ValidationBars
                     /\ d = o + TrainBars + ValidationBars + TestBars
  OBVIOUS
<1>2. /\ o \in Nat /\ b \in Nat /\ c \in Nat /\ d \in Nat /\ o < b /\ b < c /\ c < d /\ d <= Len(m5)
  <2>1. o \in Nat /\ o + TrainBars + ValidationBars + TestBars <= Len(m5)
    BY DEF Offsets
  <2>2. /\ TrainBars \in Nat /\ TrainBars > 0 /\ ValidationBars \in Nat /\ ValidationBars > 0
        /\ TestBars \in Nat /\ TestBars > 0
    BY WindowAssumption
  <2> QED
    BY <1>1, <2>1, <2>2
<1>3. f = Split(o, b, c, d)
  BY <1>1 DEF Fold
<1>4. /\ f.train = o + 1 .. b /\ f.validation = b + 1 .. c
      /\ c + 1 .. d \subseteq f.test /\ \A i \in f.test : c + 1 <= i /\ i \in 1 .. Len(m5)
  BY <1>2, <1>3, SplitInOrder
<1>5. Before(f.train, f.validation)
  BY <1>2, <1>4 DEF Before
<1>6. Before(f.validation, f.test)
  BY <1>2, <1>4 DEF Before
<1> QED
  BY <1>1, <1>4, <1>5, <1>6 DEF TestBegins

LEMMA SplitPartitions == WalkInv => SplitIsPartition
<1> SUFFICES ASSUME WalkInv, Len(m5) >= 5, NEW s, s = ChronologicalSplit
             PROVE  /\ s.train \cup s.validation \cup s.test = DOMAIN m5
                    /\ {} \notin {s.train, s.validation, s.test}
                    /\ Before(s.train, s.validation) /\ Before(s.validation, s.test)
  BY Zenon DEF SplitIsPartition
<1>1. PICK n : n = Len(m5)
  OBVIOUS
<1>2. n \in Nat /\ n >= 5 /\ DOMAIN m5 = 1 .. n
  BY <1>1 DEF WalkInv
<1>3. PICK b, c : /\ b = Larger(1, (n * 6) \div 10)
                  /\ c = Smaller(Larger(b + 1, (n * 8) \div 10), n - 1)
  OBVIOUS
<1>4. s = Split(0, b, c, n)
  BY <1>1, <1>3 DEF ChronologicalSplit
<1>5. b \in Nat /\ 0 < b /\ b + 1 <= n - 1
  BY <1>2, <1>3 DEF Larger
<1>6. c \in Nat /\ b < c /\ c < n
  <2>1. (n * 8) \div 10 \in Nat
    BY <1>2
  <2> QED
    BY <1>2, <1>3, <1>5, <2>1 DEF Larger, Smaller
<1>7. /\ s.train = 1 .. b /\ s.validation = b + 1 .. c
      /\ c + 1 .. n \subseteq s.test /\ \A i \in s.test : c + 1 <= i /\ i \in 1 .. n
  <2>1. PICK a : a = 0
    OBVIOUS
  <2>2. a \in Nat /\ a < b /\ n <= Len(m5) /\ s = Split(a, b, c, n)
    BY <1>1, <1>2, <1>4, <1>5, <2>1
  <2>3. /\ s.train = a + 1 .. b /\ s.validation = b + 1 .. c
        /\ c + 1 .. n \subseteq s.test /\ \A i \in s.test : c + 1 <= i /\ i \in 1 .. Len(m5)
    BY <1>2, <1>5, <1>6, <2>2, SplitInOrder
  <2> QED
    BY <1>1, <2>1, <2>3
<1>8. s.test = c + 1 .. n
  <2>1. \A i \in s.test : i \in c + 1 .. n
    BY <1>2, <1>6, <1>7
  <2> QED
    BY <1>7, <2>1
<1>9. s.train \cup s.validation \cup s.test = 1 .. n
  BY <1>2, <1>5, <1>6, <1>7, <1>8
<1>10. 1 \in s.train /\ c \in s.validation /\ n \in s.test
  BY <1>2, <1>5, <1>6, <1>7, <1>8
<1>11. Before(s.train, s.validation)
  BY <1>2, <1>5, <1>6, <1>7, <1>8 DEF Before
<1>12. Before(s.validation, s.test)
  BY <1>2, <1>5, <1>6, <1>7, <1>8 DEF Before
<1> QED
  BY <1>2, <1>9, <1>10, <1>11, <1>12

\* No candle of a test set was used to choose the parameters that it tests, wherever
\* the market was closed and however wide the sets are.
THEOREM TestsComeLaterHolds == WalkSpec => []TestsComeLater
<1>1. WalkInv => TestsComeLater
  BY FoldsFollow, SplitPartitions DEF TestsComeLater
<1> QED
  BY <1>1, InitWalk, NextWalk, PTL DEF WalkSpec

=============================================================================
