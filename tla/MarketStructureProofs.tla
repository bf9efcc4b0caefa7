------------------------ MODULE MarketStructureProofs ------------------------
(***************************************************************************)
(* Proofs about MarketStructure: what the walk over the candles computes,  *)
(* for candles of any number and any spans, and that later candles change  *)
(* nothing of it.                                                          *)
(***************************************************************************)
EXTENDS MarketStructure, SumsProofs

\* What the walk makes of candle t
Visited(c, swings, t, before) ==
    Visit(Of(swings, "HIGH", t), Of(swings, "LOW", t), t, c[t].close, before)

-----------------------------------------------------------------------------
(* The walk is the solution of its recursion.                              *)

\* The walk begins with nothing and visits one candle after the other.
LEMMA WalkSteps ==
  ASSUME NEW c, NEW swings, Len(c) \in Nat
  PROVE  /\ Walk(c, swings)[0] = Unwalked
         /\ \A t \in 1 .. Len(c) :
              Walk(c, swings)[t] = Visited(c, swings, t, Walk(c, swings)[t - 1])
<1> DEFINE Solves(w, k) ==
             w = [t \in 0 .. k |-> IF t = 0 THEN Unwalked ELSE Visited(c, swings, t, w[t - 1])]
           T == {k \in Nat : \E w : Solves(w, k)}
<1>1. 0 \in T
  <2> DEFINE w == [t \in 0 .. 0 |-> Unwalked]
  <2>1. Solves(w, 0)
    OBVIOUS
  <2> QED
    BY <2>1
<1>2. ASSUME NEW k \in Nat, k \in T
      PROVE  k + 1 \in T
  <2>1. PICK w : Solves(w, k)
    BY <1>2
  <2> DEFINE x == [t \in 0 .. k + 1 |-> IF t = k + 1 THEN Visited(c, swings, k + 1, w[k]) ELSE w[t]]
             e == [t \in 0 .. k + 1 |-> IF t = 0 THEN Unwalked ELSE Visited(c, swings, t, x[t - 1])]
  <2>2. ASSUME NEW t \in 0 .. k + 1
        PROVE  x[t] = e[t]
    <3>1. CASE t = k + 1
      BY <3>1
    <3>2. CASE t # k + 1
      <4>1. t \in 0 .. k /\ x[t] = w[t]
        BY <3>2
      <4>2. w[t] = IF t = 0 THEN Unwalked ELSE Visited(c, swings, t, w[t - 1])
        BY <4>1, <2>1
      <4>3. t # 0 => x[t - 1] = w[t - 1]
        BY <4>1
      <4> QED
        BY <4>1, <4>2, <4>3
    <3> QED
      BY <3>1, <3>2
  <2>3. x = e
    BY <2>2
  <2>4. Solves(x, k + 1)
    BY <2>3
  <2> HIDE DEF x
  <2> QED
    BY <2>4
<1> HIDE DEF T
<1>3. Len(c) \in T
  BY <1>1, <1>2, NatInd
<1>4. Walk(c, swings) = CHOOSE w : Solves(w, Len(c))
  BY DEF Walk, Visited
<1> HIDE DEF Solves
<1>5. Solves(Walk(c, swings), Len(c))
  BY <1>3, <1>4 DEF T
<1>6. ASSUME NEW t \in 0 .. Len(c)
      PROVE  Walk(c, swings)[t] = IF t = 0 THEN Unwalked
                                  ELSE Visited(c, swings, t, Walk(c, swings)[t - 1])
  BY <1>5 DEF Solves
<1>7. 0 \in 0 .. Len(c) /\ \A t \in 1 .. Len(c) : t \in 0 .. Len(c) /\ t # 0
  OBVIOUS
<1> QED
  BY <1>6, <1>7

-----------------------------------------------------------------------------
(* Swings.                                                                 *)

\* A swing is known by its kind and its candle.
LEMMA SwingTypes ==
  ASSUME NEW c, Len(c) \in Nat
  PROVE  /\ \A s \in ConfirmedSwings(c) :
              /\ s.kind \in {"HIGH", "LOW"} /\ s.index \in Nat /\ s.confirmed \in Nat
              /\ s.index < s.confirmed /\ s.confirmed <= Len(c) /\ 0 < s.index
         /\ \A s, o \in ConfirmedSwings(c) : s.kind = o.kind /\ s.index = o.index => s = o
<1>1. ASSUME NEW s \in ConfirmedSwings(c)
      PROVE  \E i \in LeftSpan + 1 .. Len(c) - RightSpan :
                s \in {Swing("HIGH", i, c[i].high), Swing("LOW", i, c[i].low)}
  BY DEF ConfirmedSwings
<1>2. ASSUME NEW s \in ConfirmedSwings(c)
      PROVE  /\ s.index \in LeftSpan + 1 .. Len(c) - RightSpan
             /\ \/ s = Swing("HIGH", s.index, c[s.index].high) /\ s.kind = "HIGH"
                \/ s = Swing("LOW", s.index, c[s.index].low) /\ s.kind = "LOW"
             /\ s.confirmed = s.index + RightSpan
  BY <1>1 DEF Swing
<1>3. ASSUME NEW s \in ConfirmedSwings(c)
      PROVE  /\ s.kind \in {"HIGH", "LOW"} /\ s.index \in Nat /\ s.confirmed \in Nat
             /\ s.index < s.confirmed /\ s.confirmed <= Len(c) /\ 0 < s.index
  BY <1>2, SpanAssumption
<1>4. ASSUME NEW s \in ConfirmedSwings(c), NEW o \in ConfirmedSwings(c),
             s.kind = o.kind, s.index = o.index
      PROVE  s = o
  BY <1>2, <1>4
<1> QED
  BY <1>3, <1>4

\* What has been confirmed by candle n is found in the first n candles alone.
LEMMA SwingsOfPrefix ==
  ASSUME NEW c, Len(c) \in Nat, NEW d, Len(d) \in Nat, Len(d) <= Len(c),
         \A i \in 1 .. Len(d) : d[i] = c[i]
  PROVE  ConfirmedSwings(d) = {s \in ConfirmedSwings(c) : s.confirmed <= Len(d)}
<1> DEFINE inner(n) == LeftSpan + 1 .. n - RightSpan
<1>1. ASSUME NEW i \in inner(Len(d))
      PROVE  /\ i \in inner(Len(c)) /\ i + RightSpan <= Len(d) /\ d[i] = c[i]
             /\ \A j \in i - LeftSpan .. i - 1 : d[j] = c[j]
             /\ \A j \in i + 1 .. i + RightSpan : d[j] = c[j]
  BY SpanAssumption
<1>2. ASSUME NEW i \in inner(Len(d))
      PROVE  /\ HighIsSwing(d, i) <=> HighIsSwing(c, i)
             /\ LowIsSwing(d, i) <=> LowIsSwing(c, i)
  BY <1>1 DEF HighIsSwing, LowIsSwing
<1>3. ASSUME NEW i \in inner(Len(c)), i + RightSpan <= Len(d)
      PROVE  i \in inner(Len(d))
  BY <1>3, SpanAssumption
<1> DEFINE Found(n, s) == \E i \in inner(n) :
             \/ HighIsSwing(c, i) /\ s = Swing("HIGH", i, c[i].high)
             \/ LowIsSwing(c, i) /\ s = Swing("LOW", i, c[i].low)
<1>4. \A s : s \in ConfirmedSwings(c) <=> Found(Len(c), s)
  BY DEF ConfirmedSwings
<1>5. \A s : s \in ConfirmedSwings(d) <=> Found(Len(d), s)
  <2>1. \A s : s \in ConfirmedSwings(d) <=> \E i \in inner(Len(d)) :
             \/ HighIsSwing(d, i) /\ s = Swing("HIGH", i, d[i].high)
             \/ LowIsSwing(d, i) /\ s = Swing("LOW", i, d[i].low)
    BY DEF ConfirmedSwings
  <2> HIDE DEF inner
  <2> QED
    BY <1>1, <1>2, <2>1
<1>6. \A s : Found(Len(d), s) <=> Found(Len(c), s) /\ s.confirmed <= Len(d)
  <2>1. \A s : Found(Len(d), s) => Found(Len(c), s) /\ s.confirmed <= Len(d)
    BY <1>1 DEF Swing
  <2>2. \A s : Found(Len(c), s) /\ s.confirmed <= Len(d) => Found(Len(d), s)
    BY <1>3 DEF Swing
  <2> QED
    BY <2>1, <2>2
<1> HIDE DEF Found
<1> QED
  BY <1>4, <1>5, <1>6

\* So are the levels that the walk knows at one of those candles.
LEMMA KnownOfPrefix ==
  ASSUME NEW c, Len(c) \in Nat, NEW d, Len(d) \in Nat, Len(d) <= Len(c),
         \A i \in 1 .. Len(d) : d[i] = c[i], NEW kind, NEW t \in 0 .. Len(d)
  PROVE  Of(ConfirmedSwings(d), kind, t) = Of(ConfirmedSwings(c), kind, t)
<1>1. \A s \in ConfirmedSwings(c) : s.confirmed \in Nat
  BY SwingTypes
<1>2. ConfirmedSwings(d) = {s \in ConfirmedSwings(c) : s.confirmed <= Len(d)}
  BY SwingsOfPrefix
<1> QED
  BY <1>1, <1>2 DEF Of

\* The walk over the first candles is the beginning of the walk over all of them.
LEMMA WalkOfPrefix ==
  ASSUME NEW c, Len(c) \in Nat, NEW d, Len(d) \in Nat, Len(d) <= Len(c),
         \A i \in 1 .. Len(d) : d[i] = c[i]
  PROVE  \A t \in 0 .. Len(d) :
            Walk(d, ConfirmedSwings(d))[t] = Walk(c, ConfirmedSwings(c))[t]
<1> DEFINE long == Walk(c, ConfirmedSwings(c))
           short == Walk(d, ConfirmedSwings(d))
           T == {t \in Nat : t <= Len(d) => short[t] = long[t]}
<1>1. 0 \in T
  BY WalkSteps
<1>2. ASSUME NEW t \in Nat, t \in T PROVE t + 1 \in T
  <2> SUFFICES ASSUME t + 1 <= Len(d) PROVE short[t + 1] = long[t + 1]
    OBVIOUS
  <2>1. t + 1 \in 1 .. Len(d) /\ t + 1 \in 1 .. Len(c) /\ t + 1 \in 0 .. Len(d) /\ (t + 1) - 1 = t
    OBVIOUS
  <2>2. short[t + 1] = Visited(d, ConfirmedSwings(d), t + 1, short[t])
    BY <2>1, WalkSteps
  <2>3. long[t + 1] = Visited(c, ConfirmedSwings(c), t + 1, long[t])
    BY <2>1, WalkSteps
  <2>4. short[t] = long[t] /\ d[t + 1] = c[t + 1]
    BY <1>2, <2>1
  <2>5. \A kind : Of(ConfirmedSwings(d), kind, t + 1) = Of(ConfirmedSwings(c), kind, t + 1)
    BY <2>1, KnownOfPrefix
  <2> QED
    BY <2>2, <2>3, <2>4, <2>5 DEF Visited
<1> HIDE DEF T
<1>3. Nat \subseteq T
  BY <1>1, <1>2, NatInd
<1> QED
  BY <1>3 DEF T

-----------------------------------------------------------------------------
(* The level of a candle, and the levels that were broken.                 *)

Known(c, kind, t) == Of(ConfirmedSwings(c), kind, t)

\* s is the latest confirmed swing of its kind at candle t.
Level(c, t, s) ==
    /\ s \in ConfirmedSwings(c) /\ s.confirmed <= t
    /\ s = Latest(Known(c, s.kind, t))

Beyond(c, t, s) == IF s.kind = "HIGH" THEN c[t].close > s.price ELSE c[t].close < s.price

First(c, t, s) == Beyond(c, t, s) /\ \A u \in s.confirmed .. t - 1 : ~Beyond(c, u, s)

\* Of swings that are known one is the latest.
LEMMA LatestIs ==
  ASSUME NEW c, Len(c) \in Nat, NEW K, K \subseteq ConfirmedSwings(c), K # {}
  PROVE  Latest(K) \in K /\ \A o \in K : o.index <= Latest(K).index
<1>1. \A s \in K : s.index \in Nat /\ s.index <= Len(c)
  BY SwingTypes
<1> DEFINE T == {Len(c) - s.index : s \in K}
<1>2. T \subseteq Nat /\ T # {}
  BY <1>1
<1> HIDE DEF T
<1>3. PICK x \in T : \A y \in T : x <= y
  BY <1>2, LeastNat
<1>4. PICK s \in K : x = Len(c) - s.index
  BY DEF T
<1>5. ASSUME NEW o \in K PROVE o.index <= s.index
  <2>1. Len(c) - s.index <= Len(c) - o.index
    BY <1>3, <1>4 DEF T
  <2> QED
    BY <1>1, <2>1
<1> QED
  BY <1>4, <1>5 DEF Latest

\* The level of a kind, when one is known.
LEMMA LevelIs ==
  ASSUME NEW c, Len(c) \in Nat, NEW kind, NEW t \in Nat, Known(c, kind, t) # {}
  PROVE  /\ Level(c, t, Latest(Known(c, kind, t)))
         /\ Latest(Known(c, kind, t)).kind = kind
         /\ Latest(Known(c, kind, t)).index < t
         /\ \A o \in Known(c, kind, t) : o.index <= Latest(Known(c, kind, t)).index
<1>1. PICK s : s = Latest(Known(c, kind, t))
  OBVIOUS
<1>2. Known(c, kind, t) \subseteq ConfirmedSwings(c)
  BY DEF Known, Of
<1>3. s \in Known(c, kind, t) /\ \A o \in Known(c, kind, t) : o.index <= s.index
  BY <1>1, <1>2, LatestIs
<1>4. s \in ConfirmedSwings(c) /\ s.kind = kind /\ s.confirmed <= t
  BY <1>3 DEF Known, Of
<1>5. s.index < t
  BY <1>4, SwingTypes
<1> QED
  BY <1>1, <1>3, <1>4, <1>5 DEF Level

\* A level was the level since it was confirmed.
LEMMA LevelBefore ==
  ASSUME NEW c, Len(c) \in Nat, NEW t \in Nat, NEW u \in Nat, u <= t,
         NEW s, Level(c, t, s), s.confirmed <= u
  PROVE  Level(c, u, s)
<1>1. s \in ConfirmedSwings(c) /\ s.confirmed <= t /\ s = Latest(Known(c, s.kind, t))
  BY DEF Level
<1>2. s \in Known(c, s.kind, u) /\ s \in Known(c, s.kind, t)
  BY <1>1 DEF Known, Of
<1>3. \A o \in ConfirmedSwings(c) : o.confirmed \in Nat /\ o.index \in Nat
  BY SwingTypes
<1>4. Known(c, s.kind, u) \subseteq Known(c, s.kind, t)
  BY <1>3 DEF Known, Of
<1>5. PICK o : o = Latest(Known(c, s.kind, u))
  OBVIOUS
<1>6. o \in Known(c, s.kind, u) /\ s.index <= o.index
  <2>1. Known(c, s.kind, u) \subseteq ConfirmedSwings(c)
    BY DEF Known, Of
  <2> QED
    BY <1>2, <1>5, <2>1, LatestIs
<1>7. o.index <= s.index
  BY <1>1, <1>2, <1>4, <1>6, LevelIs
<1>8. o \in ConfirmedSwings(c) /\ o.kind = s.kind
  BY <1>6 DEF Known, Of
<1>9. o.index = s.index
  BY <1>1, <1>3, <1>6, <1>7, <1>8
<1>10. o = s
  BY <1>1, <1>8, <1>9, SwingTypes
<1> QED
  BY <1>1, <1>5, <1>10 DEF Level

\* There is one level of a kind.
LEMMA LevelUnique ==
  ASSUME NEW c, NEW t, NEW s, Level(c, t, s)
  PROVE  s = Latest(Known(c, s.kind, t)) /\ Known(c, s.kind, t) # {}
BY DEF Level, Known, Of

-----------------------------------------------------------------------------
(* One candle of the walk.                                                 *)

Met(c, kind, t) == Latest(Known(c, kind, t))

\* Candle t closes beyond the level of a kind that is not broken yet.
Breaks(c, kind, t, broken) ==
    Known(c, kind, t) # {} /\ Beyond(c, t, Met(c, kind, t)) /\ Met(c, kind, t) \notin broken

Toward(kind) == IF kind = "HIGH" THEN "BULLISH" ELSE "BEARISH"

Found(c, kind, t, prior) == Break(Toward(kind), t, Met(c, kind, t), prior)

LEMMA CrossedIs ==
  ASSUME NEW c, Len(c) \in Nat, NEW t \in Nat, NEW broken
  PROVE  /\ Crossed(Known(c, "HIGH", t), broken, t, c[t].close > Met(c, "HIGH", t).price)
              <=> Breaks(c, "HIGH", t, broken)
         /\ Crossed(Known(c, "LOW", t), broken, t, c[t].close < Met(c, "LOW", t).price)
              <=> Breaks(c, "LOW", t, broken)
<1>1. ASSUME NEW kind, Known(c, kind, t) # {}
      PROVE  Met(c, kind, t).kind = kind /\ Met(c, kind, t).index < t
  BY <1>1, LevelIs DEF Met
<1>2. Known(c, "HIGH", t) # {} =>
         (Beyond(c, t, Met(c, "HIGH", t)) <=> c[t].close > Met(c, "HIGH", t).price)
  BY <1>1 DEF Beyond
<1>3. Known(c, "LOW", t) # {} =>
         (Beyond(c, t, Met(c, "LOW", t)) <=> c[t].close < Met(c, "LOW", t).price)
  BY <1>1 DEF Beyond
<1> QED
  BY <1>1, <1>2, <1>3 DEF Crossed, Breaks, Met

Biases == {"RANGE", "BULLISH", "BEARISH"}

\* What candle t adds for a kind to the breaks
New(c, kind, t, b) ==
    IF Breaks(c, kind, t, b.broken) THEN <<Found(c, kind, t, b.bias)>> ELSE << >>

\* The levels broken in v are those of b and those that candle t breaks.
BrokenStep(c, t, b, v) ==
    \A s : s \in v.broken <=>
              \/ s \in b.broken
              \/ Breaks(c, "HIGH", t, b.broken) /\ s = Met(c, "HIGH", t)
              \/ Breaks(c, "LOW", t, b.broken) /\ s = Met(c, "LOW", t)

LEMMA VisitedBroken ==
  ASSUME NEW c, Len(c) \in Nat, NEW t, t \in Nat, NEW b, NEW v, v = Visited(c, ConfirmedSwings(c), t, b)
  PROVE  BrokenStep(c, t, b, v)
<1>1. PICK up \in BOOLEAN :
         up <=> Crossed(Known(c, "HIGH", t), b.broken, t, c[t].close > Met(c, "HIGH", t).price)
  OBVIOUS
<1>2. PICK down \in BOOLEAN :
         down <=> Crossed(Known(c, "LOW", t), b.broken, t, c[t].close < Met(c, "LOW", t).price)
  OBVIOUS
<1>3. (up <=> Breaks(c, "HIGH", t, b.broken)) /\ (down <=> Breaks(c, "LOW", t, b.broken))
  BY <1>1, <1>2, CrossedIs
<1>4. v.broken = (b.broken \cup (IF up THEN {Met(c, "HIGH", t)} ELSE {}))
                           \cup (IF down THEN {Met(c, "LOW", t)} ELSE {})
  BY <1>1, <1>2 DEF Visited, Visit, Known, Met
<1>5. \A s : s \in v.broken <=> s \in b.broken \/ (up /\ s = Met(c, "HIGH", t))
                                               \/ (down /\ s = Met(c, "LOW", t))
  BY <1>4
<1> QED
  BY <1>3, <1>5 DEF BrokenStep

LEMMA VisitedEvents ==
  ASSUME NEW c, Len(c) \in Nat, NEW t, t \in Nat, NEW b, NEW v, v = Visited(c, ConfirmedSwings(c), t, b)
  PROVE  /\ v.bias \in Biases
         /\ v.events = (b.events \o New(c, "HIGH", t, b)) \o New(c, "LOW", t, b)
<1>1. PICK up \in BOOLEAN :
         up <=> Crossed(Known(c, "HIGH", t), b.broken, t, c[t].close > Met(c, "HIGH", t).price)
  OBVIOUS
<1>2. PICK down \in BOOLEAN :
         down <=> Crossed(Known(c, "LOW", t), b.broken, t, c[t].close < Met(c, "LOW", t).price)
  OBVIOUS
<1>3. (up <=> Breaks(c, "HIGH", t, b.broken)) /\ (down <=> Breaks(c, "LOW", t, b.broken))
  BY <1>1, <1>2, CrossedIs
<1>4. v.bias \in Biases
  BY DEF Visited, Visit, Bias, Biases
<1>5. PICK x, y : /\ x = IF up THEN <<Found(c, "HIGH", t, b.bias)>> ELSE << >>
                  /\ y = IF down THEN <<Found(c, "LOW", t, b.bias)>> ELSE << >>
  OBVIOUS
<1>6. v.events = (b.events \o x) \o y
  BY <1>1, <1>2, <1>5 DEF Visited, Visit, Known, Met, Found, Toward
<1>7. x = New(c, "HIGH", t, b) /\ y = New(c, "LOW", t, b)
  BY <1>3, <1>5 DEF New
<1> QED
  BY <1>4, <1>6, <1>7

\* The levels broken after a candle are those before it and those it closes beyond.
LEMMA VisitBreaks ==
  ASSUME NEW c, Len(c) \in Nat, NEW t, t \in Nat, NEW b, b.broken \subseteq ConfirmedSwings(c),
         NEW v, v = Visited(c, ConfirmedSwings(c), t, b)
  PROVE  /\ v.broken \subseteq ConfirmedSwings(c)
         /\ \A s : s \in v.broken <=> s \in b.broken \/ (Level(c, t, s) /\ Beyond(c, t, s))
<1>1. ASSUME NEW kind, Known(c, kind, t) # {}
      PROVE  Level(c, t, Met(c, kind, t)) /\ Met(c, kind, t) \in ConfirmedSwings(c)
  BY <1>1, LevelIs DEF Met, Level
<1>2. ASSUME NEW s, Level(c, t, s)
      PROVE  \/ s = Met(c, "HIGH", t) /\ Known(c, "HIGH", t) # {}
             \/ s = Met(c, "LOW", t) /\ Known(c, "LOW", t) # {}
  <2>1. s.kind \in {"HIGH", "LOW"}
    BY <1>2, SwingTypes DEF Level
  <2> QED
    BY <1>2, <2>1, LevelUnique DEF Met
<1>3. BrokenStep(c, t, b, v)
  BY VisitedBroken
<1>4. \A s : s \in v.broken <=> \/ s \in b.broken
                                \/ Breaks(c, "HIGH", t, b.broken) /\ s = Met(c, "HIGH", t)
                                \/ Breaks(c, "LOW", t, b.broken) /\ s = Met(c, "LOW", t)
  BY <1>3 DEF BrokenStep
<1>5. v.broken \subseteq ConfirmedSwings(c)
  BY <1>1, <1>4 DEF Breaks
<1>6. ASSUME NEW s, s \in v.broken PROVE s \in b.broken \/ (Level(c, t, s) /\ Beyond(c, t, s))
  BY <1>1, <1>4, <1>6 DEF Breaks
<1>7. ASSUME NEW s, s \in b.broken \/ (Level(c, t, s) /\ Beyond(c, t, s)) PROVE s \in v.broken
  BY <1>2, <1>4, <1>7 DEF Breaks
<1> QED
  BY <1>5, <1>6, <1>7

-----------------------------------------------------------------------------
(* The whole walk.                                                         *)

\* The breaks that may be found in c
Rows(c) == {Break(d, t, s, p) : d \in {"BULLISH", "BEARISH"}, t \in 1 .. Len(c),
                                s \in ConfirmedSwings(c), p \in Biases}

\* Up to candle t of c the walk has broken the levels that a candle closed beyond.
BrokenIs(c, t, w) ==
    /\ w.bias \in Biases /\ w.events \in Seq(Rows(c))
    /\ w.broken \subseteq ConfirmedSwings(c)
    /\ \A s : s \in w.broken <=> \E u \in 1 .. t : Level(c, u, s) /\ Beyond(c, u, s)

LEMMA FoundIsRow ==
  ASSUME NEW c, Len(c) \in Nat, NEW t \in 1 .. Len(c), NEW kind, Known(c, kind, t) # {},
         NEW p \in Biases
  PROVE  Found(c, kind, t, p) \in Rows(c)
<1>1. t \in Nat
  OBVIOUS
<1>2. Met(c, kind, t) \in ConfirmedSwings(c)
  BY <1>1, LevelIs DEF Met, Level
<1>3. Toward(kind) \in {"BULLISH", "BEARISH"}
  BY DEF Toward
<1> QED
  BY <1>2, <1>3 DEF Found, Rows

LEMMA WalkBreaks ==
  ASSUME NEW c, Len(c) \in Nat
  PROVE  \A t \in 0 .. Len(c) : BrokenIs(c, t, Walk(c, ConfirmedSwings(c))[t])
<1>1. PICK w : w = Walk(c, ConfirmedSwings(c))
  OBVIOUS
<1>2. w[0] = Unwalked /\ \A t \in 1 .. Len(c) : w[t] = Visited(c, ConfirmedSwings(c), t, w[t - 1])
  BY <1>1, WalkSteps
<1> DEFINE T == {t \in Nat : t <= Len(c) => BrokenIs(c, t, w[t])}
<1>3. 0 \in T
  <2>1. w[0].bias = "RANGE" /\ w[0].broken = {} /\ w[0].events = << >> /\ 1 .. 0 = {}
    BY <1>2 DEF Unwalked
  <2>2. BrokenIs(c, 0, w[0])
    BY <2>1 DEF BrokenIs, Biases
  <2> QED
    BY <2>2
<1>4. ASSUME NEW t \in Nat, t \in T PROVE t + 1 \in T
  <2> SUFFICES ASSUME t + 1 <= Len(c) PROVE BrokenIs(c, t + 1, w[t + 1])
    OBVIOUS
  <2>1. PICK b, v, n : b = w[t] /\ v = w[t + 1] /\ n = t + 1
    OBVIOUS
  <2>2. n \in Nat /\ n \in 1 .. Len(c) /\ n - 1 = t /\ \A u \in 1 .. n : u = n \/ u \in 1 .. t
    BY <2>1
  <2>3. BrokenIs(c, t, b) /\ v = Visited(c, ConfirmedSwings(c), n, b)
    BY <1>2, <1>4, <2>1, <2>2
  <2>4. v.broken \subseteq ConfirmedSwings(c)
        /\ \A s : s \in v.broken <=> s \in b.broken \/ (Level(c, n, s) /\ Beyond(c, n, s))
    BY <2>2, <2>3, VisitBreaks DEF BrokenIs
  <2>5. ASSUME NEW s
        PROVE  s \in v.broken <=> \E u \in 1 .. n : Level(c, u, s) /\ Beyond(c, u, s)
    <3>1. s \in b.broken <=> \E u \in 1 .. t : Level(c, u, s) /\ Beyond(c, u, s)
      BY <2>3 DEF BrokenIs
    <3>2. n \in 1 .. n /\ \A u \in 1 .. t : u \in 1 .. n
      BY <2>2
    <3> QED
      BY <2>2, <2>4, <3>1, <3>2
  <2>6. v.bias \in Biases
    BY <2>2, <2>3, VisitedEvents
  <2>7. v.events \in Seq(Rows(c))
    <3>1. v.events = (b.events \o New(c, "HIGH", n, b)) \o New(c, "LOW", n, b)
      BY <2>2, <2>3, VisitedEvents
    <3>2. ASSUME NEW kind PROVE New(c, kind, n, b) \in Seq(Rows(c))
      <4>1. b.bias \in Biases
        BY <2>3 DEF BrokenIs
      <4>2. Breaks(c, kind, n, b.broken) => Found(c, kind, n, b.bias) \in Rows(c)
        BY <2>2, <4>1, FoundIsRow DEF Breaks
      <4>3. \A R : << >> \in Seq(R) /\ \A e \in R : <<e>> \in Seq(R)
        OBVIOUS
      <4> QED
        BY <4>2, <4>3 DEF New
    <3> QED
      BY <2>3, <3>1, <3>2 DEF BrokenIs
  <2> QED
    BY <2>1, <2>4, <2>5, <2>6, <2>7 DEF BrokenIs
<1> HIDE DEF T
<1>5. Nat \subseteq T
  BY <1>3, <1>4, NatInd
<1> QED
  BY <1>1, <1>5 DEF T

\* A level that is not broken is closed beyond for the first time.
LEMMA BreakIsFirst ==
  ASSUME NEW c, Len(c) \in Nat, NEW t \in 1 .. Len(c), NEW w, BrokenIs(c, t - 1, w),
         NEW s, Level(c, t, s)
  PROVE  Beyond(c, t, s) /\ s \notin w.broken <=> First(c, t, s)
<1>1. s.confirmed \in Nat /\ s.confirmed > 0 /\ t \in Nat
  BY SwingTypes DEF Level
<1>2. s \in w.broken <=> \E u \in 1 .. t - 1 : Level(c, u, s) /\ Beyond(c, u, s)
  BY DEF BrokenIs
<1>3. ASSUME NEW u \in s.confirmed .. t - 1 PROVE u \in 1 .. t - 1 /\ Level(c, u, s)
  <2>1. u \in Nat /\ u <= t /\ s.confirmed <= u /\ u \in 1 .. t - 1
    BY <1>1
  <2> QED
    BY <1>1, <2>1, LevelBefore
<1>4. ASSUME NEW u \in 1 .. t - 1, Level(c, u, s) PROVE u \in s.confirmed .. t - 1
  BY <1>1, <1>4 DEF Level
<1> QED
  BY <1>2, <1>3, <1>4 DEF First

-----------------------------------------------------------------------------
(* The breaks of the walk: in order, without repetition, none missing.     *)

Triple(e) == <<e.index, e.swing, e.direction>>

Triples(q) == {Triple(q[i]) : i \in DOMAIN q}

Distinct(q) ==
    \A i, j \in DOMAIN q : i # j => q[i].swing # q[j].swing \/ q[i].direction # q[j].direction

\* Every break of q is that of a swing in K.
Backed(q, K) ==
    \A i \in DOMAIN q : \E s \in K : s.index = q[i].swing /\ Toward(s.kind) = q[i].direction

Begins(q, r) == Len(q) <= Len(r) /\ \A i \in 1 .. Len(q) : r[i] = q[i]

LEMMA BeginsChain ==
  ASSUME NEW p, NEW q, NEW r, Len(p) \in Nat, Len(q) \in Nat, Len(r) \in Nat,
         Begins(p, q), Begins(q, r)
  PROVE  Begins(p, r)
<1>1. Len(p) <= Len(q) /\ Len(q) <= Len(r)
  BY DEF Begins
<1>2. ASSUME NEW i \in 1 .. Len(p) PROVE r[i] = p[i]
  <2>1. i \in 1 .. Len(q)
    BY <1>1
  <2>2. r[i] = q[i]
    BY <2>1 DEF Begins
  <2>3. q[i] = p[i]
    BY DEF Begins
  <2> QED
    BY <2>2, <2>3
<1> QED
  BY <1>1, <1>2 DEF Begins

\* r is q followed by x.
Joined(q, x, r) ==
    /\ Begins(q, r) /\ Len(r) = Len(q) + Len(x) /\ Len(q) \in Nat /\ Len(x) \in Nat
    /\ DOMAIN q = 1 .. Len(q) /\ DOMAIN x = 1 .. Len(x) /\ DOMAIN r = 1 .. Len(r)
    /\ \A i \in 1 .. Len(x) : r[Len(q) + i] = x[i]

LEMMA TriplesOfJoined ==
  ASSUME NEW q, NEW x, NEW r, Joined(q, x, r)
  PROVE  Triples(r) = Triples(q) \cup Triples(x)
<1>1. /\ Begins(q, r) /\ Len(r) = Len(q) + Len(x) /\ Len(q) \in Nat /\ Len(x) \in Nat
      /\ DOMAIN q = 1 .. Len(q) /\ DOMAIN x = 1 .. Len(x) /\ DOMAIN r = 1 .. Len(r)
      /\ \A i \in 1 .. Len(x) : r[Len(q) + i] = x[i]
  BY DEF Joined
<1>2. ASSUME NEW i \in DOMAIN r PROVE Triple(r[i]) \in Triples(q) \cup Triples(x)
  <2>1. CASE i <= Len(q)
    BY <1>1, <2>1 DEF Begins, Triples
  <2>2. CASE ~(i <= Len(q))
    <3>1. PICK j : j = i - Len(q)
      OBVIOUS
    <3>2. j \in DOMAIN x /\ Len(q) + j = i
      BY <1>1, <2>2, <3>1
    <3>3. r[i] = x[j]
      BY <1>1, <3>2
    <3> QED
      BY <3>2, <3>3 DEF Triples
  <2> QED
    BY <2>1, <2>2
<1>3. ASSUME NEW i \in DOMAIN q PROVE Triple(q[i]) \in Triples(r)
  BY <1>1 DEF Begins, Triples
<1>4. ASSUME NEW i \in DOMAIN x PROVE Triple(x[i]) \in Triples(r)
  <2>1. PICK j : j = Len(q) + i
    OBVIOUS
  <2>2. j \in DOMAIN r /\ r[j] = x[i]
    BY <1>1, <2>1
  <2> QED
    BY <2>2 DEF Triples
<1>5. \A z : z \in Triples(r) => z \in Triples(q) \cup Triples(x)
  BY <1>2 DEF Triples
<1>6. \A z : z \in Triples(q) => z \in Triples(r)
  BY <1>3 DEF Triples
<1>7. \A z : z \in Triples(x) => z \in Triples(r)
  BY <1>4 DEF Triples
<1> QED
  BY <1>5, <1>6, <1>7

\* Breaks of c, each of another swing, and the swings are in K.
Proper(c, q, K) == q \in Seq(Rows(c)) /\ Distinct(q) /\ Backed(q, K)

\* What candle t breaks is not in K but in the larger M.
Fresh(c, kind, t, b, K, M) ==
    /\ K \subseteq ConfirmedSwings(c) /\ K \subseteq M
    /\ Breaks(c, kind, t, b.broken) => Met(c, kind, t) \notin K /\ Met(c, kind, t) \in M

\* r goes on from q with x.
Grown(q, x, r) == Begins(q, r) /\ Triples(r) = Triples(q) \cup Triples(x)

\* A break of a swing that no earlier break belongs to keeps the breaks distinct.
LEMMA AddBreak ==
  ASSUME NEW c, Len(c) \in Nat, NEW t, t \in 1 .. Len(c), NEW kind, kind \in {"HIGH", "LOW"},
         NEW b, b.bias \in Biases, NEW q, NEW K, NEW M, Proper(c, q, K), Fresh(c, kind, t, b, K, M),
         NEW r, r = q \o New(c, kind, t, b)
  PROVE  Proper(c, r, M) /\ Grown(q, New(c, kind, t, b), r)
<1>0. /\ K \subseteq ConfirmedSwings(c) /\ q \in Seq(Rows(c)) /\ Distinct(q) /\ Backed(q, K)
      /\ Breaks(c, kind, t, b.broken) => Met(c, kind, t) \notin K
      /\ K \subseteq M /\ (Breaks(c, kind, t, b.broken) => Met(c, kind, t) \in M)
  BY DEF Proper, Fresh
<1>1. PICK x : x = New(c, kind, t, b)
  OBVIOUS
<1>2. x \in Seq(Rows(c))
  <2>1. Breaks(c, kind, t, b.broken) => Found(c, kind, t, b.bias) \in Rows(c)
    BY FoundIsRow DEF Breaks
  <2>2. \A R : << >> \in Seq(R) /\ \A e \in R : <<e>> \in Seq(R)
    OBVIOUS
  <2> QED
    BY <1>1, <2>1, <2>2 DEF New
<1>3. r \in Seq(Rows(c)) /\ Joined(q, x, r)
  BY <1>0, <1>1, <1>2 DEF Begins, Joined
<1>4. Triples(r) = Triples(q) \cup Triples(x)
  BY <1>3, TriplesOfJoined
<1>5. CASE ~Breaks(c, kind, t, b.broken)
  <2>1. x = << >> /\ Len(x) = 0
    BY <1>1, <1>5 DEF New
  <2>2. DOMAIN r = DOMAIN q /\ \A i \in DOMAIN q : r[i] = q[i]
    BY <1>3, <2>1 DEF Begins, Joined
  <2>3. Distinct(r) /\ Backed(r, M)
    BY <1>0, <2>2 DEF Distinct, Backed
  <2> QED
    BY <1>1, <1>3, <1>4, <2>3 DEF Joined, Proper, Grown
<1>6. CASE Breaks(c, kind, t, b.broken)
  <2>1. PICK s : s = Met(c, kind, t)
    OBVIOUS
  <2>2. s \in ConfirmedSwings(c) /\ s.kind = kind /\ s \notin K /\ s \in M
    <3>1. t \in Nat
      OBVIOUS
    <3> QED
      BY <1>0, <1>6, <2>1, <3>1, LevelIs DEF Breaks, Met, Level
  <2>3. x = <<Found(c, kind, t, b.bias)>> /\ Len(x) = 1 /\ x[1] = Found(c, kind, t, b.bias)
    BY <1>1, <1>6 DEF New
  <2>4. x[1].swing = s.index /\ x[1].direction = Toward(kind)
    BY <2>1, <2>3 DEF Found, Break
  <2>5. PICK n : n = Len(q) + 1
    OBVIOUS
  <2>6. /\ DOMAIN r = DOMAIN q \cup {n} /\ n \notin DOMAIN q
        /\ r[n].swing = s.index /\ r[n].direction = Toward(kind)
        /\ \A i \in DOMAIN q : r[i] = q[i]
    BY <1>3, <2>3, <2>4, <2>5 DEF Begins, Joined
  <2>7. ASSUME NEW i \in DOMAIN q PROVE q[i].swing # s.index \/ q[i].direction # Toward(kind)
    <3>1. PICK o \in K : o.index = q[i].swing /\ Toward(o.kind) = q[i].direction
      BY <1>0 DEF Backed
    <3>2. o.kind \in {"HIGH", "LOW"} /\ (o.kind = s.kind /\ o.index = s.index => o = s)
      BY <1>0, <2>2, <3>1, SwingTypes
    <3>3. Toward(o.kind) = Toward(kind) => o.kind = kind
      BY <3>2 DEF Toward
    <3> QED
      BY <2>2, <3>1, <3>2, <3>3
  <2>8. Distinct(r)
    BY <1>0, <2>6, <2>7 DEF Distinct
  <2>9. Backed(r, M)
    <3>1. ASSUME NEW i \in DOMAIN q
          PROVE  \E o \in M : o.index = r[i].swing /\ Toward(o.kind) = r[i].direction
      BY <1>0, <2>6 DEF Backed
    <3>2. s \in M /\ s.index = r[n].swing /\ Toward(s.kind) = r[n].direction
      BY <2>2, <2>6
    <3> QED
      BY <2>6, <3>1, <3>2 DEF Backed
  <2> QED
    BY <1>1, <1>3, <1>4, <2>8, <2>9 DEF Joined, Proper, Grown
<1> QED
  BY <1>5, <1>6

\* The first closes beyond the levels of candle t
Expect(c, t) ==
    {<<t, s.index, Toward(s.kind)>> :
        s \in {s \in Known(c, "HIGH", t) \cup Known(c, "LOW", t) :
                 s = Latest(Known(c, s.kind, t)) /\ First(c, t, s)}}

\* A candle adds the breaks that are expected of it.
LEMMA NewIs ==
  ASSUME NEW c, Len(c) \in Nat, NEW t, t \in 1 .. Len(c), NEW b, BrokenIs(c, t - 1, b)
  PROVE  Triples(New(c, "HIGH", t, b)) \cup Triples(New(c, "LOW", t, b)) = Expect(c, t)
<1>0. t \in Nat
  OBVIOUS
<1>1. ASSUME NEW kind, Known(c, kind, t) # {}
      PROVE  Level(c, t, Met(c, kind, t)) /\ Met(c, kind, t).kind = kind
  BY <1>0, <1>1, LevelIs DEF Met
<1>2. ASSUME NEW kind
      PROVE  Breaks(c, kind, t, b.broken)
                <=> Known(c, kind, t) # {} /\ First(c, t, Met(c, kind, t))
  BY <1>1, BreakIsFirst DEF Breaks
<1>3. ASSUME NEW kind, NEW z
      PROVE  z \in Triples(New(c, kind, t, b)) <=>
                Breaks(c, kind, t, b.broken) /\ z = <<t, Met(c, kind, t).index, Toward(kind)>>
  <2>1. PICK e : e = Found(c, kind, t, b.bias)
    OBVIOUS
  <2>2. Triple(e) = <<t, Met(c, kind, t).index, Toward(kind)>>
    BY <2>1 DEF Found, Break, Triple
  <2>3. CASE Breaks(c, kind, t, b.broken)
    <3>1. PICK x : x = <<e>>
      OBVIOUS
    <3>2. DOMAIN x = {1} /\ x[1] = e
      BY <3>1
    <3>3. New(c, kind, t, b) = x
      BY <2>1, <2>3, <3>1 DEF New
    <3>4. Triples(x) = {Triple(e)}
      BY <3>2 DEF Triples
    <3> QED
      BY <2>2, <2>3, <3>3, <3>4
  <2>4. CASE ~Breaks(c, kind, t, b.broken)
    <3>1. New(c, kind, t, b) = << >>
      BY <2>4 DEF New
    <3>2. Triples(<< >>) = {}
      BY DEF Triples
    <3> QED
      BY <2>4, <3>1, <3>2
  <2> QED
    BY <2>3, <2>4
<1>4. ASSUME NEW s, s \in Known(c, "HIGH", t) \cup Known(c, "LOW", t), s = Latest(Known(c, s.kind, t))
      PROVE  \/ s.kind = "HIGH" /\ s = Met(c, "HIGH", t) /\ Known(c, "HIGH", t) # {}
             \/ s.kind = "LOW" /\ s = Met(c, "LOW", t) /\ Known(c, "LOW", t) # {}
  BY <1>4 DEF Known, Of, Met
<1>5. ASSUME NEW kind \in {"HIGH", "LOW"}, Known(c, kind, t) # {}
      PROVE  /\ Met(c, kind, t) \in Known(c, kind, t)
             /\ Met(c, kind, t) = Latest(Known(c, Met(c, kind, t).kind, t))
  BY <1>1, <1>5 DEF Level, Known, Of
<1>6. ASSUME NEW z, z \in Expect(c, t)
      PROVE  z \in Triples(New(c, "HIGH", t, b)) \cup Triples(New(c, "LOW", t, b))
  <2>1. PICK s : /\ s \in Known(c, "HIGH", t) \cup Known(c, "LOW", t)
                 /\ s = Latest(Known(c, s.kind, t)) /\ First(c, t, s)
                 /\ z = <<t, s.index, Toward(s.kind)>>
    BY <1>6 DEF Expect
  <2> QED
    BY <1>2, <1>3, <1>4, <2>1
<1>7. ASSUME NEW kind \in {"HIGH", "LOW"}, NEW z, z \in Triples(New(c, kind, t, b))
      PROVE  z \in Expect(c, t)
  <2>1. PICK s : s = Met(c, kind, t)
    OBVIOUS
  <2>2. /\ z = <<t, s.index, Toward(kind)>> /\ Known(c, kind, t) # {} /\ First(c, t, s)
    BY <1>2, <1>3, <1>7, <2>1
  <2>3. s.kind = kind /\ s \in Known(c, kind, t) /\ s = Latest(Known(c, s.kind, t))
    BY <1>1, <1>5, <2>1, <2>2
  <2> QED
    BY <2>2, <2>3 DEF Expect
<1> QED
  BY <1>6, <1>7

\* After t candles the breaks are the first closes beyond a level, each once.
EventsAre(c, t, w) ==
    /\ Triples(w.events) = UNION {Expect(c, u) : u \in 1 .. t}
    /\ Distinct(w.events) /\ Backed(w.events, w.broken)

LEMMA VisitEvents ==
  ASSUME NEW c, Len(c) \in Nat, NEW t, t \in 1 .. Len(c), NEW b, BrokenIs(c, t - 1, b),
         EventsAre(c, t - 1, b), NEW v, v = Visited(c, ConfirmedSwings(c), t, b)
  PROVE  EventsAre(c, t, v) /\ Begins(b.events, v.events)
<1>0. t \in Nat /\ b.bias \in Biases /\ b.events \in Seq(Rows(c)) /\ b.broken \subseteq ConfirmedSwings(c)
  BY DEF BrokenIs
<1>1. PICK q : q = b.events \o New(c, "HIGH", t, b)
  OBVIOUS
<1>10. t \in Nat /\ "HIGH" \in {"HIGH", "LOW"} /\ "LOW" \in {"HIGH", "LOW"} /\ b.bias \in Biases
  BY <1>0
<1>2. v.events = q \o New(c, "LOW", t, b)
  BY <1>0, <1>1, VisitedEvents
<1>3. PICK K : K = b.broken \cup {s \in {Met(c, "HIGH", t)} : Breaks(c, "HIGH", t, b.broken)}
  OBVIOUS
<1>4. Fresh(c, "HIGH", t, b, b.broken, K)
  BY <1>0, <1>3 DEF Fresh, Breaks
<1>5. Fresh(c, "LOW", t, b, K, v.broken)
  <2>1. ASSUME NEW kind, Breaks(c, kind, t, b.broken) PROVE Met(c, kind, t).kind = kind
    BY <1>0, <2>1, LevelIs DEF Met, Breaks
  <2>2. v.broken \subseteq ConfirmedSwings(c)
    BY ZenonT(40), <1>0, VisitBreaks
  <2>3. \A s : s \in v.broken <=> \/ s \in b.broken
                                  \/ Breaks(c, "HIGH", t, b.broken) /\ s = Met(c, "HIGH", t)
                                  \/ Breaks(c, "LOW", t, b.broken) /\ s = Met(c, "LOW", t)
    <3>1. BrokenStep(c, t, b, v)
      BY <1>10, VisitedBroken
    <3> QED
      BY <3>1 DEF BrokenStep
  <2>4. K \subseteq v.broken /\ K \subseteq ConfirmedSwings(c)
    BY <1>3, <2>2, <2>3
  <2>5. Breaks(c, "LOW", t, b.broken) => Met(c, "LOW", t) \notin K /\ Met(c, "LOW", t) \in v.broken
    BY <1>3, <2>1, <2>3 DEF Breaks
  <2> QED
    BY <2>4, <2>5 DEF Fresh
<1>6. Proper(c, q, K) /\ Grown(b.events, New(c, "HIGH", t, b), q)
  <2>1. Proper(c, b.events, b.broken)
    BY <1>0 DEF Proper, EventsAre
  <2> QED
    BY <1>10, <1>1, <1>4, <2>1, AddBreak
<1>7. Proper(c, v.events, v.broken) /\ Grown(q, New(c, "LOW", t, b), v.events)
  BY <1>10, <1>2, <1>5, <1>6, AddBreak
<1>8. Begins(b.events, v.events)
  <2>1. Len(b.events) \in Nat /\ Len(q) \in Nat /\ Len(v.events) \in Nat
    BY <1>0, <1>6, <1>7 DEF Proper
  <2> QED
    BY <1>6, <1>7, <2>1, BeginsChain DEF Grown
<1>9. Triples(v.events) = UNION {Expect(c, u) : u \in 1 .. t}
  <2>1. Triples(v.events) = Triples(b.events) \cup Expect(c, t)
    BY <1>6, <1>7, NewIs DEF Grown
  <2>2. 1 .. t = 1 .. t - 1 \cup {t}
    BY <1>0
  <2>3. Triples(b.events) = UNION {Expect(c, u) : u \in 1 .. t - 1}
    BY DEF EventsAre
  <2> QED
    BY <2>1, <2>2, <2>3
<1> QED
  BY <1>7, <1>8, <1>9 DEF EventsAre, Proper

LEMMA WalkEvents ==
  ASSUME NEW c, Len(c) \in Nat
  PROVE  \A t \in 0 .. Len(c) : EventsAre(c, t, Walk(c, ConfirmedSwings(c))[t])
<1>1. PICK w : w = Walk(c, ConfirmedSwings(c))
  OBVIOUS
<1>2. w[0] = Unwalked /\ \A t \in 1 .. Len(c) : w[t] = Visited(c, ConfirmedSwings(c), t, w[t - 1])
  BY <1>1, WalkSteps
<1> DEFINE T == {t \in Nat : t <= Len(c) => EventsAre(c, t, w[t])}
<1>3. 0 \in T
  <2>1. w[0].events = << >> /\ 1 .. 0 = {}
    BY <1>2 DEF Unwalked
  <2>2. Triples(<< >>) = {} /\ Distinct(<< >>) /\ Backed(<< >>, w[0].broken)
    BY DEF Triples, Distinct, Backed
  <2>3. UNION {Expect(c, u) : u \in 1 .. 0} = {}
    BY <2>1
  <2>4. EventsAre(c, 0, w[0])
    BY <2>1, <2>2, <2>3 DEF EventsAre
  <2> QED
    BY <2>4
<1>4. ASSUME NEW t \in Nat, t \in T PROVE t + 1 \in T
  <2> SUFFICES ASSUME t + 1 <= Len(c) PROVE EventsAre(c, t + 1, w[t + 1])
    OBVIOUS
  <2>1. PICK n : n = t + 1
    OBVIOUS
  <2>2. n \in 1 .. Len(c) /\ n - 1 = t /\ t \in 0 .. Len(c)
    BY <2>1
  <2>3. EventsAre(c, n - 1, w[t]) /\ w[n] = Visited(c, ConfirmedSwings(c), n, w[t])
    BY <1>2, <1>4, <2>2
  <2>4. BrokenIs(c, n - 1, w[t])
    BY <1>1, <2>2, WalkBreaks
  <2> QED
    BY <2>1, <2>2, <2>3, <2>4, VisitEvents
<1> HIDE DEF T
<1>5. Nat \subseteq T
  BY <1>3, <1>4, NatInd
<1> QED
  BY <1>1, <1>5 DEF T

\* Later candles only add breaks at the end.
LEMMA WalkGrows ==
  ASSUME NEW c, Len(c) \in Nat, NEW n \in 0 .. Len(c)
  PROVE  Begins(Walk(c, ConfirmedSwings(c))[n].events, Walk(c, ConfirmedSwings(c))[Len(c)].events)
<1>1. PICK w : w = Walk(c, ConfirmedSwings(c))
  OBVIOUS
<1>2. \A t \in 1 .. Len(c) : w[t] = Visited(c, ConfirmedSwings(c), t, w[t - 1])
  BY <1>1, WalkSteps
<1>3. \A t \in 0 .. Len(c) : BrokenIs(c, t, w[t]) /\ EventsAre(c, t, w[t])
  BY <1>1, WalkBreaks, WalkEvents
<1>4. \A t \in 0 .. Len(c) : Len(w[t].events) \in Nat
  BY <1>3 DEF BrokenIs
<1> DEFINE T == {k \in Nat : n + k <= Len(c) => Begins(w[n].events, w[n + k].events)}
<1>5. 0 \in T
  <2>1. n + 0 = n /\ Len(w[n].events) \in Nat
    BY <1>4
  <2>2. Begins(w[n].events, w[n].events)
    BY <2>1 DEF Begins
  <2> QED
    BY <2>1, <2>2
<1>6. ASSUME NEW k \in Nat, k \in T PROVE k + 1 \in T
  <2> SUFFICES ASSUME n + (k + 1) <= Len(c) PROVE Begins(w[n].events, w[n + (k + 1)].events)
    OBVIOUS
  <2>1. PICK t : t = n + (k + 1)
    OBVIOUS
  <2>2. t \in 1 .. Len(c) /\ t - 1 = n + k /\ t - 1 \in 0 .. Len(c) /\ t \in 0 .. Len(c)
    BY <2>1
  <2>3. Begins(w[n].events, w[t - 1].events)
    BY <1>6, <2>2
  <2>4. Begins(w[t - 1].events, w[t].events)
    BY <1>2, <1>3, <2>2, VisitEvents
  <2> QED
    BY <1>4, <2>1, <2>2, <2>3, <2>4, BeginsChain
<1> HIDE DEF T
<1>7. Nat \subseteq T
  BY <1>5, <1>6, NatInd
<1>8. Len(c) - n \in Nat /\ n + (Len(c) - n) = Len(c)
  OBVIOUS
<1> QED
  BY <1>1, <1>7, <1>8 DEF T

-----------------------------------------------------------------------------
(* The feed and the scan.                                                  *)

\* What was derived last was derived from the first candles of the history.
StructureInv ==
    /\ history \in Seq(Candles) /\ forming \in Candles /\ snapshots \in Seq(Candles)
    /\ Begins(snapshots, history)
    /\ analysis.bars \in 0 .. Len(history)
    /\ analysis = AnalyzeStructure(SubSeq(history, 1, analysis.bars))

LEMMA FirstCandles ==
  ASSUME NEW c, c \in Seq(Candles), NEW n, n \in 0 .. Len(c), NEW d, d = SubSeq(c, 1, n)
  PROVE  /\ Len(c) \in Nat /\ d \in Seq(Candles) /\ Len(d) = n /\ Len(d) \in Nat /\ Len(d) <= Len(c)
         /\ \A i \in 1 .. Len(d) : d[i] = c[i]
OBVIOUS

LEMMA AllCandles ==
  ASSUME NEW c, c \in Seq(Candles)
  PROVE  SubSeq(c, 1, Len(c)) = c
OBVIOUS

LEMMA InitStructure == StructureInit => StructureInv
<1> SUFFICES ASSUME StructureInit PROVE StructureInv
  OBVIOUS
<1>1. /\ history = << >> /\ snapshots = << >> /\ forming \in Candles
      /\ analysis = AnalyzeStructure(<< >>)
  BY DEF StructureInit
<1>2. Len(<< >>) = 0 /\ << >> \in Seq(Candles) /\ SubSeq(<< >>, 1, 0) = << >> /\ 0 \in 0 .. 0
  OBVIOUS
<1>3. analysis.bars = 0
  BY <1>1, <1>2 DEF AnalyzeStructure
<1>4. Begins(snapshots, history)
  BY <1>1, <1>2 DEF Begins
<1>5. history \in Seq(Candles) /\ snapshots \in Seq(Candles) /\ analysis.bars \in 0 .. Len(history)
  BY <1>1, <1>2, <1>3
<1>6. SubSeq(history, 1, analysis.bars) = << >>
  BY <1>1, <1>2, <1>3
<1>7. analysis = AnalyzeStructure(SubSeq(history, 1, analysis.bars))
  BY <1>1, <1>6
<1> QED
  BY <1>1, <1>4, <1>5, <1>7 DEF StructureInv

LEMMA NextStructure ==
  ASSUME ClosedOnly = TRUE PROVE StructureInv /\ [StructureNext]_structureVars => StructureInv'
<1> SUFFICES ASSUME StructureInv, [StructureNext]_structureVars PROVE StructureInv'
  OBVIOUS
<1>0. /\ history \in Seq(Candles) /\ forming \in Candles /\ snapshots \in Seq(Candles)
      /\ Begins(snapshots, history)
      /\ analysis.bars \in 0 .. Len(history) /\ Len(history) \in Nat
      /\ analysis = AnalyzeStructure(SubSeq(history, 1, analysis.bars))
  BY DEF StructureInv
<1>1. CASE CandleCloses
  <2>1. history' = Append(history, forming) /\ UNCHANGED <<forming, snapshots, analysis>>
    BY <1>1 DEF CandleCloses
  <2>2. history' \in Seq(Candles) /\ Len(history') = Len(history) + 1
        /\ \A i \in 1 .. Len(history) : history'[i] = history[i]
    BY <1>0, <2>1
  <2>3. Begins(snapshots, history')
    <3>1. PICK k, n : k = Len(snapshots) /\ n = Len(history)
      OBVIOUS
    <3>2. k \in Nat /\ n \in Nat /\ k <= n /\ \A i \in 1 .. k : history[i] = snapshots[i]
      BY <1>0, <3>1 DEF Begins
    <3>3. k <= n + 1 /\ \A i \in 1 .. k : i \in 1 .. n
      BY <3>2
    <3>4. \A i \in 1 .. k : history'[i] = snapshots[i]
      BY <2>2, <3>1, <3>2, <3>3
    <3> QED
      BY <2>2, <3>1, <3>3, <3>4 DEF Begins
  <2>4. SubSeq(history', 1, analysis.bars) = SubSeq(history, 1, analysis.bars)
    BY <1>0, <2>2
  <2>5. analysis' = analysis /\ forming' = forming /\ snapshots' = snapshots
    BY <2>1
  <2>6. analysis.bars \in 0 .. Len(history')
    BY <1>0, <2>2
  <2>7. analysis = AnalyzeStructure(SubSeq(history', 1, analysis.bars))
    BY <1>0, <2>4
  <2> QED
    BY <1>0, <2>2, <2>3, <2>5, <2>6, <2>7 DEF StructureInv
<1>2. CASE Scan
  <2>1. /\ snapshots' = snapshots \o SubSeq(history, Len(snapshots) + 1, Len(history))
        /\ analysis' = AnalyzeStructure(history) /\ UNCHANGED <<history, forming>>
    BY <1>0, <1>2, AllCandles DEF Scan, Saved, Reported, ClosedCandles
  <2>2. snapshots' = history
    <3>1. PICK k, n : k = Len(snapshots) /\ n = Len(history)
      OBVIOUS
    <3>2. k \in Nat /\ n \in Nat /\ k <= n /\ \A i \in 1 .. k : history[i] = snapshots[i]
      BY <1>0, <3>1 DEF Begins
    <3>3. PICK x : x = SubSeq(history, k + 1, n)
      OBVIOUS
    <3>4. x \in Seq(Candles) /\ Len(x) = n - k /\ \A i \in 1 .. n - k : x[i] = history[k + i]
      BY <1>0, <3>1, <3>2, <3>3
    <3>5. snapshots' = snapshots \o x
      BY <2>1, <3>1, <3>3
    <3>6. Len(snapshots') = n /\ snapshots' \in Seq(Candles)
      <4>1. snapshots \in Seq(Candles) /\ x \in Seq(Candles)
        BY <1>0, <3>4
      <4>2. snapshots \o x \in Seq(Candles) /\ Len(snapshots \o x) = Len(snapshots) + Len(x)
        BY <4>1
      <4>3. k + (n - k) = n
        BY <3>2
      <4> QED
        BY <3>1, <3>4, <3>5, <4>2, <4>3
    <3>7. ASSUME NEW i \in 1 .. n PROVE snapshots'[i] = history[i]
      <4>1. CASE i <= k
        BY <1>0, <3>1, <3>2, <3>4, <3>5, <4>1
      <4>2. CASE ~(i <= k)
        <5>1. i - k \in 1 .. n - k /\ k + (i - k) = i
          BY <3>2, <4>2
        <5>2. snapshots'[i] = x[i - k]
          BY <1>0, <3>1, <3>2, <3>4, <3>5, <4>2
        <5> QED
          BY <3>4, <5>1, <5>2
      <4> QED
        BY <4>1, <4>2
    <3> QED
      BY <1>0, <3>1, <3>6, <3>7
  <2>3. analysis'.bars = Len(history)
    BY <2>1 DEF AnalyzeStructure
  <2>4. Begins(history, history)
    BY <1>0 DEF Begins
  <2>5. Len(history) \in 0 .. Len(history) /\ SubSeq(history, 1, Len(history)) = history
    BY <1>0, AllCandles
  <2> QED
    BY <1>0, <2>1, <2>2, <2>3, <2>4, <2>5 DEF StructureInv
<1>3. CASE \E k \in Candles : Forms(k)
  BY <1>0, <1>3 DEF Forms, StructureInv
<1>4. CASE UNCHANGED structureVars
  BY <1>0, <1>4 DEF structureVars, StructureInv
<1> QED
  BY <1>1, <1>2, <1>3, <1>4 DEF StructureNext

LEMMA BeginsIsPrefix ==
  ASSUME NEW S, NEW q \in Seq(S), NEW r \in Seq(S), Begins(q, r)
  PROVE  IsPrefix(q, r)
<1>1. PICK n : n = Len(q)
  OBVIOUS
<1>2. n \in Nat /\ n <= Len(r) /\ Len(r) \in Nat /\ \A i \in 1 .. n : r[i] = q[i]
  BY <1>1 DEF Begins
<1>3. SubSeq(q, 1, n) \in Seq(S) /\ Len(SubSeq(q, 1, n)) = n /\ \A i \in 1 .. n : SubSeq(q, 1, n)[i] = q[i]
  BY <1>1, <1>2
<1>4. SubSeq(r, 1, n) \in Seq(S) /\ Len(SubSeq(r, 1, n)) = n /\ \A i \in 1 .. n : SubSeq(r, 1, n)[i] = r[i]
  BY <1>2
<1>5. SubSeq(q, 1, n) = SubSeq(r, 1, n)
  BY <1>2, <1>3, <1>4
<1> QED
  BY <1>1, <1>2, <1>5 DEF IsPrefix

\* What an analysis of the first candles reports, in terms of the walk over all.
LEMMA AnalysisOf ==
  ASSUME NEW c, Len(c) \in Nat, NEW d, Len(d) \in Nat, Len(d) <= Len(c),
         \A i \in 1 .. Len(d) : d[i] = c[i], NEW a, a = AnalyzeStructure(d)
  PROVE  /\ a.swings = ConfirmedSwings(d) /\ a.bars = Len(d)
         /\ a.breaks = Walk(c, ConfirmedSwings(c))[Len(d)].events
         /\ a.breaks = Walk(d, ConfirmedSwings(d))[Len(d)].events
<1>1. /\ a.swings = ConfirmedSwings(d) /\ a.bars = Len(d)
      /\ a.breaks = Walk(d, ConfirmedSwings(d))[Len(d)].events
  BY DEF AnalyzeStructure, StructureBreaks
<1>2. Len(d) \in 0 .. Len(d)
  OBVIOUS
<1>3. Walk(d, ConfirmedSwings(d))[Len(d)] = Walk(c, ConfirmedSwings(c))[Len(d)]
  BY <1>2, WalkOfPrefix
<1> QED
  BY <1>1, <1>3

\* The candle that breaks a level is the first to close beyond it, in the history as
\* in the candles that were analysed.
LEMMA FirstCloseIs ==
  ASSUME NEW d, Len(d) \in Nat, \A i \in 1 .. Len(d) : d[i] = history[i],
         NEW t \in 1 .. Len(d), NEW s \in ConfirmedSwings(d)
  PROVE  FirstClose(t, s) <=> First(d, t, s)
<1>1. s.confirmed \in Nat /\ 0 < s.confirmed
  BY SwingTypes
<1>2. d[t] = history[t] /\ \A u \in s.confirmed .. t - 1 : d[u] = history[u]
  BY <1>1
<1> QED
  BY <1>2 DEF FirstClose, First, Beyond

LEMMA TruthOfInv == StructureInv => StructureIsTrue
<1> SUFFICES ASSUME StructureInv PROVE StructureIsTrue
  OBVIOUS
<1>0. /\ history \in Seq(Candles) /\ snapshots \in Seq(Candles) /\ Begins(snapshots, history)
      /\ analysis.bars \in 0 .. Len(history)
      /\ analysis = AnalyzeStructure(SubSeq(history, 1, analysis.bars))
  BY DEF StructureInv
<1>1. SnapshotsAreFinal
  BY <1>0, BeginsIsPrefix DEF SnapshotsAreFinal
<1>2. PICK d : d = SubSeq(history, 1, analysis.bars)
  OBVIOUS
<1>3. /\ Len(history) \in Nat /\ Len(d) = analysis.bars /\ Len(d) \in Nat /\ Len(d) <= Len(history)
      /\ \A i \in 1 .. Len(d) : d[i] = history[i]
  BY <1>0, <1>2, FirstCandles
<1>4. PICK w : w = Walk(d, ConfirmedSwings(d))[Len(d)]
  OBVIOUS
<1>5. analysis.swings = ConfirmedSwings(d) /\ analysis.breaks = w.events
  BY <1>0, <1>2, <1>3, <1>4, AnalysisOf
<1>6. Len(d) \in 0 .. Len(d)
  BY <1>3
<1>7. EventsAre(d, Len(d), w)
  BY <1>3, <1>4, <1>6, WalkEvents
<1>8. ASSUME NEW t \in 1 .. analysis.bars
      PROVE  Expect(d, t)
             = {<<t, s.index, IF s.kind = "HIGH" THEN "BULLISH" ELSE "BEARISH">> :
                   s \in {s \in Confirmed("HIGH", t) \cup Confirmed("LOW", t) :
                            s = Latest(Confirmed(s.kind, t)) /\ FirstClose(t, s)}}
  <2>1. t \in 1 .. Len(d)
    BY <1>3
  <2>2. \A kind : Confirmed(kind, t) = Known(d, kind, t)
    BY <1>5 DEF Confirmed, Known
  <2>3. \A s \in ConfirmedSwings(d) : FirstClose(t, s) <=> First(d, t, s)
    BY <1>3, <2>1, FirstCloseIs
  <2>4. \A s \in Known(d, "HIGH", t) \cup Known(d, "LOW", t) : s \in ConfirmedSwings(d)
    BY DEF Known, Of
  <2>5. {s \in Known(d, "HIGH", t) \cup Known(d, "LOW", t) : s = Latest(Known(d, s.kind, t)) /\ First(d, t, s)}
        = {s \in Confirmed("HIGH", t) \cup Confirmed("LOW", t) :
             s = Latest(Confirmed(s.kind, t)) /\ FirstClose(t, s)}
    BY <2>2, <2>3, <2>4
  <2> QED
    BY <2>5 DEF Expect, Toward
<1>9. UNION {Expect(d, t) : t \in 1 .. Len(d)}
      = UNION {{<<t, s.index, IF s.kind = "HIGH" THEN "BULLISH" ELSE "BEARISH">> :
                  s \in {s \in Confirmed("HIGH", t) \cup Confirmed("LOW", t) :
                           s = Latest(Confirmed(s.kind, t)) /\ FirstClose(t, s)}} :
               t \in 1 .. analysis.bars}
  BY <1>3, <1>8
<1>10. BreaksAreFirstCrossings
  BY <1>5, <1>7, <1>9 DEF BreaksAreFirstCrossings, EventsAre, Triples, Triple, Distinct
<1> QED
  BY <1>1, <1>10 DEF StructureIsTrue

\* A later scan keeps the swings and continues the breaks.
LEMMA ScanContinues ==
  ASSUME NEW c, c \in Seq(Candles), NEW n, n \in 0 .. Len(c), NEW a, NEW b,
         a = AnalyzeStructure(SubSeq(c, 1, n)), b = AnalyzeStructure(c)
  PROVE  a.swings \subseteq b.swings /\ IsPrefix(a.breaks, b.breaks)
<1>1. PICK d : d = SubSeq(c, 1, n)
  OBVIOUS
<1>2. /\ Len(c) \in Nat /\ Len(d) = n /\ Len(d) \in Nat /\ Len(d) <= Len(c)
      /\ \A i \in 1 .. Len(d) : d[i] = c[i]
  BY <1>1, FirstCandles
<1>3. PICK w : w = Walk(c, ConfirmedSwings(c))
  OBVIOUS
<1>4. a.swings = ConfirmedSwings(d) /\ a.breaks = w[n].events
  <2>1. a = AnalyzeStructure(d)
    BY <1>1
  <2>2. a.swings = ConfirmedSwings(d) /\ a.breaks = Walk(c, ConfirmedSwings(c))[Len(d)].events
    BY <1>2, <2>1, AnalysisOf
  <2> QED
    BY <1>2, <1>3, <2>2
<1>5. b.swings = ConfirmedSwings(c) /\ b.breaks = w[Len(c)].events
  BY <1>3 DEF AnalyzeStructure, StructureBreaks
<1>6. ConfirmedSwings(d) \subseteq ConfirmedSwings(c)
  BY <1>2, SwingsOfPrefix
<1>7. Begins(w[n].events, w[Len(c)].events)
  BY <1>2, <1>3, WalkGrows
<1>8. n \in 0 .. Len(c) /\ Len(c) \in 0 .. Len(c)
  BY <1>2
<1>9. BrokenIs(c, n, w[n]) /\ BrokenIs(c, Len(c), w[Len(c)])
  BY <1>2, <1>3, <1>8, WalkBreaks
<1>10. w[n].events \in Seq(Rows(c)) /\ w[Len(c)].events \in Seq(Rows(c))
  BY <1>9 DEF BrokenIs
<1>11. IsPrefix(w[n].events, w[Len(c)].events)
  BY <1>7, <1>10, BeginsIsPrefix
<1> QED
  BY <1>4, <1>5, <1>6, <1>11

\* An analysis continues itself.
LEMMA ScanStays ==
  ASSUME StructureInv
  PROVE  IsPrefix(analysis.breaks, analysis.breaks)
<1>1. PICK d : d = SubSeq(history, 1, analysis.bars)
  OBVIOUS
<1>2. d \in Seq(Candles) /\ Len(d) \in Nat
  BY <1>1, FirstCandles DEF StructureInv
<1>3. analysis = AnalyzeStructure(d) /\ Len(d) \in 0 .. Len(d) /\ SubSeq(d, 1, Len(d)) = d
  BY <1>1, <1>2, AllCandles DEF StructureInv
<1> QED
  BY <1>2, <1>3, ScanContinues

\* Whatever candles come: the breaks that _structure_breaks() reports are exactly the
\* first closes beyond the latest confirmed level, none twice, and a snapshot that
\* save_market_data() stored is the candle as it closed. Given that only closed candles
\* are read, as use_closed_candles_only says unless it is changed.
THEOREM StructureIsTrueHolds ==
  ASSUME ClosedOnly = TRUE PROVE StructureSpec => []StructureIsTrue
<1>1. StructureInit => StructureInv
  BY InitStructure
<1>2. StructureInv /\ [StructureNext]_structureVars => StructureInv'
  BY NextStructure
<1>3. StructureInv => StructureIsTrue
  BY TruthOfInv
<1> QED
  BY <1>1, <1>2, <1>3, PTL DEF StructureSpec

\* Whatever candles come later, analyze_structure() withdraws no swing, and continues
\* the breaks it has reported without changing one. Given closed candles, as above.
THEOREM NoRepaintHolds ==
  ASSUME ClosedOnly = TRUE PROVE StructureSpec => NoRepaint
<1>1. StructureInit => StructureInv
  BY InitStructure
<1>2. StructureInv /\ [StructureNext]_structureVars => StructureInv'
  BY NextStructure
<1>3. ASSUME StructureInv, [StructureNext]_structureVars
      PROVE  [/\ analysis.swings \subseteq analysis'.swings
              /\ IsPrefix(analysis.breaks, analysis'.breaks)]_structureVars
  <2>1. CASE Scan
    <3>1. analysis' = AnalyzeStructure(history)
      BY <1>3, <2>1, AllCandles DEF Scan, Reported, ClosedCandles, StructureInv
    <3> QED
      BY <1>3, <3>1, ScanContinues DEF StructureInv
  <2>2. CASE ~Scan
    <3>1. analysis' = analysis
      BY <1>3, <2>2 DEF StructureNext, CandleCloses, Forms, structureVars
    <3>2. IsPrefix(analysis.breaks, analysis.breaks)
      BY <1>3, ScanStays
    <3> QED
      BY <3>1, <3>2
  <2> QED
    BY <2>1, <2>2
<1> QED
  BY <1>1, <1>2, <1>3, PTL DEF StructureSpec, NoRepaint

=============================================================================
