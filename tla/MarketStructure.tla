--------------------------- MODULE MarketStructure ---------------------------
(***************************************************************************)
(* Swings and breaks of structure over the candles of one timeframe: the   *)
(* candles the broker reports (get_candles() of app/brokers/mt5.py), those *)
(* a scan may use (closed_candles() of app/market/candles.py), the         *)
(* snapshots it stores, and the analysis of app/market/structure.py.       *)
(*                                                                         *)
(* The last candle is still forming: its high, low and close change until  *)
(* it closes.  A scan runs between any two changes.                        *)
(***************************************************************************)
EXTENDS Naturals, Sequences, FiniteSets, SequencesExt

CONSTANTS
    Candles,                \* [high, low, close] a candle may have
    LeftSpan, RightSpan,    \* config.structure_left_span, structure_right_span
    ClosedOnly,             \* settings.use_closed_candles_only
    MaxBars                 \* bound: closed candles

\* confirmed_swings() raises for a span that is not positive.
ASSUME SpanAssumption == LeftSpan \in Nat \ {0} /\ RightSpan \in Nat \ {0}

VARIABLES
    history,     \* the closed candles
    forming,     \* the candle of the running period
    snapshots,   \* rows of market_snapshots: the candle stored per period
    analysis     \* what the last scan derived

structureVars == <<history, forming, snapshots, analysis>>

-----------------------------------------------------------------------------
(* confirmed_swings().                                                     *)

HighIsSwing(c, i) ==
    /\ \A j \in i - LeftSpan .. i - 1 : c[i].high > c[j].high
    /\ \A j \in i + 1 .. i + RightSpan : c[i].high >= c[j].high
    /\ \E j \in i + 1 .. i + RightSpan : c[i].high > c[j].high

LowIsSwing(c, i) ==
    /\ \A j \in i - LeftSpan .. i - 1 : c[i].low < c[j].low
    /\ \A j \in i + 1 .. i + RightSpan : c[i].low <= c[j].low
    /\ \E j \in i + 1 .. i + RightSpan : c[i].low < c[j].low

\* Mutant: a pivot counts from its own candle on.
SwingAtOnce(kind, i, price) == [kind |-> kind, index |-> i, confirmed |-> i, price |-> price]

Swing(kind, i, price) ==
    [kind |-> kind, index |-> i, confirmed |-> i + RightSpan, price |-> price]

ConfirmedSwings(c) ==
    LET inner == LeftSpan + 1 .. Len(c) - RightSpan
    IN  {Swing("HIGH", i, c[i].high) : i \in {i \in inner : HighIsSwing(c, i)}}
        \cup {Swing("LOW", i, c[i].low) : i \in {i \in inner : LowIsSwing(c, i)}}

-----------------------------------------------------------------------------
(* _comparisons() and _bias_from_swings().                                 *)

Latest(swings) == CHOOSE s \in swings : \A o \in swings : o.index <= s.index
Earlier(swings) == Latest(swings \ {Latest(swings)})

Rising(swings)  == Cardinality(swings) >= 2 /\ Latest(swings).price > Earlier(swings).price
Falling(swings) == Cardinality(swings) >= 2 /\ Latest(swings).price < Earlier(swings).price

Bias(highs, lows) ==
    IF Rising(highs) /\ Rising(lows) THEN "BULLISH"
    ELSE IF Falling(highs) /\ Falling(lows) THEN "BEARISH"
    ELSE "RANGE"

-----------------------------------------------------------------------------
(* _structure_breaks(): one walk over the candles.                         *)

Of(swings, kind, t) == {s \in swings : s.kind = kind /\ s.confirmed <= t}

Break(direction, t, level, prior) ==
    [kind      |-> IF prior \notin {direction, "RANGE"} THEN "CHOCH" ELSE "BOS",
     direction |-> direction, index |-> t, swing |-> level.index, price |-> level.price]

\* Mutant: a level that was broken stays to be broken again.
CrossedAgain(known, broken, t, beyond) == known # {} /\ Latest(known).index < t /\ beyond

\* The latest known level is crossed by the close, for the first time.
Crossed(known, broken, t, beyond) ==
    known # {} /\ Latest(known).index < t /\ beyond /\ Latest(known) \notin broken

Unwalked == [bias |-> "RANGE", broken |-> {}, events |-> << >>]

\* One candle of the walk: the bias before it, the levels broken, the breaks so far.
Visit(highs, lows, t, close, before) ==
    LET up   == Crossed(highs, before.broken, t, close > Latest(highs).price)
        down == Crossed(lows, before.broken, t, close < Latest(lows).price)
    IN  [bias   |-> Bias(highs, lows),
         broken |-> before.broken \cup (IF up THEN {Latest(highs)} ELSE {})
                                  \cup (IF down THEN {Latest(lows)} ELSE {}),
         events |-> before.events
            \o (IF up THEN <<Break("BULLISH", t, Latest(highs), before.bias)>> ELSE << >>)
            \o (IF down THEN <<Break("BEARISH", t, Latest(lows), before.bias)>> ELSE << >>)]

Walk(c, swings) ==
    LET upTo[t \in 0 .. Len(c)] ==
          IF t = 0 THEN Unwalked
          ELSE Visit(Of(swings, "HIGH", t), Of(swings, "LOW", t), t, c[t].close, upTo[t - 1])
    IN  upTo

StructureBreaks(c, swings) == Walk(c, swings)[Len(c)].events

AnalyzeStructure(c) ==
    LET swings == ConfirmedSwings(c)
    IN  [bars |-> Len(c), swings |-> swings, breaks |-> StructureBreaks(c, swings),
         bias |-> Bias(Of(swings, "HIGH", Len(c)), Of(swings, "LOW", Len(c)))]

-----------------------------------------------------------------------------
(* The feed and the scan.                                                  *)

StructureInit ==
    /\ history = << >> /\ forming \in Candles /\ snapshots = << >>
    /\ analysis = AnalyzeStructure(<< >>)

\* The market trades within the running period.
Forms(c) ==
    /\ c # forming
    /\ forming' = c
    /\ UNCHANGED <<history, snapshots, analysis>>

CandleCloses ==
    /\ Len(history) < MaxBars
    /\ history' = Append(history, forming)
    /\ UNCHANGED <<forming, snapshots, analysis>>

\* get_candles(): from position 1 on when only closed candles are asked for
Reported == IF ClosedOnly THEN history ELSE Append(history, forming)

\* closed_candles(): a candle that has not closed by now, or that is marked
\* incomplete, is left out.
ClosedCandles == IF ClosedOnly THEN SubSeq(Reported, 1, Len(history)) ELSE Reported

\* save_market_data(): a period that has a row is passed over.
Saved == snapshots \o SubSeq(Reported, Len(snapshots) + 1, Len(Reported))

\* scan_market() up to the evaluation
Scan ==
    /\ snapshots' = Saved
    /\ analysis' = AnalyzeStructure(ClosedCandles)
    /\ UNCHANGED <<history, forming>>

StructureNext == CandleCloses \/ Scan \/ \E c \in Candles : Forms(c)

StructureSpec == StructureInit /\ [][StructureNext]_structureVars

-----------------------------------------------------------------------------
(* Properties.                                                             *)

\* Nothing that a scan derived is withdrawn or changed by candles that come
\* later: the swings stay, and the breaks of structure only grow at the end.
NoRepaint ==
    [][/\ analysis.swings \subseteq analysis'.swings
       /\ IsPrefix(analysis.breaks, analysis'.breaks)]_structureVars

Confirmed(kind, t) == Of(analysis.swings, kind, t)

FirstClose(t, s) ==
    LET beyond(u) == IF s.kind = "HIGH" THEN history[u].close > s.price
                                        ELSE history[u].close < s.price
    IN  beyond(t) /\ \A u \in s.confirmed .. t - 1 : ~beyond(u)

\* The breaks are exactly the first closes beyond a level while it is the
\* latest one that was confirmed: none is reported twice and none is missed.
BreaksAreFirstCrossings ==
    {<<analysis.breaks[i].index, analysis.breaks[i].swing, analysis.breaks[i].direction>> :
        i \in DOMAIN analysis.breaks}
    = UNION {{<<t, s.index, IF s.kind = "HIGH" THEN "BULLISH" ELSE "BEARISH">> :
                s \in {s \in Confirmed("HIGH", t) \cup Confirmed("LOW", t) :
                         s = Latest(Confirmed(s.kind, t)) /\ FirstClose(t, s)}} :
             t \in 1 .. analysis.bars}
    /\ \A i, j \in DOMAIN analysis.breaks :
         i # j => analysis.breaks[i].swing # analysis.breaks[j].swing
                  \/ analysis.breaks[i].direction # analysis.breaks[j].direction

\* A stored snapshot is the candle as it closed.
SnapshotsAreFinal == IsPrefix(snapshots, history)

\* _structure_breaks() reports exactly the first closes beyond a level while it is
\* the latest confirmed one, and a snapshot save_market_data() stored is the candle
\* as it closed.
StructureIsTrue == BreaksAreFirstCrossings /\ SnapshotsAreFinal

=============================================================================
