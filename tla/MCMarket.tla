------------------------------ MODULE MCMarket ------------------------------
(***************************************************************************)
(* Model-checking instance of the analysis and the research: the market    *)
(* structure over growing candles, the strategy, the backtest and the      *)
(* division of the data for walk-forward tests.  As in MCProgress one part *)
(* moves in a behaviour; no two share a variable.                          *)
(***************************************************************************)
EXTENDS MarketStructure, GoldStrategy, Backtest, WalkForward

VARIABLE part

Ohlc(open, high, low, close) == [open |-> open, high |-> high, low |-> low, close |-> close]

\* Two low and two high candles: rising and falling swings and breaks both ways.
StructureCandles ==
    {[high |-> 1, low |-> 0, close |-> 0], [high |-> 2, low |-> 1, close |-> 1],
     [high |-> 3, low |-> 2, close |-> 3], [high |-> 4, low |-> 3, close |-> 4]}

\* Candles that engulf, reject and do neither; spreads around the average and
\* around the maximum.
TriggerCandles ==
    {Ohlc(1, 1, 1, 1), Ohlc(1, 2, 1, 2), Ohlc(2, 2, 1, 1), Ohlc(1, 2, 0, 2),
     Ohlc(3, 4, 0, 4), Ohlc(1, 4, 0, 0)}
PriceLevels == 0 .. 3

\* A long and a short signal around one zone; candles inside it, through the stop,
\* through the target, through both, and one that lies wholly below.
ReplayCandles ==
    {Ohlc(10, 11, 10, 11), Ohlc(12, 12, 9, 9), Ohlc(12, 16, 11, 15),
     Ohlc(9, 16, 5, 10), Ohlc(4, 5, 3, 4)}

ReplaySignal(long, stop, target, life) ==
    [long |-> long, low |-> 10, high |-> 11, stop |-> stop, target |-> target,
     life |-> life, time |-> 0, expires |-> 0, seen |-> 0]
ReplaySignals == {ReplaySignal(TRUE, 7, 14, 1), ReplaySignal(FALSE, 14, 6, 2)}

-----------------------------------------------------------------------------

Init ==
    /\ part \in {"structure", "strategy", "backtest", "walk"}
    /\ StructureInit /\ StrategyInit /\ BacktestInit /\ WalkInit
    /\ part # "structure" => forming = [high |-> 1, low |-> 0, close |-> 0]

Next ==
    \/ /\ part = "structure" /\ StructureNext
       /\ UNCHANGED <<part, strategyVars, backtestVars, m5>>
    \/ /\ part = "strategy" /\ StrategyNext
       /\ UNCHANGED <<part, structureVars, backtestVars, m5>>
    \/ /\ part = "backtest" /\ BacktestNext
       /\ UNCHANGED <<part, structureVars, strategyVars, m5>>
    \/ /\ part = "walk" /\ WalkNext
       /\ UNCHANGED <<part, structureVars, strategyVars, backtestVars>>

Spec == Init /\ [][Next]_<<part, structureVars, strategyVars, backtestVars, m5>>

=============================================================================
