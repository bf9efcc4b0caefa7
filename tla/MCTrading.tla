----------------------------- MODULE MCTrading ------------------------------
(***************************************************************************)
(* Model-checking instance of the way of a trade: the signal, the symbol   *)
(* it is entered on, the gates and the size of the order, the loss budget, *)
(* the management of the position and the reconciliation of its rows.  As  *)
(* in MCProgress one part moves in a behaviour; no two share a variable.   *)
(***************************************************************************)
EXTENDS SignalLifecycle, SymbolResolution, LedgerReconciliation, PositionManagement, PreTrade,
        LossBudget

VARIABLE part

\* Six instruments of a broker.
BrokerSymbols == {"XAUUSD", "XAUUSDm", "GOLD", "XAUUSDx", "SpotGold", "EURUSD"}

BrokerShape ==
    [s \in BrokerSymbols |->
        CASE s = "XAUUSD" -> "exact"
          [] s = "XAUUSDm" -> "alias"
          [] s = "GOLD" -> "compactAlias"
          [] s = "XAUUSDx" -> "suffixed"
          [] OTHER -> "other"]

\* Three quarters are taken at TP1: a second partial close of 14 would leave too little.
ThreeQuarters == <<3, 4>>
BothDirections == {1, -1}

\* Exits and ledger passes; lost replies and crashes too; faults and an attempt that is
\* not concluded.
ManageScenarios == {{"exits", "ledger"}, {"faults", "exits", "ledger"}, {"faults", "unknown"}}

AllCommands ==
    [mode : {"SIGNAL", "SEMI_AUTO", "AUTO"},
     environment : {"development", "test", "backtest", "demo", "production"},
     account : {"DEMO", "REAL", "UNKNOWN"},
     approved : BOOLEAN, live : BOOLEAN,
     configured : {"none", "a", "b"}, required : {"none", "a"}]

SomeEvidence ==
    [trades : {0, 1, 2}, profit : {0, 11, 12}, loss : {0, 10},
     drawdowns : {{}, {100}, {20, 101}}, factors : {{}, {1200}}]

AnOrder(long, bid, ask, limit, stopLoss, targets) ==
    [long |-> long, bid |-> bid, ask |-> ask, limit |-> limit, low |-> 9, high |-> 12,
     stop |-> stopLoss, targets |-> targets, volume |-> 0]

SomeOrders ==
    {AnOrder(long, bid, bid + spread, limit, stopLoss, targets) :
        long \in BOOLEAN, bid \in 8 .. 11, spread \in {1, 4}, limit \in {0, 10},
        stopLoss \in {5, 7, 9, 10, 11, 13, 15}, targets \in {{2}, {5}, {14, 18}, {18}}}

-----------------------------------------------------------------------------

Parts == {"signal", "symbols", "ledger", "manage", "check", "budget"}

\* A part that does not move is in one of its initial states.
MCInit ==
    /\ part \in Parts
    /\ Init /\ SymbolsInit /\ LedgerInit /\ ManageInit /\ PreInit /\ BudgetInit
    /\ part # "signal" => mode = "AUTO"
    /\ part # "symbols" => enabled = {}
    /\ part # "manage" => sign = 1 /\ scenario = {"exits", "ledger"}

MCNext ==
    \/ /\ part = "signal" /\ Next
       /\ UNCHANGED <<part, symbolsVars, ledgerVars, manageVars, budgetVars, preVars>>
    \/ /\ part = "symbols" /\ SymbolsNext
       /\ UNCHANGED <<part, vars, ledgerVars, manageVars, budgetVars, preVars>>
    \/ /\ part = "ledger" /\ LedgerNext
       /\ UNCHANGED <<part, vars, symbolsVars, manageVars, budgetVars, preVars>>
    \/ /\ part = "manage" /\ ManageNext
       /\ UNCHANGED <<part, vars, symbolsVars, ledgerVars, budgetVars, preVars>>
    \/ /\ part = "check" /\ PreNext
       /\ UNCHANGED <<part, vars, symbolsVars, ledgerVars, manageVars, budgetVars>>
    \/ /\ part = "budget" /\ BudgetNext
       /\ UNCHANGED <<part, vars, symbolsVars, ledgerVars, manageVars, preVars>>

MCSpec ==
    MCInit /\ [][MCNext]_<<part, vars, symbolsVars, ledgerVars, manageVars, budgetVars, preVars>>

=============================================================================
