SPECIFICATION Spec
CONSTANTS
    \* MarketStructure
    Candles <- StructureCandles
    LeftSpan = 1
    RightSpan = 1
    ClosedOnly = TRUE
    MaxBars = 6
    \* GoldStrategy
    Levels <- PriceLevels
    M5Candles <- TriggerCandles
    Spreads = {0, 1, 2, 3, 7}
    Closes = {1000}
    Ranges = {100, 200}
    Depths = {0, 50, 500}
    RequireLongAlignment = TRUE
    ConfidenceThreshold = 95
    MaximumSpread = 6
    \* Backtest
    TestCandles <- ReplayCandles
    Signals <- ReplaySignals
    SlowLength = 2
    InitialBalance = 100
    RiskPercent = 10
    Cost = 1
    MinimumVolume = 1
    MaximumVolume = 2
    CloseAtEnd = TRUE
    MaxSteps = 8
    \* WalkForward: folds of five candles that advance by the test set, with and
    \* without gaps
    TrainBars = 2
    ValidationBars = 1
    TestBars = 2
    StepBars = 2
    Distances = {1, 4}
    MaxData = 12
INVARIANTS
    StructureIsTrue NoLookAhead BooksAreRight TestsComeLater
PROPERTIES
     DecisionsHold
