SPECIFICATION MCSpec
CONSTANTS
    \* SignalLifecycle
    Signals = {s1}
    Operators = {o1, o2}
    Modes = {"SIGNAL", "SEMI_AUTO", "AUTO"}
    MaxMoves = 1
    MaxModes = 2
    MaxCrashes = 1
    LateRequests = TRUE
    \* SymbolResolution
    Symbols <- BrokerSymbols
    Shape <- BrokerShape
    Described = {"XAUUSD", "XAUUSDm", "XAUUSDx", "SpotGold"}
    Malformed = {}
    MaximumOpenPositions = 3
    MaximumGoldPositions = 2
    MaxPositions = 3
    \* LedgerReconciliation: no entry is recorded while a pass is under way
    Tickets = {"t1", "t2"}
    RestingUsed = TRUE
    LostReplies = TRUE
    Concurrent = FALSE
    ManualUsed = TRUE
    MaxBrokenPasses = 1
    \* PositionManagement
    Managers = {"m1"}
    Directions <- BothDirections
    Volumes = {20}
    MinimumVolume = 2
    Fraction <- ThreeQuarters
    MaxPrice = 3
    Risk = 2
    Target = 2
    Trigger = 2
    Costs = 1
    TrailDistance = 1
    Scenarios <- ManageScenarios
    \* RiskRules
    RiskPerTrade = 20
    MaximumDailyLoss = 30
    MaximumWeeklyLoss = 35
    MaximumAccountDrawdown = 100
    VolumeMin = 2
    VolumeMax = 9
    VolumeStep = 3
    \* PreTrade
    Commands <- AllCommands
    Evidence <- SomeEvidence
    Orders <- SomeOrders
    Obstacles = {"KILL_SWITCH_ACTIVE", "STALE_TICK"}
    Equities = {0, 150, 299, 300, 1000, 2000}
    MinimumRiskReward = 1800
    MaximumSpread = 3
    MinimumDistance = 2
    MarginRate = 4
    MinimumDemoTrades = 2
    MaximumDemoDrawdown = 100
    MinimumDemoProfitFactor = 1200
    \* LossBudget: an account of 1000; after a loss the next entry meets the daily
    \* limit on the same day and the weekly one later in the week
    Deposit = 1000
    StopLosses = {9}
    BatchSize = 1
    ExitsUsed = TRUE
    MaxTrades = 2
    MaxDays = 2
    WeekLength = 2
CHECK_DEADLOCK FALSE
INVARIANTS
     PartialClosesSound   OrdersFit
PROPERTIES
    ApprovedBeforeSent  StopHolds 
