CONSTANTS
    DailyResetHour = 5
    WeeklyResetWeekday = 2
    DailyPercent = 3
    WeeklyPercent = 7
    DrawdownPercent = 10
    Accounts <- MCAccounts
    Callers = {c1, c2}
    Times = {52, 53, 77}
    Absent = Absent
    Processes = {"p1", "p2"}
    Slots = {1}
    Environment = "demo"
    DefaultMode = "SIGNAL"
    Loads <- MCLoads
    MaxRequests = 4
    DrawdownUsed = TRUE
    FaultsUsed = TRUE
    Requests = {"r1", "r2"}
    Values = {1, 3}
    MaxUpdates = 3
    MaxFailedCommits = 1
    MaxRestarts = 1
    Replicas = {r1, r2}
    Entries = {"h1_scan", "m5_confirmation"}
    Failing = {"h1_scan"}
    MaxFaults = 2
    LapsesUsed = TRUE
    Workers = {w1, w2}
    NumEvents = 3
    Limit = 2
    MaxAttempts = 2
    MaxFailures = 2
    SlowUsed = FALSE
    Clients = {"scan", "manage"}
    Keys = {"k1"}
    Volumes = {1, 2}
    MaximumAttempts = 2
    MaxCalls = 3
    MaxFlips = 1
CONSTRAINT Bounds
SPECIFICATION MCSpec
INVARIANTS
    NeverAutoWhileLatched QuietKillSwitchDurable  OverlapOnlyAfterLapse
     NothingBookedTwice
PROPERTIES
    ImplementsSerial DrawdownLatched LossLocksHeldInPeriod
