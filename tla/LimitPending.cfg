CONSTANTS
    Replicas = {r1}
    Signals = {s1, s2}
    OrderType = "PENDING"
    FillProtections = {"exact"}
    KillSwitchUsed = FALSE
    NoReplica = NoReplica
    NoSignal = NoSignal
SPECIFICATION QuietSpec
INVARIANTS OnePosition
