CONSTANTS
    Replicas = {r1}
    Signals = {s1, s2}
    OrderType = "MARKET"
    FillProtections = {"exact", "wrong"}
    KillSwitchUsed = FALSE
    NoReplica = NoReplica
    NoSignal = NoSignal
SPECIFICATION QuietSpec
INVARIANTS OnePosition
