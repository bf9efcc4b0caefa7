CONSTANTS
    Replicas = {r1}
    Signals = {s1, s2}
    OrderType = "MARKET"
    FillProtections = {"exact"}
    KillSwitchUsed = FALSE
    NoReplica = NoReplica
    NoSignal = NoSignal
SPECIFICATION Spec
INVARIANTS OnePosition
