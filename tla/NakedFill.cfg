CONSTANTS
    Replicas = {r1}
    Signals = {s1}
    OrderType = "MARKET"
    FillProtections = {"naked"}
    KillSwitchUsed = FALSE
    NoReplica = NoReplica
    NoSignal = NoSignal
SPECIFICATION FairSpec
PROPERTIES NakedIsRepaired
