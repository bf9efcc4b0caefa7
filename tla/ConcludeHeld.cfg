CONSTANTS
    Replicas = {r1}
    Signals = {s1}
    OrderType = "MARKET"
    FillProtections = {"exact", "wrong"}
    KillSwitchUsed = FALSE
    NoReplica = NoReplica
    NoSignal = NoSignal
SPECIFICATION FairSpec
PROPERTIES HeldOrderIsConcluded
