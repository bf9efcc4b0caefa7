CONSTANTS
    Replicas = {r1}
    Signals = {s1}
    OrderType = "PENDING"
    FillProtections = {"exact", "wrong"}
    KillSwitchUsed = TRUE
    NoReplica = NoReplica
    NoSignal = NoSignal
SPECIFICATION FairSpec
PROPERTIES KillSwitchStopsEntries
