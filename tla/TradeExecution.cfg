CONSTANTS
    Replicas = {r1, r2}
    Signals = {s1}
    OrderType = "MARKET"
    FillProtections = {"exact", "wrong", "naked"}
    KillSwitchUsed = FALSE
    NoReplica = NoReplica
    NoSignal = NoSignal
SYMMETRY Symmetry
CONSTRAINT BusyBound
SPECIFICATION Spec
INVARIANTS AtMostOneSend FinalMatchesBroker SucceededIsProtected RowsFollowAttempt
PROPERTIES ImplementsSingleSubmission
