CONSTANTS
    k1 = k1
    k2 = k2
    v1 = v1
    v2 = v2
    v0 = v0
    Nil = Nil
    AnyPeers = AnyPeers
    Falsy <- Empty
    Peers = {1, 2, 3}
    Settings <- GridSettings
    MaxCalls = 3
SPECIFICATION FairSpec
INVARIANTS
    TypeOK
    ResolvedWasExecuted
    ExecutesInOrder
    ExecutedOnce
    ExecutesAtOnce
    PendingIsAwaited
    MessagesSurvive
PROPERTIES
    CallsSettle
CHECK_DEADLOCK FALSE
