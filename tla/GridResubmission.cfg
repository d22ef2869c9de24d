CONSTANTS
    k1 = k1
    k2 = k2
    v1 = v1
    v2 = v2
    v0 = v0
    Nil = Nil
    AnyPeers = AnyPeers
    Falsy <- Empty
    Peers = {1, 2, 3}
    Settings <- Resubmitting
    MaxCalls = 2
SPECIFICATION Spec
INVARIANTS
    SubmittedIsHanded
CHECK_DEADLOCK FALSE
