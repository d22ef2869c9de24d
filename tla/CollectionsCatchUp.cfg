CONSTANTS
    k = k
    l = l
    c = c
    zero = zero
    a = a
    b = b
    ev = ev
    ew = ew
    Nil = Nil
    Null = Null
    Coded <- CodedFields
    Codec = Codec
    Falsy <- FalsyValues
    Peers = {1, 2, 3}
    Settings <- MapJoiner
    Closing = {}
    Flapping = {}
    Resetting = {}
    MaxCalls = 3
SPECIFICATION Spec
INVARIANTS
    CatchesUp
CHECK_DEADLOCK FALSE
