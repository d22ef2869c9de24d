CONSTANTS
    k = k
    l = l
    c = c
    zero = zero
    a = a
    b = b
    ev = ev
    ew = ew
    Nil = Nil
    Null = Null
    Coded <- CodedFields
    Codec = Codec
    Falsy <- FalsyValues
    Peers = {1, 2, 3}
    Settings <- AllSettings
    Closing = {3}
    Flapping = {3}
    Resetting = {3}
    MaxCalls = 3
SPECIFICATION Spec
INVARIANTS
    TypeOK
    InSync
    SkipsOnlyMissable
    QueueIsFIFO
PROPERTIES
    ImplementsAtomicCollection
CHECK_DEADLOCK FALSE
