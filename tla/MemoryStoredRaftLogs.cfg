CONSTANTS
    a = a
    b = b
    Nil = Nil
    Values <- MCValues
    Size <- MCSize
    ExpirationTime = 1
    MaxTerm = 2
    MaxIndex = 3
    MaxClock = 2
SPECIFICATION Spec
INVARIANTS
    TypeOK
    NoGapAboveCommit
    BytesMatchEntries
    MergeIsLoop
    AssembledIsSent
    RaftMessagesArrive
PROPERTY
    DiscardsOnlyBelowCommit
