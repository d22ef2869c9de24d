CONSTANTS
    a = a
    b = b
    Nil = Nil
    Values <- OneValue
    Size <- SameSize
    ExpirationTime = 0
    Peers <- ThreePeers
    OnlyFollower = {}
    Impatient = {2, 3}
    Leaving = {}
    Removable = {}
    Lossy = FALSE
    Duplicating = FALSE
    MaxTerm = 2
    MaxIndex = 2
    MaxClock = 0
    MaxInFlight = 2
SPECIFICATION JoinedSpec
INVARIANTS
    TypeOK
    NoEntryFromTheFuture
    NoResponseFromTheFuture
    EveryCommitDelivered
PROPERTIES
    CommitNeedsMajority
