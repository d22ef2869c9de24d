CONSTANTS
    a = a
    b = b
    Nil = Nil
    Values <- TwoValues
    Size <- SameSize
    ExpirationTime = 1
    Peers <- TwoPeers
    OnlyFollower = {1}
    Impatient = {2}
    Leaving = {2}
    Removable = {}
    Lossy = FALSE
    Duplicating = TRUE
    MaxTerm = 2
    MaxIndex = 2
    MaxClock = 2
    MaxInFlight = 2
SPECIFICATION JoinedSpec
SYMMETRY Symmetry
INVARIANTS
    LogsAgree
    NoGapAboveCommit
    StateMachineSafety
    MatchIndexTruthful
PROPERTIES
    TermAndCommitMonotonic
