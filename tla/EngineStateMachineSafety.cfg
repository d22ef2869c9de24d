CONSTANTS
    a = a
    b = b
    Nil = Nil
    Values <- TwoValues
    Size <- SameSize
    ExpirationTime = 0
    Peers <- ThreePeers
    OnlyFollower = {}
    Impatient = {2, 3}
    Leaving = {}
    Removable = {}
    Lossy = FALSE
    Duplicating = FALSE
    MaxTerm = 2
    MaxIndex = 2
    MaxClock = 0
    MaxInFlight = 2
SPECIFICATION JoinedSpec
SYMMETRY Symmetry
INVARIANTS
    StateMachineSafety
