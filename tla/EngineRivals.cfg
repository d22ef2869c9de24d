CONSTANTS
    a = a
    b = b
    Nil = Nil
    Values <- OneValue
    Size <- SameSize
    ExpirationTime = 0
    Peers <- TwoPeers
    OnlyFollower = {}
    Impatient = {1, 2}
    Leaving = {1, 2}
    Removable = {1, 2}
    Lossy = TRUE
    Duplicating = TRUE
    MaxTerm = 1
    MaxIndex = 0
    MaxClock = 0
    MaxInFlight = 20
SPECIFICATION RivalSpec
INVARIANTS
    SelfLeaderIffLeading
PROPERTIES
    OnlyOneCanRemain
