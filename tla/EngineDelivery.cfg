CONSTANTS
    a = a
    b = b
    Nil = Nil
    Values <- OneValue
    Size <- SameSize
    ExpirationTime = 0
    Peers <- TwoPeers
    OnlyFollower = {1}
    Impatient = {1, 2}
    Leaving = {}
    Removable = {}
    Lossy = TRUE
    Duplicating = FALSE
    MaxTerm = 1
    MaxIndex = 1
    MaxClock = 0
    MaxInFlight = 20
SPECIFICATION DeliverySpec
PROPERTIES
    SubmittedIsDelivered
