CONSTANTS
    Nil = Nil
    Peers <- ThreePeers
    Settings <- AllSettings
    MaxOnTheWay = 0
SPECIFICATION FairSpec
INVARIANTS
    TypeOK
    LeftIsOut
    HeardByLeaderOnly
    FollowersKnow
    OpenIsRouted
PROPERTIES LeaveEnds
CHECK_DEADLOCK FALSE
