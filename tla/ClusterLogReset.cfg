CONSTANTS
    Nil = Nil
    Peers <- ThreePeers
    Settings <- JoinsShortLog
    MaxOnTheWay = 0
SPECIFICATION Spec
INVARIANT
    ResetsToCommitted
CHECK_DEADLOCK FALSE
