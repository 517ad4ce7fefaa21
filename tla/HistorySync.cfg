SPECIFICATION FairSpec
CONSTANTS
    Peers = {p1}
    p1 = p1
    Everyone = Everyone
    PageSize = 1
    CacheLimit = 9
    Window = 2
    Redelivery = FALSE
    MaxMsgs = 2
    MaxDrops = 2
    MaxRestarts = 1
    MaxClicks = 1
    MaxRefusals = 1
    MaxPurged = 1
INVARIANTS
    NoDuplicates
    CursorCovers
    CaughtUp
PROPERTIES
    CatchupEnds
CHECK_DEADLOCK FALSE
