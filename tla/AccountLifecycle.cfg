SPECIFICATION FairSpec
CONSTANTS
    MaxDrops = 7
    MaxIdle = 2
INVARIANTS
    CsiAgrees
    IdleIsRevocable
    ConflictEscaped
PROPERTIES
    ReconnectTried
    InactiveReported
CHECK_DEADLOCK FALSE
