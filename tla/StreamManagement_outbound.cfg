SPECIFICATION FairSpec
CONSTANTS
    Burst = 1
    EarlyPush = FALSE
    MaxUser = 1
    MaxSrv = 0
    MaxDrops = 2
INVARIANTS
    TypeOK
    QueueAligned
    LossBounded
    ResumeIsOpen
PROPERTIES
    NegotiationConcludes
    TimedQueueDrains
CHECK_DEADLOCK FALSE
