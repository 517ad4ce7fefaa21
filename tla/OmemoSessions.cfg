SPECIFICATION Spec
CONSTANTS
    Devices = {d1, d2}
    d1 = d1
    d2 = d2
    Places = {1}
    OwnKeys = TRUE
    MaxSends = 1
    MaxPeer = 2
    MaxTrouble = 1
INVARIANTS
    FailureIsRepaired
    QueueIsSent
    PublishedIsIndex
    OneTime
CHECK_DEADLOCK FALSE
