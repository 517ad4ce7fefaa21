SPECIFICATION Spec
CONSTANTS
    Burst = 0
    EarlyPush = FALSE
    MaxUser = 0
    MaxSrv = 3
    MaxDrops = 2
INVARIANTS
    InboundExactlyOnce
PROPERTIES
    DeliverySpec
CHECK_DEADLOCK FALSE
