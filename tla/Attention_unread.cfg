SPECIFICATION Spec
CONSTANTS
    Devices = {phone}
    MaxMsgs = 2
    MaxSent = 0
    MaxEvents = 3
    MaxTrouble = 0
PROPERTIES
    UnreadKept
CHECK_DEADLOCK FALSE
