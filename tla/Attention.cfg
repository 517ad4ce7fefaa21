SPECIFICATION Spec
CONSTANTS
    Devices = {phone, laptop}
    MaxMsgs = 2
    MaxSent = 2
    MaxEvents = 3
    MaxTrouble = 1
SYMMETRY Symmetry
INVARIANTS
    AnsweredOnce
    PlacesAdvance
    GlyphsAreTrue
    TypingIsHeard
