SPECIFICATION FairSpec
CONSTANTS
    Urls = {u1, u2}
    Messages = {m1, m2}
    FileUrls = {k1}
    Posts = {p1, p2}
    Embeds = 2
    Files = {f1}
    Slots = 1
    MaxAsked = 3
    MaxTrouble = 1
INVARIANTS
    AnnouncedOnce
    PostComplete
PROPERTIES
    PreviewsConclude
CHECK_DEADLOCK FALSE
