SPECIFICATION FairSpec
CONSTANTS
    Rooms = {r1}
    r1 = r1
    Nicks = {n1}
    n1 = n1
    Me = Me
    MaxCommands = 2
    MaxEvents = 1
    MaxDrops = 1
    MaxRefusals = 1
INVARIANTS
    NicklistExact
    ClosedIsLeft
    AutojoinJoins
    BookmarksAgree
PROPERTIES
    JoinCompletes
CHECK_DEADLOCK FALSE
