SPECIFICATION FairFeedsSpec
CONSTANTS
    Feeds = {blog, thread}
    Pep = {thread}
    Thread = thread
    Long = {blog}
    Described = {blog}
    MaxItems = 1
    MaxEvents = 2
    MaxTrouble = 1
INVARIANTS
    PrintedOnce
    SeenWasShown
    OpenIsRemembered
PROPERTIES
    DeferredIsAsked
CHECK_DEADLOCK FALSE
