SPECIFICATION FairFeedsSpec
CONSTANTS
    Feeds = {blog, thread}
    Pep = {thread}
    Thread = thread
    Long = {blog}
    Described = {blog}
    MaxItems = 1
    MaxEvents = 1
    MaxTrouble = 0
PROPERTY FetchIsPrinted
CHECK_DEADLOCK FALSE
