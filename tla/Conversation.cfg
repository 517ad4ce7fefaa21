SPECIFICATION Spec
CONSTANTS
    MaxStanzas = 3
    MaxTrouble = 2
    CacheLimit = 2
INVARIANTS
    Settled
    AuthorOnly
PROPERTIES
    DeletedOnReload
CHECK_DEADLOCK FALSE
