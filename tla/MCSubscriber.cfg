SPECIFICATION FairSpec
CONSTANTS
    Clients = {c1, c2}
    MessageCount = 2
    MaxRedelivery = 1
    Prefetch = 2
    Tasks <- MixedTasks
    MaxTasks = 3
    MayFail = TRUE
INVARIANTS
    TypeOK
    NothingStranded
    ReturnedOnce
    NeverTooMany
    AckedIsAccounted
PROPERTIES
    CallsEnd
CHECK_DEADLOCK FALSE
