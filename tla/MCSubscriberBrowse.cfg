SPECIFICATION Spec
CONSTANTS
    Clients = {c1}
    MessageCount = 1
    MaxRedelivery = 5
    Prefetch = 1
    Tasks <- BrowseTen
    MaxTasks = 1
    MayFail = FALSE
INVARIANT
    BrowsingIsHarmless
CHECK_DEADLOCK FALSE
