SPECIFICATION FairSpec
CONSTANTS
    Replicas = {r1}
    Events = {e1, e2}
    NoId = NoId
    Nothing = Nothing
    BadEvents = {e2}
    QueueSize = 2
    MaxDeliveries = 4
    MaxBoots = 3
    RedisMayFail = TRUE
    KeysMayExpire = TRUE
    PublishMayFail = TRUE
INVARIANTS
    TypeOK
    Accounting
    LocksAccounted
    DuplicatesNeedTrouble
    DrainedOnCleanStop
PROPERTIES
    NeverRepublishProcessed
    StopEnds
    EveryEventSettles
CHECK_DEADLOCK FALSE
