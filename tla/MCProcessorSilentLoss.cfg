SPECIFICATION Spec
CONSTANTS
    Replicas = {r1}
    Events = {e1}
    NoId = NoId
    Nothing = Nothing
    BadEvents = {}
    QueueSize = 2
    MaxDeliveries = 2
    MaxBoots = 1
    RedisMayFail = FALSE
    KeysMayExpire = FALSE
    PublishMayFail = TRUE
INVARIANT
    ProcessedWasHanded
CHECK_DEADLOCK FALSE
