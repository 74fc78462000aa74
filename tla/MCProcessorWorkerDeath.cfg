SPECIFICATION Spec
CONSTANTS
    Replicas = {r1}
    Events = {e1}
    NoId = NoId
    Nothing = Nothing
    BadEvents = {}
    QueueSize = 2
    MaxDeliveries = 2
    MaxBoots = 1
    RedisMayFail = TRUE
    KeysMayExpire = FALSE
    PublishMayFail = FALSE
INVARIANT
    WorkerRunsUntilStopped
CHECK_DEADLOCK FALSE
