SPECIFICATION Spec
CONSTANTS
    Replicas = {r1, r2}
    Events = {e1, e2}
    NoId = NoId
    Nothing = Nothing
    BadEvents = {e2}
    QueueSize = 2
    MaxDeliveries = 3
    MaxBoots = 3
    RedisMayFail = TRUE
    KeysMayExpire = TRUE
    PublishMayFail = TRUE
INVARIANTS
    Exclusive
SYMMETRY
    ReplicaSymmetry
CHECK_DEADLOCK FALSE
