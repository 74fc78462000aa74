SPECIFICATION Spec
CONSTANTS
    Replicas = {r1, r2}
    Events = {e1}
    NoId = NoId
    Nothing = Nothing
    BadEvents = {}
    QueueSize = 2
    MaxDeliveries = 2
    MaxBoots = 2
    RedisMayFail = FALSE
    KeysMayExpire = FALSE
    PublishMayFail = FALSE
INVARIANT
    AtMostOneMessage
SYMMETRY
    ReplicaSymmetry
CHECK_DEADLOCK FALSE
