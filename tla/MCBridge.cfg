SPECIFICATION BridgeSpec
CONSTANTS
    Replicas = {r1}
    Self = r1
    Events = {e1, e2}
    NoId = NoId
    Nothing = Nothing
    BadEvents = {e2}
    QueueSize = 1
    MaxDeliveries = 2
    MaxBoots = 2
    RedisMayFail = TRUE
    KeysMayExpire = FALSE
    PublishMayFail = TRUE
    MaxPublishRetries = 2
    MaxDrops = 1
    MaxForged = 1
INVARIANTS
    BridgeTypeOK
    RecordedIsAccountedFor
    MetricsReconcile
    UnflushedNeedsDeath
PROPERTIES
    ImplementsProcessor
    NothingHandedAfterShutdown
    EveryEventSettles
    ShutdownEnds
CHECK_DEADLOCK FALSE
