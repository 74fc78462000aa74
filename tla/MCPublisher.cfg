SPECIFICATION FairSpec
CONSTANTS
    Events = {e1, e2}
    Nothing = Nothing
    MaxPublishRetries = 2
    Capacity = 2
    MaxCalls = 3
    MaxDrops = 2
INVARIANTS
    TypeOK
    CallsAreCounted
    DisconnectFlushes
PROPERTIES
    KeepsContract
    CallsReturn
CHECK_DEADLOCK FALSE
