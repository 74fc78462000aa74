SPECIFICATION Spec
CONSTANTS
    Runs = {r1}
    Jobs = {r1}
    BackoffLimit = 6
    MaxFaults = 1
INVARIANT
    SuccessMeansGranted
CHECK_DEADLOCK FALSE
