SPECIFICATION ValidateSpec
CONSTANTS
    Runs = {r1, r2}
    Jobs = {r2}
    Own = r1
    BackoffLimit = 1
    MaxFaults = 1
    AccountId = "acct_xxx"
    Types <- OneType
    Count = 1
    MaxSent = 1
    MaxLeft = 1
INVARIANTS
    ValidateTypeOK
    SuccessMeansProvisioned
    ParentsComeFirst
    FailuresAreExplained
    
    PassMeansWired
PROPERTY
    EveryJobSettles
CHECK_DEADLOCK FALSE
