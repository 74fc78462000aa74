SPECIFICATION Spec
CONSTANTS
    Words <- TableWords
    MaxWords = 3
    Accounts = {"acct_xxx", "unknown"}
    OddTypes <- OneTypeEach
INVARIANTS
    TypeOK
    BestHandler
    TablesAgree
    TopicsTellTypes
    ApiEventsGetThrough
CHECK_DEADLOCK FALSE
