SPECIFICATION FairSpec
INVARIANTS OpenPoolsAreCurrent
PROPERTIES DropNeedsCause OnlyNestedQueriesHang RollbackIsServed
CONSTANTS
    N = 1
    MaxRetries = 1
    MaxTxRetries = 1
    Stages = 2
    NestedQueries = TRUE
    LastChance = {1}
