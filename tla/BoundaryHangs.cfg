SPECIFICATION FairSpec
PROPERTIES AttemptEnds
CONSTANTS
    N = 1
    MaxRetries = 1
    MaxTxRetries = 1
    Stages = 1
    NestedQueries = TRUE
    LastChance = {}
