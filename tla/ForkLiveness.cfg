SPECIFICATION HandlersFairSpec
CONSTANTS
    a1 = a1  a2 = a2  a3 = a3  a4 = a4  b2 = b2  b3 = b3
    t1 = t1  t2 = t2  t3 = t3  w1 = w1  w2 = w2
    Blocks <- ShortFork
    Slot <- ShortSlot
    Past <- ShortPast
    Txs = {t1, t2, t3}
    TxSeq <- LightTxs
    Workers = {w1, w2}
    Connected = {w1, w2}
    QueueCap = 1
    MaxRetries = 1
    LastChance <- Fourth
    SafetyMargin = 0
    MaxCrashes = 0
    DatabaseFaults = TRUE
    DeadlockProne = {t1}
    Origin = Origin
    NoBlock = NoBlock
PROPERTIES BlocksSettle CatchesUp
CHECK_DEADLOCK FALSE
