SPECIFICATION Spec
CONSTANTS
    a1 = a1  a2 = a2  a3 = a3  a4 = a4  b2 = b2  b3 = b3
    t1 = t1  t2 = t2  t3 = t3  w1 = w1  w2 = w2
    Blocks <- Line
    Slot <- LineSlot
    Past <- LinePast
    Txs = {t1, t2, t3}
    TxSeq <- LineTxs
    Workers = {w1, w2}
    Connected = {w1, w2}
    QueueCap = 1
    MaxRetries = 0
    LastChance = {}
    SafetyMargin = 0
    MaxCrashes = 1
    DatabaseFaults = TRUE
    DeadlockProne = {}
    Origin = Origin
    NoBlock = NoBlock
SYMMETRY WorkerSymmetry
PROPERTIES ImplementsPool
CHECK_DEADLOCK FALSE
