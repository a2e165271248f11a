SPECIFICATION Spec
CONSTANTS
    w1 = w1  w2 = w2
    Workers = {w1, w2}
    Units = {"block", "boundary", "pay", "delegate", "vote", "rich", "govern", "spend"}
    Steps <- Every
    Workloads <- MeetAndRepeat
    NoUnit = "nothing"
    MaxRepeats = 1
    MaxRetries = 1
    MaxRefusals = 1
    MaxLosses = 1
CHECK_DEADLOCK FALSE
INVARIANTS MissingIsReported ParentsLostOnlyByRollback OrphansOnlyAfterDeadlock
PROPERTIES VisibleAtOnce TransactionEnds ImplementsUnits
