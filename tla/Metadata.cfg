SPECIFICATION Spec
CONSTANTS
    Refs = {"r1", "r2"}
    Urls = {"u"}
    Url <- OneUrl
    Workers = {1, 2}
    QueueCap = 1
    MaxRetries = 1
    ScanLimit = 1
    Jobs = {1, 2}
    MaxCalls = 2
    MaxFaults = 1
    NoRequest = NoRequest
    NoJob = 0
INVARIANTS TypeOK OneFetchPerUrl OnlyCopiesContradict
PROPERTIES EveryReferenceSettles
CHECK_DEADLOCK FALSE
