SPECIFICATION Spec
INVARIANT OnlyPongsCrash
PROPERTIES LogsEnd ErrorsReachDashboard ClientsLeave
CHECK_DEADLOCK FALSE
CONSTANTS
    Loggers = {l}
    Hub = hub
    Forwarder = fwd
    Clients = {c}
    Errors = {e1, e2}
    Activity = act
    NoOne = NoOne
    BroadcastCap = 1
    SendCap = 1
    PendingCap = 1
    MaxErrors = 1
