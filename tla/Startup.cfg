SPECIFICATION Spec
CONSTANTS
    Pools <- OnePool
    Epochs <- TheEpochs
    Slots <- TheSlots
    RegisteredAt <- FromShelley
    Members <- AlwaysMember
    MaxFaults = 1
    Files <- TheFiles
    Environments <- TheEnvironments
    BlockWorkers = 2
    MaxRuns = 1
    MaxFailures = 1
INVARIANTS UpAndWorking MessagesKept
PROPERTIES LimitsKept EndsWhenAsked ServiceIsStateQuery
CHECK_DEADLOCK FALSE
