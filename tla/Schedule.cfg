SPECIFICATION Spec
INVARIANTS RowsInOrder OneBoundaryBlock ErasNeverBehind CertificateEpochLags
PROPERTIES ConfigFollowsEra
CONSTANTS
    w1 = w1  w2 = w2
    Workers <- TwoWorkers
    Slots <- EdgeSlots
