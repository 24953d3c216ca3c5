\* Two dispatchers whose leases may lapse under them and who write over each
\* other's counts; one aggregate has writers that take turns, one has not.
SPECIFICATION FairSpec
CONSTANTS
    Aggregates = {a1, a2}
    Locked = {a1}
    Dispatchers = {d1, d2}
    BatchSize = 2
    MaxAttempts = 2
    MaxRows = 2
INVARIANTS
    MarkedIsStored
PROPERTIES
    InOrder
    PromiseKept
    EveryEventSettles
