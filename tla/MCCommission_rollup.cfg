\* Two months, two dispatchers, orders that close around the turn of a month.
SPECIFICATION FairSpec
CONSTANTS
    o1 = o1
    o2 = o2
    o3 = o3
    w1 = w1
    w2 = w2
    OrderIds = {o1, o2, o3}
    Owners = {w1, w2}
    OwnerOf <- TwoOwners
    LinesOf <- SmallLines
    Dispatchers = {d1, d2}
    Batch = 1
    FoundingFree = 1
    MaxMonth = 2
    Nobody = Nobody
INVARIANTS
    FoundingAllowance
    AccrualAsAsserted
    StatementAddsUp
PROPERTIES
    EveryRowIsBilled
