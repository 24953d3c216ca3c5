\* Three goroutines, so that a late call, a probe and a refused call can meet.
SPECIFICATION BreakerFairSpec
CONSTANTS
    Calls = {c1, c2, c3}
    Threshold = 2
INVARIANTS
    HalfOpenIsLeft
PROPERTY ClosesForGood
