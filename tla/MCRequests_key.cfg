\* A repeat with another body and a repeat for another resource.
SPECIFICATION Spec
CONSTANTS
    r1 = r1
    r2 = r2
    r3 = r3
    t1 = t1
    t2 = t2
    b1 = b1
    b2 = b2
    RequestIds = {r1, r2, r3}
    TargetOf <- TwoTargets
    BodyOf <- OneBodyEach
    Empty = Empty
    None = None
CHECK_DEADLOCK FALSE
INVARIANTS
    AppliedOnce
    SuccessIsTrue
