\* Three orders for one unit: both later ones hold it.
SPECIFICATION Spec
CONSTANTS
    OrderIds = {o1, o2, o3}
    Offers = {f1}
    Dispatchers = {}
    NoOrder = NoOrder
    NotPlaced = NotPlaced
    Baskets <- SingleUnits
    Batch = 1
    FoundingFree = 1
    InitialStock = 1
    MaxDeclared = 1
    MaxPayments = 1
INVARIANTS
    NeverOversold
