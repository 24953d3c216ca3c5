\* Two orders competing for the stock of one offer.
SPECIFICATION Spec
CONSTANTS
    OrderIds = {o1, o2}
    Offers = {f1}
    Dispatchers = {}
    NoOrder = NoOrder
    NotPlaced = NotPlaced
    Baskets <- UpToTwo
    Batch = 2
    FoundingFree = 1
    InitialStock = 2
    MaxDeclared = 2
    MaxPayments = 1
SYMMETRY Symmetry
INVARIANTS
    StockBounded
    StockMatchesOrders
    ClosedIsBilledOnce
