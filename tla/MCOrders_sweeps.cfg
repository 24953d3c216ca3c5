\* One order, one dispatcher that may fail and restart: what its passes owe.
SPECIFICATION FairSpec
CONSTANTS
    OrderIds = {o1}
    Offers = {f1}
    Dispatchers = {d1}
    NoOrder = NoOrder
    NotPlaced = NotPlaced
    Baskets <- SingleUnits
    Batch = 1
    FoundingFree = 1
    InitialStock = 1
    MaxDeclared = 0
    MaxPayments = 1
PROPERTIES
    UnansweredOrderEnds
    UnpaidOrderEnds
    LateRefundIsFlagged
    TradeKept
