\* One order through its whole life, two dispatchers sweeping it.
SPECIFICATION Spec
CONSTANTS
    OrderIds = {o1}
    Offers = {f1}
    Dispatchers = {d1, d2}
    NoOrder = NoOrder
    NotPlaced = NotPlaced
    Baskets <- SingleUnits
    Batch = 1
    FoundingFree = 1
    InitialStock = 1
    MaxDeclared = 1
    MaxPayments = 2
SYMMETRY Symmetry
INVARIANTS
    TypeOK
    InvoiceFollowsOrder
    PaymentFollowsOrder
    RefundFollowsOrder
    QueueHasWork
    EscalatedOnce
PROPERTIES
    MoneyIsNotForgotten
    EndedIsFinal
