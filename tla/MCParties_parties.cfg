\* Two traders, one of them also an operator, two commands in flight.
SPECIFICATION Spec
CONSTANTS
    Users = {u1, u2}
    Operators = {u2}
    NoUser = NoUser
    Requests = {r1, r2}
INVARIANTS
    BothSidesAgreed
    RefundAsDecided
    FeedbackOnClosed
