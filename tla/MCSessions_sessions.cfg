\* Two requests at once over two refresh tokens and two codes.
SPECIFICATION FairSpec
CONSTANTS
    Requests = {r1, r2}
    TokenIds = {t1, t2}
    NoToken = NoToken
    Codes = {c1, c2}
    NoCode = NoCode
    MaxAttempts = 1
    PruneBatch = 1
INVARIANTS
    RotationIsAChain
    GuessesCounted
    CancelSparesDelivered
PROPERTY BlockEndsAuthority
