\* A mutation and a read that share one slot and one place per window.
SPECIFICATION FairSpec
CONSTANTS
    Requests = {r1, r2}
    Mutations = {r1}
    HTTPMaxInFlight = 0
    InFlightPerConn = 1
    MaxConns = 1
    Burst <- OneEach
INVARIANTS
    SlotsAreHeld
    AnswerIsTrue
    CleanShutdownAnswersAll
PROPERTIES
    ShutdownEnds
CHECK_DEADLOCK FALSE
