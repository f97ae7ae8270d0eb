SPECIFICATION FairSpec
CONSTANTS
    Callers = {r1, r2}
    Dialers = {k1, k2}
    MaxRequests = 3
    MaxConns = 2
INVARIANTS
    NobodyWaitsInVain
    AnswerIsOwn
    ConnectionsAreOwned
PROPERTIES
    ImplementsObsRequests
    CallsReturn
CHECK_DEADLOCK FALSE
