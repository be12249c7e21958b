CONSTANTS
    r1 = r1
    r2 = r2
    r3 = r3
    r4 = r4
    Requests <- MCRequests
    MaxAsynchId = 3
    InternalTimeout = 2
    IntMin <- MCIntMin
    IntMax = 7
    NoRequest = NoRequest
    OwnersForget = FALSE
CHECK_DEADLOCK FALSE
SPECIFICATION FairSpec
INVARIANTS
    RightWaiter
    NeverCrashes
PROPERTIES
    AnswersFinal
    ClientsAnswered
