CONSTANTS
    s1 = s1
    s2 = s2
    s3 = s3
    d1 = d1
    d2 = d2
    Services <- MCServices
    Devices <- MCDevices
    Dst <- MCDst
    Oversized <- MCOversized
    IdCount = 2
    RequestTimeout = 1
    RetriesCount = 3
    NoEntry = NoEntry
    NoService = NoService
CHECK_DEADLOCK FALSE
SPECIFICATION FairSpec
INVARIANTS
    EntriesLive
    AnswersFromOwnDevice
    IdsMatchEntries
PROPERTIES
    TimeoutIsFinal
    WaitingEnds
    ImplementsConfirmedService
