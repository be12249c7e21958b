CONSTANTS
    a = a
    b = b
    Mappings = {a, b}
    Order <- MCOrder
    ObjectOf <- MCObjectOf
    Polled = {}
    CovPoll = {b}
    Interval = 1
    IdModulus = 4
    MaxKey = 5
    MaxOpen = 1
    MaxFaults = 2
    MaxValue <- MCMaxValue
CHECK_DEADLOCK FALSE
SPECIFICATION FairSpec
INVARIANTS
    RenewalFindsEntry
    EntriesKeptApart
    ShownWasRemote
PROPERTIES
    CaughtUp
