CONSTANTS
    a = a
    b = b
    Mappings = {a, b}
    Order <- MCOrder
    ObjectOf <- MCObjectOf
    Polled = {}
    CovPoll = {b}
    Interval = 1
    IdModulus = 3
    MaxKey = 4
    MaxOpen = 1
    MaxFaults = 1
    MaxValue <- MCMaxValue
CHECK_DEADLOCK FALSE
SPECIFICATION Spec
INVARIANT OwnEntryMet
