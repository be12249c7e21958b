SPECIFICATION Spec
CONSTANTS
    c1 = c1
    c2 = c2
    i1 = i1
    i2 = i2
    Config <- MCConfig
    Layer <- MCLayer
    Clients <- MCClients
    Asks <- MCAsks
    Numbers <- MCNumbers
    AsynchIds <- MCAsynchIds
    Foreign = {4}
    Reports <- MCReports
    Expects <- MCExpects
SYMMETRY Alike
INVARIANTS TypeOK FreshAnswers ObserversCurrent WaitersHeld
PROPERTY WritesDone
