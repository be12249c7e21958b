CONSTANTS
    A = A
    B = B
    C = C
    X = X
    Networks <- MCNetworks
    Gateways = {A, B, C}
    Foreign = {X}
    Attached <- MCAttached
    Virtual <- MCVirtual
    Static <- MCStatic
    Roaming = {30}
    Wanted <- MCWanted
    Beyond <- MCBeyond
    MaxFaults = 1
    MaxAir = 1
    NoRouter = NoRouter
CHECK_DEADLOCK FALSE
SPECIFICATION FairSpec
INVARIANTS
    OneRoutePerNetwork
    RoutesLeadOnward
    OneAnswerer
PROPERTIES
    RoutesFound
    NeighboursReached
