CONSTANTS
    s1 = s1
    s2 = s2
    s3 = s3
    o1 = o1
    o2 = o2
    d1 = d1
    d2 = d2
    d3 = d3
    a1 = a1
    a2 = a2
    Services = {s1, s2, s3}
    Objects = {o1, o2}
    Devices = {d1, d2, d3}
    Addresses = {a1, a2}
    Target <- MCTarget
    DeviceOf <- MCDeviceOf
    Configured <- MCConfigured
    MapperSize = 0
    DynamicSize = 0
    InvalidId = InvalidId
    NoDevice = NoDevice
    NoAddress = NoAddress
CHECK_DEADLOCK FALSE
SPECIFICATION FairSpec
INVARIANTS
    SentWhereAnnounced
PROPERTIES
    ConfiguredKept
    AnswerRemembered
    DiscoveryEnds
