CONSTANTS
    lamp = lamp
    valve = valve
    button = button
    switch = switch
    button2 = button2
    Actors = {lamp, valve}
    Sensors = {button, button2, switch}
    Rank <- MCRank
    TypeOf <- MCTypeOf
    Rx <- MCRx
    Tx <- MCTx
    NoAddress = 0
    Subject <- MCSubject
    NoElement = NoElement
    ByteModulus = 2
    MaxValue = 2
    MaxFrames = 3
    MaxInputs = 2
    MaxFaults = 1
CHECK_DEADLOCK FALSE
SPECIFICATION FairSpec
INVARIANTS
    TypeOK
    ValueOnBus
    OneReconnection
PROPERTIES
    Reconnects
    CallsReturn
    LedFollows
