CONSTANTS
    Mine = 1
    Other = 2
    SeqBound = 4
    First = 1
    MaxOff = 2
    FrameLength = 3
    MaxPackets = 5
    MaxInFlight = 2
    MaxReceived = 4
    MaxForeign = 1
    Scenarios <- MCScenarios
SPECIFICATION Spec
INVARIANTS
    TypeOK
    
    KeystreamUsedOnce
    DeliveredAsSent
PROPERTY
    ChannelSpec
CHECK_DEADLOCK FALSE
