CONSTANTS
    PayloadSize = 10
    SeqBound = 4
    First = 2
    Cluster = 2
    MaxTick = 4
    Scenarios <- MCScenarios
SPECIFICATION Spec
INVARIANTS
    SentAsGiven
    WellFormedPackets
    IndexIsNumber
CHECK_DEADLOCK FALSE
