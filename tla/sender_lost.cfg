CONSTANTS
    PayloadSize = 10
    SeqBound = 4
    First = 2
    Cluster = 2
    MaxTick = 4
    Scenarios <- Simple
SPECIFICATION Spec
INVARIANT OkMeansSent
CHECK_DEADLOCK FALSE
