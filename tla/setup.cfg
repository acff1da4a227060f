CONSTANTS
    Streams = {1, 2, 3}
    Ports = {10, 11, 12, 13, 14, 15, 16}
    MaxSockets = 5
    Scenarios <- MCScenarios
SPECIFICATION Spec
INVARIANTS
    TypeOK
    Heard
    NothingLeft
    NegotiatesAlone
CHECK_DEADLOCK FALSE
