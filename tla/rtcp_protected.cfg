CONSTANTS
    Peers = {2, 3}
    Us = 1
    RtpSeqMod = 8
    MaxDropout = 3
    MaxMisorder = 2
    MaxParticipants = 2
    TimeoutTicks = 1
    Scenarios <- ProtectedScenarios
SPECIFICATION FairSpec
PROPERTY ReportsAreSent
CHECK_DEADLOCK FALSE
