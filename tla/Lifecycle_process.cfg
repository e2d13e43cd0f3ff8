SPECIFICATION FairSpec
CONSTANTS
    Environment <- AllSettings
    Grace = 2
    MaxRequests = 2
INVARIANTS ServesComplete
PROPERTIES NoAnswerIsLost SignalEndsProcess
