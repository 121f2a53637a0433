SPECIFICATION FairSpec
CONSTANTS
    MaxClientCount = 2
    MaxSockets = 4
    Workers = 2
    MaxRefused = 1
INVARIANTS
    SlotsAccounted
    OthersServed
PROPERTIES
    LiveNotCut
    LeftClosed
CHECK_DEADLOCK FALSE
