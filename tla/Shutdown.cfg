SPECIFICATION FairStopSpec
CONSTANTS
    Threads <- MCThreads
    MaxItems = 3
PROPERTIES
    QuietAfterJoin
    Stops
CHECK_DEADLOCK FALSE
