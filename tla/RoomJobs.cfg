\* The room job queues: two rooms, a packet thread, the ticker, two workers.
SPECIFICATION FairSpec
CONSTANTS
    NRooms = 2
    Posters = {p1}
    Ticker = ticker
    Workers = {w1, w2}
    MaxJobs = 2
INVARIANTS
    GuardHasHolder
    OneHolder
    NoStrandedJob
PROPERTIES
    EveryJobRuns
    SerialSpec
\* The number of jobs is bounded, so the last worker parks for good.
CHECK_DEADLOCK FALSE
