\* Two slots, two packet threads, one of the slots given to a second client.
SPECIFICATION FairSpec
CONSTANTS
    Clients = {c1, c2}
    Slot0 = c1
    Names = {ann}
    NoName = NoName
    PacketThreads = {t1, t2}
    MaxConns = 2
    MaxAsks = 2
INVARIANTS
    OneRequestOneAnswer
    
PROPERTY EveryRequestAnswered
\* The clients may stop asking.
CHECK_DEADLOCK FALSE
