\* The ring and its queue, however TCP cuts the stream.
SPECIFICATION FairSpec
CONSTANTS
    RingSize = 5
    SockBuf = 5
    HeadSize = 2
    Sizes <- MCSizes
    Width = 16
    MaxPackets = 4
    MaxUnsent = 5
INVARIANTS
    RingHoldsAccepted
    WholePackets
PROPERTIES
    EveryPacketPopped
    PacketsSpec
\* The packets are bounded: when all are popped the run stops.
CHECK_DEADLOCK FALSE
