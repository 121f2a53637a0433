\* The send side of a slot over two connections.
SPECIFICATION FairSpec
CONSTANTS
    BufSize = 4
    Sizes <- MCSizes
    MaxBytes = 7
    MaxConns = 2
INVARIANTS
    StreamIntegrity
    IdleMeansDrained
PROPERTIES
    SendingBufStable
    Delivered
    ChannelSpec
\* The bytes are bounded: a slot that sent them all stops.
CHECK_DEADLOCK FALSE
