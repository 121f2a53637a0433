\* Is IsSending what its comment says?
SPECIFICATION Spec
CONSTANTS
    BufSize = 4
    Sizes <- MCSizes
    MaxBytes = 3
    MaxConns = 2
INVARIANT IsSendingMeansSending
\* The bytes are bounded: a slot that sent them all stops.
CHECK_DEADLOCK FALSE
