CONSTANTS
    Listeners = {l1}
    MaxConns = 2
    Producers = {p1}
    MaxPermits = 1
    MaxVerifications = 1
    Modes <- AllModes
SPECIFICATION FairSpec
CHECK_DEADLOCK FALSE
INVARIANTS Conserved FailClosed EveryEndReported WriterLast
PROPERTIES HandshakeEnds ShutdownEnds
