CONSTANTS
    Listeners = {l1}
    MaxConns = 1
    Producers = {p1}
    MaxPermits = 1
    MaxVerifications = 1
    Modes <- TorWithUsers
SPECIFICATION Spec
CHECK_DEADLOCK FALSE
INVARIANT CompletesOnce
