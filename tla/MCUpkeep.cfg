SPECIFICATION UpkeepSpec
CONSTANTS
    U32 = 9
    Bridges = {1, 2, 3}
    Guard <- MCGuard
    OtherGuard = "g0"
    Pool = {1, 2}
    Window = 2
    MaxFails = 3
    SinkCap = 2
    MaxAge = 3
    Batch = 2
    Overlap = 2
    MaxTime = 5
    MaxUpdates = 3
    Stale = 1
    Cooldowns = {1, 3}
    LongCooldown = 2
    MinAttempts = 1
    BackoffAfter = 1
    OverrideAfter = 2
    Dials = 1
    KindCap = 1
    Horizon = 4
    Lines = {1, 2}
    MinCircuitFails = 2
    MinMargin = 1
    SignalCooldown = 2
    MaxSignals = 2
    PoolSize = 1
    MaxChanges = 2
    LastHour = 7
    LastWarmHour = 3
    Configured = {1, 2, 3}
    Preferred = {2, 3}
    Opened = {1}
    Latencies = {1, 2}
    MaxWarm = 2
    MaxChosen = 2
    TargetSize = 2
    TopupBatch = 2
    RefreshBatch = 1
    TopupEvery = 1
    ResetEvery = 1
    MaxMisses = 1
    CheckEvery = 2
    StallTimeout = 3
INVARIANT UpkeepInv
PROPERTY VerdictsStand
CHECK_DEADLOCK FALSE
