\* The engine's life, the bridge checks with their sweeps and lock, the snapshot.
SPECIFICATION MCSpec
CONSTANTS
    Callers = {c1, c2}
    MaxStarts = 2
    Percents = {10, 80}
    Attempts = 2
    Scenarios <- MCScenarios
    Scans = {q1, q2}
    Ticks = {k}
    Concurrency = 2
    Pids = {p1, p2}
    StaleDirs <- MCStaleDirs
    None = None
    NoJob = NoJob
    Calls = {d1, d2}
    Rounds = {r1, r2}
    CliPids = {p1, p2}
    MarkersCap = 1
    Files = {f1, f2}
CHECK_DEADLOCK FALSE
INVARIANTS EngineInv StatusTrue ChecksInv
PROPERTY WorkEnds
