\* Lookups of one fronting host across a flush, and overlapping saves.
SPECIFICATION DnsSpec
CONSTANTS
    Hosts = {h}
    Addrs = {a, b}
    Tasks = {t1, t2}
    Savers = {s1, s2}
    Budgets <- MCBudgets
    Ttl = 1
    Window = 1
    Tolerance = 1
    Cap = 1
    Shed = 1
    SweepInterval = 1
    SweepBudget = 1
    None = None
    NProviders = 3
    Fanout = 2
    MaxWaves = 2
    Slots = 1
    ScoreLimit = 1
    Searches = {r1, r2}
    MaxSearches = 2
CHECK_DEADLOCK FALSE
INVARIANTS DnsInv
PROPERTIES StoresForward DnsReturns
