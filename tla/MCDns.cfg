\* The DNS server: statistics against shutdown and crashes, admission and the order of
\* the end, the cache against its two clocks, lookups against their own listener.
SPECIFICATION ResolverSpec
CONSTANTS
    Producers = {p1, p2}
    Ingress = 2
    BatchMax = 2
    Window = 1
    LastSecond = 3
    Addresses = {a1, a2}
    Datagrams = {d1, d2}
    Streams = {t1}
    Questions = {q1, q2}
    Backend = 2
    Connections = 1
    Names = {n1, n2, n3}
    CapEntries = 2
    CapBytes = 3
    Sizes = {1, 2}
    Lifetimes = {2, 3}
    Savers = {s1, s2}
    Horizon = 3
    Lookups = {l1, l2}
    Servers = {v1, v2, v3, v4}
    Wildcard = any
    Loopback = {v3}
    Deaf = {v4}
    Providers = 2
CHECK_DEADLOCK FALSE
INVARIANTS ResolverInv
PROPERTIES ResolverForward ResolverEnds
