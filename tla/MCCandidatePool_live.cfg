\* Maintenance of a pool longer than a batch, with legacy sources and a health
\* round, without failures.
SPECIFICATION FairSpec
CONSTANTS
    a1 = a1
    a2 = a2
    b = b
    c = c
    other = other
    Lines = {a1, a2, b, c, other}
    Key <- MCKey
    Eligible = {a1, a2, b, c}
    Lists <- MCListsLive
    Angels = {angel}
    Commands = {}
    Pruners = {health}
    Target = 1
    MaxAttempts = 2
    StartSources = {"current", "moved", "retired"}
    Faulty = FALSE
    Nobody = Nobody
PROPERTIES NotStarved
