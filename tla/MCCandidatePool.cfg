\* Maintenance and a command beside a health round, with every failure.
SPECIFICATION Spec
CONSTANTS
    a1 = a1
    a2 = a2
    b = b
    c = c
    other = other
    Lines = {a1, b}
    Key <- MCKey
    Eligible = {a1, b}
    Lists <- MCLists
    Angels = {angel}
    Commands = {cli}
    Pruners = {health}
    Target = 1
    MaxAttempts = 2
    StartSources = {"current"}
    Faulty = TRUE
    Nobody = Nobody
INVARIANT ConfigUnique
PROPERTIES NeverLost NoResurrection
