\* Two logins and a command over two accounts, with a restart.
SPECIFICATION FairSpec
CONSTANTS
    Names = {alice, bob}
    alice = alice
    bob = bob
    StartHashes <- MCStartHashes
    Passwords = {p, q}
    CmdPasswords = {q}
    Empty = Empty
    Attrs = {"endpoint"}
    Logins = {t1, t2}
    Cmds = {c1}
    MaxRestarts = 1
    Init_ = Init_
    Seed = Seed
    SeedPassword = p
    Nobody = Nobody
CHECK_DEADLOCK FALSE
INVARIANTS CacheSound FirstWins AcceptedPersisted
PROPERTIES Serial LoginReturns
