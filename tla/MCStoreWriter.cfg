\* Two mutations through the actor, a CLI process, two closes, a crash.
SPECIFICATION FairSpec
CONSTANTS
    Angel = {a1, a2}
    Cli = {c1}
    Closers = {x1, x2}
    ChannelCap = 1
    MaxCrashes = 1
    NoOwner = NoOwner
    TheActor = TheActor
    NoOp = NoOp
CHECK_DEADLOCK FALSE
INVARIANTS StoreInv AckedKept
PROPERTIES LogSpec AckedPublished CloseReturns
