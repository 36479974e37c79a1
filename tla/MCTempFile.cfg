\* Colliding writers, overlapping sweeps and a Drop without the section; deaths anywhere.
SPECIFICATION CastSpec
CONSTANTS
    Writers = {w1, w2}
    Cleaners = {c1, c2}
    SecondWriter = w2
    SecondCleaner = c2
    Names = {n1}
    Inodes = {i1, i2, i3}
    Collisions = TRUE
    Degraded = FALSE
    NoProc = NoProc
    NoInode = NoInode
    NoName = NoName
    NoFile = NoFile
INVARIANT LiveTempKept
PROPERTIES PublishesOwn NoSubstitution SectionEnds LeftoversSwept
