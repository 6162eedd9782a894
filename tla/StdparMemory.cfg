SPECIFICATION Spec
CONSTANTS
    MaxBits = 5
    MaxSpace = 8
    Threads = {t1, t2}
    Sizes = {2, 3, 4}
    PageSize = 2
    Outside = {100}
    Tracking = FALSE
    MaxMallocs = 4
INVARIANTS
    TypeOK
    BlocksDisjoint
    NoSpaceLost
    BuddiesMerged
    OwnedIsRegistered
