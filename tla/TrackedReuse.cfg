SPECIFICATION Spec
CONSTANTS
    MaxBits = 5
    MaxSpace = 8
    Threads = {t1, t2}
    Sizes = {2}
    PageSize = 2
    Outside = {100}
    Tracking = TRUE
    MaxMallocs = 4
INVARIANT OwnedIsTracked
