\* One GPU and the host, or data that moves between two GPUs and the host.
CONSTANTS
    Host = Host
    Gpu1 = Gpu1
    Gpu2 = Gpu2
    Devices = {Host, Gpu1, Gpu2}
    CopyLanes = 1
    KernelLanes = 1
    Applications <- BufferApplications
    DependOn = {}
    Observers = {"wait", "gc"}
    MayFail = FALSE
    Initialized = TRUE
    MaxGroups = 3
    NumElements = 3
    PageSize = 2
    Depth = 10
SPECIFICATION Spec
INVARIANTS
    TypeOK
    PagesCoherent
    KnownCompleteIsComplete
PROPERTY ImplementsOrderedAccess
