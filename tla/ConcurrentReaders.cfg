\* Two kernels read the same data on two lanes of a GPU.
CONSTANTS
    Host = Host
    Gpu1 = Gpu1
    Gpu2 = Gpu2
    Devices = {Host, Gpu1}
    CopyLanes = 1
    KernelLanes = 2
    Applications <- ReaderApplications
    DependOn = {}
    Observers = {"wait", "gc"}
    MayFail = FALSE
    Initialized = TRUE
    MaxGroups = 2
    NumElements = 3
    PageSize = 3
    Depth = 10
SPECIFICATION Spec
INVARIANTS
    ReadsSeeLatest
