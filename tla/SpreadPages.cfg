\* A range whose pages are up-to-date on different devices.
CONSTANTS
    Host = Host
    Gpu1 = Gpu1
    Gpu2 = Gpu2
    Devices = {Host, Gpu1, Gpu2}
    CopyLanes = 1
    KernelLanes = 1
    Applications <- SpreadPagesApplications
    DependOn = {}
    Observers = {"wait", "gc"}
    MayFail = FALSE
    Initialized = TRUE
    MaxGroups = 2
    NumElements = 3
    PageSize = 2
    Depth = 10
SPECIFICATION Spec
INVARIANTS
    UpdateSourceFound
