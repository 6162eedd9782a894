\* A kernel reads a page, another one also its neighbours on both sides.
CONSTANTS
    Host = Host
    Gpu1 = Gpu1
    Gpu2 = Gpu2
    Devices = {Host, Gpu1}
    CopyLanes = 1
    KernelLanes = 1
    Applications <- PageWiseApplications
    DependOn = {}
    Observers = {"wait", "gc"}
    MayFail = FALSE
    Initialized = TRUE
    MaxGroups = 2
    NumElements = 3
    PageSize = 1
    Depth = 10
SPECIFICATION Spec
INVARIANTS
    OneTransferPerRequirement
