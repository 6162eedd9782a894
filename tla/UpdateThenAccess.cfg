\* An explicit update followed by a conflicting host accessor.
CONSTANTS
    Host = Host
    Gpu1 = Gpu1
    Gpu2 = Gpu2
    Devices = {Host, Gpu1}
    CopyLanes = 1
    KernelLanes = 1
    Applications <- UpdateApplications
    DependOn = {}
    Observers = {"wait", "gc"}
    MayFail = FALSE
    Initialized = TRUE
    MaxGroups = 2
    NumElements = 3
    PageSize = 3
    Depth = 10
SPECIFICATION Spec
INVARIANTS
    NoCyclicRequirements
