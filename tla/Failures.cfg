\* Allocations and dispatches may fail.
CONSTANTS
    Host = Host
    Gpu1 = Gpu1
    Gpu2 = Gpu2
    Devices = {Host, Gpu1}
    CopyLanes = 1
    KernelLanes = 1
    Applications <- FailureApplications
    DependOn = {"kernel"}
    Observers = {"poll", "wait", "gc"}
    MayFail = TRUE
    Initialized = FALSE
    MaxGroups = 2
    NumElements = 3
    PageSize = 2
    Depth = 1
SPECIFICATION FairSpec
INVARIANTS
    RequirementsSubmitted
PROPERTY GroupsFinish
