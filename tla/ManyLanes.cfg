\* Overlapping kernels on the lanes of a GPU and of the host.
CONSTANTS
    Host = Host
    Gpu1 = Gpu1
    Gpu2 = Gpu2
    Devices = {Host, Gpu1}
    CopyLanes = 1
    KernelLanes = 2
    Applications <- ManyLanesApplications
    DependOn = {}
    Observers = {"poll"}
    MayFail = FALSE
    Initialized = TRUE
    MaxGroups = 3
    NumElements = 3
    PageSize = 2
    Depth = 10
SPECIFICATION Spec
INVARIANTS
    NoCyclicRequirements
    ConflictsOrdered
    TrackedUsersSuffice
