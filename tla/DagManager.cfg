\* Two threads, and garbage collections also triggered by the number of nodes.
CONSTANTS
    Threads <- TwoThreads
    t1 = t1
    t2 = t2
    None = None
    GcBatch = 1
    MaxNodes = 2
SPECIFICATION FairSpec
INVARIANTS
    TypeOK
    SubmissionEnsured
    ScheduledInOrder
    WaitMeansFinished
PROPERTY OperationsReturn
