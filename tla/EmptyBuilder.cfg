\* A thread finds the builder empty while another one is flushing.
CONSTANTS
    Threads <- TwoThreads
    t1 = t1
    t2 = t2
    None = None
    GcBatch = 1
    MaxNodes = 3
SPECIFICATION Spec
PROPERTY FlushAndGcWaits
