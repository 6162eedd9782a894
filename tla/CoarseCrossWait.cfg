SPECIFICATION Spec
CONSTANTS
    a = a
    b = b
    c = c
    Queues = {a, b}
    Threads = {t1}
    Setups <- CoarseHostQueues
    MaxFailures = 0
PROPERTY
    AllExecuted
