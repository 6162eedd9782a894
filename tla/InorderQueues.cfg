SPECIFICATION Spec
CONSTANTS
    a = a
    b = b
    c = c
    Queues = {a, b, c}
    Threads = {t1, t2}
    Setups <- SafeSetups
    MaxFailures = 1
INVARIANTS
    TypeOK
    RequirementsDone
    KnownIsDone
PROPERTIES
    EventIsStable
    AllExecuted
