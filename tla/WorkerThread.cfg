CONSTANTS
    c1 = c1
    c2 = c2
    Clients <- MCClients
    MaxTasks = 3
SPECIFICATION Spec
INVARIANTS
    TypeOK
    RunsOnceInOrder
PROPERTIES
    WaitMeansDone
    TasksRun
    WaitReturns
    HaltTerminates
