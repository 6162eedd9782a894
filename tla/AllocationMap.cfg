SPECIFICATION Spec
CONSTANTS
    Base = 2
    Levels = 3
    Blocks <- MCBlocks
    Probes <- MCProbes
    OldBlocks <- MCOldBlocks
    Foreign = {1}
    MaxOps = 3
INVARIANTS
    TypeOK
    LookupCorrect
    NothingLost
    TreePruned
PROPERTY
    OperationsReturn
