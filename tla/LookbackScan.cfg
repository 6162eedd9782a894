SPECIFICATION Spec
CONSTANTS
    Elem <- MCElem
    Op <- MCOp
    Configs <- MCConfigs
    Input <- MCInput
    InitValue <- MCInitValue
    GroupSize = 3
    Slots = 3
    WordSize = 24
INVARIANTS
    TypeOK
    PrefixCorrect
    ResultIsReference
PROPERTIES
    PublishedIsFinal
    GroupsFinish
