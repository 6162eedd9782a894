\* An exclusive scan in place: a group may load what the group before it wrote.
SPECIFICATION Spec
CONSTANTS
    Elem <- MCElem
    Op <- MCOp
    Configs <- ExclusiveInPlace
    Input <- MCInput
    InitValue <- MCInitValue
    GroupSize = 3
    Slots = 3
    WordSize = 24
INVARIANT ResultIsReference
