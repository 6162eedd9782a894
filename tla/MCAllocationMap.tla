-------------------------- MODULE MCAllocationMap --------------------------
(* Eight addresses in four leaves.  Block a begins in the first leaf and   *)
(* reaches into the second, where block b begins.                          *)
EXTENDS AllocationMap

blockA == [addr |-> 0, size |-> 3]
blockB == [addr |-> 3, size |-> 1]

MCBlocks == {blockA, blockB}
MCOldBlocks == {{}, MCBlocks}

(* Inside a; inside a and below b in the same leaf; above both; b itself.  *)
MCProbes == {[op |-> "get", x |-> 1], [op |-> "get", x |-> 2],
             [op |-> "get", x |-> 5], [op |-> "getRoot", x |-> 3]}
=============================================================================
