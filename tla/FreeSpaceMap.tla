---------------------------- MODULE FreeSpaceMap ----------------------------
(***************************************************************************)
(* free_space_map of std/stdpar/detail/allocation_map.hpp: a buddy         *)
(* allocator of address ranges.  Its state is the set of free blocks of    *)
(* each level, blocks of level l having 2^l addresses.  claim() and        *)
(* release() hold a spin lock, so that each is one operator here.          *)
(***************************************************************************)
EXTENDS Integers

CONSTANTS
    MaxBits,     \* number of levels: max_allocation_space_in_bits, 48 in the code
    MaxSpace     \* _max_assignable_space

ASSUME SpaceAssumption == MaxBits \in Nat \ {0} /\ MaxSpace \in Nat

FreeLevels == 0..(MaxBits - 1)
PowerOf2[n \in Nat] == IF n = 0 THEN 1 ELSE 2 * PowerOf2[n - 1]
BlockSize(level) == PowerOf2[level]
MinOf(S) == CHOOSE x \in S : \A y \in S : x <= y
MaxOf(S) == CHOOSE x \in S : \A y \in S : x >= y

(* All address space is one free block.                                    *)
AllFree == [l \in FreeLevels |-> IF l = MaxBits - 1 THEN {0} ELSE {}]

(* get_desired_level                                                       *)
DesiredLevel(size) ==
    LET large == {l \in FreeLevels : BlockSize(l) >= size}
    IN  IF large = {} THEN MaxBits - 1 ELSE MinOf(large)

(* Bug: forgets the halves between the two levels.                         *)
SplitAndForget(free, level) ==
    LET from == MinOf({l \in FreeLevels : l > level /\ free[l] # {}})
        address == MinOf(free[from])
    IN  [free EXCEPT ![from] = @ \ {address},
                     ![level] = {address, address + BlockSize(level)}]

(* generate_new_free_blocks, when the level has no block but a larger one  *)
(* exists: the lowest of the smallest larger blocks is split until it is   *)
(* small enough.                                                           *)
Split(free, level) ==
    LET from == MinOf({l \in FreeLevels : l > level /\ free[l] # {}})
        address == MinOf(free[from])
    IN  [l \in FreeLevels |->
            CASE l = from                -> free[l] \ {address}
              [] l = level               -> {address, address + BlockSize(l)}
              [] level < l /\ l < from   -> {address + BlockSize(l)}
              [] OTHER                   -> free[l]]

CanSplit(free, level) == \E l \in FreeLevels : l > level /\ free[l] # {}

(* Bug: does not look where the space ends.                                *)
ClaimAnywhere(free, size) ==
    LET level == DesiredLevel(size)
        blocks == IF free[level] = {} /\ CanSplit(free, level)
                  THEN Split(free, level) ELSE free
    IN  IF blocks[level] = {} THEN [free |-> blocks, address |-> -1]
        ELSE [free |-> [blocks EXCEPT ![level] = @ \ {MaxOf(blocks[level])}],
              address |-> MaxOf(blocks[level])]

(* claim: the free blocks afterwards, and the address or -1.               *)
ClaimBlock(free, size) ==
    LET level == DesiredLevel(size)
        blocks == IF free[level] = {} /\ CanSplit(free, level)
                  THEN Split(free, level) ELSE free
        fitting == {a \in blocks[level] : a + size < MaxSpace}
    IN  IF fitting = {} THEN [free |-> blocks, address |-> -1]
        ELSE [free |-> [blocks EXCEPT ![level] = @ \ {MaxOf(fitting)}],
              address |-> MaxOf(fitting)]

(* try_merge_blocks looks at the neighbour in the sorted set: the next one *)
(* for the lower half of a larger block, the previous one for the upper.   *)
(* Without a previous one the iterator is decremented at the beginning; in *)
(* libstdc++ it then is the end or the element itself: nothing to merge.   *)
Neighbours(free, address, level) ==
    IF address % BlockSize(level + 1) = 0
    THEN {a \in free[level] : a > address}
    ELSE {a \in free[level] : a < address}
MergeCandidate(free, address, level) ==
    IF address % BlockSize(level + 1) = 0
    THEN MinOf(Neighbours(free, address, level))
    ELSE MaxOf(Neighbours(free, address, level))

CanMerge(free, address, level) ==
    LET c == MergeCandidate(free, address, level)
    IN  /\ Neighbours(free, address, level) # {}
        /\ (c - address = BlockSize(level) \/ address - c = BlockSize(level))

(* Bug: stops after the first merge.                                       *)
ReleaseAndMergeOnce(free, address, size) ==
    LET level == DesiredLevel(size)
        more == [free EXCEPT ![level] = @ \cup {address}]
        buddy == MergeCandidate(more, address, level)
    IN  IF CanMerge(more, address, level)
        THEN [more EXCEPT ![level] = @ \ {address, buddy},
                          ![level + 1] = @ \cup {MinOf({address, buddy})}]
        ELSE more

(* release: false, and nothing changes, if the block is free already.      *)
(* Merging climbs from level to level as long as it succeeds.              *)
ReleaseBlock(free, address, size) ==
    LET level == DesiredLevel(size)
        start == [free |-> [free EXCEPT ![level] = @ \cup {address}],
                  address |-> address, merging |-> TRUE]
        after[l \in level..(MaxBits - 1)] ==
            IF l = level THEN start
            ELSE LET s == after[l - 1]
                     buddy == MergeCandidate(s.free, s.address, l - 1)
                     low == MinOf({s.address, buddy})
                 IN  IF s.merging /\ CanMerge(s.free, s.address, l - 1)
                     THEN [s EXCEPT !.free[l - 1] = @ \ {s.address, buddy},
                                    !.free[l] = @ \cup {low},
                                    !.address = low]
                     ELSE [s EXCEPT !.merging = FALSE]
    IN  IF address \in free[level] THEN free ELSE after[MaxBits - 1].free
=============================================================================
