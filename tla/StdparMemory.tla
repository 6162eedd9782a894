---------------------------- MODULE StdparMemory ----------------------------
(***************************************************************************)
(* unified_shared_memory of std/stdpar/detail/sycl_glue.hpp: the malloc()  *)
(* and free() that replace those of a program compiled for stdpar.  They   *)
(* take memory from a pool that free_space_map divides, or from the        *)
(* backend, and remember it in an allocation_map; the runtime's allocation *)
(* tracker is told as well.  Operations of the two maps are single steps   *)
(* here; module AllocationMap looks inside.                                *)
(*                                                                         *)
(* A pointer into the pool is its offset.                                  *)
(***************************************************************************)
EXTENDS FreeSpaceMap, FiniteSets

CONSTANTS
    Threads,
    Sizes,       \* the sizes that a program asks for
    PageSize,
    Outside,     \* the addresses that the backend may return
    Tracking,    \* _needs_allocation_tracking
    MaxMallocs   \* bound: calls of malloc

ASSUME MemoryAssumption ==
    /\ Sizes \subseteq Nat /\ PageSize \in Nat \ {0} /\ MaxMallocs \in Nat
    /\ Tracking \in BOOLEAN
    /\ MaxSpace <= BlockSize(MaxBits)
    /\ \A p \in Outside : p \in Nat /\ p > BlockSize(MaxBits)
    /\ \A p, q \in Outside : p < q => \A n \in Sizes : p + n <= q

VARIABLES
    ready,      \* _memory_pool is not null
    free,       \* the free blocks of the pool's _free_space_map
    allocated,  \* _allocation_map: a set of [ptr, size]
    tracked,    \* the addresses in the allocation tracker
    outside,    \* the addresses that the backend has handed out
    claimed,    \* the blocks claimed from the pool and not released: [ptr, size]
    owned,      \* the memory that the program may use: [ptr, size]
    mallocs,    \* calls of malloc so far
    thr         \* where each thread is

vars == <<ready, free, allocated, tracked, outside, claimed, owned, mallocs, thr>>

Idle == [pc |-> "idle", n |-> 0, ptr |-> -1]
PoolSize == MaxSpace
IsFromPool(ptr) == ready /\ ptr \in 0..(PoolSize - 1)

Init ==
    /\ ready = FALSE
    /\ free = AllFree
    /\ allocated = {} /\ tracked = {} /\ outside = {}
    /\ claimed = {} /\ owned = {}
    /\ mallocs = 0
    /\ thr = [t \in Threads |-> Idle]

At(t, pc) == thr[t].pc = pc
Goto(t, pc) == thr' = [thr EXCEPT ![t].pc = pc]
Got(t, ptr, pc) == thr' = [thr EXCEPT ![t].ptr = ptr, ![t].pc = pc]

-----------------------------------------------------------------------------
(* malloc                                                                  *)

(* A request of no bytes counts as one.  Aligned memory comes from the     *)
(* backend; for other requests the memory pool is looked for.              *)
Malloc(t, n, aligned) ==
    /\ At(t, "idle")
    /\ mallocs < MaxMallocs
    /\ mallocs' = mallocs + 1
    /\ thr' = [thr EXCEPT ![t] = [n |-> IF n = 0 THEN 1 ELSE n, ptr |-> -1,
                                  pc |-> CASE aligned -> "fallback"
                                           [] ~ aligned /\ ready -> "claim"
                                           [] OTHER -> "init"]]
    /\ UNCHANGED <<ready, free, allocated, tracked, outside, claimed, owned>>

(* Bug: does not look again after taking the lock.                         *)
InitAlways(t) ==
    /\ At(t, "init")
    /\ ready' = TRUE
    /\ free' = AllFree
    /\ Goto(t, "claim")
    /\ UNCHANGED <<allocated, tracked, outside, claimed, owned, mallocs>>

(* init_mem_pool holds a lock; only the first one constructs a pool.  The  *)
(* allocation behind it succeeds: claim() does not look at its result.     *)
InitMemPool(t) ==
    /\ At(t, "init")
    /\ ready' = TRUE
    /\ free' = IF ready THEN free ELSE AllFree
    /\ Goto(t, "claim")
    /\ UNCHANGED <<allocated, tracked, outside, claimed, owned, mallocs>>

(* memory_pool::claim rounds small requests up to a page.                  *)
PoolRequest(n) == IF n < PageSize THEN PageSize ELSE n

(* Requests of less than half of the pool are taken from it if possible.   *)
Claim(t) ==
    /\ At(t, "claim")
    /\ LET n == thr[t].n
           size == PoolRequest(n)
           claim == ClaimBlock(free, size)
       IN  IF n < PoolSize \div 2
           THEN /\ free' = claim.free
                /\ \/ /\ claim.address >= 0
                      /\ claimed' = claimed \cup {[ptr |-> claim.address, size |-> size]}
                      /\ Got(t, claim.address, "track")
                   \/ /\ claim.address < 0
                      /\ Goto(t, "fallback")
                      /\ UNCHANGED claimed
           ELSE Goto(t, "fallback") /\ UNCHANGED <<free, claimed>>
    /\ UNCHANGED <<ready, allocated, tracked, outside, owned, mallocs>>

(* sycl::malloc_shared or aligned_alloc_shared: an address or nothing.     *)
Fallback(t) ==
    /\ At(t, "fallback")
    /\ \/ \E ptr \in Outside \ outside :
              /\ outside' = outside \cup {ptr}
              /\ Got(t, ptr, "track")
       \/ /\ thr' = [thr EXCEPT ![t] = Idle]
          /\ UNCHANGED outside
    /\ UNCHANGED <<ready, free, allocated, tracked, claimed, owned, mallocs>>

(* on_new_allocation; an address that is tracked already stays as it is.   *)
Track(t) ==
    /\ At(t, "track")
    /\ tracked' = IF Tracking THEN tracked \cup {thr[t].ptr} ELSE tracked
    /\ Goto(t, "register")
    /\ UNCHANGED <<ready, free, allocated, outside, claimed, owned, mallocs>>

(* The insertion into the allocation map fails if the address is there;    *)
(* the result is ignored and the pointer returned.                         *)
Register(t) ==
    /\ At(t, "register")
    /\ LET block == [ptr |-> thr[t].ptr, size |-> thr[t].n]
       IN  /\ allocated' = IF \E b \in allocated : b.ptr = block.ptr
                           THEN allocated ELSE allocated \cup {block}
           /\ owned' = owned \cup {block}
    /\ thr' = [thr EXCEPT ![t] = Idle]
    /\ UNCHANGED <<ready, free, tracked, outside, claimed, mallocs>>

-----------------------------------------------------------------------------
(* free                                                                    *)

(* The program gives up a block; its entry is looked up for the size.  A   *)
(* pointer without an entry would be left to the C library.                *)
Free(t, block) ==
    /\ At(t, "idle")
    /\ block \in owned
    /\ owned' = owned \ {block}
    /\ LET entries == {entry \in allocated : entry.ptr = block.ptr}
       IN  thr' = [thr EXCEPT ![t] =
                      IF entries = {} THEN Idle
                      ELSE [pc |-> "erase", ptr |-> block.ptr,
                            n |-> (CHOOSE entry \in entries : TRUE).size]]
    /\ UNCHANGED <<ready, free, allocated, tracked, outside, claimed, mallocs>>

(* Bug: releases the block, and erases the entry after that.               *)
EraseLate(t) ==
    /\ At(t, "erase")
    /\ IF IsFromPool(thr[t].ptr) /\ thr[t].n > 0
       THEN /\ free' = ReleaseBlock(free, thr[t].ptr, thr[t].n)
            /\ claimed' = {b \in claimed : b.ptr # thr[t].ptr}
            /\ thr' = [thr EXCEPT ![t].n = 0]
            /\ UNCHANGED allocated
       ELSE /\ allocated' = {b \in allocated : b.ptr # thr[t].ptr}
            /\ Goto(t, IF IsFromPool(thr[t].ptr) THEN "untrackPool" ELSE "untrack")
            /\ UNCHANGED <<free, claimed>>
    /\ UNCHANGED <<ready, tracked, outside, owned, mallocs>>

EraseEntry(t) ==
    /\ At(t, "erase")
    /\ allocated' = {b \in allocated : b.ptr # thr[t].ptr}
    /\ Goto(t, IF IsFromPool(thr[t].ptr) THEN "release" ELSE "untrack")
    /\ UNCHANGED <<ready, free, tracked, outside, claimed, owned, mallocs>>

(* memory_pool::release gives the block back, then informs the tracker.    *)
Release(t) ==
    /\ At(t, "release")
    /\ free' = ReleaseBlock(free, thr[t].ptr, thr[t].n)
    /\ claimed' = {b \in claimed : b.ptr # thr[t].ptr}
    /\ Goto(t, "untrackPool")
    /\ UNCHANGED <<ready, allocated, tracked, outside, owned, mallocs>>

UntrackPool(t) ==
    /\ At(t, "untrackPool")
    /\ tracked' = tracked \ {thr[t].ptr}
    /\ thr' = [thr EXCEPT ![t] = Idle]
    /\ UNCHANGED <<ready, free, allocated, outside, claimed, owned, mallocs>>

(* rt::deallocate informs the tracker, then the memory is freed.           *)
Untrack(t) ==
    /\ At(t, "untrack")
    /\ tracked' = tracked \ {thr[t].ptr}
    /\ Goto(t, "rawFree")
    /\ UNCHANGED <<ready, free, allocated, outside, claimed, owned, mallocs>>

RawFree(t) ==
    /\ At(t, "rawFree")
    /\ outside' = outside \ {thr[t].ptr}
    /\ thr' = [thr EXCEPT ![t] = Idle]
    /\ UNCHANGED <<ready, free, allocated, tracked, claimed, owned, mallocs>>

-----------------------------------------------------------------------------

(* The program has freed everything and asks for no more.                  *)
Terminated ==
    /\ mallocs = MaxMallocs
    /\ owned = {}
    /\ \A t \in Threads : thr[t] = Idle
    /\ UNCHANGED vars

Next ==
    \/ \E t \in Threads :
           \/ \E n \in Sizes, aligned \in BOOLEAN : Malloc(t, n, aligned)
           \/ InitMemPool(t) \/ Claim(t) \/ Fallback(t) \/ Track(t) \/ Register(t)
           \/ \E block \in owned : Free(t, block)
           \/ EraseEntry(t) \/ Release(t) \/ UntrackPool(t) \/ Untrack(t) \/ RawFree(t)
    \/ Terminated

Spec == Init /\ [][Next]_vars

-----------------------------------------------------------------------------

(* A range is a pair of its first address and its length.                  *)
Overlap(a, b) == a[1] < b[1] + b[2] /\ b[1] < a[1] + a[2]
FreeRanges == UNION {{<<a, BlockSize(l)>> : a \in free[l]} : l \in FreeLevels}
ClaimedRanges == {<<b.ptr, BlockSize(DesiredLevel(b.size))>> : b \in claimed}

(* Types; and blocks are aligned to their size.                            *)
TypeOK ==
    /\ ready \in BOOLEAN
    /\ free \in [FreeLevels -> SUBSET (0..(BlockSize(MaxBits) - 1))]
    /\ \A l \in FreeLevels : \A a \in free[l] : a % BlockSize(l) = 0
    /\ \A b \in allocated \cup owned : b.ptr \in (0..(PoolSize - 1)) \cup Outside
    /\ tracked \subseteq (0..(PoolSize - 1)) \cup Outside
    /\ outside \subseteq Outside
    /\ \A t \in Threads : thr[t].ptr \in {-1} \cup (0..(PoolSize - 1)) \cup Outside

(* No two blocks in use or free overlap, and what the program may use lies *)
(* inside the pool: whatever is split, merged, raced for or constructed    *)
(* twice, memory is handed out once (allocation_map.hpp:131-233,           *)
(* sycl_glue.hpp:407-443, 633-644).                                        *)
BlocksDisjoint ==
    /\ \A a, b \in FreeRanges \cup ClaimedRanges : a # b => ~ Overlap(a, b)
    /\ FreeRanges \cap ClaimedRanges = {}
    /\ \A b, c \in owned : b # c => ~ Overlap(<<b.ptr, b.size>>, <<c.ptr, c.size>>)
    /\ \A b \in claimed : b.ptr + b.size <= PoolSize

(* What was claimed and released is free again: every address belongs to a *)
(* block that is free or in use (sycl_glue.hpp:436-443, 597-602).          *)
NoSpaceLost ==
    \A x \in 0..(BlockSize(MaxBits - 1) - 1) :
        \E r \in FreeRanges \cup ClaimedRanges : Overlap(<<x, 1>>, r)

(* Two halves of a larger block are not both free where the lower half can *)
(* be used: releasing in any order restores the large blocks.  Halves that *)
(* a claim split in vain, beyond the end of the pool, stay apart           *)
(* (allocation_map.hpp:131-178, 197-233).                                  *)
BuddiesMerged ==
    \A l \in FreeLevels : \A a \in free[l] :
        a % BlockSize(l + 1) = 0 /\ a + BlockSize(l) \in free[l]
            => a + BlockSize(l) >= MaxSpace

(* A pool of which nothing is in use can serve every request, whatever was *)
(* allocated before (tests/pstl/free_space_map.cpp:95-97 releases a block  *)
(* and claims one of the same size again, which has to succeed).           *)
EmptyPoolServes ==
    claimed = {} => \A n \in Sizes :
        n < PoolSize \div 2 => ClaimBlock(free, PoolRequest(n)).address >= 0

(* free() finds every pointer that malloc() returned, with its own size,   *)
(* although addresses are used again by other threads as soon as they are  *)
(* released (sycl_glue.hpp:553-559, 592-602).                              *)
OwnedIsRegistered == owned \subseteq allocated

(* The runtime's tracker knows every allocation of the program             *)
(* (sycl_glue.hpp:422-428, 439-441).                                       *)
OwnedIsTracked == Tracking => \A b \in owned : b.ptr \in tracked
=============================================================================
