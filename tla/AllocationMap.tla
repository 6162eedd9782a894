--------------------------- MODULE AllocationMap ---------------------------
(***************************************************************************)
(* common/allocation_map.hpp: the radix tree that maps addresses to the    *)
(* allocations that contain them.  Lookups and insertions of any number of *)
(* threads run at the same time without locks; erase() is alone.           *)
(*                                                                         *)
(* Level 0 are the leaves, whose entries are addresses; level Levels - 1   *)
(* is the root.  A node is a level and the common prefix of the addresses  *)
(* below it, so that a child pointer is the presence of a node.  Every     *)
(* access to a pointer, counter or size that another thread may change     *)
(* meanwhile is a step; allocations do not overlap, so that only one       *)
(* thread at a time writes to the entry of an address.                     *)
(***************************************************************************)
EXTENDS Integers, FiniteSets

CONSTANTS
    Base,      \* children of a node: 16 in the code
    Levels,    \* levels of the tree: 16 in the code
    Blocks,    \* the allocations an application makes: [addr, size], disjoint
    OldBlocks, \* sets of them of which one has been inserted before
    Probes,    \* its lookups: [op, x] with op "get" or "getRoot"
    Foreign,   \* addresses that it frees although they are not in the map
    MaxOps     \* bound: operations of an application

(* Operation t is the t-th to be called.  Each has a thread of its own: a  *)
(* thread that calls several makes them one after the other, which is one  *)
(* of the orders considered.                                               *)
Threads == 1..MaxOps

(* get_space_spanned_by_node_in_level                                      *)
Span[level \in Nat] == IF level = 0 THEN 1 ELSE Base * Span[level - 1]

Addresses == 0..(Span[Levels] - 1)
Root == Levels - 1

PrefixAt(level, address) == address \div Span[level + 1]
NodeAt(level, address) == <<level, PrefixAt(level, address)>>
IndexAt(level, address) == (address \div Span[level]) % Base
AllNodes == {NodeAt(l, x) : l \in 0..Root, x \in Addresses}
Covers(block, x) == block.addr <= x /\ x < block.addr + block.size
NoBlock == [addr |-> -1, size |-> 0]

ASSUME MapAssumption ==
    /\ Base \in Nat \ {0, 1} /\ Levels \in Nat \ {0, 1} /\ MaxOps \in Nat
    /\ Foreign \subseteq Addresses /\ OldBlocks \subseteq SUBSET Blocks
    /\ \A p \in Probes : p.op \in {"get", "getRoot"} /\ p.x \in Addresses
    /\ \A b \in Blocks : b.addr \in Addresses /\ b.size \in Nat \ {0}
    /\ \A b, c \in Blocks : b # c => ~ \E x \in Addresses : Covers(b, x) /\ Covers(c, x)
    /\ \A b \in Blocks : b.addr \notin Foreign

VARIABLES
    inProgress, \* _num_in_progress_operations
    present,    \* the nodes that their parents point to
    count,      \* num_entries of each node
    size,       \* allocation_size of the entry of each address
    payload,    \* the block whose payload the entry holds, NoBlock: garbage
    state,      \* of each block: "free", "inserting", "live", "erasing"
    ops,        \* operations started so far
    thr         \* where each operation is

tree == <<present, count, size, payload>>
vars == <<inProgress, tree, state, ops, thr>>

(* A thread: its operation, on address x (block b if it inserts), its place *)
(* in the tree, the leaves it has looked at, the blocks that have been     *)
(* there since it was called, and its result.                              *)
Idle == [op |-> "none", pc |-> "idle", x |-> 0, b |-> NoBlock, level |-> 0,
         prefix |-> 0, i |-> 0, attempts |-> 0, stable |-> {}, result |-> -1]

(* The nodes that a set of blocks needs, and how many children or entries  *)
(* they have.                                                              *)
NodesFor(blocks) ==
    {NodeAt(Root, 0)} \cup {NodeAt(l, b.addr) : l \in 0..Root, b \in blocks}
EntriesFor(n, blocks) ==
    IF n[1] = 0 THEN Cardinality({b \in blocks : NodeAt(0, b.addr) = n})
    ELSE Cardinality({m \in NodesFor(blocks) : m[1] = n[1] - 1 /\ m[2] \div Base = n[2]})

(* Some of the blocks have been inserted before, one after the other.      *)
Init ==
    \E old \in OldBlocks :
        /\ inProgress = 0
        /\ present = NodesFor(old)
        /\ count = [n \in AllNodes |-> EntriesFor(n, old)]
        /\ size = [x \in Addresses |->
                      IF \E b \in old : b.addr = x
                      THEN (CHOOSE b \in old : b.addr = x).size ELSE 0]
        /\ payload = [x \in Addresses |->
                         IF \E b \in old : b.addr = x
                         THEN CHOOSE b \in old : b.addr = x ELSE NoBlock]
        /\ state = [b \in Blocks |-> IF b \in old THEN "live" ELSE "free"]
        /\ ops = 0
        /\ thr = [t \in Threads |-> Idle]

At(t, op, pc) == thr[t].op = op /\ thr[t].pc = pc
Goto(t, pc) == thr' = [thr EXCEPT ![t].pc = pc]
Live == {b \in Blocks : state[b] = "live"}

-----------------------------------------------------------------------------
(* An application's calls, and the two locks.                              *)

Started(op, x, b, stable) ==
    [Idle EXCEPT !.op = op, !.pc = "enter", !.x = x, !.b = b, !.level = Root,
                 !.stable = stable]

Call(t) ==
    /\ t = ops + 1
    /\ ops' = t
    /\ UNCHANGED <<inProgress, tree>>

CallInsert(t, b) ==
    /\ Call(t)
    /\ state[b] = "free"
    /\ state' = [state EXCEPT ![b] = "inserting"]
    /\ thr' = [thr EXCEPT ![t] = Started("insert", b.addr, b, {})]

(* An address that is in the map already, and stays there.                 *)
CallInsertAgain(t, b) ==
    /\ Call(t)
    /\ state[b] = "live"
    /\ thr' = [thr EXCEPT ![t] = Started("insert", b.addr, NoBlock, {})]
    /\ UNCHANGED state

(* From here on lookups need not find the block.                           *)
CallErase(t, b) ==
    /\ Call(t)
    /\ state[b] = "live"
    /\ ~ \E u \in Threads : thr[u].op = "insert" /\ thr[u].x = b.addr
    /\ state' = [state EXCEPT ![b] = "erasing"]
    /\ thr' = [u \in Threads |-> IF u = t THEN Started("erase", b.addr, b, {})
                                 ELSE [thr[u] EXCEPT !.stable = @ \ {b}]]

CallEraseForeign(t, x) ==
    /\ Call(t)
    /\ thr' = [thr EXCEPT ![t] = Started("erase", x, NoBlock, {})]
    /\ UNCHANGED state

(* The blocks that a lookup has to find.                                   *)
Wanted(p) ==
    {b \in Live : IF p.op = "get" THEN Covers(b, p.x) ELSE b.addr = p.x}

CallGet(t, p) ==
    /\ Call(t)
    /\ thr' = [thr EXCEPT ![t] = Started(p.op, p.x, NoBlock, Wanted(p))]
    /\ UNCHANGED state

(* The last index of a node if everything below it precedes the address,   *)
(* else the index of the address.                                          *)
StartIndex(level, prefix, x) ==
    IF (prefix + 1) * Span[level + 1] - 1 <= x THEN Base - 1 ELSE IndexAt(level, x)

(* insert_or_get_entry_lock: a failed compare_exchange tries again.        *)
EnterShared(t) ==
    /\ thr[t].pc = "enter"
    /\ thr[t].op # "erase"
    /\ inProgress >= 0
    /\ inProgress' = inProgress + 1
    /\ thr' = [thr EXCEPT ![t].pc = "descend",
                          ![t].i = StartIndex(Root, 0, thr[t].x)]
    /\ UNCHANGED <<tree, state, ops>>

(* Bug: erase_lock does not reset the expected value after a failure.      *)
EnterAnyway(t) ==
    /\ At(t, "erase", "enter")
    /\ inProgress' = -1
    /\ Goto(t, "descend")
    /\ UNCHANGED <<tree, state, ops>>

(* erase_lock                                                              *)
EnterErase(t) ==
    /\ At(t, "erase", "enter")
    /\ inProgress = 0
    /\ inProgress' = -1
    /\ Goto(t, "descend")
    /\ UNCHANGED <<tree, state, ops>>

(* The state of the thread's block once its operation has returned.        *)
Settled(t) ==
    IF thr[t].b = NoBlock THEN state
    ELSE [state EXCEPT ![thr[t].b] =
             IF thr[t].op = "insert" /\ thr[t].result >= 0 THEN "live" ELSE "free"]

(* The destructors of the locks; the operation returns.                    *)
Leave(t) ==
    /\ thr[t].pc = "leave"
    /\ inProgress' = IF thr[t].op = "erase" THEN 0 ELSE inProgress - 1
    /\ state' = Settled(t)
    /\ thr' = [thr EXCEPT ![t] = Idle]
    /\ UNCHANGED <<tree, ops>>

Return(t, result) == thr' = [thr EXCEPT ![t].pc = "leave", ![t].result = result]

-----------------------------------------------------------------------------
(* get_entry                                                               *)

(* The search goes on with the next lower child of the parent.             *)
Backtrack(t, attempts) ==
    IF thr[t].level = Root THEN Return(t, -1)
    ELSE thr' = [thr EXCEPT ![t].level = @ + 1,
                            ![t].prefix = @ \div Base,
                            ![t].i = (thr[t].prefix % Base) - 1,
                            ![t].attempts = attempts]

(* Bug: returns from a node without children to the same child.            *)
SearchNodeAgain(t) ==
    /\ At(t, "get", "descend")
    /\ thr[t].level > 0
    /\ LET child == <<thr[t].level - 1, thr[t].prefix * Base + thr[t].i>>
       IN  CASE thr[t].i < 0 /\ thr[t].level = Root -> Return(t, -1)
             [] thr[t].i < 0 /\ thr[t].level < Root ->
                    thr' = [thr EXCEPT ![t].level = @ + 1, ![t].prefix = @ \div Base,
                                       ![t].i = thr[t].prefix % Base]
             [] thr[t].i >= 0 /\ child \in present ->
                    thr' = [thr EXCEPT ![t].level = @ - 1, ![t].prefix = child[2],
                                ![t].i = StartIndex(child[1], child[2], thr[t].x)]
             [] OTHER -> thr' = [thr EXCEPT ![t].i = @ - 1]
    /\ UNCHANGED <<inProgress, tree, state, ops>>

(* Intermediate levels: goes down into the next lower child, if any.       *)
SearchNode(t) ==
    /\ At(t, "get", "descend")
    /\ thr[t].level > 0
    /\ LET child == <<thr[t].level - 1, thr[t].prefix * Base + thr[t].i>>
       IN  CASE thr[t].i < 0 -> Backtrack(t, thr[t].attempts)
             [] thr[t].i >= 0 /\ child \in present ->
                    thr' = [thr EXCEPT ![t].level = @ - 1, ![t].prefix = child[2],
                                ![t].i = StartIndex(child[1], child[2], thr[t].x)]
             [] OTHER -> thr' = [thr EXCEPT ![t].i = @ - 1]
    /\ UNCHANGED <<inProgress, tree, state, ops>>

(* Bug: gives up after the first leaf.                                     *)
LeafFailsOnce(t) == Return(t, -1)

(* A leaf without a match.  The second one ends the search.                *)
LeafFails(t) ==
    IF thr[t].attempts + 1 >= 2 THEN Return(t, -1)
    ELSE Backtrack(t, thr[t].attempts + 1)

(* Leaves: the nearest entry that is not above the address decides.        *)
SearchLeaf(t) ==
    /\ At(t, "get", "descend")
    /\ thr[t].level = 0
    /\ LET x == thr[t].prefix * Base + thr[t].i
       IN  CASE thr[t].i < 0 -> LeafFails(t)
             [] thr[t].i >= 0 /\ size[x] = 0 -> thr' = [thr EXCEPT ![t].i = @ - 1]
             [] OTHER -> IF x <= thr[t].x /\ thr[t].x < x + size[x]
                         THEN Return(t, x) ELSE LeafFails(t)
    /\ UNCHANGED <<inProgress, tree, state, ops>>

(* get_entry_of_root_address: one level per step.                          *)
GetRoot(t) ==
    /\ At(t, "getRoot", "descend")
    /\ LET l == thr[t].level
           x == thr[t].x
       IN  IF l = 0
           THEN Return(t, IF size[x] > 0 THEN x ELSE -1)
           ELSE IF NodeAt(l - 1, x) \in present
                THEN thr' = [thr EXCEPT ![t].level = @ - 1]
                ELSE Return(t, -1)
    /\ UNCHANGED <<inProgress, tree, state, ops>>

-----------------------------------------------------------------------------
(* insert                                                                  *)

ChildOf(t) == NodeAt(thr[t].level - 1, thr[t].x)
Down(t) == thr' = [thr EXCEPT ![t].level = @ - 1, ![t].pc = "descend"]

(* Intermediate levels: looks at the pointer to the child.                 *)
InsertLoad(t) ==
    /\ At(t, "insert", "descend")
    /\ thr[t].level > 0
    /\ IF ChildOf(t) \in present THEN Down(t) ELSE Goto(t, "exchange")
    /\ UNCHANGED <<inProgress, tree, state, ops>>

(* The parent of node n points to a new node: no entries, no children.     *)
Below(n) == {NodeAt(l, x) : l \in 0..(n[1] - 1), x \in {y \in Addresses : NodeAt(n[1], y) = n}}
Attach(n) ==
    LET lost(x) == NodeAt(0, x) \in Below(n) \cup {n}
    IN  /\ present' = (present \ Below(n)) \cup {n}
        /\ size' = [x \in Addresses |-> IF lost(x) THEN 0 ELSE size[x]]
        /\ payload' = [x \in Addresses |-> IF lost(x) THEN NoBlock ELSE payload[x]]

(* Counters are only read by erase(), which is alone: they change together *)
(* with the store that precedes them.                                      *)
AttachAndCount(t) ==
    LET n == ChildOf(t)
        parent == NodeAt(thr[t].level, thr[t].x)
    IN  /\ Attach(n)
        /\ count' = [count EXCEPT ![n] = 0, ![parent] = @ + 1]

(* Bug: stores the pointer whatever has been stored since the load.        *)
InsertStore(t) ==
    /\ At(t, "insert", "exchange")
    /\ AttachAndCount(t)
    /\ Down(t)
    /\ UNCHANGED <<inProgress, state, ops>>

(* compare_exchange: a thread that comes second frees its node and uses    *)
(* the one it finds.                                                       *)
InsertExchange(t) ==
    /\ At(t, "insert", "exchange")
    /\ \/ ChildOf(t) \notin present /\ AttachAndCount(t)
       \/ ChildOf(t) \in present /\ UNCHANGED tree
    /\ Down(t)
    /\ UNCHANGED <<inProgress, state, ops>>

(* The leaf: fails if the entry is occupied; else stores the size, in the  *)
(* same step as the load, because nobody else writes to this entry between *)
(* the two: blocks are disjoint, and an erase() would be alone ...         *)
InsertSize(t) ==
    /\ At(t, "insert", "descend")
    /\ thr[t].level = 0
    /\ \/ /\ size[thr[t].x] > 0
          /\ Return(t, -1)
          /\ UNCHANGED size
       \/ /\ size[thr[t].x] = 0
          /\ size' = [size EXCEPT ![thr[t].x] = thr[t].b.size]
          /\ Goto(t, "payload")
    /\ UNCHANGED <<inProgress, present, count, payload, state, ops>>

(* ... then the payload, and counts the entry.                             *)
InsertPayload(t) ==
    /\ At(t, "insert", "payload")
    /\ payload' = [payload EXCEPT ![thr[t].x] = thr[t].b]
    /\ count' = [count EXCEPT ![NodeAt(0, thr[t].x)] = @ + 1]
    /\ Return(t, thr[t].x)
    /\ UNCHANGED <<inProgress, present, size, state, ops>>

-----------------------------------------------------------------------------
(* erase: the whole recursion is a step, as it is alone in the map.        *)

(* The path to the address exists and its entry is occupied.               *)
Occupied(x) == (\A l \in 0..Root : NodeAt(l, x) \in present) /\ size[x] > 0

(* num_entries of the nodes on the path after the removal, from the leaf   *)
(* up: a node loses its child when that has no entries left.               *)
CountsAfterErase(x) ==
    LET after[l \in 0..Root] ==
            IF l = 0 THEN count[NodeAt(0, x)] - 1
            ELSE IF after[l - 1] = 0 THEN count[NodeAt(l, x)] - 1
                 ELSE count[NodeAt(l, x)]
    IN  after

(* Bug: leaves empty nodes in the tree.                                    *)
EraseLeafOnly(t) ==
    /\ At(t, "erase", "descend")
    /\ LET x == thr[t].x
       IN  IF Occupied(x)
           THEN /\ size' = [size EXCEPT ![x] = 0]
                /\ count' = [count EXCEPT ![NodeAt(0, x)] = @ - 1]
                /\ Return(t, x)
                /\ UNCHANGED <<present, payload>>
           ELSE Return(t, -1) /\ UNCHANGED tree
    /\ UNCHANGED <<inProgress, state, ops>>

Erase(t) ==
    /\ At(t, "erase", "descend")
    /\ LET x == thr[t].x
           after == CountsAfterErase(x)
       IN  IF Occupied(x)
           THEN /\ size' = [size EXCEPT ![x] = 0]
                /\ count' = [n \in AllNodes |->
                                IF n = NodeAt(n[1], x) THEN after[n[1]] ELSE count[n]]
                /\ present' = present \ {NodeAt(l, x) : l \in {k \in 0..(Root - 1) : after[k] = 0}}
                /\ Return(t, x)
                /\ UNCHANGED payload
           ELSE Return(t, -1) /\ UNCHANGED tree
    /\ UNCHANGED <<inProgress, state, ops>>

-----------------------------------------------------------------------------

Step(t) ==
    \/ EnterShared(t) \/ EnterErase(t) \/ Leave(t)
    \/ SearchNode(t) \/ SearchLeaf(t) \/ GetRoot(t)
    \/ InsertLoad(t) \/ InsertExchange(t) \/ InsertSize(t) \/ InsertPayload(t)
    \/ Erase(t)

CallSome(t) ==
    \/ \E b \in Blocks : CallInsert(t, b) \/ CallInsertAgain(t, b) \/ CallErase(t, b)
    \/ \E x \in Foreign : CallEraseForeign(t, x)
    \/ \E p \in Probes : CallGet(t, p)

(* The bound on operations is reached, or a thread spins on a lock.        *)
Spin(t) == thr[t].pc = "enter" /\ UNCHANGED vars
Terminated ==
    /\ ops = MaxOps
    /\ \A t \in Threads : thr[t] = Idle
    /\ UNCHANGED vars

Next ==
    \/ \E t \in Threads : CallSome(t) \/ Step(t) \/ Spin(t)
    \/ Terminated

(* Threads inside an operation keep running.                               *)
Spec == Init /\ [][Next]_vars /\ \A t \in Threads : WF_vars(Step(t))

-----------------------------------------------------------------------------

Inside == {t \in Threads : thr[t].pc \notin {"idle", "enter"}}

(* Types; and the counter of operations in progress counts those inside,   *)
(* of which erase() is the only one (allocation_map.hpp:451-487).          *)
TypeOK ==
    /\ present \subseteq AllNodes
    /\ \A n \in AllNodes : count[n] \in 0..Base
    /\ size \in [Addresses -> {0} \cup {b.size : b \in Blocks}]
    /\ payload \in [Addresses -> Blocks \cup {NoBlock}]
    /\ state \in [Blocks -> {"free", "inserting", "live", "erasing"}]
    /\ \A t \in Threads : /\ thr[t].level \in 0..Root
                          /\ thr[t].i \in -1..(Base - 1)
                          /\ thr[t].attempts \in 0..1
                          /\ thr[t].result \in Addresses \cup {-1}
    /\ inProgress = IF \E t \in Inside : thr[t].op = "erase" THEN -1
                    ELSE Cardinality(Inside)
    /\ (\E t \in Inside : thr[t].op = "erase") => Cardinality(Inside) = 1

(* A lookup finds the allocation that contains the address if it was there *)
(* from the call to the return, whatever is inserted meanwhile, and never  *)
(* reports one that does not contain the address                           *)
(* (allocation_map.hpp:107-121, 199-327).                                  *)
LookupCorrect ==
    \A t \in Threads : thr[t].op \in {"get", "getRoot"} /\ thr[t].pc = "leave" =>
        /\ \A b \in thr[t].stable : thr[t].result = b.addr
        /\ thr[t].result >= 0 =>
               \E b \in Blocks : /\ b.addr = thr[t].result
                                 /\ Covers(b, thr[t].x)
                                 /\ state[b] # "free"

(* An allocation whose insertion has returned stays in the map with its    *)
(* size and payload until it is erased, also when several threads create   *)
(* the same nodes (allocation_map.hpp:329-379).                            *)
NothingLost ==
    \A b \in Live : /\ Occupied(b.addr)
                    /\ size[b.addr] = b.size
                    /\ payload[b.addr] = b

(* When no operation is in progress the nodes are exactly those that the   *)
(* live allocations need, and their counters are right: erase() can rely   *)
(* on them, and get_entry() on the absence of empty leaves                 *)
(* (allocation_map.hpp:381-424, 243-299).                                  *)
TreePruned ==
    Inside = {} =>
        LET settled == {b \in Blocks : state[b] \in {"live", "erasing"}}
        IN  /\ present = NodesFor(settled)
            /\ \A n \in present : count[n] = EntriesFor(n, settled)

(* Every operation returns: the spin locks are released, and no search is  *)
(* endless (allocation_map.hpp:199-327, 451-487).  There are only MaxOps   *)
(* operations, so this means that the map is always unused again later.    *)
OperationsReturn == []<>(\A t \in Threads : thr[t] = Idle)
=============================================================================
