---------------------------- MODULE LookbackScan ----------------------------
(***************************************************************************)
(* algorithms/scan/decoupled_lookback_scan.hpp: a prefix sum in one pass   *)
(* over the data.  A work group scans its own elements, publishes their    *)
(* aggregate, and obtains what precedes it by looking back at the groups   *)
(* before it, spinning on the ones that have not published anything yet.   *)
(*                                                                         *)
(* The work items of a group are separated by barriers, so that a step of  *)
(* the model is what happens between two accesses to the scratch memory    *)
(* that groups share.  The device keeps at most Slots groups resident and  *)
(* does not preempt them.                                                  *)
(*                                                                         *)
(* A configuration is one call:                                            *)
(*   flat       flat_group_scan_kernel (T is not default constructible)    *)
(*   host       the host variants of the scan inside of a group            *)
(*   inclusive  IsInclusive                                                *)
(*   init       TRUE if an init value was given                            *)
(*   inPlace    d_first = first                                            *)
(*   size       problem_size                                               *)
(*   work       WorkPerItem                                                *)
(***************************************************************************)
EXTENDS Integers, Sequences, FiniteSets

CONSTANTS Elem,          \* values of T
          Op(_, _),      \* the binary operation
          Configs,       \* calls considered
          Input,         \* elements from first, function from 0..size-1
          InitValue,     \* the init argument
          GroupSize,     \* work items per group
          Slots,         \* groups that the device can keep resident
          WordSize       \* number of values of uint32_t

VARIABLES config,        \* the call
          data,          \* memory at first
          out,           \* memory at d_first, if it is another one
          status,        \* scratch.group_status
          aggregate,     \* scratch.group_aggregate
          inclusive,     \* scratch.inclusive_prefix
          counter,       \* *group_counter
          cleared,       \* groups whose status the initialization kernel has reset
          pc,            \* control point of each work group
          eid,           \* effective_group_id of each work group
          local,         \* result of the scan inside of the group
          look,          \* lookback_group
          seen,          \* lookback_status
          prefix         \* exclusive_prefix

scratch == <<status, aggregate, inclusive>>
private == <<eid, local, look, seen, prefix>>
vars == <<config, data, out, scratch, counter, cleared, pc, private>>

-----------------------------------------------------------------------------
(* Sizes                                                                   *)

CeilDiv(a, b) == (a + b - 1) \div b
NumGroups(c) == CeilDiv(CeilDiv(c.size, c.work), GroupSize)
GroupsOf(c) == 0..(NumGroups(c) - 1)
Groups == GroupsOf(config)
Items(c) == 1..(GroupSize * c.work)

\* global_id of the i-th element of a group.  scan_kernel multiplies uint32_t
\* and int, flat_group_scan_kernel converts to size_t first.
GlobalId(c, g, i) ==
    IF c.flat THEN g * GroupSize + i - 1 ELSE (g * GroupSize * c.work + i - 1) % WordSize

-----------------------------------------------------------------------------
(* Scan inside of a group.  Elements are numbered in the order of their    *)
(* global ids.                                                             *)

\* The generator of scan(): work items beyond the end get the last element.
Gen(c, d, id) == d[IF id >= c.size THEN c.size - 1 ELSE id]

\* load_data_element: an exclusive scan is an inclusive one of shifted data.
LoadDataElement(c, d, id) ==
    CASE c.inclusive /\ c.init /\ id = 0 -> Op(InitValue, Gen(c, d, id))
      [] c.inclusive /\ ~(c.init /\ id = 0) -> Gen(c, d, id)
      [] ~c.inclusive /\ id = 0 -> InitValue
      [] OTHER -> Gen(c, d, id - 1)

\* One round of kogge_stone_scan: all reads, a barrier, all writes.
KoggeStoneRound(mem, stride) ==
    [l \in DOMAIN mem |-> IF l > stride THEN Op(mem[l - stride], mem[l]) ELSE mem[l]]

\* The strides of kogge_stone_scan.
Stride[k \in Nat] == IF k = 0 THEN 1 ELSE 2 * Stride[k - 1]

\* Bug: the loop ends one stride too early.
KoggeStoneShort(elems) ==
    LET mem[k \in 0..Len(elems)] ==
            IF k = 0 THEN elems
            ELSE IF Stride[k] < Len(elems) THEN KoggeStoneRound(mem[k - 1], Stride[k - 1])
            ELSE mem[k - 1]
    IN mem[Len(elems)]

\* Strides double while they are smaller than the group.
KoggeStoneScan(elems) ==
    LET mem[k \in 0..Len(elems)] ==
            IF k = 0 THEN elems
            ELSE IF Stride[k - 1] < Len(elems) THEN KoggeStoneRound(mem[k - 1], Stride[k - 1])
            ELSE mem[k - 1]
    IN mem[Len(elems)]

\* sequential_scan and the loop of iterate_host_and_inclusive_group_scan.
SequentialScan(elems) ==
    LET current[i \in DOMAIN elems] ==
            IF i = 1 THEN elems[1] ELSE Op(current[i - 1], elems[i])
    IN current

\* collective_inclusive_group_scan
CollectiveScan(c, elems) == IF c.host THEN SequentialScan(elems) ELSE KoggeStoneScan(elems)

\* iterate_and_inclusive_group_scan: GroupSize elements per invocation, each
\* result combined with the last one of the invocation before.
IteratedScan(c, elems) ==
    LET result[k \in 0..(c.work - 1)] ==
            LET r == CollectiveScan(c, SubSeq(elems, k * GroupSize + 1, (k + 1) * GroupSize))
            IN IF k = 0 THEN r ELSE [l \in DOMAIN r |-> Op(result[k - 1][GroupSize], r[l])]
    IN [i \in Items(c) |-> result[(i - 1) \div GroupSize][((i - 1) % GroupSize) + 1]]

\* The inclusive scan of a group's own elements, loaded from memory d.
LocalScan(c, d, g) ==
    LET elems == [i \in Items(c) |-> LoadDataElement(c, d, GlobalId(c, g, i))]
    IN IF c.host /\ ~c.flat THEN SequentialScan(elems) ELSE IteratedScan(c, elems)

\* What a group contributes if nobody modifies the input.
GroupAggregate(c, g) == LocalScan(c, Input, g)[GroupSize * c.work]

\* The combination of the groups up to g, from left to right.
GroupPrefix ==
    [c \in Configs |->
        LET p[g \in GroupsOf(c)] == IF g = 0 THEN GroupAggregate(c, 0)
                                    ELSE Op(p[g - 1], GroupAggregate(c, g))
        IN p]

\* Calls with something to do, that load elements of the input, and whose ids
\* fit the type in which scan_kernel computes them.
ASSUME ScanAssumption ==
    /\ GroupSize \in Nat \ {0} /\ WordSize \in Nat
    /\ InitValue \in Elem
    /\ DOMAIN Input \subseteq Nat /\ \A id \in DOMAIN Input : Input[id] \in Elem
    /\ \A c \in Configs :
         /\ c.size \in Nat \ {0} /\ 0..(c.size - 1) \subseteq DOMAIN Input
         /\ c.work \in Nat \ {0} /\ (c.flat => c.work = 1)
         /\ c.flat \/ NumGroups(c) * (GroupSize * c.work) <= WordSize

-----------------------------------------------------------------------------
(* State                                                                   *)

Statuses == {"invalid", "aggregate_available", "prefix_available"}

\* Scratch memory comes from an allocation_cache: it holds anything, for
\* example the final state of an earlier scan.
Init ==
    /\ config \in Configs
    /\ data = Input
    /\ out = Input
    /\ \E s \in Statuses : status = [g \in Groups |-> s]
    /\ aggregate = [g \in Groups |-> InitValue]
    /\ inclusive = [g \in Groups |-> InitValue]
    /\ counter \in {0, 1}
    /\ cleared = {}
    /\ pc = [w \in Groups |-> "queued"]
    /\ eid = [w \in Groups |-> 0]
    /\ local = [w \in Groups |-> <<>>]
    /\ look = [w \in Groups |-> 0]
    /\ seen = [w \in Groups |-> "invalid"]
    /\ prefix = [w \in Groups |-> InitValue]

\* Bug: the counter keeps the value of the scan before.
ClearStatusOnly(g) ==
    /\ g \notin cleared
    /\ cleared' = cleared \cup {g}
    /\ status' = [status EXCEPT ![g] = "invalid"]
    /\ UNCHANGED <<config, data, out, aggregate, inclusive, counter, pc, private>>

\* A work item of the initialization kernel.
ClearStatus(g) ==
    /\ g \notin cleared
    /\ cleared' = cleared \cup {g}
    /\ status' = [status EXCEPT ![g] = "invalid"]
    /\ counter' = IF g = 0 THEN 0 ELSE counter
    /\ UNCHANGED <<config, data, out, aggregate, inclusive, pc, private>>

Resident == {w \in Groups : pc[w] \notin {"queued", "done"}}

\* Bug: the scan does not depend on the initialization kernel.
LaunchUnordered(w) ==
    /\ pc[w] = "queued"
    /\ Cardinality(Resident) < Slots
    /\ pc' = [pc EXCEPT ![w] = "id"]
    /\ UNCHANGED <<config, data, out, scratch, counter, cleared, private>>

\* The device starts a group, in any order.  The kernel depends on the
\* initialization kernel, by an event or by the order of the queue.
Launch(w) ==
    /\ pc[w] = "queued"
    /\ cleared = Groups
    /\ Cardinality(Resident) < Slots
    /\ pc' = [pc EXCEPT ![w] = "id"]
    /\ UNCHANGED <<config, data, out, scratch, counter, cleared, private>>

\* Bug: keeps the group id that the device assigned.
KeepId(w) ==
    /\ pc[w] = "id"
    /\ eid' = [eid EXCEPT ![w] = w]
    /\ counter' = counter + 1
    /\ pc' = [pc EXCEPT ![w] = "scan"]
    /\ UNCHANGED <<config, data, out, scratch, cleared, local, look, seen, prefix>>

\* group_id_counter.fetch_add(1), broadcast to the group.
TakeId(w) ==
    /\ pc[w] = "id"
    /\ eid' = [eid EXCEPT ![w] = counter]
    /\ counter' = counter + 1
    /\ pc' = [pc EXCEPT ![w] = "scan"]
    /\ UNCHANGED <<config, data, out, scratch, cleared, local, look, seen, prefix>>

\* The work item that publishes, if there is one.  flat_group_scan_kernel
\* computes another size for the last group, whose entries nobody reads.
Publisher(c, g) ==
    IF c.flat /\ g = NumGroups(c) - 1
    THEN c.size - (g * (NumGroups(c) - 1) + GroupSize)
    ELSE GroupSize * c.work

AfterAggregate(g) == IF g = 0 THEN "process" ELSE "lookback"

ScanGroup(w) ==
    LET g == eid[w] IN
    /\ pc[w] = "scan"
    /\ local' = [local EXCEPT ![w] = LocalScan(config, data, g)]
    /\ look' = [look EXCEPT ![w] = g - 1]
    /\ pc' = [pc EXCEPT ![w] = IF Publisher(config, g) \in Items(config)
                                THEN "aggregate" ELSE AfterAggregate(g)]
    /\ UNCHANGED <<config, data, out, scratch, counter, cleared, eid, seen, prefix>>

-----------------------------------------------------------------------------
(* Publication of the aggregate: first the values, then the status         *)

StoreAggregate(w) ==
    LET g == eid[w]
        x == local[w][Publisher(config, g)] IN
    /\ pc[w] = "aggregate"
    /\ aggregate' = [aggregate EXCEPT ![g] = x]
    /\ inclusive' = IF g = 0 THEN [inclusive EXCEPT ![g] = x] ELSE inclusive
    /\ pc' = [pc EXCEPT ![w] = "status"]
    /\ UNCHANGED <<config, data, out, status, counter, cleared, private>>

StoreStatus(w) ==
    LET g == eid[w] IN
    /\ pc[w] = "status"
    /\ status' = [status EXCEPT ![g] = IF g = 0 THEN "prefix_available" ELSE "aggregate_available"]
    /\ pc' = [pc EXCEPT ![w] = AfterAggregate(g)]
    /\ UNCHANGED <<config, data, out, aggregate, inclusive, counter, cleared, private>>

-----------------------------------------------------------------------------
(* exclusive_prefix_look_back                                              *)

\* The loop around the load of a status.
Spin(w) ==
    /\ pc[w] = "lookback"
    /\ status[look[w]] = "invalid"
    /\ UNCHANGED vars

ReadStatus(w) ==
    /\ pc[w] = "lookback"
    /\ status[look[w]] # "invalid"
    /\ seen' = [seen EXCEPT ![w] = status[look[w]]]
    /\ pc' = [pc EXCEPT ![w] = "value"]
    /\ UNCHANGED <<config, data, out, scratch, counter, cleared, eid, local, look, prefix>>

\* Bug: combines the groups in the order in which they are visited.
ExtendSwapped(w, x) == IF look[w] = eid[w] - 1 THEN x ELSE Op(prefix[w], x)

\* update_exclusive_prefix: the first value replaces the dummy.
Extend(w, x) == IF look[w] = eid[w] - 1 THEN x ELSE Op(x, prefix[w])

\* Only flat_group_scan_kernel leaves the prefix of the last group out.
AfterLookback(g) ==
    IF config.flat /\ g = NumGroups(config) - 1 THEN "process" ELSE "prefix"

ReadValue(w) ==
    LET h == look[w]
        complete == seen[w] = "prefix_available" IN
    /\ pc[w] = "value"
    /\ prefix' = [prefix EXCEPT ![w] = Extend(w, IF complete THEN inclusive[h] ELSE aggregate[h])]
    /\ look' = [look EXCEPT ![w] = h - 1]
    /\ pc' = [pc EXCEPT ![w] = IF complete \/ h = 0 THEN AfterLookback(eid[w]) ELSE "lookback"]
    /\ UNCHANGED <<config, data, out, scratch, counter, cleared, eid, local, seen>>

-----------------------------------------------------------------------------
(* Publication of the prefix, results                                      *)

StorePrefix(w) ==
    LET g == eid[w] IN
    /\ pc[w] = "prefix"
    /\ inclusive' = [inclusive EXCEPT ![g] = Op(prefix[w], local[w][GroupSize * config.work])]
    /\ pc' = [pc EXCEPT ![w] = "prefix status"]
    /\ UNCHANGED <<config, data, out, status, aggregate, counter, cleared, private>>

StorePrefixStatus(w) ==
    /\ pc[w] = "prefix status"
    /\ status' = [status EXCEPT ![eid[w]] = "prefix_available"]
    /\ pc' = [pc EXCEPT ![w] = "process"]
    /\ UNCHANGED <<config, data, out, aggregate, inclusive, counter, cleared, private>>

\* The results that a group hands to the processor, by global id.
Result(w, i) == IF eid[w] = 0 THEN local[w][i] ELSE Op(prefix[w], local[w][i])

\* The processor of scan() drops ids beyond the end.
Written(w, mem) ==
    [id \in DOMAIN mem |->
        IF \E i \in Items(config) : GlobalId(config, eid[w], i) = id /\ id < config.size
        THEN Result(w, CHOOSE i \in Items(config) : GlobalId(config, eid[w], i) = id)
        ELSE mem[id]]

Process(w) ==
    /\ pc[w] = "process"
    /\ IF config.inPlace
       THEN data' = Written(w, data) /\ out' = out
       ELSE out' = Written(w, out) /\ data' = data
    /\ pc' = [pc EXCEPT ![w] = "done"]
    /\ UNCHANGED <<config, scratch, counter, cleared, private>>

-----------------------------------------------------------------------------

GroupStep(w) ==
    \/ TakeId(w)
    \/ ScanGroup(w)
    \/ StoreAggregate(w)
    \/ StoreStatus(w)
    \/ Spin(w)
    \/ ReadStatus(w)
    \/ ReadValue(w)
    \/ StorePrefix(w)
    \/ StorePrefixStatus(w)
    \/ Process(w)

Finished == \A w \in Groups : pc[w] = "done"

Terminated == Finished /\ UNCHANGED vars

Next ==
    \/ \E g \in Groups : ClearStatus(g)
    \/ \E w \in Groups : Launch(w) \/ GroupStep(w)
    \/ Terminated

\* The device executes the initialization kernel, fills free slots with groups
\* that have not run, in any order, and does not stop while a resident group
\* has something to do.  Spinning counts as waiting.
Fairness ==
    /\ WF_vars(\E g \in Groups : ClearStatus(g))
    /\ WF_vars(\E w \in Groups : Launch(w))
    /\ WF_vars(\E w \in Groups : GroupStep(w))

Spec == Init /\ [][Next]_vars /\ Fairness

-----------------------------------------------------------------------------
(* Properties                                                              *)

Labels == {"queued", "id", "scan", "aggregate", "status", "lookback", "value", "prefix",
           "prefix status", "process", "done"}

TypeOK ==
    /\ config \in Configs
    /\ \A id \in DOMAIN Input : data[id] \in Elem /\ out[id] \in Elem
    /\ status \in [Groups -> Statuses]
    /\ aggregate \in [Groups -> Elem]
    /\ inclusive \in [Groups -> Elem]
    /\ counter \in 0..NumGroups(config)
    /\ cleared \subseteq Groups
    /\ pc \in [Groups -> Labels]
    /\ eid \in [Groups -> Groups]
    /\ look \in [Groups -> Groups \cup {-1}]
    /\ seen \in [Groups -> Statuses]
    /\ prefix \in [Groups -> Elem]

\* Whichever mixture of aggregates and prefixes a group finds when it looks
\* back, it obtains the combination, in order, of all groups before it: the
\* value that exclusive_prefix_look_back returns.
PrefixCorrect ==
    \A w \in Groups :
        pc[w] \in {"prefix", "prefix status", "process", "done"} /\ eid[w] # 0
            => prefix[w] = GroupPrefix[config][eid[w] - 1]

\* The sequential definition of the scan: what std::inclusive_scan and
\* std::exclusive_scan write to element id.
Reference ==
    LET first == IF config.inclusive /\ ~config.init THEN Input[0]
                 ELSE IF config.inclusive THEN Op(InitValue, Input[0]) ELSE InitValue
        sum[id \in 0..(config.size - 1)] ==
            IF id = 0 THEN first
            ELSE Op(sum[id - 1], Input[IF config.inclusive THEN id ELSE id - 1])
    IN sum

\* When the scan kernel has finished, every element is that of the sequential
\* definition, and nothing is written beyond the end (the processor lambda of scan()).
\* True of inclusive scans, also of one that overwrites its input, and of exclusive
\* scans into other memory; false of an exclusive scan in place, of which
\* load_data_element() loads elements that other groups overwrite.
ResultIsReference ==
    Finished =>
        LET memory == IF config.inPlace THEN data ELSE out IN
        \A id \in DOMAIN Input :
            memory[id] = IF id < config.size THEN Reference[id] ELSE Input[id]

\* A step leaves what group w has published.
EntryStays(w) ==
    LET g == eid[w] IN
    pc[w] \notin {"queued", "id", "scan", "aggregate", "status"} =>
        /\ status[g] # "invalid" => status'[g] # "invalid" /\ aggregate'[g] = aggregate[g]
        /\ status[g] = "prefix_available" =>
               status'[g] = "prefix_available" /\ inclusive'[g] = inclusive[g]

\* What a group has published stays until the end of the scan: nothing holds
\* up a group between its read of a status and of the value that it announces
\* (lines 244 to 252), so neither may change, nor the status be taken back by
\* the initialization kernel.
PublishedIsFinal == [][\A w \in Groups : EntryStays(w)]_vars

\* The device may start groups in any order and without preemption: every
\* group finishes, because ids are handed out in the order in which groups
\* start ("To provide this guarantee universally, our implementation reassigns
\* work group ids").
GroupsFinish == <>Finished
=============================================================================
