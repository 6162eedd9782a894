--------------------------- MODULE BufferRuntime ----------------------------
(***************************************************************************)
(* The life of command groups that access one buffer: they are added to    *)
(* the DAG (dag_builder), flushed and scheduled (dag_manager, the unbound  *)
(* and the direct scheduler), enqueued on in-order lanes                   *)
(* (multi_queue_executor, inorder_executor), executed by the devices, and  *)
(* found complete, waited for and unregistered (dag_node,                  *)
(* dag_submitted_ops).                                                     *)
(*                                                                         *)
(* A version of an element is the number of the command group that wrote   *)
(* it, 0 for the initial data of the buffer.                               *)
(***************************************************************************)
EXTENDS DagBuilder, InorderExecutor, TLC

CONSTANTS Applications,    \* sets of command groups: [kind, bound, accesses, own]
          DependOn,        \* kinds of command groups that depends_on() may name
          MayFail,         \* whether allocations and dispatches may fail
          Observers,       \* who asks for completion: "poll", "wait", "gc"
          Initialized,     \* whether the buffer is constructed from host data
          MaxGroups        \* bound on the number of command groups

ASSUME RuntimeAssumption ==
    /\ MayFail \in BOOLEAN /\ Initialized \in BOOLEAN

VARIABLES node,      \* all nodes ever created, in the order of their creation
          users,     \* data_region::_user_tracker
          dag,       \* dag_builder::_current_dag: command groups to be flushed
          batch,     \* new_dag of the flush in progress
          next,      \* position in batch of the next group to schedule
          current,   \* group that the direct scheduler is working on, or 0
          todo,      \* its requirements that remain to be submitted
          subOps,    \* dag_submitted_ops::_ops
          gc,        \* nodes that the garbage collection has yet to wait for
          collecting,\* whether the worker thread runs a garbage collection
          inputs,    \* command groups that the application at hand submits
          allocs,    \* devices with an allocation of the buffer, oldest first
          invalid,   \* invalid_pages of the allocation of each device
          queue,     \* lane -> operations enqueued and not executed
          done,      \* operations executed by a device
          mem,       \* device -> element -> version in the allocation
          seen       \* group -> element -> version it found when it executed

graphVars == <<node, users>>
flushVars == <<dag, batch, next, current, todo>>
gcVars == <<subOps, gc, collecting>>
dataVars == <<inputs, allocs, invalid>>
deviceVars == <<queue, done, mem, seen>>
vars == <<graphVars, flushVars, gcVars, dataVars, deviceVars>>

Garbage == -1                                \* content of a fresh allocation
NoAccess == [mode |-> "read", elements |-> {}]

Groups == {n \in DOMAIN node : node[n].group = n}
OwnRequirements(g) == {n \in DOMAIN node : n # g /\ node[n].group = g}

\* Command groups together with the memory requirements among their requirements:
\* what a dag holds, and what a kernel operation keeps alive.
WithRequirements(gs) ==
    gs \cup {r \in UNION {node[g].reqs : g \in gs} : IsRequirement(node[r])}

\* Nodes that some shared pointer keeps alive: the DAG under construction or
\* being flushed and the list of submitted operations.
Live == ToSet(subOps)
          \cup WithRequirements(ToSet(dag) \cup ToSet(batch))
          \cup WithRequirements({g \in ToSet(subOps) : node[g].kind = "kernel"})

Init ==
    /\ node = <<>> /\ users = <<>>
    /\ dag = <<>> /\ batch = <<>> /\ next = 1 /\ current = 0 /\ todo = <<>>
    /\ subOps = <<>> /\ gc = <<>> /\ collecting = FALSE
    /\ inputs \in Applications
    /\ allocs = IF Initialized THEN <<Host>> ELSE <<>>
    /\ invalid = [d \in Devices |-> {}]
    /\ queue = [l \in Lanes |-> <<>>]
    /\ done = {}
    /\ mem = [d \in Devices |-> [e \in Elements |->
                 IF Initialized /\ d = Host THEN 0 ELSE Garbage]]
    /\ seen = <<>>

-----------------------------------------------------------------------------
(* Command groups                                                          *)

\* What a command group accesses: through its accessors, or as a host accessor.
AccessesOf(g) ==
    {node[r].access : r \in OwnRequirements(g)}
        \cup (IF node[g].kind = "host" THEN {node[g].access} ELSE {})

Writes(access) == access.mode # "read"
Discards(access) == access.mode \in {"discard_write", "discard_read_write"}

\* handler::update() moves data, but the command group does not touch it.
ElementsRead(g) ==
    IF node[g].kind = "update" THEN {}
    ELSE UNION {a.elements : a \in {x \in AccessesOf(g) : ~Discards(x)}}
ElementsWritten(g) ==
    IF node[g].kind = "update" THEN {}
    ELSE UNION {a.elements : a \in {x \in AccessesOf(g) : Writes(x)}}

\* Groups that have accessed the buffer.
Finished == DOMAIN seen

\* A host accessor whose constructor has not returned yet: its thread is blocked
\* in it, and the host accesses the data right after it.
HostAccessPending ==
    \E g \in Groups : node[g].kind = "host" /\ g \notin Finished /\ ~node[g].cancelled

\* add_command_group(): atomic under the builder's mutex.
AddCommandGroup(in, deps) ==
    /\ Cardinality(Groups) < MaxGroups
    /\ ~HostAccessPending
    /\ in.kind = "host" => deps = {}
    /\ LET N == WithGroup(node, in.kind, in.bound, in.accesses, in.own, deps)
           live == Live \cup (DOMAIN N \ DOMAIN node)
           built == BuildNode(N, live, users, Len(N))
       IN /\ node' = built.nodes
          /\ users' = built.users
          /\ dag' = Append(dag, Len(N))
    /\ UNCHANGED <<batch, next, current, todo, gcVars, dataVars, deviceVars>>

-----------------------------------------------------------------------------
(* dag_manager::flush(), by the thread that holds _flush_mutex             *)

HasMemoryRequirements(gs) ==
    \E g \in gs : \E r \in node[g].reqs \cap Live : IsRequirement(node[r])

\* finish_and_reset() and release_dead_users().
BeginFlush ==
    /\ batch = <<>> /\ dag # <<>>
    /\ batch' = dag /\ dag' = <<>> /\ next' = 1
    /\ users' = IF HasMemoryRequirements(ToSet(dag)) THEN ReleaseDeadUsers(Live, users)
                                                     ELSE users
    /\ UNCHANGED <<node, current, todo, gcVars, dataVars, deviceVars>>

\* register_submitted_ops() for the command groups and their requirements.
EndFlush ==
    /\ batch # <<>> /\ next > Len(batch)
    /\ LET reqs == WithRequirements(ToSet(batch)) \ ToSet(batch)
       IN subOps' = subOps \o batch \o SetToSortSeq(reqs, <)
    /\ batch' = <<>> /\ next' = 1
    /\ UNCHANGED <<graphVars, dag, current, todo, gc, collecting, dataVars, deviceVars>>

-----------------------------------------------------------------------------
(* dag_direct_scheduler::submit() for one node after the other             *)

\* The device that executes the operation of a group: its bind_to_device hint,
\* or one that dag_unbound_scheduler picks (in turn, which is left open).
TargetDevices(g) == IF node[g].bound = "none" THEN Devices ELSE {node[g].bound}

\* assign_devices_or_default() for the node and each of its requirements.
AssignDevices(N, live, g, target) ==
    [n \in DOMAIN N |->
        IF n = g THEN [N[n] EXCEPT !.bound = target, !.dev = target]
        ELSE IF n \notin N[g].reqs \cap live THEN N[n]
        ELSE IF N[n].bound = "none" THEN [N[n] EXCEPT !.bound = target, !.dev = target]
        ELSE [N[n] EXCEPT !.dev = N[n].bound]]

BeginSubmit ==
    /\ current = 0 /\ next <= Len(batch)
    /\ LET g == batch[next]
       IN /\ \E target \in TargetDevices(g) : node' = AssignDevices(node, Live, g, target)
          /\ current' = g
          /\ todo' = SetToSortSeq({r \in node[g].reqs \cap Live : ~node[r].submitted}, <)
    /\ UNCHANGED <<users, dag, batch, next, gcVars, dataVars, deviceVars>>

\* Bug: requirements that were not submitted yet are forgotten.
AbortNodeOnly(N, live, g) == Cancel(N, live, g)

\* Bug: the node looks submitted, as if it had no operation.
AbortVirtually(N, live, g) ==
    LET open == SetToSortSeq({r \in N[g].reqs \cap live : ~N[r].submitted}, <)
    IN MarkVirtuallySubmitted(FoldLeft(LAMBDA M, r : Cancel(M, live, r), N, open), live, g)

\* abort_submission(): cancels the requirements not yet submitted and the node.
Abort(N, live, g) ==
    LET open == SetToSortSeq({r \in N[g].reqs \cap live : ~N[r].submitted}, <)
    IN Cancel(FoldLeft(LAMBDA M, r : Cancel(M, live, r), N, open), live, g)

FinishGroup == current' = 0 /\ todo' = <<>> /\ next' = next + 1

AbortSubmission ==
    /\ node' = Abort(node, Live, current)
    /\ FinishGroup
    /\ UNCHANGED <<users, dag, batch, gcVars, dataVars, deviceVars>>

\* ensure_allocation_exists() fails.
AllocationFails(r) ==
    /\ MayFail
    /\ node[r].dev \notin ToSet(allocs)
    /\ AbortSubmission

\* The device whose executor carries out a transfer (has_preferred_backend()).
TransferDevice(src, dst) == IF src # Host THEN src ELSE dst

\* Outcome of the loop over the outdated regions.  The first region is enqueued
\* as a transfer; the executors ignore the others, because the node is submitted
\* by then.  A region without a source cancels the node and ends the loop.
TransferRegions(r, regions, sources) ==
    LET missing == {i \in DOMAIN regions : sources[i] = <<>>}
        handled == SelectInSeq(sources, LAMBDA s : s = <<>>)
        copies == [i \in 1..(IF handled = 0 THEN Len(regions) ELSE handled - 1) |->
                      [src |-> sources[i][1], dst |-> node[r].dev,
                       elements |-> ElementsOf(regions[i])]]
        exec == TransferDevice(copies[1].src, copies[1].dst)
        assigned == [node EXCEPT ![r].dev = exec, ![r].copies = copies]
        last == TransferDevice(copies[Len(copies)].src, copies[1].dst)
        end(N) == LET M == [N EXCEPT ![r].dev = last]
                  IN IF missing = {} THEN M ELSE Cancel(M, Live, r)
    IN IF copies = <<>>
       THEN node' = Cancel(node, Live, r) /\ UNCHANGED queue
       ELSE \E lane \in LanesOf(exec, "copy") :
              \/ /\ node' = end(SubmitDirectly(assigned, Live, r, lane))
                 /\ queue' = [queue EXCEPT ![lane] = Append(@, r)]
              \/ /\ MayFail
                 /\ node' = end(SubmitFails(assigned, Live, r, lane))
                 /\ UNCHANGED queue

\* submit_requirement() for a requirement that is not submitted yet.
SubmitRequirement(r) ==
    LET dev == node[r].dev
        access == node[r].access
        fresh == dev \notin ToSet(allocs)
        allocs1 == IF fresh THEN Append(allocs, dev) ELSE allocs
        invalid1 == IF fresh THEN [invalid EXCEPT ![dev] = Pages] ELSE invalid
        regions == IF Discards(access)
                      \/ ~HasInitializedContent(allocs1, invalid1, access.elements)
                   THEN <<>>
                   ELSE OutdatedRegions(invalid1[dev], access.elements)
        sources == [i \in DOMAIN regions |-> UpdateSources(allocs1, invalid1, dev, regions[i])]
    IN /\ allocs' = allocs1
       /\ UNCHANGED inputs
       /\ invalid' = IF Writes(access)
                     THEN MarkRangeCurrent(allocs1, invalid1, node[r].bound, access.elements)
                     ELSE MarkRangeValid(allocs1, invalid1, node[r].bound, access.elements)
       /\ IF regions = <<>>
          THEN node' = MarkVirtuallySubmitted(node, Live, r) /\ UNCHANGED queue
          ELSE TransferRegions(r, regions, sources)

\* One iteration over the requirements of the current node.  One that is not a
\* memory requirement should have been submitted before: the scheduler gives up.
SubmitNextRequirement ==
    /\ current # 0 /\ todo # <<>>
    /\ IF IsRequirement(node[Head(todo)])
       THEN \/ /\ SubmitRequirement(Head(todo))
               /\ todo' = Tail(todo)
               /\ UNCHANGED <<users, dag, batch, next, current, gcVars, done, mem, seen>>
            \/ AllocationFails(Head(todo))
       ELSE AbortSubmission

\* The node itself, once its requirements are submitted.
SubmitKernel ==
    /\ current # 0 /\ todo = <<>>
    /\ node[current].kind = "kernel"
    /\ \E lane \in LanesOf(node[current].dev, "kernel") :
         \/ /\ node' = SubmitDirectly(node, Live, current, lane)
            /\ queue' = [queue EXCEPT ![lane] = Append(@, current)]
         \/ /\ MayFail
            /\ node' = SubmitFails(node, Live, current, lane)
            /\ UNCHANGED queue
    /\ FinishGroup
    /\ UNCHANGED <<users, dag, batch, gcVars, dataVars, done, mem, seen>>

SubmitExplicitRequirement ==
    /\ current # 0 /\ todo = <<>>
    /\ node[current].kind # "kernel"
    /\ \/ /\ SubmitRequirement(current)
          /\ FinishGroup
          /\ UNCHANGED <<users, dag, batch, gcVars, done, mem, seen>>
       \/ AllocationFails(current)
-----------------------------------------------------------------------------
(* Devices, and the host's accesses                                        *)

Content(dev, elements) == [e \in elements |-> mem[dev][e]]
Overwrite(dev, content) == [mem EXCEPT ![dev] = content @@ @]
NewVersion(g) == [e \in ElementsWritten(g) |-> g]

\* A lane executes its oldest operation once the events it waits for are complete.
Execute(lane) ==
    /\ queue[lane] # <<>>
    /\ LET n == Head(queue[lane])
           dev == lane[1]
       IN /\ node[n].waits \subseteq done
          /\ done' = done \cup {n}
          /\ IF node[n].kind = "kernel"
             THEN /\ seen' = n :> Content(dev, ElementsRead(n)) @@ seen
                  /\ mem' = Overwrite(dev, NewVersion(n))
             ELSE LET copy == node[n].copies[1]
                  IN /\ mem' = Overwrite(copy.dst, Content(copy.src, copy.elements))
                     /\ UNCHANGED seen
    /\ queue' = [queue EXCEPT ![lane] = Tail(@)]
    /\ UNCHANGED <<graphVars, flushVars, gcVars, dataVars>>

\* is_complete(), and what wait() waits for: a node that is known to be complete,
\* as a cancelled one is, is passed without asking its event.
IsComplete(n) ==
    \/ node[n].complete
    \/ node[n].submitted /\ node[n].event \subseteq done

\* What the end of wait() leaves behind.
Waited(n) == IF node[n].complete THEN node ELSE MarkTreeComplete(node, Live, n)

\* End of the constructor of a host accessor: flush, wait(), and the access.
HostAccess(g) ==
    /\ node[g].kind = "host" /\ g \notin Finished /\ ~node[g].cancelled
    /\ g \notin ToSet(dag) \cup ToSet(batch)
    /\ IsComplete(g)
    /\ node' = Waited(g)
    /\ seen' = g :> Content(Host, ElementsRead(g)) @@ seen
    /\ mem' = Overwrite(Host, NewVersion(g))
    /\ UNCHANGED <<users, flushVars, gcVars, dataVars, queue, done>>

-----------------------------------------------------------------------------
(* Completion                                                              *)

\* event::get_info() asks dag_node::is_complete(), which remembers the answer.
Poll(n) ==
    /\ "poll" \in Observers
    /\ node[n].kind \in {"kernel", "update"} /\ n \in Live
    /\ IsComplete(n) /\ ~node[n].complete
    /\ node' = [node EXCEPT ![n].complete = TRUE]
    /\ UNCHANGED <<users, flushVars, gcVars, dataVars, deviceVars>>

\* dag_node::wait() by an event, a queue or ~buffer_impl().
WaitOn(n) ==
    /\ "wait" \in Observers
    /\ n \in Groups \cap Live
    /\ IsComplete(n) /\ ~node[n].complete
    /\ node' = Waited(n)
    /\ UNCHANGED <<users, flushVars, gcVars, dataVars, deviceVars>>

\* async_wait_and_unregister(): one task at a time, on a copy of the list.
BeginCollection ==
    /\ "gc" \in Observers
    /\ ~collecting /\ subOps # <<>>
    /\ collecting' = TRUE /\ gc' = subOps
    /\ UNCHANGED <<graphVars, flushVars, subOps, dataVars, deviceVars>>

\* The task waits from the newest node to the oldest; nodes known to be complete
\* are passed at once.
CollectNode ==
    /\ gc # <<>>
    /\ LET n == Last(gc)
       IN /\ IsComplete(n)
          /\ node' = Waited(n)
          /\ gc' = SelectSeq(Front(gc), LAMBDA m : ~node'[m].complete)
    /\ UNCHANGED <<users, flushVars, subOps, collecting, dataVars, deviceVars>>

\* purge_known_completed().
EndCollection ==
    /\ collecting /\ gc = <<>>
    /\ subOps' = SelectSeq(subOps, LAMBDA n : ~node[n].complete)
    /\ collecting' = FALSE
    /\ UNCHANGED <<graphVars, flushVars, gc, dataVars, deviceVars>>

-----------------------------------------------------------------------------
\* Command groups that depends_on() may name: their event exists.
Dependees == {g \in Groups \cap Live : node[g].kind \in DependOn}

Terminated ==
    /\ Cardinality(Groups) = MaxGroups
    /\ dag = <<>> /\ batch = <<>> /\ ~collecting
    /\ \A lane \in Lanes : queue[lane] = <<>>
    /\ UNCHANGED vars

Schedule ==
    \/ BeginFlush \/ EndFlush \/ BeginSubmit
    \/ SubmitNextRequirement
    \/ SubmitKernel \/ SubmitExplicitRequirement

Next ==
    \/ \E in \in inputs : \E deps \in SUBSET Dependees : AddCommandGroup(in, deps)
    \/ Schedule
    \/ \E lane \in Lanes : Execute(lane)
    \/ \E g \in Groups : HostAccess(g)
    \/ \E n \in DOMAIN node : Poll(n) \/ WaitOn(n)
    \/ BeginCollection \/ CollectNode \/ EndCollection
    \/ Terminated

\* A submitting thread flushes what it added before it returns, lanes make
\* progress, and the constructor of a host accessor returns.
Fairness ==
    /\ WF_vars(Schedule)
    /\ \A lane \in Lanes : WF_vars(Execute(lane))
    /\ WF_vars(\E g \in Groups : HostAccess(g))

Spec == Init /\ [][Next]_vars
FairSpec == Spec /\ Fairness
-----------------------------------------------------------------------------
(* Properties                                                              *)

NodeOK(n) ==
    LET r == node[n]
    IN /\ r.kind \in {"req", "kernel", "host", "update"}
       /\ r.group \in n..Len(node)
       /\ r.reqs \subseteq DOMAIN node
       /\ r.bound \in Devices \cup {"none"} /\ r.dev \in Devices \cup {"none"}
       /\ r.lane \in Lanes \cup {<<>>}
       /\ r.event \subseteq DOMAIN node /\ r.waits \subseteq DOMAIN node
       /\ (r.virtual \/ r.complete) => r.submitted
       /\ r.submitted => r.dev \in Devices /\ r.bound \in Devices

\* Types of the state; a node is submitted before it is complete, and the
\* scheduler works on a group of the batch.
TypeOK ==
    /\ \A n \in DOMAIN node : NodeOK(n)
    /\ \A i \in DOMAIN users : users[i].user \in Groups
    /\ ToSet(dag) \subseteq Groups /\ ToSet(batch) \subseteq Groups
    /\ next \in 1..(Len(batch) + 1)
    /\ current # 0 => current = batch[next]
    /\ ToSet(gc) \subseteq ToSet(subOps)
    /\ ToSet(subOps) \subseteq {n \in DOMAIN node : node[n].submitted}
    /\ ToSet(allocs) \subseteq Devices
    /\ \A d \in Devices : invalid[d] \subseteq Pages
    /\ DOMAIN queue = Lanes /\ done \subseteq DOMAIN node
    /\ \A d \in Devices : DOMAIN mem[d] = Elements
    /\ Finished \subseteq {g \in Groups : node[g].kind \in {"kernel", "host"}}

\* Requirements form no cycle (dag_builder.cpp:188: conflicts are collected
\* before the node becomes a data user "to prevent this node ending up as a
\* requirement to itself or other cyclic requirements").
NoCyclicRequirements ==
    \A n \in DOMAIN node : n \notin UNION {Reachable(node, DOMAIN node, r, Len(node)) :
                                             r \in node[n].reqs}

\* When a node is submitted, so are all requirements that still exist (the assert
\* of mark_virtually_submitted()), and the direct scheduler never finds a command
\* group that requires another one not submitted yet, which it cannot process.
RequirementsSubmitted ==
    \A n \in DOMAIN node \cap Live :
        \A r \in node[n].reqs \cap Live :
            /\ node[n].submitted => node[r].submitted
            /\ n = current => node[r].submitted \/ IsRequirement(node[r])

Conflicting(g, h) ==
    \/ ElementsWritten(g) \cap (ElementsRead(h) \cup ElementsWritten(h)) # {}
    \/ ElementsWritten(h) \cap ElementsRead(g) # {}

\* Of two groups with conflicting accesses, the one submitted first executes
\* first, whichever lanes and devices they are on and whatever was polled, waited
\* for and unregistered in between.
ConflictsOrdered ==
    \A h \in Finished : \A g \in Groups \ Finished :
        g < h => ~Conflicting(g, h)

\* Version of an element that group h must find.
LatestBefore(h, e) == Max({0} \cup {g \in Groups : g < h /\ e \in ElementsWritten(g)})

\* Every group finds the data of the last write submitted before it on the device
\* that it executes on, wherever the write happened: no page marked up-to-date
\* (data_region::mark_range_valid()) holds outdated data when it is accessed.
ReadsSeeLatest ==
    \A h \in DOMAIN seen : \A e \in DOMAIN seen[h] : seen[h][e] = LatestBefore(h, e)

\* What is_known_complete() reports is complete, so that skipping the
\* synchronization with it, or dropping it as a conflict, is harmless: wait() marks
\* everything that it finds below a node, also nodes behind virtual ones and nodes
\* of other lanes, without asking their events (dag_node.cpp:235).
KnownCompleteIsComplete ==
    \A n \in DOMAIN node : node[n].complete /\ ~node[n].cancelled => node[n].event \subseteq done

\* Waiting for the data users that still exist, as ~buffer_impl() does, waits for
\* every command group that uses the buffer, including those that the tracker
\* has replaced by later users.
TrackedUsersSuffice ==
    (\A i \in DOMAIN users : users[i].user \in Live =>
         /\ users[i].user \in Groups /\ IsComplete(users[i].user)
         /\ ~node[users[i].user].cancelled)
      => \A g \in Groups : node[g].kind = "kernel" => g \in Finished

\* Numbers of nodes, for groups of up to three accessors.
NodeNumbers == 1..(4 * MaxGroups)

Quiescent == dag = <<>> /\ batch = <<>> /\ ~HostAccessPending
               /\ \A lane \in Lanes : queue[lane] = <<>>

\* When nothing is pending, a page that the data region takes for valid on a
\* device holds the last write to each of its elements, and every page is valid
\* somewhere.
PagesCoherent ==
    Quiescent =>
        /\ \A d \in ToSet(allocs) : \A e \in ElementsOf(Pages \ invalid[d]) :
               mem[d][e] = LatestBefore(Len(node) + 1, e)
        /\ \A p \in Pages : \E d \in ToSet(allocs) : p \notin invalid[d]

\* A memory requirement is materialized by at most one transfer (the assert of
\* assign_effective_operation()).
OneTransferPerRequirement == \A n \in DOMAIN node : Len(node[n].copies) <= 1

\* Where nothing fails, a memory requirement always finds a source for its data
\* (the assert of get_update_source_candidates()).
UpdateSourceFound == \A n \in DOMAIN node : IsRequirement(node[n]) => ~node[n].cancelled

\* Every command group that is submitted is executed or cancelled: again and
\* again nothing is left to do.
GroupsFinish ==
    []<>(\A g \in Groups : node[g].kind = "update" \/ g \in Finished \/ node[g].cancelled)

-----------------------------------------------------------------------------
DataGroups == {g \in Groups : node[g].kind # "update"}

Promise == INSTANCE OrderedAccess WITH
    Element <- Elements, Group <- NodeNumbers, Initially <- 0,
    access <- [g \in DataGroups |-> [reads |-> ElementsRead(g), writes |-> ElementsWritten(g)]],
    finished <- Finished,
    store <- [e \in Elements |-> Max({0} \cup {g \in Finished : e \in ElementsWritten(g)})],
    observed <- seen

\* The runtime implements the single, conflict-ordered copy of the buffer.
ImplementsOrderedAccess == Promise!Spec
=============================================================================
