# A TLA+ model of the AdaptiveCpp runtime

This directory models the concurrent parts of AdaptiveCpp:

* the runtime (`src/runtime`, `include/hipSYCL/runtime`) that turns command groups
  on buffers into ordered operations on devices: the task graph, the tracking of
  buffer contents, the scheduler and executors, the manager that ties them
  together for several threads, and the worker thread underneath;
* in-order queues that wait for each other through fine-grained and coarse events;
* the decoupled look-back scan of the algorithms library;
* the lock-free map of allocations, and the memory pool behind `malloc()` and
  `free()` of stdpar programs.

TLC checks the models on small instances; TLAPS proves safety properties of the
manager, the worker thread, the in-order queues, the scan, the allocation map and
the memory pool for every number of threads, nodes, tasks, queues, groups, levels
and blocks.

## The system

| Part | State | Operations | Shared with |
|---|---|---|---|
| `dag_node` | requirements (weak pointers), device, lane, event, flags submitted / complete / cancelled / virtual | `add_requirement`, `mark_submitted`, `mark_virtually_submitted`, `cancel`, `is_complete`, `wait`, `for_each_nonvirtual_requirement` | every other part |
| `data_region` | allocations per device with their invalid pages, data users | `add_placeholder/empty_allocation`, `mark_range_valid/current`, `get_outdated_regions`, `get_update_source_candidates`, `add_user`, `release_dead_users` | builder, scheduler |
| `dag_builder` | DAG under construction | `build_node`, `add_conflicts_as_requirements`, `finish_and_reset` | all submitting threads, under a mutex |
| schedulers | none of their own | `submit` of the unbound and the direct scheduler, `submit_requirement`, `abort_submission` | one thread at a time |
| executors | in-order lanes per device and class, execution indices | `submit_directly` | scheduler |
| `dag_manager` | `_flush_mutex` | `flush`, `flush_and_gc`, `dag_build_guard` | all threads |
| `dag_submitted_ops` | list of submitted nodes, updater thread | `update_with_submission`, `wait_for_group`, `async_wait_and_unregister`, `purge_known_completed` | all threads, updater |
| `worker_thread` | queue, continue flag, condition variable | `operator()`, `wait`, `halt`, the work loop | clients, the thread |
| events | state of a queue; fine-grained event, flags `_has_fine_grained_event`, `_is_complete`, mutex | `insert_event`, `request_backend_event`, `is_complete`, `wait` | executors, queues, all threads |
| `omp_queue`, `cuda_queue` | tasks of a worker thread or a stream | `submit_queue_wait_for`, `submit_external_wait_for`, `query_status`, `wait` | executors, events |
| look-back scan | scratch memory (status, aggregate and prefix per group), group counter | initialization kernel, scan kernels | all work groups |
| `common::allocation_map` | radix tree, counter of operations in progress | `get_entry`, `get_entry_of_root_address`, `insert`, `erase` | all threads |
| stdpar memory | pool, `free_space_map`, allocation map, allocation tracker | `malloc`, `free`, `claim`, `release` | all threads |

A command group is a node (a kernel, an explicit requirement of a host accessor
or of `handler::update()`) together with one memory requirement per accessor.
`build_node()` makes each of them require the tracked users of the buffer that it
conflicts with. The thread that built it then flushes: the nodes leave the
builder, get a device, their requirements become transfers or nothing at all
(*virtual* submission), and they are enqueued on lanes that wait for each other
through events. Completion is noticed later, by queries, waits or the garbage
collection, and remembered in a flag; nodes that nobody holds any more expire.

What is hard about it:

* correctness rests on several prunings that must agree: replaced users, dropped
  transitive requirements, skipped known-complete nodes, skipped synchronizations
  with earlier operations of a lane, expired pointers;
* page states change when a transfer is *enqueued*, not when it has happened;
* `flush()` may run on any thread for nodes of any other, and the garbage
  collection purges the list that waits iterate over;
* allocation and dispatch may fail in the middle of a node's requirements;
* waiting for a coarse event means waiting for more than the operation, which may
  close a cycle that the dependencies do not have;
* work groups of a scan wait for others that may not have started, in scratch
  memory that still holds an earlier scan;
* lookups in the allocation map run while other threads insert nodes and entries,
  and an address may be in use again as soon as it has been released.

## Modules

| Module | Models | Notes |
|---|---|---|
| `WorkerThread` | `generic/async_worker` | a step per access to shared state, spurious wake-ups included |
| `DagNode` | `dag_node` | operators on a table `N` of nodes and the set `live` of nodes whose shared pointer exists |
| `DataRegion` | `data.hpp` | pages and elements, one dimension |
| `DagBuilder` | `dag_builder`, `dag`, parts of `operations` | |
| `InorderExecutor` | `inorder_executor`, `multi_queue_executor` | |
| `BufferRuntime` | composition of the four above with the schedulers, the devices, completion and garbage collection | one buffer; `node` is the table of all nodes ever created |
| `OrderedAccess` | the promise: one copy of the buffer, conflicting groups in submission order | abstract specification |
| `DagManager` | `dag_manager`, `dag_submitted_ops`, their callers | several threads, step by step |
| `InorderQueues` | in-order queues: `inorder_executor`, `queue_completion_event`, the synchronization of `omp_queue` and `cuda_queue`, `dag_node::wait` | several threads; a backend queue is a list of tasks and how many are finished |
| `LookbackScan` | `algorithms/scan/decoupled_lookback_scan.hpp`, `scan.hpp` | parameterised by the operator; both kernels, host and device |
| `AllocationMap` | `common/allocation_map.hpp` | a step per access to a pointer, size or counter that others may change |
| `FreeSpaceMap` | `free_space_map` of `stdpar/detail/allocation_map.hpp` | pure operators on the free blocks of each level |
| `StdparMemory` | `unified_shared_memory`, `memory_pool` of `sycl_glue.hpp`, the allocation tracker's hooks | composes `FreeSpaceMap` with the maps and the threads |
| `DagManagerProofs` | theorems about `DagManager` and, through an instance, about `WorkerThread` | |
| `LookbackScanProofs`, `StdparMemoryProofs` | theorems about the modules they extend | |
| `AllocationMapStepProofs`, `AllocationMapProofs` | theorems about `AllocationMap` | the first has most of the steps, the second `erase()` and the results |
| `InorderQueuesProofs`, `InorderQueuesOrderProofs` | theorems about `InorderQueues` | the second has the steps and the results of the order of execution |
| `Induction` | induction and recursion over natural numbers, in a form without operator parameters | used by the proofs |
| `MC...` | instances | |

Operators whose comment starts with "Bug:" are variants of the definition that
follows them; no specification uses them. They document which mistakes the
properties detect.

### Correspondence and abstractions

* `BufferRuntime` follows one flush at a time, which `_flush_mutex` guarantees;
  adding command groups, devices, completion queries, waits and the garbage
  collection interleave with it. Each requirement of a node is a step of its own.
  `DagManager` models the threads around `flush()` and abstracts from data,
  failures and requirements: a node is a number, and scheduling it submits it.
  When its `dag_node::wait()` marks the requirements of a node as complete, these
  are any earlier nodes that have finished; that requirements have finished by
  then is what `KnownIsDone` and `KnownCompleteIsComplete` check where
  requirements are modelled.
* The memory model is sequentially consistent, and `std::atomic` accesses and
  critical sections are the steps. Data races are not looked for.
* A version of an element is the number of the group that wrote it; a group that
  writes an accessor writes all of its elements, and one that does not discard
  reads them all.
* The application is represented by `inputs`, one of `Applications`: the command
  groups that it may submit, in any order. Host accessors block their thread,
  so that nothing is added between their construction and their access; the
  access happens at the end of the constructor. The failure of a host accessor
  cancels its node, and the access does not happen.
* The choice of a lane within a class and the device of unbound kernels are
  nondeterministic, which covers the statistics and the turns of the code.
* A lane is an external in-order queue: it executes its oldest operation once the
  events that it was told to wait for are complete.
* A shared pointer held by an `event` object of the application is not part of
  `Live`; a node leaves `Live` only after it is known to be complete, and
  complete nodes are skipped wherever expired ones are.
* `InorderQueues` has fixed little programs (`Setups`). The executor's steps, the
  decay of a coarse event (check, lock, insert, publish) and each wait of a worker
  are separate; a submission holds its queue. `"stream"` stands for CUDA streams,
  whose own behaviour (a task waits for a recorded event) is external. Dispatches
  may fail; that an event cannot be created or recorded, where `insert_event()`
  returns `nullptr` (`cuda_queue.cpp:271-282`), is left out.
* A work group of `LookbackScan` is one process: barriers make its items agree
  between the steps. What a group computes alone (Kogge-Stone or sequential scan,
  several elements per item) is a function of the loaded data. The device starts
  groups in any order as slots become free. Global ids of `scan_kernel` keep their
  width (`WordSize`).
* A node of `AllocationMap` is its level and address prefix. `erase()` is one step,
  because the counter of operations keeps everyone else out while it runs; that
  the counter does so is part of `TypeOK`. The load and the store of an entry's size in
  `insert()` are one step, because allocations are disjoint: no other thread writes
  to that entry in between. The relaxed and release orderings of
  the locks are taken as sequentially consistent.
* `StdparMemory` takes the operations of the two maps as single steps: the first
  is the subject of `AllocationMap`, the second holds a spin lock. A pointer into
  the pool is its offset. The backend's allocator is a set of addresses. The
  allocation of the pool itself succeeds (`sycl_glue.hpp:480` does not check it).

## What TLC checks

| Run | Instance | Shows |
|---|---|---|
| `worker_thread` | 2 clients, 3 tasks | the task that runs stays queued until it is popped; tasks run once and in order; `wait()` means done; no lost notification; `halt()` ends |
| `buffers` | GPU + host or 2 GPUs + host, 3 groups, 3 elements on 2 pages | refinement of `OrderedAccess`; pages and data agree when nothing is pending; what waits, host accessors and collections mark as complete is complete |
| `many_lanes` | GPU with 2 kernel lanes + host, 3 groups | conflicting groups execute in order, no cycles, waiting for tracked users is enough |
| `failures` | allocations and dispatches fail, 2 groups, `depends_on` | no node is submitted before its requirements; every group is executed or cancelled |
| `dag_manager` | 2 threads, 2 nodes | submission is ensured on return, order of submission, meaning of waits; every operation returns |
| `inorder_queues` | 3 queues, 2 threads, 15 programs of 3 groups, one failure | operations run after what they depend on; known-complete is complete; a coarse event decays once; everything is executed |
| `lookback_scan` | 5 calls (in place only inclusive ones), 3 or 4 groups of 3 items, 3 slots | prefixes and results equal the sequential reference; published entries are final; all groups finish |
| `allocation_map` | 8 addresses, 3 levels, 3 operations | lookups find what is there; nothing is lost; the tree is pruned; operations return |
| `stdpar_memory` | 2 threads, 4 requests, pool of 8 bytes in an address space of 16 | memory is handed out once and comes back whole and merged; `free()` finds its entry |

Bounds: three groups are the smallest number where one user of the buffer is
replaced and a third one must still be ordered after the first; three elements
on two pages give ranges smaller than, equal to and across pages and a page that
is cut short; two kernel lanes are needed for operations to overtake each other.
`Depth` is the search depth of `add_requirement()`, 10 by default, where no
graph of this size reaches it; `failures` uses 1 so that the limit is hit.
Two threads with two nodes reach every race between a flush, an unlocked size
check and a collection; the safety properties of `dag_manager` are proved for any
number of both. `GcBatch = 1` makes collections start from both of their call sites.

`buffers` and `failures` use applications that stay clear of the disagreements
below; each comment in `MCBufferRuntime` says what they contain. In particular
there is a single kernel lane per GPU, and with two GPUs no two kernels only read.
`many_lanes` has concurrent readers and therefore checks the order of execution,
not the data that is read.

Three queues with programs of three groups contain each way in which a queue can
wait (for the same queue, the last or an earlier operation of another one, another
backend) and two threads that need the same coarse event; host queues with coarse
events are left to `coarse_cross_wait`. Three or four groups on three slots let a
group look back over entries of each status, and leave one group that cannot start;
elements form a free monoid, so that a result tells which inputs it combines in
which order. Three levels of the tree have a root, inner nodes and leaves; a block
that reaches into the next leaf, where another one begins, needs the second attempt
of the lookup; three operations are an insertion, another one or a removal, and a
lookup. Four requests exhaust the pool and reuse what is released; free
blocks beyond the end of the pool exist in the code, too, whose map always has 48
levels.

Deadlock is checked in every run. `Terminated` steps mark the states where the
bound on groups, or the destruction of the worker thread, ends a behaviour.

### Disagreements

Three runs end in a counterexample to something that the repository states:

| Run | Statement | What happens |
|---|---|---|
| `concurrent_readers` | `runtime-spec.md:48`: pages are tracked as up-to-date or outdated | a second reader finds the page valid while the transfer for the first one is only enqueued |
| `coarse_cross_wait` | `tests/sycl/extensions.cpp:1211`: no deadlock between queues with coarse events; `extensions.md:493`: they "support the same functionality as regular events" | on the OpenMP backend two queues that depend on each other back and forth wait for each other to become empty |
| `exhausted_pool` | `tests/pstl/free_space_map.cpp:97`: a claim succeeds after a block of that size was released | a failed claim splits a block beyond the end of the pool; its halves keep later claims from splitting a usable one |

Further ones, of the same kind, can be reproduced with the configurations that
the table names (`tlc -config X.cfg M`):

| Configuration, module, property | Statement | What happens |
|---|---|---|
| `UpdateThenAccess.cfg`, `MCBufferRuntime`, `NoCyclicRequirements` | `dag_builder.cpp:188`: no node becomes "a requirement to itself" | an explicit update in the list of users is given conflicts again by a later node, among them itself |
| `PageWiseReaders.cfg`, `MCBufferRuntime`, `OneTransferPerRequirement` | assert in `dag_node.cpp:113` | one requirement with two outdated regions gets two operations, of which the second is dropped |
| `SpreadPages.cfg`, `MCBufferRuntime`, `UpdateSourceFound` | assert in `data.hpp:590` | pages of one region are up-to-date on different devices; no source; in a build without asserts the range is marked valid anyway |
| `FailedDispatch.cfg`, `MCBufferRuntime`, `KnownCompleteIsComplete` | `dag_node.cpp:235`: "All requirements are now also complete" | a cancelled kernel hides a transfer in flight |
| `EmptyBuilder.cfg`, `MCDagManager`, `FlushAndGcWaits` | `dag_manager.hpp:37`: "wait until they have been submitted" | the size is read without the mutex while another thread submits |
| `ExclusiveInPlace.cfg`, `MCLookbackScan`, `ResultIsReference` | `stdpar.md:68`: `exclusive_scan` is supported, without a restriction (the standard allows `d_first` to equal `first`) | `numeric.hpp:262-269` makes no copy; a group loads element `id - 1` (`decoupled_lookback_scan.hpp:273-275`), which the group before it has already overwritten with its result |
| `TrackedReuse.cfg`, `MCStdparMemory`, `OwnedIsTracked` | `sycl_glue.hpp:422`: the runtime is informed of new user allocations | a block is released before the tracker is told, whose entry for the next owner is then removed |

One more limit of the code shows in the choice of instance of `stdpar_memory`: it
has no requests below a page. `memory_pool::claim()` rounds them up to a page, but
`free()` passes the size that the program asked for to `release()`. The rest of the
page is lost to the pool, and `NoSpaceLost` fails as soon as `Sizes` contains 1.

Asserts are taken as compiled out (`NDEBUG`): the model goes on where they would stop.

### Fairness

`WorkerThread` and `DagManager` assume that threads keep running (weak fairness
of each thread's steps), that operations submitted to a device finish, and, for
`_flush_mutex`, strong fairness: `std::mutex` promises no order, but operating
systems do not starve a thread for ever. `BufferRuntime` assumes weak fairness of
the flush that every submission performs before it returns, of each lane, and of
the end of a host accessor's constructor. `InorderQueues` assumes weak fairness of
threads inside `submit()` or `wait()` and of each worker and stream;
`LookbackScan` only assumes that the device executes the initialization kernel,
starts some group while a slot is free and some are left, and does not stop while a
resident group can do something other than spin (a group that has started is not
suspended for ever; `decoupled_lookback_scan.hpp:515-520`); `AllocationMap` assumes weak fairness of threads inside an operation, whose
number is bounded: that an endless stream of lookups could keep `erase()` out is
not excluded by the code and does not show here. `StdparMemory` has no liveness
property and no fairness. Nothing is assumed of applications,
which may stop submitting, nor of queries, waits and collections.

## What is proved

`DagManagerProofs` proves for every set of threads, every `MaxNodes` and every
`GcBatch`, from `ManagerAssumption` (`None` is no thread, `MaxNodes` is a natural
number):

* `TypeCorrect`: `Spec => []TypeOK`;
* `SubmissionCorrect`: `Spec => []SubmissionEnsured`;
* `OrderCorrect`: `Spec => []ScheduledInOrder`;
* `WaitCorrect`: `Spec => []WaitMeansFinished`.

They follow from `Invariance`: `Spec => []Inv`. None of them is inductive alone.
`SubmissionEnsured` speaks of idle threads, and whether a node is submitted when
its thread becomes idle depends on another thread that took it out of the builder.
`Inv` therefore says what `_flush_mutex` protects: whoever does not hold it finds
everything taken out of the builder submitted and registered (`Settled`), and the
holder's position tells how far it is (`FlushInv`, `MutexInv`). `BuiltInv` says
that a thread with nodes in the builder is still on its way to its own `flush()`;
`EnsuredInv` and `WaitInv` carry the result through the waits, where "registered"
has to be weakened to "registered or known to be complete" because collections
purge the list. Each action has a lemma of its own.

About `WorkerThread` it proves, for every set of clients and every number of tasks
(`MaxTasks \in Nat`): `WorkerTypeCorrect` (`TypeOK`), `WorkerOrderCorrect`
(`RunsOnceInOrder`) and `WorkerWaitCorrect` (`WaitMeansDone`), from
`WorkerInvariance`. The task that runs stays at the front of the queue until `Pop`
(`FrontRuns`, a part of `TypeOK`), so that history and queue overlap by one
element between `Run` and `Pop`; the invariant (`TypeOK`, `OrderInv`) says that
they are, with this overlap, the tasks 1 to `pushed` in order. An empty queue then
means that everything enqueued has run.

`InorderQueuesProofs` proves `DecayCorrect` (`EventIsStable`) for every set of
queues and threads and every application that satisfies `SetupAssumption` (groups
depend on earlier groups): a
coarse event decays once, so that nobody waits for an event that has been replaced.
The invariant `Inv` says who may be between `LockDecay` and `Publish` (`LockInv`), that a
fine-grained event of a coarse one is announced or about to be announced by the
holder of its mutex (`FineInv`), and that nodes under submission have no event
(`OwnInv`, `RequirementInv`).

`InorderQueuesOrderProofs` proves, under the same assumption,
`RequirementsDoneCorrect` (`RequirementsDone`), `KnownIsDoneCorrect`
(`KnownIsDone`) and `InorderQueuesTypeCorrect` (`TypeOK`). `RequirementsDone`
compares an operation that runs with operations of other queues; what makes it true is
spread over the tasks in between. `OrderedInv` (`OrderedCorrect`) adds to `Inv`:

* where things are: the execution index of a node counts the nodes of its queue
  (`NodeInv`), a node under submission is the newest of its queue (`LaneInv`), the
  operations of a queue are enqueued in the order of their nodes (`OrderInv`), what was
  submitted and not cancelled has been enqueued (`EnqueuedInv`), and an event of a
  node comes after its operation (`EventInv`);
* what waits mean: a requirement that the executor has dealt with is done, in the same
  queue, or covered by a wait in front of the operation (`SecuredInv`; during a
  submission `SyncInv`); a wait that a queue has passed was for
  operations that are done (`WaitedInv`), and one that blocks waits for a
  position at or after the operation (`BlockInv`);
* what is remembered: known-complete nodes and finished events are done
  (`CompleteInv`).

That waiting for the last operation of a lane is enough for all of them is the
step that uses `OrderInv`. Marking the requirements of a completed node as complete
(`dag_node::wait`) needs an induction along the requirements.

`LookbackScanProofs` proves, for every element type and associative operator
(`OpAssociative`), any input, sizes, numbers of groups and slots: `TypeCorrect`
(`TypeOK`), `LookbackCorrect` (`PrefixCorrect`), `PublicationFinal`
(`PublishedIsFinal`) and `ScanCorrect` (`ResultIsReference`). Scans may be in place
if they are inclusive (`InPlaceInclusive`): in an exclusive one a group loads the last
element of the group before it, which may have been overwritten, and the theorem
would be false (`ExclusiveInPlace.cfg`). `ScanAssumption` says that a call has elements, that they
exist, and that global ids fit their type.

The first part is about the functions that a group computes: the sequential scan, the
Kogge-Stone scan, their iteration over several elements per item, with work items
beyond the end, all give the sums of the loaded elements (`LocalScanCorrect`), the prefix of a
group is a sum (`PrefixIsSum`), and so is the reference (`ReferenceIsSum`). The
second part is the protocol. Its invariant `Inv` gives each started group
an id of its own (`IdInv`), makes the announced entries right (`EntryOf`, `OwnerOf`),
and states the loop invariant of the look-back (`LookOf`): the prefix up to the group
looked at, combined with what has been accumulated, is the prefix of the
predecessor. `DataInv` says that only groups that are done have overwritten elements,
and only their own, so that a group still finds its input. `OutInv` says what the groups
that are done have written; at the end their ids are all of them, because an injection
of a finite set into itself is onto (`AllIdsTaken`).

`AllocationMapStepProofs` and `AllocationMapProofs` prove, for trees of any number of levels and children, any set
of disjoint allocations and any number of operations at the same time
(`MapAssumption`): `MapTyped` (`TypeOK`), `LookupsCorrect` (`LookupCorrect`),
`NothingIsLost` (`NothingLost`) and `TreeIsPruned` (`TreePruned`). They follow from
`MapCorrect`: `Spec => []Inv`. The first part is the arithmetic of prefixes: the node of
an address on each level, its parent, and where a search begins in a node
(`StartIndexFacts`). The steps of calls, lookups and insertions are in the first module,
from two hypotheses that need an induction over the levels (`Spanning`, `Paths`) and
that the second one proves (`SpanningHolds`, `PathsHold`). The conjuncts of `Inv` are:

* `LockInv`: the counter is -1 exactly while an `erase()` is inside, and then it
  is alone;
* `OpInv`, `BlockInv`: what the operations have been called with, and that a block is
  inserted or erased by one of them;
* `EntryInv`: the blocks with an entry (`Stored`) are those that are live and those whose
  `insert()` has come past the store of the size or whose `erase()` has not come
  that far; their sizes are right, and their payloads once these are written;
* `TreeInv`: with a node there is the path to it, and every node below the root is there for
  a stored block or for an `insert()` on its way down. The second half cannot be left
  out: `get_entry()` gives up after two leaves, which is enough
  because a leaf between that of the allocation and that of the address would be there for
  another allocation, and that one would overlap;
* `CountInv`: `num_entries` of a node counts the entries or children that it has, which
  is what `erase()` removes empty nodes by;
* `SearchInv`: the loop invariant of `get_entry()`. What it has to find does not lie above the place
  where it looks, and after a failed leaf it looks in front of the leaf of
  the address;
* `WantedInv`, `ResultInv`: what a lookup has to find is in the map, and what it found.

`erase()` is the step where the counters matter: the nodes that it removes are those
without members afterwards (`RemovalCounts`, `RemovalEmpties`), and a node that stays and has
lost its reason has another one below it, by induction over the levels
(`RemovalReasons`).

`StdparMemoryProofs` proves, for every size of the pool and of the address space,
every set of request sizes and threads: `MemoryTypeCorrect` (`TypeOK`),
`DisjointCorrect` (`BlocksDisjoint`), `MergingCorrect` (`BuddiesMerged`),
`RegisteredCorrect` (`OwnedIsRegistered`) and, if no request is below a page
(`PageRequests`), `SpaceCorrect` (`NoSpaceLost`). `MemoryAssumption` says of the
backend that its allocations do not overlap each other or the pool. The first part shows what
`claim()` and `release()` do with the free blocks: splitting goes down level by level,
merging up, and each round keeps blocks aligned, disjoint and without unmerged
halves, except for the one block that is being merged (`MergingOK`). The invariant
`MemoryInv` adds the threads: memory that a thread holds between two steps of
`malloc()` or `free()`, or that the program owns, is a used block of the pool or comes from the
backend (`Backed`), and nobody else holds it (`OwnerInv`). `BlocksDisjoint` alone is
not inductive, because a thread in the middle of `free()` holds memory
that the program does not own any more; `EntriesInv` needs the same.

Recursive functions are reasoned about with `Induction`: a set of natural numbers
that has 0 and is closed under successor has all of them, and a recursive
definition has a solution. The library's theorems take operators as parameters,
which the provers cannot instantiate; sets and functions in their place can be.

Only model-checked, not proved:

* everything about `BufferRuntime`, `DataRegion` and `OrderedAccess`, the refinement
  included: an inductive invariant has to relate the pages, the transfers in flight and
  what is left of the graph of requirements after every pruning, and has not been
  worked out;
* all liveness (of `AllocationMap`: `OperationsReturn`): the proof system does not
  reason about fairness or `ENABLED`.

## Not modelled

The mapped definitions stand for a small share of the repository. Most of its
lines are a compiler (LLVM passes, drivers), device-side headers (maths, vectors,
builtins of each target), interfaces generated by templates, tests and
benchmarks, in which there is no state that several actors share. A state machine
of them would repeat the code and show nothing. In particular:

* backends: beyond synchronization, calls of vendor libraries (CUDA, HIP, Level
  Zero, OpenCL, Vulkan, Metal);
* the compiler and its tools;
* device-side library, maths, vectors: sequential code;
* settings, hardware model, serialization, error lists: configuration and I/O;
* two- and three-dimensional page ranges; several buffers in a group; USM
  operations without a buffer beyond their events;
* in-order queues that are emulated by chaining, host accessors that outlive their
  construction, and several threads on `BufferRuntime`;
* the kernel cache and the application database: mostly compilation and files;
  their one race is that of `kernel_cache.hpp:327`, where a second thread that
  missed the cache replaces the object of the first;
* runtime start and shutdown; `event_pool`; memory orders weaker than sequential
  consistency;
* stdpar's offload heuristics and prefetching, and calls of `malloc()` and `free()`
  while a thread's replacement is disabled.
