-------------------------- MODULE InorderExecutor ---------------------------
(***************************************************************************)
(* rt::inorder_executor (src/runtime/inorder_executor.cpp): a node on its  *)
(* way to an in-order lane <<device, class, number>>, and the lanes of a   *)
(* device that rt::multi_queue_executor chooses from.                      *)
(***************************************************************************)
EXTENDS DagNode

CONSTANTS Devices, Host,   \* the devices; Host is the CPU device
          CopyLanes,       \* number of memcpy lanes of a device
          KernelLanes      \* number of kernel lanes of a device

ASSUME ExecutorAssumption ==
    /\ Host \in Devices
    /\ CopyLanes \in Nat \ {0} /\ KernelLanes \in Nat \ {0}

\* determine_target_lane(): which lane of the class is taken depends on recent
\* utilisation, which is left open.
LanesOf(dev, class) ==
    {<<dev, class, i>> : i \in 1..(IF class = "copy" THEN CopyLanes ELSE KernelLanes)}

Lanes == UNION {LanesOf(d, class) : d \in Devices, class \in {"copy", "kernel"}}

\* The CPU device has a backend of its own.
Backend(dev) == IF dev = Host THEN "omp" ELSE "device"

\* get_maximum_execution_index_for_lane() over the requirements reqs.
MaximumIndex(N, reqs, lane) ==
    Max({0} \cup {N[m].index : m \in {r \in reqs : /\ N[r].submitted
                                                   /\ Backend(N[r].dev) = Backend(lane[1])
                                                   /\ N[r].lane = lane}})

\* Bug: same-backend requirements are taken to be on the same lane.
LaneWaitsForBackends(N, reqs, lane) ==
    {r \in reqs : ~N[r].complete /\ Backend(N[r].dev) # Backend(lane[1])}

\* Requirements that the lane has to wait for before it executes the node: those
\* of another backend, and the last one on every other lane of this backend.
LaneWaits(N, reqs, lane) ==
    {r \in reqs :
        /\ ~N[r].complete
        /\ \/ Backend(N[r].dev) # Backend(lane[1])
           \/ /\ N[r].lane # lane
              /\ N[r].index = MaximumIndex(N, reqs, N[r].lane)}

\* Requirements handed to the executor by the scheduler's submit().
ExecutorRequirements(N, live, n) ==
    {r \in NonvirtualRequirements(N, live, n) : ~N[r].complete}

\* submit_directly() up to the dispatch: lane, index and synchronization.
AssignToLane(N, live, n, lane) ==
    LET reqs == ExecutorRequirements(N, live, n)
    IN [N EXCEPT ![n].lane = lane,
                 ![n].index = 1 + Cardinality({m \in DOMAIN N : N[m].lane = lane}),
                 ![n].waits = LaneWaits(N, reqs, lane)]

\* submit_directly() when the dispatch succeeds, and when it fails.
SubmitDirectly(N, live, n, lane) == MarkSubmitted(AssignToLane(N, live, n, lane), n)
SubmitFails(N, live, n, lane) == Cancel(AssignToLane(N, live, n, lane), live, n)
=============================================================================
