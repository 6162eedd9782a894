--------------------------- MODULE InorderQueues ---------------------------
(***************************************************************************)
(* In-order sycl::queues that depend on each other: each has an executor   *)
(* and a backend queue of its own (inorder_executor.cpp), and operations   *)
(* of different queues are ordered by events.  An event is fine-grained (a *)
(* task that the backend queue reaches) or coarse (queue_completion_event: *)
(* it asks for the state of the whole queue until somebody needs a real    *)
(* event, and then decays to a fine-grained one).                          *)
(*                                                                         *)
(* A backend queue is the list of its tasks and the number of those that   *)
(* it has finished.  Two kinds of backends matter:                         *)
(*   "omp"     a worker thread on the host; waiting for another queue is a *)
(*             task that blocks it (omp_queue.cpp);                        *)
(*   "stream"  a stream of a GPU runtime; waiting for another queue is a   *)
(*             wait for a recorded event on the device (cuda_queue.cpp).   *)
(* Queues of different backends wait for each other's nodes on the host.   *)
(***************************************************************************)
EXTENDS Integers, Sequences, FiniteSets

CONSTANTS
    Queues,        \* the in-order queues of the application
    Threads,       \* the application's threads
    Setups,        \* the applications considered, see SetupAssumption
    MaxFailures    \* bound: submissions that fail

ASSUME SetupAssumption ==
    /\ Queues \cap Threads = {}
    /\ MaxFailures \in Nat
    /\ \A s \in Setups :
           /\ s.backend \in [Queues -> {"omp", "stream"}]
           /\ s.ops \in Seq([queue : Queues, coarse : BOOLEAN, reqs : SUBSET Nat])
           /\ \A k \in 1..Len(s.ops) : s.ops[k].reqs \subseteq 1..(k - 1)

VARIABLES
    setup,      \* never changes: the backend of each queue, and the command
                \* groups in the order in which they are submitted: queue, hint
                \* coarse_grained_synchronization, events they depend on
    node,       \* the nodes: queue, hint, requirements, execution index
    submitted,  \* nodes with _is_submitted
    cancelled,  \* nodes with _is_cancelled
    known,      \* nodes with _is_complete
    fine,       \* position in its queue of a node's fine-grained event, 0: none
    decayed,    \* coarse events with _has_fine_grained_event
    finished,   \* coarse events with _is_complete
    decayMutex, \* coarse events whose _decay_to_fine_grained_evt_mutex is held
    tasks,      \* the tasks enqueued in each backend queue so far
    head,       \* how many of them it has finished
    waiting,    \* what the worker of a queue or a thread blocks on
    thr         \* the submission that a thread is in

vars == <<setup, node, submitted, cancelled, known, fine, decayed, finished,
          decayMutex, tasks, head, waiting, thr>>

nodeVars == <<node, submitted, cancelled>>
eventVars == <<fine, decayed, decayMutex>>

MaxOps == Len(setup.ops)
Nodes == 1..Len(node)
QueueOf(n) == node[n].queue
Backend(q) == setup.backend[q]

(* A blocked worker or thread waits until queue q has finished the task at *)
(* position upto, or, if drain holds, until it has finished every task.    *)
NotWaiting == [q |-> "none", upto |-> 0, drain |-> FALSE]
Idle == [pc |-> "idle", n |-> 0, reqs |-> {}, todo |-> {}, r |-> 0]

Task(do, n, at) == [do |-> do, n |-> n, at |-> at]
Enqueue(q, task) == tasks' = [tasks EXCEPT ![q] = Append(@, task)]

(* The operations that have been executed.                                 *)
Done == {n \in Nodes : \E i \in 1..head[QueueOf(n)] :
             LET task == tasks[QueueOf(n)][i]
             IN  task.do = "op" /\ task.n = n}

Init ==
    /\ setup \in Setups
    /\ node = << >>
    /\ submitted = {} /\ cancelled = {} /\ known = {}
    /\ fine = [n \in 1..MaxOps |-> 0]
    /\ decayed = {} /\ finished = {} /\ decayMutex = {}
    /\ tasks = [q \in Queues |-> << >>]
    /\ head = [q \in Queues |-> 0]
    /\ waiting = [a \in Queues \cup Threads |-> NotWaiting]
    /\ thr = [t \in Threads |-> Idle]

-----------------------------------------------------------------------------
(* Submission: sycl::queue, the direct scheduler and inorder_executor.     *)

At(t, pc) == thr[t].pc = pc /\ waiting[t] = NotWaiting

(* Nobody is in submit() of queue q, which holds _impl->lock to its end.   *)
QueueFree(q) ==
    ~ \E t \in Threads : thr[t].pc \notin {"idle", "wait"} /\ QueueOf(thr[t].n) = q

(* A thread submits the next command group, with the events it depends on; *)
(* requirements known to be complete are removed first.                    *)
Begin(t) ==
    /\ At(t, "idle")
    /\ Len(node) < MaxOps
    /\ LET group == setup.ops[Len(node) + 1]
           onQueue == {n \in Nodes : QueueOf(n) = group.queue}
       IN  /\ group.reqs \subseteq submitted
           /\ QueueFree(group.queue)
           /\ node' = Append(node, [queue |-> group.queue, coarse |-> group.coarse,
                                    reqs |-> group.reqs,
                                    index |-> Cardinality(onQueue) + 1])
           /\ thr' = [thr EXCEPT ![t] =
                  [pc |-> "sync", n |-> Len(node) + 1, r |-> 0,
                   reqs |-> group.reqs \ known, todo |-> group.reqs \ known]]
    /\ UNCHANGED <<setup, submitted, cancelled, known, eventVars, finished,
                   tasks, head, waiting>>

(* Bug: synchronizes with the first requirement of a lane.                 *)
FirstOfLane(r, reqs) ==
    \A s \in reqs : QueueOf(s) = QueueOf(r) => node[s].index >= node[r].index

(* get_maximum_execution_index_for_lane: no requirement of reqs has been   *)
(* submitted to r's lane after r.                                          *)
LastOfLane(r, reqs) ==
    \A s \in reqs : QueueOf(s) = QueueOf(r) => node[s].index <= node[r].index

(* How queue q is made to wait for requirement r, one of reqs.             *)
WayToWait(q, r, reqs) ==
    IF r \in known THEN "skip"
    ELSE IF Backend(QueueOf(r)) # Backend(q) THEN "external"
    ELSE IF QueueOf(r) = q \/ ~ LastOfLane(r, reqs) THEN "skip"
    ELSE Backend(q)

SyncStep(t, r, way) ==
    /\ At(t, "sync")
    /\ r \in thr[t].todo
    /\ way = WayToWait(QueueOf(thr[t].n), r, thr[t].reqs)

RequirementHandled(t, r) ==
    thr' = [thr EXCEPT ![t].todo = @ \ {r}, ![t].pc = "sync", ![t].r = 0]

Skip(t, r) ==
    /\ SyncStep(t, r, "skip")
    /\ RequirementHandled(t, r)
    /\ UNCHANGED <<setup, nodeVars, known, eventVars, finished, tasks, head, waiting>>

(* submit_external_wait_for: a task that calls wait() of the node.         *)
SubmitExternalWaitFor(t, r) ==
    /\ SyncStep(t, r, "external")
    /\ Enqueue(QueueOf(thr[t].n), Task("waitNode", r, 0))
    /\ RequirementHandled(t, r)
    /\ UNCHANGED <<setup, nodeVars, known, eventVars, finished, head, waiting>>

(* omp_queue::submit_queue_wait_for: a task that calls wait() of the event.*)
OmpWaitFor(t, r) ==
    /\ SyncStep(t, r, "omp")
    /\ Enqueue(QueueOf(thr[t].n), Task("waitEvent", r, 0))
    /\ RequirementHandled(t, r)
    /\ UNCHANGED <<setup, nodeVars, known, eventVars, finished, head, waiting>>

(* cuda_queue::submit_queue_wait_for needs a backend event: a fine-grained *)
(* event has one, a coarse one is asked whether it has decayed already.    *)
StreamWaitFor(t, r) ==
    /\ SyncStep(t, r, "stream")
    /\ thr' = [thr EXCEPT ![t].r = r,
                          ![t].pc = IF node[r].coarse /\ r \notin decayed
                                    THEN "lock" ELSE "use"]
    /\ UNCHANGED <<setup, nodeVars, known, eventVars, finished, tasks, head, waiting>>

(* Bug: raises _has_fine_grained_event before there is an event.           *)
LockAndPublish(t) ==
    /\ At(t, "lock")
    /\ thr[t].r \notin decayMutex
    /\ decayMutex' = decayMutex \cup {thr[t].r}
    /\ decayed' = decayed \cup {thr[t].r}
    /\ thr' = [thr EXCEPT ![t].pc = "locked"]
    /\ UNCHANGED <<setup, nodeVars, known, fine, finished, tasks, head, waiting>>

LockDecay(t) ==
    /\ At(t, "lock")
    /\ thr[t].r \notin decayMutex
    /\ decayMutex' = decayMutex \cup {thr[t].r}
    /\ thr' = [thr EXCEPT ![t].pc = "locked"]
    /\ UNCHANGED <<setup, nodeVars, known, fine, decayed, finished, tasks, head, waiting>>

(* Under the lock, with r the coarse event: inserts an event into its      *)
(* queue unless another thread was faster.  That the backend cannot create *)
(* or record an event, where the code returns nullptr, is left out.        *)
InsertEvent(t, r) ==
    /\ Enqueue(QueueOf(r), Task("signal", r, 0))
    /\ fine' = [fine EXCEPT ![r] = Len(tasks[QueueOf(r)]) + 1]
    /\ thr' = [thr EXCEPT ![t].pc = "publish"]
    /\ UNCHANGED decayMutex

(* Bug: does not look again after taking the lock.                         *)
DecayUnchecked(t) ==
    /\ At(t, "locked")
    /\ InsertEvent(t, thr[t].r)
    /\ UNCHANGED <<setup, nodeVars, known, decayed, finished, head, waiting>>

Decay(t) ==
    /\ At(t, "locked")
    /\ \/ thr[t].r \notin decayed /\ InsertEvent(t, thr[t].r)
       \/ /\ thr[t].r \in decayed
          /\ decayMutex' = decayMutex \ {thr[t].r}
          /\ thr' = [thr EXCEPT ![t].pc = "use"]
          /\ UNCHANGED <<fine, tasks>>
    /\ UNCHANGED <<setup, nodeVars, known, decayed, finished, head, waiting>>

(* _has_fine_grained_event = true, and the lock is released.               *)
Publish(t) ==
    /\ At(t, "publish")
    /\ decayed' = decayed \cup {thr[t].r}
    /\ decayMutex' = decayMutex \ {thr[t].r}
    /\ thr' = [thr EXCEPT ![t].pc = "use"]
    /\ UNCHANGED <<setup, nodeVars, known, fine, finished, tasks, head, waiting>>

(* cudaStreamWaitEvent on the backend event of requirement r.              *)
UseEvent(t) ==
    /\ At(t, "use")
    /\ LET r == thr[t].r
       IN  /\ Enqueue(QueueOf(thr[t].n), Task("streamWait", r, fine[r]))
           /\ RequirementHandled(t, r)
    /\ UNCHANGED <<setup, nodeVars, known, eventVars, finished, head, waiting>>

(* Every requirement is handled: the operation is enqueued.                *)
Dispatch(t) ==
    /\ At(t, "sync")
    /\ thr[t].todo = {}
    /\ Enqueue(QueueOf(thr[t].n), Task("op", thr[t].n, 0))
    /\ thr' = [thr EXCEPT ![t].pc = "dispatched"]
    /\ UNCHANGED <<setup, nodeVars, known, eventVars, finished, head, waiting>>

(* The node gets its event: a coarse one is only an object, a fine-grained *)
(* one is inserted into the queue.  submit() returns it to the application.*)
MarkSubmitted(t) ==
    /\ At(t, "dispatched")
    /\ LET n == thr[t].n
           q == QueueOf(n)
       IN  /\ submitted' = submitted \cup {n}
           /\ IF node[n].coarse
              THEN UNCHANGED <<tasks, fine>>
              ELSE /\ Enqueue(q, Task("signal", n, 0))
                   /\ fine' = [fine EXCEPT ![n] = Len(tasks[q]) + 1]
    /\ thr' = [thr EXCEPT ![t] = Idle]
    /\ UNCHANGED <<setup, node, cancelled, known, decayed, decayMutex, finished,
                   head, waiting>>

(* A wait or the dispatch could not be enqueued: the node is cancelled.    *)
(* What has been enqueued for it stays.                                    *)
Cancel(t) ==
    /\ At(t, "sync") \/ At(t, "use")
    /\ Cardinality(cancelled) < MaxFailures
    /\ submitted' = submitted \cup {thr[t].n}
    /\ cancelled' = cancelled \cup {thr[t].n}
    /\ known' = known \cup {thr[t].n}
    /\ thr' = [thr EXCEPT ![t] = Idle]
    /\ UNCHANGED <<setup, node, eventVars, finished, tasks, head, waiting>>

-----------------------------------------------------------------------------
(* Waiting for and querying events, on workers and on threads.             *)

HasFineEvent(n) == ~ node[n].coarse \/ n \in decayed

(* Bug: the task that the queue is executing does not count.               *)
EventCompleteEarly(n) ==
    LET q == QueueOf(n)
    IN  \/ n \in finished
        \/ HasFineEvent(n) /\ head[q] >= fine[n]
        \/ ~ HasFineEvent(n) /\ head[q] + 1 >= Len(tasks[q])

(* is_complete() of the event of node n.                                   *)
EventComplete(n) ==
    LET q == QueueOf(n)
    IN  \/ n \in finished
        \/ HasFineEvent(n) /\ head[q] >= fine[n]
        \/ ~ HasFineEvent(n) /\ head[q] = Len(tasks[q])

(* Bug: waits for the queue even if there is a fine-grained event.         *)
WaitForQueue(n) ==
    [q |-> QueueOf(n), upto |-> Len(tasks[QueueOf(n)]),
     drain |-> Backend(QueueOf(n)) = "omp"]

(* What wait() of that event blocks on.  The worker thread of an OpenMP    *)
(* queue is waited for until it has nothing left to do; synchronizing with *)
(* a stream covers the work enqueued before.                               *)
WaitTarget(n) ==
    LET q == QueueOf(n)
    IN  IF HasFineEvent(n)
        THEN [q |-> q, upto |-> fine[n], drain |-> FALSE]
        ELSE [q |-> q, upto |-> Len(tasks[q]), drain |-> Backend(q) = "omp"]

WaitOver(a) ==
    /\ waiting[a] # NotWaiting
    /\ head[waiting[a].q] >= waiting[a].upto
    /\ waiting[a].drain => head[waiting[a].q] = Len(tasks[waiting[a].q])

StartWaiting(a, n) ==
    /\ waiting[a] = NotWaiting
    /\ waiting' = [waiting EXCEPT ![a] = WaitTarget(n)]

StopWaiting(a) == waiting' = [waiting EXCEPT ![a] = NotWaiting]

(* A waiter may wake up although its condition does not hold.              *)
SpuriousWakeup(a) ==
    /\ waiting[a] # NotWaiting
    /\ ~ WaitOver(a)
    /\ UNCHANGED vars

(* dag_node::wait() marks the node and, below nodes not yet known to be    *)
(* complete, its requirements as complete.                                 *)
MarkedByWait(n) ==
    LET level[k \in 0..n] ==
            IF k = 0 THEN {n} \ known
            ELSE level[k - 1] \cup
                 {m \in Nodes \ known : \E j \in level[k - 1] : m \in node[j].reqs}
    IN  level[n] \cup {n}

EventFinished(n) == IF node[n].coarse THEN finished \cup {n} ELSE finished

(* A thread calls wait() of an event that it got from submit().            *)
HostWait(t, n) ==
    /\ At(t, "idle")
    /\ n \in submitted \ known
    /\ n \notin finished
    /\ StartWaiting(t, n)
    /\ thr' = [thr EXCEPT ![t].pc = "wait", ![t].n = n]
    /\ UNCHANGED <<setup, nodeVars, known, eventVars, finished, tasks, head>>

(* The event has been seen to be complete already.                         *)
HostWaitReturns(t, n) ==
    /\ At(t, "idle")
    /\ n \in submitted \ known
    /\ n \in finished
    /\ known' = known \cup MarkedByWait(n)
    /\ UNCHANGED <<setup, nodeVars, eventVars, finished, tasks, head, waiting, thr>>

HostWaitEnds(t) ==
    /\ thr[t].pc = "wait"
    /\ WaitOver(t)
    /\ StopWaiting(t)
    /\ finished' = EventFinished(thr[t].n)
    /\ known' = known \cup MarkedByWait(thr[t].n)
    /\ thr' = [thr EXCEPT ![t] = Idle]
    /\ UNCHANGED <<setup, nodeVars, eventVars, tasks, head>>

(* dag_node::is_complete(), by the application or the runtime.             *)
Query(n) ==
    /\ n \in submitted \ known
    /\ EventComplete(n)
    /\ known' = known \cup {n}
    /\ UNCHANGED <<setup, nodeVars, eventVars, finished, tasks, head, waiting, thr>>

-----------------------------------------------------------------------------
(* Execution of the tasks of a queue, in order.                            *)

Current(q, do) ==
    /\ head[q] < Len(tasks[q])
    /\ tasks[q][head[q] + 1].do \in do

CurrentTask(q) == tasks[q][head[q] + 1]

TaskDone(q) == head' = [head EXCEPT ![q] = @ + 1]

(* An operation runs, or an event is signalled.                            *)
RunTask(q) ==
    /\ Current(q, {"op", "signal"})
    /\ TaskDone(q)
    /\ UNCHANGED <<setup, nodeVars, known, eventVars, finished, tasks, waiting, thr>>

(* The stream has waited for the recorded event.                           *)
StreamWaited(q) ==
    /\ Current(q, {"streamWait"})
    /\ head[QueueOf(CurrentTask(q).n)] >= CurrentTask(q).at
    /\ TaskDone(q)
    /\ UNCHANGED <<setup, nodeVars, known, eventVars, finished, tasks, waiting, thr>>

(* A task that waits on the host returns at once if the node or the event  *)
(* has been seen to be complete.                                           *)
WaitReturns(q) ==
    /\ Current(q, {"waitNode", "waitEvent"})
    /\ waiting[q] = NotWaiting
    /\ LET task == CurrentTask(q)
       IN  \/ /\ task.do = "waitNode" /\ task.n \in known
              /\ UNCHANGED known
           \/ /\ task.do = "waitNode" /\ task.n \in finished \ known
              /\ known' = known \cup MarkedByWait(task.n)
           \/ /\ task.do = "waitEvent" /\ task.n \in finished
              /\ UNCHANGED known
    /\ TaskDone(q)
    /\ UNCHANGED <<setup, nodeVars, eventVars, finished, tasks, waiting, thr>>

WaitStarts(q) ==
    /\ Current(q, {"waitNode", "waitEvent"})
    /\ LET task == CurrentTask(q)
       IN  /\ task.n \notin finished
           /\ task.do = "waitNode" => task.n \notin known
           /\ StartWaiting(q, task.n)
    /\ UNCHANGED <<setup, nodeVars, known, eventVars, finished, tasks, head, thr>>

WaitEnds(q) ==
    /\ Current(q, {"waitNode", "waitEvent"})
    /\ WaitOver(q)
    /\ StopWaiting(q)
    /\ LET task == CurrentTask(q)
       IN  /\ finished' = EventFinished(task.n)
           /\ known' = IF task.do = "waitNode"
                       THEN known \cup MarkedByWait(task.n) ELSE known
    /\ TaskDone(q)
    /\ UNCHANGED <<setup, nodeVars, eventVars, tasks, thr>>

-----------------------------------------------------------------------------

SubmitStep(t) ==
    \/ \E r \in thr[t].todo : \/ Skip(t, r)
                              \/ SubmitExternalWaitFor(t, r)
                              \/ OmpWaitFor(t, r)
                              \/ StreamWaitFor(t, r)
    \/ LockDecay(t)
    \/ Decay(t)
    \/ Publish(t)
    \/ UseEvent(t)
    \/ Dispatch(t)
    \/ MarkSubmitted(t)
    \/ HostWaitEnds(t)

QueueStep(q) ==
    RunTask(q) \/ StreamWaited(q) \/ WaitReturns(q) \/ WaitStarts(q) \/ WaitEnds(q)

(* Every queue is drained, and the bound on operations is reached.         *)
Terminated ==
    /\ Len(node) = MaxOps
    /\ \A t \in Threads : thr[t] = Idle
    /\ \A q \in Queues : head[q] = Len(tasks[q])
    /\ UNCHANGED vars

Next ==
    \/ \E t \in Threads : \/ Begin(t)
                          \/ SubmitStep(t)
                          \/ Cancel(t)
                          \/ \E n \in Nodes : HostWait(t, n) \/ HostWaitReturns(t, n)
    \/ \E q \in Queues : QueueStep(q)
    \/ \E n \in Nodes : Query(n)
    \/ \E a \in Queues \cup Threads : SpuriousWakeup(a)
    \/ Terminated

(* Threads inside submit() or wait() and the workers and streams of the    *)
(* queues keep running.  Nothing is assumed of what applications submit.   *)
Fairness ==
    /\ \A t \in Threads : WF_vars(SubmitStep(t))
    /\ \A q \in Queues : WF_vars(QueueStep(q))

Spec == Init /\ [][Next]_vars /\ Fairness

-----------------------------------------------------------------------------
(* Properties.                                                             *)

TaskKinds == {"op", "signal", "waitNode", "waitEvent", "streamWait"}

(* Types; and a coarse event that has decayed has an event to ask, which   *)
(* is enqueued in its own queue (queue_completion_event.hpp:71-72).        *)
TypeOK ==
    /\ setup \in Setups
    /\ Len(node) <= MaxOps
    /\ \A n \in Nodes : /\ node[n].queue \in Queues
                        /\ node[n].coarse \in BOOLEAN
                        /\ node[n].reqs \subseteq 1..(n - 1)
                        /\ node[n].index \in 1..n
    /\ cancelled \subseteq submitted /\ submitted \subseteq Nodes
    /\ known \subseteq submitted
    /\ finished \subseteq submitted
    /\ \A n \in decayed : n \in submitted /\ fine[n] \in 1..Len(tasks[QueueOf(n)])
    /\ decayMutex \subseteq submitted
    /\ \A q \in Queues : /\ head[q] \in 0..Len(tasks[q])
                         /\ \A i \in 1..Len(tasks[q]) :
                                /\ tasks[q][i].do \in TaskKinds
                                /\ tasks[q][i].n \in Nodes
                                /\ tasks[q][i].do = "streamWait" => tasks[q][i].at # 0

(* An operation runs only after everything it depends on has run, however  *)
(* the waits for it were pruned, enqueued and executed; requirements that  *)
(* were cancelled are not waited for (inorder_executor.cpp:107-166).       *)
RequirementsDone ==
    \A n \in Done : node[n].reqs \subseteq Done \cup cancelled

(* A node that counts as complete, after a wait, a query or a wait for a   *)
(* node that depends on it, has been executed or was cancelled             *)
(* (dag_node.cpp:41-56, 228-247; queue_completion_event.hpp:34-59).        *)
KnownIsDone == known \subseteq Done \cup cancelled

(* A coarse event decays to one fine-grained event for good, although      *)
(* several threads may ask for it at once                                  *)
(* (queue_completion_event.hpp:61-79).                                     *)
EventIsStable ==
    [][\A n \in 1..MaxOps : fine[n] # 0 => fine'[n] = fine[n]]_vars

(* Every submission returns, and what it submitted is executed: queues     *)
(* that wait for each other do not block each other for ever.  Programs    *)
(* end, so this means that there is always a later state without anything  *)
(* left to do.                                                             *)
AllExecuted ==
    []<>(\A n \in Nodes : n \in submitted /\ n \in Done \cup cancelled)
=============================================================================
