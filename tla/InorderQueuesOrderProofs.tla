---------------------- MODULE InorderQueuesOrderProofs ----------------------
(***************************************************************************)
(* Each step of InorderQueues preserves the order of InorderQueuesProofs.  *)
(***************************************************************************)
EXTENDS InorderQueuesProofs

(* Completion                                                              *)

\* A wait for a node ends after its operation.
LEMMA WaitOverDone ==
    ASSUME Inv, StateInv, NEW n \in Nodes, NEW a \in Queues \cup Threads,
           Covers(waiting[a], n), WaitOver(a)
    PROVE  n \in Done
  <1>1. PICK i \in Positions(n) : i <= waiting[a].upto
      BY Zenon DEF Covers
  <1>2. waiting[a].q = QueueOf(n) /\ head[QueueOf(n)] >= waiting[a].upto
      BY Zenon DEF Covers, WaitOver
  <1>3. QueueOf(n) \in Queues /\ Len(tasks[QueueOf(n)]) \in Nat /\ head[QueueOf(n)] \in Nat
      BY Elements, Zenon DEF StateInv
  <1>4. i \in Nat
      BY <1>3 DEF Positions
  <1>5. waiting[a].upto \in Nat
      BY Zenon DEF StateInv, WaitType
  <1> QED BY <1>1, <1>2, <1>3, <1>4, <1>5, DonePositions

\* The queue has passed the fine-grained event of a node, and so the operation.
LEMMA FineEventDone ==
    ASSUME Inv, StateInv, EventInv, NEW n \in Executable, fine[n] # 0,
           head[QueueOf(n)] >= fine[n]
    PROVE  n \in Done
  <1>1. n \in Nodes /\ n \in 1..MaxOps
      BY Elements, Zenon DEF Executable
  <1>2. PICK i \in Positions(n) : i < fine[n]
      BY <1>1, Zenon DEF EventInv
  <1>3. QueueOf(n) \in Queues /\ Len(tasks[QueueOf(n)]) \in Nat /\ head[QueueOf(n)] \in Nat
      BY <1>1, Elements, Zenon DEF StateInv
  <1>4. i \in Nat /\ fine[n] \in Nat
      BY <1>1, <1>3 DEF Positions, Inv, Typed
  <1> QED BY <1>1, <1>2, <1>3, <1>4, DonePositions

\* The event of a node says that it is complete: it is.
LEMMA EventCompleteDone ==
    ASSUME Inv, StateInv, EnqueuedInv, EventInv, CompleteInv,
           NEW n \in Executable, EventComplete(n)
    PROVE  n \in Done
  <1>1. n \in Nodes
      BY Elements, Zenon DEF Executable
  <1>2. CASE n \in finished
      BY <1>2, Zenon DEF CompleteInv
  <1>3. CASE HasFineEvent(n) /\ head[QueueOf(n)] >= fine[n]
      BY <1>3, FineEventDone, Zenon DEF EventInv
  <1>4. CASE ~ HasFineEvent(n) /\ head[QueueOf(n)] = Len(tasks[QueueOf(n)])
    <2>1. PICK i \in Positions(n) : TRUE
        BY Zenon DEF EnqueuedInv
    <2>2. i <= head[QueueOf(n)]
        BY <1>1, <1>4, Elements DEF Positions
    <2> QED BY <1>1, <2>2, DonePositions, Zenon
  <1> QED BY <1>2, <1>3, <1>4, Zenon DEF EventComplete

\* dag_node::wait() returns when a node is done; what it marks is complete.
LEMMA MarkedDone ==
    ASSUME Inv, StateInv, NodeInv, RequirementsDone, NEW n \in Done \cap submitted
    PROVE  MarkedByWait(n) \subseteq (Done \cup cancelled) \cap submitted
  <1> DEFINE X == (Done \cup cancelled) \cap submitted
  <1>1. n \in Nat /\ n \in X
      BY Elements
  <1>2. ASSUME NEW j \in X \ known PROVE node[j].reqs \ known \subseteq X
    <2>1. j \in Done /\ j \in Nodes
        BY Elements, Zenon DEF StateInv
    <2>2. node[j].reqs \subseteq Done \cup cancelled
        BY <2>1, Zenon DEF RequirementsDone
    <2>3. node[j].reqs \subseteq submitted
        BY <2>1, Zenon DEF NodeInv
    <2> QED BY <2>2, <2>3, Zenon
  <1> HIDE DEF X
  <1>3. MarkedByWait(n) \subseteq X
      BY <1>1, <1>2, MarkedByWaitWithin, Zenon
  <1> QED BY <1>3, Zenon DEF X

\* The current task of a queue.
LEMMA CurrentFacts ==
    ASSUME Inv, StateInv, TaskInv, NEW q \in Queues, NEW D, Current(q, D)
    PROVE  /\ head[q] + 1 \in 1..Len(tasks[q]) /\ CurrentTask(q).do \in D
           /\ CurrentTask(q).n \in Nodes
           /\ CurrentTask(q).do \in WaitKinds => CurrentTask(q).n \in Executable
  <1>1. head[q] + 1 \in 1..Len(tasks[q])
      BY Elements DEF StateInv, Current
  <1> QED BY <1>1, Zenon DEF Current, CurrentTask, TaskInv

\* Whatever becomes known to be complete is done or cancelled.
LEMMA CompletesDone ==
    ASSUME Inv, StateInv, NodeInv, TaskInv, EnqueuedInv, EventInv, BlockInv, CompleteInv,
           RequirementsDone, Steps
    PROVE  /\ known \subseteq known' /\ known' \subseteq submitted'
           /\ known' \subseteq Done \cup cancelled \cup cancelled'
           /\ finished' \subseteq Done
  <1> DEFINE X == (Done \cup cancelled) \cap submitted
  <1>1. known \subseteq X /\ finished \subseteq Done /\ cancelled \subseteq known
      BY Zenon DEF StateInv, CompleteInv
  <1>2. submitted \subseteq submitted'
      BY SubmittedChange, Zenon DEF MarkSubmitted, Cancel
  <1>3. ASSUME known \subseteq known', known' \subseteq X, finished' \subseteq Done
        PROVE  /\ known \subseteq known' /\ known' \subseteq submitted'
               /\ known' \subseteq Done \cup cancelled \cup cancelled'
               /\ finished' \subseteq Done
      BY <1>2, <1>3, Zenon
  <1>4. ASSUME NEW t \in Threads, Cancel(t)
        PROVE  /\ known \subseteq known' /\ known' \subseteq submitted'
               /\ known' \subseteq Done \cup cancelled \cup cancelled'
               /\ finished' \subseteq Done
      BY <1>1, <1>4, Zenon DEF Cancel
  <1>5. ASSUME NEW n \in Done \cap submitted PROVE known \cup MarkedByWait(n) \subseteq X
      BY <1>1, MarkedDone, Zenon
  <1> HIDE DEF X
  <1>6. ASSUME NEW t \in Threads, HostWaitEnds(t)
        PROVE  known \subseteq known' /\ known' \subseteq X /\ finished' \subseteq Done
    <2>1. thr[t].n \in Executable /\ Covers(waiting[t], thr[t].n)
        BY <1>6, Zenon DEF HostWaitEnds, BlockInv
    <2>2. thr[t].n \in Nodes /\ thr[t].n \in submitted
        BY <2>1, Elements, Zenon DEF Executable
    <2>3. thr[t].n \in Done
        BY <1>6, <2>1, <2>2, WaitOverDone, Zenon DEF HostWaitEnds
    <2> QED BY <1>1, <1>5, <1>6, <2>2, <2>3, Zenon DEF HostWaitEnds, EventFinished
  <1>7. ASSUME NEW t \in Threads, NEW n \in Nodes, HostWaitReturns(t, n)
        PROVE  known \subseteq known' /\ known' \subseteq X /\ finished' \subseteq Done
      BY <1>1, <1>5, <1>7, Zenon DEF HostWaitReturns
  <1>8. ASSUME NEW q \in Queues, WaitReturns(q)
        PROVE  known \subseteq known' /\ known' \subseteq X /\ finished' \subseteq Done
    <2>1. CurrentTask(q).n \in submitted
        BY <1>8, CurrentFacts, Zenon DEF WaitReturns, WaitKinds, Executable
    <2> QED BY <1>1, <1>5, <1>8, <2>1, Zenon DEF WaitReturns
  <1>9. ASSUME NEW q \in Queues, WaitEnds(q)
        PROVE  known \subseteq known' /\ known' \subseteq X /\ finished' \subseteq Done
    <2>1. CurrentTask(q).n \in Executable /\ CurrentTask(q).n \in Nodes
        BY <1>9, CurrentFacts, Zenon DEF WaitEnds, WaitKinds
    <2>2. Covers(waiting[q], CurrentTask(q).n)
        BY <1>9, Zenon DEF WaitEnds, WaitOver, BlockInv
    <2>3. CurrentTask(q).n \in Done
        BY <1>9, <2>1, <2>2, WaitOverDone, Zenon DEF WaitEnds
    <2> QED BY <1>1, <1>5, <1>9, <2>1, <2>3, Zenon DEF WaitEnds, EventFinished, Executable
  <1>10. ASSUME NEW n \in Nodes, Query(n)
         PROVE  known \subseteq known' /\ known' \subseteq X /\ finished' \subseteq Done
    <2>1. n \in Executable
        BY <1>10, Zenon DEF Query, Executable, StateInv
    <2>2. n \in Done
        BY <1>10, <2>1, EventCompleteDone, Zenon DEF Query
    <2> QED BY <1>1, <1>10, <2>1, <2>2, Zenon DEF Query, X, Executable
  <1> QED BY <1>1, <1>3, <1>4, <1>6, <1>7, <1>8, <1>9, <1>10, CompleteChange, Zenon

-----------------------------------------------------------------------------
(* Nodes and types                                                         *)

\* What is submitted is not cancelled later.
LEMMA ExecutableStep ==
    ASSUME Inv, Steps
    PROVE  /\ Executable \subseteq Executable' /\ cancelled \subseteq cancelled'
           /\ \A n \in submitted : n \in cancelled' => n \in cancelled
           /\ \A n \in Executable' :
                 n \in Executable \/ \E t \in Threads : MarkSubmitted(t) /\ n = thr[t].n
  <1>1. ASSUME NEW t \in Threads, Cancel(t) PROVE thr[t].n \notin submitted
    <2>1. Active(t)
        BY <1>1, Zenon DEF Cancel, At, Active
    <2> QED BY <2>1, Zenon DEF Inv, OwnInv
  <1>2. CASE UNCHANGED <<submitted, cancelled>>
      BY <1>2, Zenon DEF Executable
  <1>3. ASSUME NEW t \in Threads, MarkSubmitted(t)
        PROVE  submitted' = submitted \cup {thr[t].n} /\ cancelled' = cancelled
      BY <1>3, Zenon DEF MarkSubmitted
  <1>4. ASSUME NEW t \in Threads, Cancel(t)
        PROVE  submitted' = submitted \cup {thr[t].n} /\ cancelled' = cancelled \cup {thr[t].n}
      BY <1>4, Zenon DEF Cancel
  <1> QED BY <1>1, <1>2, <1>3, <1>4, SubmittedChange, Zenon DEF Executable

\* What a wait waits for.
LEMMA WaitTargetType == ASSUME Inv, NEW n \in Nodes PROVE WaitTarget(n) \in WaitType
  <1>1. QueueOf(n) \in Queues /\ Len(tasks[QueueOf(n)]) \in Nat /\ fine[n] \in Nat
      BY Elements, Zenon DEF Inv, Typed
  <1>2. (Backend(QueueOf(n)) = "omp") \in BOOLEAN
      BY Zenon
  <1> QED BY <1>1, <1>2, Zenon DEF WaitTarget, WaitType

\* The types of the queues' state, and that only submitted nodes complete.
LEMMA StatePreserved ==
    ASSUME OrderedInv, Inv', RequirementsDone, Steps PROVE StateInv'
  <1> USE DEF OrderedInv, Shape, Placed, Waits
  <1>1. head' \in [Queues -> Nat] /\ \A q \in Queues : head'[q] <= Len(tasks'[q])
      BY Persist, Zenon
  <1>2. waiting' \in [Queues \cup Threads -> WaitType]
    <2>1. waiting \in [Queues \cup Threads -> WaitType] /\ NotWaiting \in WaitType
        BY Zenon DEF StateInv, NotWaiting, WaitType
    <2>2. ASSUME NEW q \in Queues, WaitStarts(q) PROVE WaitTarget(CurrentTask(q).n) \in WaitType
        BY <2>2, CurrentFacts, WaitTargetType, Zenon DEF WaitStarts
    <2> QED BY <2>1, <2>2, WaitTargetType, WaitingChange, Zenon DEF HostWaitEnds, HostWait,
               WaitStarts, WaitEnds, StartWaiting, StopWaiting
  <1>3. cancelled' \subseteq submitted' /\ cancelled' \subseteq known'
    <2>1. cancelled \subseteq submitted /\ cancelled \subseteq known /\ known \subseteq known'
          /\ submitted \subseteq submitted'
        BY CompletesDone, Persist, Zenon DEF StateInv
    <2> QED BY <2>1, SubmittedChange, Zenon DEF MarkSubmitted, Cancel
  <1>4. known' \subseteq submitted'
      BY CompletesDone, Zenon
  <1>5. decayMutex' \subseteq submitted'
    <2>1. ASSUME NEW t \in Threads, LockDecay(t) PROVE thr[t].r \in submitted
        BY <2>1, Zenon DEF LockDecay, At, Inv, RequirementInv
    <2>2. decayMutex' \subseteq submitted
        BY <2>1, EventsChange, Zenon DEF StateInv, LockDecay, Decay, InsertEvent, Publish
    <2> QED BY <2>2, Persist, Zenon
  <1>6. finished' \subseteq submitted'
    <2>1. ASSUME NEW t \in Threads, HostWaitEnds(t) PROVE finished' \subseteq submitted
        BY <2>1, Zenon DEF HostWaitEnds, EventFinished, BlockInv, Executable, StateInv
    <2>2. ASSUME NEW q \in Queues, WaitEnds(q) PROVE finished' \subseteq submitted
      <3>1. head[q] + 1 \in 1..Len(tasks[q]) /\ CurrentTask(q).do \in {"waitNode", "waitEvent"}
          BY <2>2, CurrentFacts, Zenon DEF WaitEnds
      <3>2. CurrentTask(q).n \in submitted
          BY <3>1, Zenon DEF TaskInv, CurrentTask, WaitKinds, Executable
      <3> QED BY <2>2, <3>2, Zenon DEF WaitEnds, EventFinished, StateInv
    <2>3. finished' = finished \/ (\E t \in Threads : HostWaitEnds(t)) \/ (\E q \in Queues : WaitEnds(q))
        BY CompleteChange, Zenon DEF Cancel, HostWaitReturns, WaitReturns, Query
    <2>4. finished' \subseteq submitted
        BY <2>1, <2>2, <2>3, Zenon DEF StateInv
    <2> QED BY <2>4, Persist, Zenon
  <1> QED BY <1>1, <1>2, <1>3, <1>4, <1>5, <1>6, Zenon DEF StateInv

\* inorder_executor.cpp:98-105: the new node.
LEMMA BeginNode ==
    ASSUME Inv, NEW t \in Threads, Begin(t)
    PROVE  LET n == Len(node) + 1
           IN  /\ Nodes' = Nodes \cup {n} /\ n \notin Nodes /\ \A k \in Nodes : k < n
               /\ \A k \in Nodes : node'[k] = node[k]
               /\ node'[n].reqs \subseteq 1..(n - 1) /\ node'[n].reqs \subseteq submitted
               /\ node'[n].index =
                      Cardinality({k \in Nodes : QueueOf(k) = node'[n].queue}) + 1
               /\ thr'[t].n = n /\ thr'[t].pc = "sync"
               /\ thr'[t].reqs = node'[n].reqs \ known /\ thr'[t].todo = thr'[t].reqs
               /\ \A u \in Threads : Active(u) => QueueOf(thr[u].n) # node'[n].queue
               /\ ~ Active(t)
  <1> DEFINE n == Len(node) + 1
             group == setup.ops[n]
             new == [queue |-> group.queue, coarse |-> group.coarse, reqs |-> group.reqs,
                     index |-> Cardinality({k \in Nodes : QueueOf(k) = group.queue}) + 1]
  <1>1. node \in Seq(NodeType) /\ Len(node) \in Nat /\ node' = Append(node, new)
      BY Elements, Zenon DEF Begin, Inv, Typed
  <1>2. group.reqs \subseteq 1..(n - 1)
    <2>1. n \in 1..Len(setup.ops)
        BY <1>1, MaxOpsType DEF Begin, Inv, Typed, MaxOps
    <2>2. setup \in Setups
        BY Zenon DEF Inv, Typed
    <2> QED BY <2>1, <2>2, SetupAssumption, Zenon
  <1>3. new.queue = group.queue /\ new.reqs = group.reqs
        /\ new.index = Cardinality({k \in Nodes : QueueOf(k) = group.queue}) + 1
      BY Zenon
  <1>4. group.reqs \subseteq submitted /\ QueueFree(group.queue) /\ thr[t].pc = "idle"
      BY Zenon DEF Begin, At
  <1>5. thr'[t] = [pc |-> "sync", n |-> n, r |-> 0, reqs |-> group.reqs \ known,
                   todo |-> group.reqs \ known]
      BY Zenon DEF Begin, Inv, Typed
  <1> HIDE DEF new, group
  <1>6. /\ Nodes' = Nodes \cup {n} /\ n \notin Nodes /\ \A k \in Nodes : k < n
        /\ (\A k \in Nodes : node'[k] = node[k]) /\ node'[n] = new
      BY <1>1 DEF Nodes
  <1>7. (\A u \in Threads : Active(u) => QueueOf(thr[u].n) # group.queue) /\ ~ Active(t)
      BY <1>4, Zenon DEF QueueFree, Active
  <1>8. /\ thr'[t].n = n /\ thr'[t].pc = "sync"
        /\ thr'[t].reqs = group.reqs \ known /\ thr'[t].todo = thr'[t].reqs
      BY <1>5
  <1> HIDE DEF n
  <1>9. node'[n].reqs = group.reqs /\ node'[n].queue = group.queue
      BY <1>3, <1>6, Zenon
  <1>10. node'[n].index = Cardinality({k \in Nodes : QueueOf(k) = node'[n].queue}) + 1
      BY <1>3, <1>6, <1>9, Zenon
  <1> QED BY <1>2, <1>4, <1>6, <1>7, <1>8, <1>9, <1>10, Zenon DEF n

\* A submission adds the newest node, which requires earlier ones only.
LEMMA NodePreserved ==
    ASSUME Inv, StateInv, NodeInv, Inv', Steps PROVE NodeInv'
  <1> DEFINE before(n) == {k \in 1..(n - 1) : QueueOf(k) = QueueOf(n)}
  <1>1. ASSUME NEW n \in Nodes, node'[n] = node[n], before(n)' = before(n)
        PROVE  /\ node'[n].reqs \subseteq 1..(n - 1) /\ node'[n].reqs \subseteq submitted'
               /\ node'[n].index = Cardinality(before(n)') + 1
      BY <1>1, Persist, Zenon DEF NodeInv
  <1>2. ASSUME NEW n \in Nodes PROVE node'[n] = node[n] /\ before(n)' = before(n)
    <2>1. \A k \in 1..(n - 1) : k \in Nodes
        BY Elements
    <2> QED BY <2>1, Persist, Zenon
  <1>3. ASSUME NEW t \in Threads, Begin(t), NEW n, n = Len(node) + 1
        PROVE  /\ Nodes' = Nodes \cup {n}
               /\ node'[n].reqs \subseteq 1..(n - 1) /\ node'[n].reqs \subseteq submitted'
               /\ node'[n].index = Cardinality(before(n)') + 1
    <2>1. before(n)' = {k \in Nodes : QueueOf(k) = node'[n].queue}
      <3>1. 1..(n - 1) = Nodes
          BY <1>3, Elements
      <3> QED BY <3>1, Persist, Zenon DEF QueueOf
    <2> HIDE DEF before
    <2> QED BY <1>3, <2>1, BeginNode, Persist, Zenon
  <1> HIDE DEF before
  <1>4. CASE \E t \in Threads : Begin(t)
    <2>1. PICK t \in Threads : Begin(t)
        BY <1>4, Zenon
    <2>2. \A n \in Nodes' : /\ node'[n].reqs \subseteq 1..(n - 1)
                            /\ node'[n].reqs \subseteq submitted'
                            /\ node'[n].index = Cardinality(before(n)') + 1
        BY <1>1, <1>2, <1>3, <2>1, Zenon
    <2> QED BY <2>2, Zenon DEF NodeInv, before
  <1>5. CASE UNCHANGED <<setup, node>>
    <2>1. \A n \in Nodes' : /\ node'[n].reqs \subseteq 1..(n - 1)
                            /\ node'[n].reqs \subseteq submitted'
                            /\ node'[n].index = Cardinality(before(n)') + 1
        BY <1>1, <1>2, <1>5, Zenon DEF Nodes
    <2> QED BY <2>1, Zenon DEF NodeInv, before
  <1> QED BY <1>4, <1>5, NodeChange, Zenon

\* submit() holds the lock of its queue: no newer node appears there meanwhile.
LEMMA LanePreserved ==
    ASSUME Inv, StateInv, LaneInv, Inv', Steps PROVE LaneInv'
  <1> SUFFICES ASSUME NEW u \in Threads, Active(u)', NEW k \in Nodes',
                      QueueOf(k)' = QueueOf(thr[u].n)'
               PROVE  k <= thr'[u].n
      BY Zenon DEF LaneInv
  <1>1. ASSUME Begin(u) PROVE k <= thr'[u].n
    <2>1. thr'[u].n = Len(node) + 1 /\ Len(node) \in Nat /\ Nodes' = Nodes \cup {Len(node) + 1}
        BY <1>1, BeginNode, Elements, Zenon
    <2>2. \A j \in Nodes : j \in Nat /\ j < Len(node) + 1
        BY <1>1, BeginNode, Elements
    <2> QED BY <2>1, <2>2
  <1>2. ASSUME ~ Begin(u) PROVE k <= thr'[u].n
    <2>1. Active(u) /\ thr'[u].n = thr[u].n /\ thr[u].n \in Nodes
        BY <1>2, SubmissionStep, Zenon DEF Inv, OwnInv
    <2>2. QueueOf(thr[u].n)' = QueueOf(thr[u].n)
        BY <2>1, Persist, Zenon DEF QueueOf
    <2>3. CASE k \in Nodes
        BY <2>1, <2>2, <2>3, Persist, Zenon DEF LaneInv
    <2>4. CASE k \notin Nodes
      <3>1. PICK t \in Threads : Begin(t)
          BY <2>4, NodeChange, Zenon DEF Nodes
      <3>2. k = Len(node) + 1 /\ QueueOf(thr[u].n) # node'[k].queue
          BY <2>1, <2>4, <3>1, BeginNode, Zenon
      <3> QED BY <2>2, <3>2, Zenon DEF QueueOf
    <2> QED BY <2>3, <2>4, Zenon
  <1> QED BY <1>1, <1>2, Zenon

-----------------------------------------------------------------------------
(* Tasks and events                                                        *)

\* A task of a queue after a step.
LEMMA TaskAt ==
    ASSUME Inv, StateInv, Inv', Steps, NEW q \in Queues, NEW i \in 1..Len(tasks'[q])
    PROVE  \/ i \in 1..Len(tasks[q]) /\ tasks'[q][i] = tasks[q][i]
           \/ i = Len(tasks[q]) + 1 /\ Cause(q, tasks'[q][i])
  <1>1. tasks[q] \in Seq(TaskType) /\ Len(tasks[q]) \in Nat
      BY Elements, Zenon
  <1>2. CASE tasks'[q] = tasks[q]
      BY <1>1, <1>2, Zenon
  <1>3. ASSUME NEW task \in TaskType, tasks'[q] = Append(tasks[q], task), Cause(q, task)
        PROVE  \/ i \in 1..Len(tasks[q]) /\ tasks'[q][i] = tasks[q][i]
               \/ i = Len(tasks[q]) + 1 /\ Cause(q, tasks'[q][i])
    <2>1. \/ i \in 1..Len(tasks[q]) /\ tasks'[q][i] = tasks[q][i]
          \/ i = Len(tasks[q]) + 1 /\ tasks'[q][i] = task
        BY <1>1, <1>3
    <2> QED BY <1>3, <2>1, Zenon
  <1> QED BY <1>2, <1>3, NewTask, Zenon

\* Only the dispatch of a node enqueues its operation.
LEMMA CauseOfOp ==
    ASSUME NEW q, NEW task, Cause(q, task), task.do = "op"
    PROVE  \E t \in Threads : Dispatch(t) /\ q = QueueOf(thr[t].n) /\ task.n = thr[t].n
  BY DEF Cause, Task

\* Dispatch() alone enqueues operations, at the end of the queue of its node.
LEMMA PositionsStep ==
    ASSUME Inv, StateInv, TaskInv, Inv', Steps, NEW n \in Nodes', NEW i \in Positions(n)'
    PROVE  /\ n \in Nodes
           /\ \/ i \in Positions(n)
              \/ /\ i = Len(tasks[QueueOf(n)]) + 1
                 /\ \E t \in Threads : Dispatch(t) /\ n = thr[t].n
  <1> DEFINE q == QueueOf(n)'
  <1>1. q \in Queues
    <2>1. node' \in Seq(NodeType) /\ n \in 1..Len(node')
        BY Zenon DEF Inv, Typed, Nodes
    <2>2. node'[n] \in NodeType
        BY <2>1, ElementType, Zenon
    <2> QED BY <2>2, Zenon DEF QueueOf, NodeType
  <1>2. i \in 1..Len(tasks'[q]) /\ tasks'[q][i].do = "op" /\ tasks'[q][i].n = n
      BY Zenon DEF Positions
  <1> HIDE DEF q
  <1>3. CASE i \in 1..Len(tasks[q]) /\ tasks'[q][i] = tasks[q][i]
      BY <1>1, <1>2, <1>3 DEF TaskInv, Positions
  <1>4. CASE i = Len(tasks[q]) + 1 /\ Cause(q, tasks'[q][i])
    <2>1. PICK t \in Threads : Dispatch(t) /\ q = QueueOf(thr[t].n) /\ n = thr[t].n
        BY <1>2, <1>4, CauseOfOp
    <2>2. Active(t)
        BY <2>1, Zenon DEF Dispatch, At, Active
    <2>3. n \in Nodes
        BY <2>1, <2>2, Zenon DEF Inv, OwnInv
    <2> QED BY <1>4, <2>1, <2>3, Zenon
  <1> QED BY <1>1, <1>2, <1>3, <1>4, TaskAt, Zenon

\* A dispatched node remains so until it is marked as submitted.
LEMMA DispatchedStep ==
    ASSUME Inv, Steps, NEW t \in Threads, thr[t].pc = "dispatched"
    PROVE  thr'[t] = thr[t] \/ MarkSubmitted(t)
  <1>1. ~ (Begin(t) \/ Cancel(t) \/ \E n \in Nodes : HostWait(t, n))
      BY Zenon DEF Begin, Cancel, HostWait, At
  <1>2. ASSUME SubmitStep(t) PROVE MarkSubmitted(t)
      BY <1>2, Zenon DEF SubmitStep, Skip, SubmitExternalWaitFor, OmpWaitFor, StreamWaitFor,
         SyncStep, LockDecay, Decay, Publish, UseEvent, Dispatch, HostWaitEnds, At
  <1> QED BY <1>1, <1>2, OwnStep, Zenon

\* Tasks belong to nodes that have been submitted or are about to be.
LEMMA TaskPreserved ==
    ASSUME Inv, StateInv, TaskInv, EventInv, SyncInv, Inv', Steps PROVE TaskInv'
  <1> SUFFICES ASSUME NEW q \in Queues, NEW i \in 1..Len(tasks'[q]), NEW task, task = tasks'[q][i]
               PROVE  /\ task.n \in Nodes'
                      /\ task.do = "op" =>
                          /\ QueueOf(task.n)' = q /\ task.n \notin cancelled'
                          /\ \/ task.n \in submitted'
                             \/ \E t \in Threads : thr'[t].pc = "dispatched" /\ thr'[t].n = task.n
                      /\ task.do \in WaitKinds => task.n \in Executable'
                      /\ task.do = "streamWait" => task.at # 0 /\ task.at = fine'[task.n]
      BY DEF TaskInv
  <1>1. ASSUME NEW n \in Executable, fine[n] # 0 PROVE fine'[n] = fine[n]
    <2>1. n \in 1..MaxOps
        BY Elements, Zenon DEF Executable
    <2> QED BY <1>1, <2>1, EventStays, Zenon DEF Steps, vars
  <1>2. CASE i \in 1..Len(tasks[q]) /\ task = tasks[q][i]
    <2>1. /\ task.n \in Nodes
          /\ task.do = "op" =>
                 /\ QueueOf(task.n) = q /\ task.n \notin cancelled
                 /\ \/ task.n \in submitted
                    \/ \E t \in Threads : thr[t].pc = "dispatched" /\ thr[t].n = task.n
          /\ task.do \in WaitKinds => task.n \in Executable
          /\ task.do = "streamWait" => task.at # 0 /\ task.at = fine[task.n]
        BY <1>2 DEF TaskInv
    <2>2. task.n \in Nodes' /\ QueueOf(task.n)' = QueueOf(task.n)
        BY <2>1, Persist, Zenon
    <2>3. task.do \in WaitKinds => task.n \in Executable'
        BY <2>1, ExecutableStep, Zenon
    <2>4. task.do = "streamWait" => task.at # 0 /\ task.at = fine'[task.n]
        BY <1>1, <2>1, Zenon DEF WaitKinds
    <2>5. ASSUME task.do = "op", task.n \in submitted
          PROVE  task.n \in submitted' /\ task.n \notin cancelled'
        BY <2>1, <2>5, ExecutableStep, Persist, Zenon
    <2>6. ASSUME task.do = "op", NEW t \in Threads, thr[t].pc = "dispatched", thr[t].n = task.n
          PROVE  /\ task.n \notin cancelled'
                 /\ \/ task.n \in submitted'
                    \/ thr'[t].pc = "dispatched" /\ thr'[t].n = task.n
      <3>1. thr'[t] = thr[t] \/ MarkSubmitted(t)
          BY <2>6, DispatchedStep, Zenon
      <3>2. ASSUME NEW u \in Threads, Cancel(u) PROVE thr[u].n # thr[t].n
        <4>1. Active(u) /\ Active(t) /\ u # t
            BY <2>6, <3>2, Zenon DEF Cancel, At, Active
        <4> QED BY <4>1, Zenon DEF Inv, OwnInv
      <3>3. task.n \notin cancelled'
          BY <2>1, <2>6, <3>2, SubmittedChange, Zenon DEF Cancel, MarkSubmitted
      <3> QED BY <2>6, <3>1, <3>3, Zenon DEF MarkSubmitted
    <2> QED BY <2>1, <2>2, <2>3, <2>4, <2>5, <2>6, Zenon
  <1>3. CASE task.do = "signal" /\ task.n \in Nodes
      BY <1>3, Persist, Zenon DEF WaitKinds
  <1>4. ASSUME NEW t \in Threads, thr[t].pc = "sync", task.do \in {"waitNode", "waitEvent"},
               task.n \in thr[t].todo \ known
        PROVE  task.n \in Executable' /\ task.n \in Nodes'
    <2>1. thr[t].todo \subseteq submitted
        BY <1>4, Zenon DEF Inv, RequirementInv, Active
    <2>2. task.n \in Executable
        BY <1>4, <2>1, Zenon DEF StateInv, Executable
    <2> QED BY <2>1, <2>2, <1>4, ExecutableStep, Persist, Elements, Zenon
  <1>5. ASSUME NEW t \in Threads, UseEvent(t), task = Task("streamWait", thr[t].r, fine[thr[t].r])
        PROVE  /\ task.n \in Executable' /\ task.n \in Nodes' /\ task.do = "streamWait"
               /\ task.at # 0 /\ task.at = fine'[task.n]
    <2>1. thr[t].pc = "use" /\ Active(t)
        BY <1>5, Zenon DEF UseEvent, At, Active
    <2>2. thr[t].r \in submitted
        BY <2>1, Zenon DEF Inv, RequirementInv
    <2>3. thr[t].r \notin cancelled
        BY <2>1, Zenon DEF SyncInv
    <2>4. thr[t].r \in Executable /\ fine[thr[t].r] # 0
        BY <2>1, <2>2, <2>3, Zenon DEF Executable, EventInv
    <2>5. task.n = thr[t].r /\ task.do = "streamWait" /\ task.at = fine[thr[t].r]
        BY <1>5 DEF Task
    <2> QED BY <1>1, <2>2, <2>4, <2>5, ExecutableStep, Persist, Elements, Zenon
  <1>6. ASSUME task.do = "op", NEW t \in Threads, Dispatch(t), q = QueueOf(thr[t].n),
               task.n = thr[t].n
        PROVE  /\ task.n \in Nodes' /\ QueueOf(task.n)' = q /\ task.n \notin cancelled'
               /\ thr'[t].pc = "dispatched" /\ thr'[t].n = task.n
    <2>1. thr[t].n \in Nodes \ submitted
        BY <1>6, Zenon DEF Dispatch, At, Active, Inv, OwnInv
    <2>2. thr'[t].pc = "dispatched" /\ thr'[t].n = thr[t].n
        BY <1>6, Zenon DEF Dispatch, Inv, Typed, ThreadType
    <2>3. cancelled' = cancelled
        BY <1>6, Zenon DEF Dispatch, nodeVars
    <2> QED BY <1>6, <2>1, <2>2, <2>3, Persist, Zenon DEF StateInv
  <1>7. CASE task.do = "op" /\ Cause(q, task)
      BY <1>6, <1>7, CauseOfOp, Zenon DEF WaitKinds
  <1>8. CASE task.do # "op" /\ Cause(q, task)
    <2>1. \A n, at : Task("streamWait", n, at).do = "streamWait" /\ Task("op", n, at).do = "op"
        BY Zenon DEF Task
    <2>2. \/ task.do = "signal" /\ task.n \in Nodes
          \/ \E t \in Threads : /\ thr[t].pc = "sync" /\ task.do \in {"waitNode", "waitEvent"}
                                /\ task.n \in thr[t].todo \ known
          \/ \E t \in Threads :
                UseEvent(t) /\ task = Task("streamWait", thr[t].r, fine[thr[t].r])
        BY <1>8, <2>1, Zenon DEF Cause
    <2> QED BY <1>3, <1>4, <1>5, <2>2, Zenon
  <1> QED BY <1>2, <1>7, <1>8, TaskAt, Zenon

\* A new task at the end of a queue.
LEMMA EnqueueEnd ==
    ASSUME Inv, NEW q \in Queues, NEW task, Enqueue(q, task)
    PROVE  /\ Len(tasks'[q]) = Len(tasks[q]) + 1 /\ tasks'[q][Len(tasks[q]) + 1] = task
           /\ Len(tasks[q]) \in Nat
  <1>1. tasks \in [Queues -> Seq(TaskType)]
      BY Zenon DEF Inv, Typed
  <1>2. tasks'[q] = Append(tasks[q], task) /\ tasks[q] \in Seq(TaskType)
      BY <1>1, Zenon DEF Enqueue
  <1> QED BY <1>2

\* A node is marked as submitted after its operation has been enqueued.
LEMMA EnqueuedPreserved ==
    ASSUME Inv, StateInv, EnqueuedInv, Inv', Steps PROVE EnqueuedInv'
  <1>1. ASSUME NEW n \in Executable' PROVE Positions(n)' # {}
    <2>1. CASE n \in Executable
        BY <2>1, Monotone, Elements, Zenon DEF EnqueuedInv, Executable
    <2>2. CASE \E t \in Threads : MarkSubmitted(t) /\ n = thr[t].n
      <3>1. PICK t \in Threads : MarkSubmitted(t) /\ n = thr[t].n
          BY <2>2, Zenon
      <3>2. thr[t].pc = "dispatched"
          BY <3>1, Zenon DEF MarkSubmitted, At
      <3>3. n \in Nodes /\ Positions(n) # {}
          BY <3>1, <3>2, NoEventBeforeSubmission, Zenon DEF EnqueuedInv
      <3> QED BY <3>3, Monotone, Zenon
    <2> QED BY <2>1, <2>2, ExecutableStep, Zenon
  <1>2. ASSUME NEW t \in Threads, thr'[t].pc = "dispatched"
        PROVE  Positions(thr[t].n)' # {}
    <2>1. Active(t)' /\ ~ Begin(t)
        BY <1>2, BeginNode, Zenon DEF Active
    <2>2. PICK n \in Nodes : n = thr[t].n /\ n = thr'[t].n
        BY <2>1, SubmissionStep, Zenon DEF Inv, OwnInv
    <2> SUFFICES Positions(n)' # {}
        BY <2>2, Zenon
    <2>3. CASE thr[t].pc = "dispatched"
        BY <2>2, <2>3, Monotone, Zenon DEF EnqueuedInv
    <2>4. CASE thr[t].pc # "dispatched"
      <3>1. Dispatch(t)
        <4>1. thr[t] \in ThreadType /\ thr \in [Threads -> ThreadType]
            BY Zenon DEF Inv, Typed
        <4>2. ASSUME NEW r, RequirementHandled(t, r) PROVE thr'[t].pc = "sync"
            BY <4>1, <4>2, Zenon DEF RequirementHandled, ThreadType
        <4>3. ASSUME NEW r, StreamWaitFor(t, r) PROVE thr'[t].pc \in {"lock", "use"}
            BY <4>1, <4>3, Zenon DEF StreamWaitFor, ThreadType
        <4>4. ~ (LockDecay(t) \/ Decay(t) \/ Publish(t))
            BY <1>2, <4>1, Zenon DEF LockDecay, Decay, InsertEvent, Publish, ThreadType
        <4> QED BY <1>2, <2>1, <2>4, <4>2, <4>3, <4>4, SubmissionStep, Zenon DEF Skip,
                   UseEvent, EnqueuesWait, SubmitExternalWaitFor, OmpWaitFor
      <3>2. PICK q \in Queues : q = QueueOf(n) /\ q = QueueOf(n)'
          BY Elements, Persist, Zenon
      <3>3. Enqueue(q, Task("op", n, 0))
          BY <2>2, <3>1, <3>2, Zenon DEF Dispatch
      <3>4. /\ Len(tasks[q]) + 1 \in 1..Len(tasks'[q])
            /\ tasks'[q][Len(tasks[q]) + 1] = Task("op", n, 0)
          BY <3>3, EnqueueEnd
      <3> QED BY <3>2, <3>4 DEF Positions, Task
    <2> QED BY <2>3, <2>4, Zenon
  <1> QED BY <1>1, <1>2, Zenon DEF EnqueuedInv

\* Operations are enqueued in the order of their nodes, under the queue's lock.
LEMMA OrderPreserved ==
    ASSUME Inv, StateInv, LaneInv, TaskInv, OrderInv, Inv', Steps PROVE OrderInv'
  <1> SUFFICES ASSUME NEW n \in Nodes', NEW m \in Nodes', n < m, QueueOf(n)' = QueueOf(m)',
                      NEW i \in Positions(n)', NEW j \in Positions(m)'
               PROVE  i < j
      BY Zenon DEF OrderInv
  <1>1. n \in Nodes /\ m \in Nodes
      BY PositionsStep, Zenon
  <1>2. QueueOf(n) = QueueOf(m)
      BY <1>1, Persist, Zenon
  <1>3. QueueOf(n) \in Queues /\ Len(tasks[QueueOf(n)]) \in Nat /\ n \in Nat /\ m \in Nat
      BY <1>1, Elements
  <1>4. i \in Positions(n)
    <2> SUFFICES ASSUME NEW t \in Threads, Dispatch(t), n = thr[t].n PROVE FALSE
        BY PositionsStep, Zenon
    <2>1. Active(t)
        BY Zenon DEF Dispatch, At, Active
    <2>2. m <= n
        BY <1>1, <1>2, <2>1, Zenon DEF LaneInv
    <2> QED BY <1>3, <2>2
  <1>5. CASE j \in Positions(m)
      BY <1>1, <1>2, <1>4, <1>5, Zenon DEF OrderInv
  <1>6. CASE j = Len(tasks[QueueOf(m)]) + 1
      BY <1>2, <1>3, <1>4, <1>6 DEF Positions
  <1> QED BY <1>5, <1>6, PositionsStep, Zenon

\* A thread at work on an event has to wait for a node that was not cancelled.
LEMMA UsedEvent ==
    ASSUME Inv, SyncInv, NEW t \in Threads, thr[t].pc \in {"lock", "locked", "publish", "use"}
    PROVE  thr[t].r \in Executable /\ thr[t].r \in Nodes /\ thr[t].r \in 1..MaxOps
  <1>1. thr[t].r \in submitted /\ Active(t)
      BY Zenon DEF Inv, RequirementInv, Active
  <1>2. thr[t].r \notin cancelled
      BY <1>1, Zenon DEF SyncInv
  <1> QED BY <1>1, <1>2, Elements, Zenon DEF Executable

\* queue_completion_event.hpp:67-71, inorder_executor.cpp:180-186: where a new
\* fine-grained event comes from.
LEMMA NewEvent ==
    ASSUME Inv, StateInv, EnqueuedInv, SyncInv, Inv', Steps,
           NEW n \in 1..MaxOps, fine[n] = 0, fine'[n] # 0
    PROVE  /\ n \in Nodes /\ n \in Executable'
           /\ fine'[n] = Len(tasks[QueueOf(n)]) + 1
           /\ Len(tasks'[QueueOf(n)]) = Len(tasks[QueueOf(n)]) + 1
           /\ Positions(n) # {}
  <1>1. fine \in [1..MaxOps -> Nat]
      BY Zenon DEF Inv, Typed
  <1>2. ASSUME NEW t \in Threads, Decay(t)
        PROVE  /\ n \in Nodes /\ n \in Executable'
               /\ fine'[n] = Len(tasks[QueueOf(n)]) + 1
               /\ Len(tasks'[QueueOf(n)]) = Len(tasks[QueueOf(n)]) + 1
               /\ Positions(n) # {}
    <2>1. /\ Enqueue(QueueOf(thr[t].r), Task("signal", thr[t].r, 0))
          /\ fine' = [fine EXCEPT ![thr[t].r] = Len(tasks[QueueOf(thr[t].r)]) + 1]
        BY <1>2, Zenon DEF Decay, InsertEvent
    <2>2. n = thr[t].r
        BY <1>1, <2>1, Zenon
    <2>3. n \in Executable /\ n \in Nodes
        BY <1>2, <2>2, UsedEvent, Zenon DEF Decay, At
    <2>4. QueueOf(n) \in Queues
        BY <2>3, Elements, Zenon
    <2>5. Len(tasks'[QueueOf(n)]) = Len(tasks[QueueOf(n)]) + 1
        BY <2>1, <2>2, <2>4, EnqueueEnd, Zenon
    <2> QED BY <1>1, <2>1, <2>2, <2>3, <2>5, ExecutableStep, Zenon DEF EnqueuedInv
  <1>3. ASSUME NEW t \in Threads, MarkSubmitted(t)
        PROVE  /\ n \in Nodes /\ n \in Executable'
               /\ fine'[n] = Len(tasks[QueueOf(n)]) + 1
               /\ Len(tasks'[QueueOf(n)]) = Len(tasks[QueueOf(n)]) + 1
               /\ Positions(n) # {}
    <2>1. /\ Enqueue(QueueOf(thr[t].n), Task("signal", thr[t].n, 0))
          /\ fine' = [fine EXCEPT ![thr[t].n] = Len(tasks[QueueOf(thr[t].n)]) + 1]
        BY <1>3, Zenon DEF MarkSubmitted
    <2>2. n = thr[t].n
        BY <1>1, <2>1, Zenon
    <2>3. thr[t].pc = "dispatched"
        BY <1>3, Zenon DEF MarkSubmitted, At
    <2>4. n \in Nodes \ submitted /\ Positions(n) # {}
        BY <2>2, <2>3, NoEventBeforeSubmission, Zenon DEF EnqueuedInv
    <2>5. n \in Executable'
        BY <1>3, <2>2, <2>4, Zenon DEF MarkSubmitted, Executable, StateInv
    <2>6. QueueOf(n) \in Queues
        BY <2>4, Elements, Zenon
    <2>7. Len(tasks'[QueueOf(n)]) = Len(tasks[QueueOf(n)]) + 1
        BY <2>1, <2>2, <2>6, EnqueueEnd, Zenon
    <2> QED BY <1>1, <2>1, <2>2, <2>4, <2>5, <2>7, Zenon
  <1> QED BY <1>2, <1>3, TasksChange, Zenon DEF EnqueuesWait, SubmitExternalWaitFor,
             OmpWaitFor, UseEvent, Dispatch, eventVars

\* Events are recorded in a queue behind the operation they stand for.
LEMMA EventPreserved ==
    ASSUME Inv, StateInv, EnqueuedInv, EventInv, SyncInv, Inv', Steps PROVE EventInv'
  <1>1. ASSUME NEW n \in 1..MaxOps, fine[n] # 0 PROVE fine'[n] = fine[n]
      BY <1>1, EventStays, Zenon DEF Steps, vars
  <1>2. MaxOps' = MaxOps
      BY NodeChange, Zenon DEF Begin, MaxOps
  <1>3. ASSUME NEW n \in 1..MaxOps, fine'[n] # 0
        PROVE  /\ n \in Executable' /\ fine'[n] <= Len(tasks[QueueOf(n)])'
               /\ \E i \in Positions(n)' : i < fine'[n]
    <2>1. CASE fine[n] # 0
      <3>1. /\ n \in Executable /\ fine[n] <= Len(tasks[QueueOf(n)])
            /\ \E i \in Positions(n) : i < fine[n]
          BY <2>1, Zenon DEF EventInv
      <3>2. n \in Nodes /\ QueueOf(n)' = QueueOf(n) /\ QueueOf(n) \in Queues
          BY <3>1, Elements, Persist, Zenon DEF Executable
      <3>3. fine'[n] <= Len(tasks[QueueOf(n)])'
        <4>1. tasks' \in [Queues -> Seq(TaskType)] /\ fine[n] \in Nat
            BY Zenon DEF Inv, Typed
        <4>2. /\ Len(tasks[QueueOf(n)]) <= Len(tasks'[QueueOf(n)])
              /\ Len(tasks[QueueOf(n)]) \in Nat /\ Len(tasks'[QueueOf(n)]) \in Nat
            BY <3>2, <4>1, Persist, Elements
        <4> QED BY <1>1, <2>1, <3>1, <3>2, <4>1, <4>2
      <3> QED BY <1>1, <2>1, <3>1, <3>2, <3>3, ExecutableStep, Monotone, Zenon
    <2>2. CASE fine[n] = 0
      <3>1. /\ n \in Nodes /\ n \in Executable'
            /\ fine'[n] = Len(tasks[QueueOf(n)]) + 1
            /\ Len(tasks'[QueueOf(n)]) = Len(tasks[QueueOf(n)]) + 1
            /\ Positions(n) # {}
          BY <1>3, <2>2, NewEvent, Zenon
      <3>2. QueueOf(n)' = QueueOf(n) /\ Len(tasks[QueueOf(n)]) \in Nat
          BY <3>1, Persist, Elements, Zenon
      <3>3. PICK i \in Positions(n) : TRUE
          BY <3>1, Zenon
      <3>4. i < fine'[n] /\ i \in Positions(n)'
          BY <3>1, <3>2, Monotone DEF Positions
      <3> QED BY <3>1, <3>2, <3>4
    <2> QED BY <2>1, <2>2, Zenon
  <1>4. ASSUME NEW t \in Threads, Publish(t)
        PROVE  thr[t].r \in Executable /\ fine'[thr[t].r] # 0
    <2>1. thr[t].pc = "publish"
        BY <1>4, Zenon DEF Publish, At
    <2> QED BY <1>1, <2>1, UsedEvent, Zenon DEF EventInv
  <1>5. decayed' \subseteq Executable'
    <2>1. decayed \subseteq Executable' /\ Executable \subseteq Executable'
        BY ExecutableStep, Zenon DEF EventInv
    <2> QED BY <1>4, <2>1, EventsChange DEF LockDecay, Decay, Publish
  <1>6. ASSUME NEW n \in Executable', HasFineEvent(n)' PROVE fine'[n] # 0
    <2>1. CASE n \in Executable
      <3>1. n \in Nodes /\ n \in 1..MaxOps
          BY <2>1, Elements, Zenon DEF Executable
      <3>2. CASE HasFineEvent(n)
          BY <1>1, <2>1, <3>1, <3>2, Zenon DEF EventInv
      <3>3. CASE ~ HasFineEvent(n)
        <4>1. n \in decayed' \ decayed
            BY <1>6, <3>1, <3>3, Persist, Zenon DEF HasFineEvent
        <4>2. PICK t \in Threads : Publish(t)
          <5>1. ASSUME NEW t \in Threads, LockDecay(t) \/ Decay(t) PROVE decayed' = decayed
              BY <5>1, Zenon DEF LockDecay, Decay
          <5> QED BY <4>1, <5>1, EventsChange, Zenon
        <4>3. n = thr[t].r
            BY <4>1, <4>2, Zenon DEF Publish
        <4> QED BY <1>4, <4>2, <4>3, Zenon
      <3> QED BY <3>2, <3>3, Zenon
    <2>2. ASSUME NEW t \in Threads, MarkSubmitted(t), n = thr[t].n PROVE fine'[n] # 0
      <3>1. thr[t].pc = "dispatched"
          BY <2>2, Zenon DEF MarkSubmitted, At
      <3>2. n \in 1..MaxOps /\ n \in Nodes \ submitted
          BY <2>2, <3>1, NoEventBeforeSubmission, Zenon
      <3>3. n \notin decayed'
          BY <2>2, <3>2, Zenon DEF MarkSubmitted, EventInv, Executable
      <3>4. ~ node[n].coarse
          BY <1>6, <3>2, <3>3, Persist, Zenon DEF HasFineEvent
      <3>5. fine'[n] = Len(tasks[QueueOf(n)]) + 1
          BY <2>2, <3>2, <3>4, Zenon DEF MarkSubmitted, Inv, Typed
      <3> QED BY <3>2, <3>5, Elements
    <2> QED BY <2>1, <2>2, ExecutableStep, Zenon
  <1>7. ASSUME NEW u \in Threads, thr'[u].pc \in {"publish", "use"} PROVE fine'[thr'[u].r] # 0
    <2>1. thr \in [Threads -> ThreadType] /\ thr[u] \in ThreadType
          /\ fine \in [1..MaxOps -> Nat]
        BY Zenon DEF Inv, Typed
    <2>2. Active(u)' /\ ~ Begin(u)
        BY <1>7, BeginNode, Zenon DEF Active
    <2>3. CASE thr'[u] = thr[u]
        BY <1>1, <1>7, <2>3, UsedEvent, Zenon DEF EventInv
    <2>4. ASSUME NEW r, StreamWaitFor(u, r), r \in thr[u].todo PROVE fine'[thr'[u].r] # 0
      <3>1. thr'[u].r = r /\ HasFineEvent(r)
          BY <1>7, <2>1, <2>4, Zenon DEF StreamWaitFor, ThreadType, HasFineEvent
      <3>2. r \notin known /\ thr[u].pc = "sync"
        <4>1. /\ WayToWait(QueueOf(thr[u].n), r, thr[u].reqs) = "stream"
              /\ thr[u].pc = "sync"
            BY <2>4, Zenon DEF StreamWaitFor, SyncStep, At
        <4> QED BY <4>1, Zenon DEF WayToWait
      <3>3. r \in submitted
          BY <2>4, <3>2, Zenon DEF Inv, RequirementInv, Active
      <3>4. r \in Executable /\ r \in 1..MaxOps
          BY <3>2, <3>3, Elements, Zenon DEF StateInv, Executable
      <3> QED BY <1>1, <3>1, <3>4, Zenon DEF EventInv
    <2>5. ASSUME Decay(u) PROVE fine'[thr'[u].r] # 0
      <3>1. thr'[u].r = thr[u].r
          BY <2>1, <2>5, Zenon DEF Decay, InsertEvent, ThreadType
      <3>2. thr[u].r \in Executable /\ thr[u].r \in Nodes /\ thr[u].r \in 1..MaxOps
          BY <2>5, UsedEvent, Zenon DEF Decay, At
      <3>3. CASE thr[u].r \in decayed
          BY <1>1, <3>1, <3>2, <3>3, Zenon DEF EventInv, HasFineEvent
      <3>4. CASE thr[u].r \notin decayed
        <4>1. fine'[thr[u].r] = Len(tasks[QueueOf(thr[u].r)]) + 1
            BY <2>1, <2>5, <3>2, <3>4, Zenon DEF Decay, InsertEvent
        <4> QED BY <3>1, <3>2, <4>1, Elements
      <3> QED BY <3>3, <3>4, Zenon
    <2>6. ASSUME Publish(u) PROVE fine'[thr'[u].r] # 0
        BY <1>4, <2>1, <2>6, Zenon DEF Publish, ThreadType
    <2>7. ASSUME NEW r, RequirementHandled(u, r) PROVE FALSE
        BY <1>7, <2>1, <2>7, Zenon DEF RequirementHandled, ThreadType
    <2>8. ~ (LockDecay(u) \/ Dispatch(u))
        BY <1>7, <2>1, Zenon DEF LockDecay, Dispatch, ThreadType
    <2> QED BY <2>2, <2>3, <2>4, <2>5, <2>6, <2>7, <2>8, SubmissionStep, Zenon DEF Skip,
               UseEvent, EnqueuesWait, SubmitExternalWaitFor, OmpWaitFor
  <1> QED BY <1>2, <1>3, <1>5, <1>6, <1>7, Zenon DEF EventInv

-----------------------------------------------------------------------------
(* Waiting for requirements                                                *)

\* What secures a requirement keeps doing so.
LEMMA SecuredStays ==
    ASSUME Inv, StateInv, TaskInv, Inv', Steps,
           NEW q \in Queues, NEW r \in Nodes, NEW i \in Nat, NEW j \in Nat, i <= j,
           Secured(q, r, i)
    PROVE  Secured(q, r, j)'
  <1>1. QueueOf(r)' = QueueOf(r)
      BY Persist, Zenon
  <1>2. CASE r \in Done
      BY <1>2, Monotone, Zenon DEF Secured
  <1>3. CASE QueueOf(r) = q
      BY <1>1, <1>3, Zenon DEF Secured
  <1>4. CASE WaitsFor(q, r, i)
    <2>1. PICK k \in 1..Len(tasks[q]) :
              /\ k < i /\ tasks[q][k].do \in WaitKinds
              /\ QueueOf(tasks[q][k].n) = QueueOf(r) /\ r <= tasks[q][k].n
        BY <1>4, Zenon DEF WaitsFor
    <2>2. PICK s \in Nodes : s = tasks[q][k].n
        BY Zenon DEF TaskInv
    <2>3. /\ Len(tasks[q]) \in Nat /\ Len(tasks'[q]) \in Nat /\ Len(tasks[q]) <= Len(tasks'[q])
          /\ tasks'[q][k] = tasks[q][k] /\ QueueOf(s)' = QueueOf(s)
      <3>1. Len(tasks[q]) \in Nat
        <4>1. tasks[q] \in Seq(TaskType)
            BY Zenon DEF Inv, Typed
        <4> QED BY <4>1
      <3>2. Len(tasks'[q]) \in Nat /\ Len(tasks[q]) <= Len(tasks'[q])
          BY Persist
      <3>3. tasks'[q][k] = tasks[q][k] /\ QueueOf(s)' = QueueOf(s)
          BY Persist, Zenon
      <3> QED BY <3>1, <3>2, <3>3, Zenon
    <2>4. k \in 1..Len(tasks'[q]) /\ k < j
        BY <2>1, <2>3
    <2>5. WaitsFor(q, r, j)'
        BY <1>1, <2>1, <2>2, <2>3, <2>4, Zenon DEF WaitsFor
    <2> QED BY <2>5, Zenon DEF Secured
  <1> QED BY <1>2, <1>3, <1>4, Zenon DEF Secured

\* Nodes of a queue are indexed in the order of their submission.
LEMMA IndexOrder ==
    ASSUME Inv, NodeInv, NEW r \in Nodes, NEW s \in Nodes, QueueOf(r) = QueueOf(s), r < s
    PROVE  node[r].index < node[s].index
  <1> DEFINE before(n) == {k \in 1..(n - 1) : QueueOf(k) = QueueOf(n)}
  <1>1. r \in Nat /\ s \in Nat
      BY Elements
  <1>2. IsFiniteSet(before(s)) /\ IsFiniteSet(before(r) \cup {r})
    <2>1. IsFiniteSet(1..(s - 1))
        BY <1>1, FS_Interval
    <2>2. before(s) \subseteq 1..(s - 1) /\ before(r) \cup {r} \subseteq 1..(s - 1)
        BY <1>1, Elements
    <2> QED BY <2>1, <2>2, FS_Subset, Zenon
  <1>3. before(r) \cup {r} \subseteq before(s) /\ r \notin before(r)
      BY <1>1, Elements
  <1>4. IsFiniteSet(before(r))
      BY <1>2, FS_Subset
  <1>5. node[r].index = Cardinality(before(r)) + 1 /\ node[s].index = Cardinality(before(s)) + 1
      BY Zenon DEF NodeInv
  <1> HIDE DEF before
  <1>6. Cardinality(before(r) \cup {r}) = Cardinality(before(r)) + 1
      BY <1>3, <1>4, FS_AddElement, Zenon
  <1>7. Cardinality(before(r) \cup {r}) <= Cardinality(before(s))
      BY <1>2, <1>3, FS_Subset, Zenon
  <1>8. Cardinality(before(r)) \in Nat /\ Cardinality(before(s)) \in Nat
      BY <1>2, <1>4, FS_CardinalityType, Zenon
  <1> QED BY <1>5, <1>6, <1>7, <1>8

\* inorder_executor.cpp:57-70: the requirement with the greatest index of a lane.
LEMMA LastExists ==
    ASSUME Inv, NodeInv, NEW R \in SUBSET Nodes, NEW r \in R
    PROVE  \E s \in R : QueueOf(s) = QueueOf(r) /\ r <= s /\ LastOfLane(s, R)
  <1> DEFINE lane == {s \in R : QueueOf(s) = QueueOf(r)}
             gaps == {Len(node) - s : s \in lane}
  <1>1. Len(node) \in Nat /\ Nodes = 1..Len(node)
      BY Elements, Zenon
  <1>2. gaps \subseteq Nat /\ gaps # {}
      BY <1>1
  <1>3. PICK g \in gaps : \A h \in gaps : g <= h
      BY <1>2, Least, Zenon
  <1>4. PICK s \in lane : g = Len(node) - s
      BY Zenon
  <1>5. ASSUME NEW k \in lane PROVE k <= s
    <2>1. Len(node) - k \in gaps
        BY Zenon
    <2>2. Len(node) - s <= Len(node) - k
        BY <1>3, <1>4, <2>1, Zenon
    <2> QED BY <1>1, <2>2
  <1>6. LastOfLane(s, R)
    <2> SUFFICES ASSUME NEW k \in R, QueueOf(k) = QueueOf(s) PROVE node[k].index <= node[s].index
        BY Zenon DEF LastOfLane
    <2>1. k \in lane /\ k <= s
        BY <1>4, <1>5, Zenon
    <2>2. node[k].index \in Nat /\ node[s].index \in Nat
        BY Elements, Zenon DEF NodeType
    <2> QED BY <1>1, <2>1, <2>2, IndexOrder
  <1> QED BY <1>5, <1>6, Zenon

\* At the end of the synchronization every requirement is secured, although only
\* the last one of each lane was waited for (inorder_executor.cpp:107-158).
LEMMA AllSecured ==
    ASSUME Inv, StateInv, NodeInv, TaskInv, EnqueuedInv, OrderInv, SyncInv,
           NEW t \in Threads, Active(t), thr[t].todo = {}, NEW r \in thr[t].reqs
    PROVE  Secured(QueueOf(thr[t].n), r, Len(tasks[QueueOf(thr[t].n)]) + 1)
  <1> DEFINE q == QueueOf(thr[t].n)
             end == Len(tasks[q]) + 1
  <1>1. /\ thr[t].n \in Nodes /\ q \in Queues /\ Len(tasks[q]) \in Nat
      BY Elements, Zenon DEF Inv, OwnInv
  <1>2. /\ thr[t].reqs \subseteq Nodes /\ thr[t].reqs \subseteq Executable
      BY <1>1, Elements, Zenon DEF SyncInv, NodeInv, Executable
  <1>3. PICK s \in thr[t].reqs : QueueOf(s) = QueueOf(r) /\ r <= s /\ LastOfLane(s, thr[t].reqs)
      BY <1>2, LastExists, Zenon
  <1>4. Secured(q, s, end)
      BY <1>3, Zenon DEF SyncInv
  <1>5. r \in Nat /\ s \in Nat /\ r \in Executable /\ s \in Nodes
      BY <1>2, Elements
  <1> HIDE DEF q, end
  <1>6. s \in Done => Secured(q, r, end)
      BY <1>3, <1>5, EarlierDone, Zenon DEF Secured
  <1>7. QueueOf(s) = q => Secured(q, r, end)
      BY <1>3, Zenon DEF Secured
  <1>8. ASSUME WaitsFor(q, s, end) PROVE Secured(q, r, end)
    <2>1. PICK k \in 1..Len(tasks[q]) :
              /\ k < end /\ tasks[q][k].do \in WaitKinds
              /\ QueueOf(tasks[q][k].n) = QueueOf(s) /\ s <= tasks[q][k].n
        BY <1>8, Zenon DEF WaitsFor
    <2>2. tasks[q][k].n \in Nat
        BY <1>1, <2>1, Elements, Zenon DEF TaskType
    <2>3. r <= tasks[q][k].n
        BY <1>3, <1>5, <2>1, <2>2
    <2>4. WaitsFor(q, r, end)
        BY <1>3, <2>1, <2>3, Zenon DEF WaitsFor
    <2> QED BY <2>4, Zenon DEF Secured
  <1>9. Secured(q, r, end)
      BY <1>4, <1>6, <1>7, <1>8, Zenon DEF Secured
  <1> QED BY <1>9, Zenon DEF q, end

\* An operation is enqueued behind the waits for all that it requires.
LEMMA SecuredPreserved ==
    ASSUME OrderedInv, Inv', Steps PROVE SecuredInv'
  <1> USE DEF OrderedInv, Shape, Placed, Waits
  <1> SUFFICES ASSUME NEW q \in Queues, NEW i \in 1..Len(tasks'[q]), tasks'[q][i].do = "op",
                      NEW n, n = tasks'[q][i].n, NEW r \in node'[n].reqs
               PROVE  r \in cancelled' \/ Secured(q, r, i)'
      BY Zenon DEF SecuredInv
  <1>1. cancelled \subseteq cancelled'
      BY ExecutableStep, Zenon
  <1>2. Len(tasks[q]) \in Nat
      BY Elements, Zenon
  <1>3. CASE i \in 1..Len(tasks[q]) /\ tasks'[q][i] = tasks[q][i]
    <2>1. n \in Nodes /\ tasks[q][i].do = "op" /\ n = tasks[q][i].n
        BY <1>3, Zenon DEF TaskInv
    <2>2. r \in node[n].reqs
        BY <2>1, Persist, Zenon
    <2>3. r \in Nodes
        BY <2>1, <2>2, Elements, Zenon DEF NodeInv
    <2>4. r \in cancelled \/ Secured(q, r, i)
        BY <1>3, <2>1, <2>2, Zenon DEF SecuredInv
    <2>5. Secured(q, r, i) => Secured(q, r, i)'
        BY <1>2, <1>3, <2>3, SecuredStays
    <2> QED BY <1>1, <2>4, <2>5, Zenon
  <1>4. CASE i = Len(tasks[q]) + 1 /\ Cause(q, tasks'[q][i])
    <2>1. PICK t \in Threads : Dispatch(t) /\ q = QueueOf(thr[t].n) /\ n = thr[t].n
        BY <1>4, CauseOfOp
    <2>2. Active(t) /\ thr[t].todo = {} /\ n \in Nodes
        BY <2>1, Zenon DEF Dispatch, At, Active, Inv, OwnInv
    <2>3. r \in node[n].reqs /\ r \in Nodes
        BY <2>2, Persist, Elements, Zenon DEF NodeInv
    <2>4. CASE r \in thr[t].reqs
      <3>1. Secured(q, r, i)
          BY <1>4, <2>1, <2>2, <2>4, AllSecured, Zenon
      <3> QED BY <1>2, <1>4, <2>3, <3>1, SecuredStays
    <2>5. CASE r \notin thr[t].reqs
      <3>1. r \in Done \cup cancelled
          BY <2>1, <2>2, <2>3, <2>5, Zenon DEF SyncInv
      <3> QED BY <1>1, <3>1, Monotone, Zenon DEF Secured
    <2> QED BY <2>4, <2>5, Zenon
  <1> QED BY <1>3, <1>4, TaskAt, Zenon

\* The wait for a requirement that has just been enqueued secures it.
LEMMA EnqueuedWait ==
    ASSUME Inv, Inv', NEW q \in Queues, NEW r \in Nodes, NEW task, Enqueue(q, task),
           task.do \in WaitKinds, task.n = r,
           NEW end, end = Len(tasks'[q]) + 1
    PROVE  Secured(q, r, end)'
  <1>1. /\ Len(tasks'[q]) = Len(tasks[q]) + 1 /\ tasks'[q][Len(tasks[q]) + 1] = task
        /\ Len(tasks[q]) \in Nat /\ r \in Nat
      BY Elements, EnqueueEnd
  <1>2. Len(tasks[q]) + 1 \in 1..Len(tasks'[q]) /\ Len(tasks[q]) + 1 < end /\ r <= r
      BY <1>1
  <1>3. WaitsFor(q, r, end)'
      BY <1>1, <1>2, Zenon DEF WaitsFor
  <1> QED BY <1>3, Zenon DEF Secured

\* inorder_executor.cpp:114-158: a requirement is taken off the list when it is done,
\* when a later one of its lane is waited for, or with a wait for it.
LEMMA HandledSecured ==
    ASSUME OrderedInv, Inv', Steps, NEW u \in Threads, Active(u)', ~ Begin(u),
           NEW r \in thr[u].todo, r \notin thr'[u].todo,
           NEW q, q = QueueOf(thr[u].n), NEW end, end = Len(tasks'[q]) + 1
    PROVE  ~ LastOfLane(r, thr[u].reqs) \/ Secured(q, r, end)'
  <1> USE DEF OrderedInv, Shape, Placed, Waits
  <1>1. thr \in [Threads -> ThreadType] /\ thr[u] \in ThreadType
      BY Zenon DEF Inv, Typed
  <1>2. Active(u) /\ thr[u].n \in Nodes
      BY SubmissionStep, Zenon DEF Inv, OwnInv
  <1>3. q \in Queues /\ r \in Nodes /\ r \notin cancelled
    <2>1. thr[u].todo \subseteq submitted
        BY <1>2, Zenon DEF Inv, RequirementInv
    <2> QED BY <1>2, <2>1, Elements, Zenon DEF SyncInv
  <1>4. /\ Len(tasks[q]) \in Nat /\ Len(tasks'[q]) \in Nat
        /\ Len(tasks[q]) + 1 \in Nat /\ end \in Nat /\ Len(tasks[q]) + 1 <= end
    <2>1. tasks' \in [Queues -> Seq(TaskType)]
        BY Zenon DEF Inv, Typed
    <2> QED BY <1>3, <2>1, Elements, Persist
  <1>5. ASSUME NEW s \in thr[u].todo, Skip(u, s)
        PROVE  ~ LastOfLane(r, thr[u].reqs) \/ Secured(q, r, end)'
    <2>1. s = r
        BY <1>1, <1>5, Zenon DEF Skip, RequirementHandled, ThreadType
    <2>2. WayToWait(q, r, thr[u].reqs) = "skip"
        BY <1>5, <2>1, Zenon DEF Skip, SyncStep
    <2>3. Backend(q) # "skip"
        BY <1>3, SetupAssumption, Zenon DEF Inv, Typed, Backend
    <2>4. r \in known \/ QueueOf(r) = q \/ ~ LastOfLane(r, thr[u].reqs)
        BY <2>2, <2>3, Zenon DEF WayToWait
    <2>5. (r \in known \/ QueueOf(r) = q) => Secured(q, r, Len(tasks[q]) + 1)
        BY <1>3, Zenon DEF CompleteInv, Secured
    <2> QED BY <1>3, <1>4, <2>4, <2>5, SecuredStays, Zenon
  <1>6. ASSUME NEW s \in thr[u].todo, SubmitExternalWaitFor(u, s) \/ OmpWaitFor(u, s)
        PROVE  Secured(q, r, end)'
    <2>1. s = r
        BY <1>1, <1>6 DEF SubmitExternalWaitFor, OmpWaitFor, RequirementHandled, ThreadType
    <2>2. PICK do \in {"waitNode", "waitEvent"} : Enqueue(q, Task(do, r, 0))
        BY <1>6, <2>1, Zenon DEF SubmitExternalWaitFor, OmpWaitFor
    <2>3. Task(do, r, 0).do \in WaitKinds /\ Task(do, r, 0).n = r
        BY Zenon DEF Task, WaitKinds
    <2> QED BY <1>3, <2>2, <2>3, EnqueuedWait, Zenon
  <1>7. ASSUME UseEvent(u) PROVE Secured(q, r, end)'
    <2>1. thr[u].r = r
        BY <1>1, <1>7, Zenon DEF UseEvent, RequirementHandled, ThreadType
    <2>2. Enqueue(q, Task("streamWait", r, fine[r]))
        BY <1>7, <2>1, Zenon DEF UseEvent
    <2>3. Task("streamWait", r, fine[r]).do \in WaitKinds /\ Task("streamWait", r, fine[r]).n = r
        BY Zenon DEF Task, WaitKinds
    <2> QED BY <1>3, <2>2, <2>3, EnqueuedWait, Zenon
  <1>8. ASSUME \/ \E s \in thr[u].todo : StreamWaitFor(u, s)
               \/ LockDecay(u) \/ Decay(u) \/ Publish(u) \/ Dispatch(u)
        PROVE  FALSE
    <2>1. ASSUME NEW s, StreamWaitFor(u, s) PROVE thr'[u].todo = thr[u].todo
        BY <1>1, <2>1, Zenon DEF StreamWaitFor, ThreadType
    <2>2. ASSUME LockDecay(u) \/ Decay(u) \/ Publish(u) \/ Dispatch(u)
          PROVE  thr'[u].todo = thr[u].todo
      <3>1. PICK pc : thr' = [thr EXCEPT ![u].pc = pc]
          BY <2>2, Zenon DEF LockDecay, Decay, InsertEvent, Publish, Dispatch
      <3> QED BY <1>1, <3>1, Zenon DEF ThreadType
    <2> QED BY <1>8, <2>1, <2>2, Zenon
  <1> QED BY <1>5, <1>6, <1>7, <1>8, SubmissionStep, Zenon DEF EnqueuesWait

\* The steps of a submission leave no requirement out.
LEMMA SyncPreserved ==
    ASSUME OrderedInv, Inv', Steps PROVE SyncInv'
  <1> USE DEF OrderedInv, Shape, Placed, Waits
  <1> SUFFICES ASSUME NEW u \in Threads, Active(u)'
               PROVE  LET n == thr'[u].n
                          reqs == thr'[u].reqs
                      IN  /\ reqs \subseteq node'[n].reqs \ cancelled' /\ thr'[u].todo \subseteq reqs
                          /\ node'[n].reqs \ reqs \subseteq Done' \cup cancelled'
                          /\ thr'[u].pc \in {"lock", "locked", "publish", "use"} => thr'[u].r \in reqs
                          /\ \A r \in reqs \ thr'[u].todo :
                                 \/ ~ LastOfLane(r, thr[u].reqs)'
                                 \/ Secured(QueueOf(thr[u].n), r, Len(tasks[QueueOf(thr[u].n)]) + 1)'
      BY Zenon DEF SyncInv
  <1> SUFFICES ASSUME NEW n, n = thr'[u].n,
                      NEW q, q = QueueOf(thr[u].n)', NEW reqs, reqs = thr'[u].reqs,
                      NEW end, end = Len(tasks'[q]) + 1
               PROVE  /\ reqs \subseteq node'[n].reqs \ cancelled' /\ thr'[u].todo \subseteq reqs
                      /\ node'[n].reqs \ reqs \subseteq Done' \cup cancelled'
                      /\ thr'[u].pc \in {"lock", "locked", "publish", "use"} => thr'[u].r \in reqs
                      /\ \A r \in reqs \ thr'[u].todo :
                             ~ LastOfLane(r, reqs)' \/ Secured(q, r, end)'
      BY DEF Secured, WaitsFor, LastOfLane
  <1>1. CASE Begin(u)
    <2>1. /\ reqs = node'[n].reqs \ known /\ thr'[u].todo = reqs /\ thr'[u].pc = "sync"
        BY <1>1, BeginNode, Zenon
    <2>2. cancelled' = cancelled /\ cancelled \subseteq known /\ known \subseteq Done' \cup cancelled
        BY <1>1, Monotone, Zenon DEF Begin, StateInv, CompleteInv
    <2> QED BY <2>1, <2>2, Zenon
  <1>2. CASE ~ Begin(u)
    <2>1. Active(u) /\ n = thr[u].n /\ reqs = thr[u].reqs
        BY <1>2, SubmissionStep, Zenon
    <2>2. n \in Nodes
        BY <2>1, Zenon DEF Inv, OwnInv
    <2>3. node'[n] = node[n] /\ q = QueueOf(n) /\ q \in Queues
        BY <2>1, <2>2, Persist, Elements, Zenon DEF QueueOf
    <2>4. reqs \subseteq submitted /\ reqs \subseteq Nodes /\ reqs \subseteq node[n].reqs \ cancelled
        BY <2>1, <2>2, Elements, Zenon DEF SyncInv, NodeInv
    <2>5. reqs \subseteq node'[n].reqs \ cancelled'
        BY <2>3, <2>4, ExecutableStep, Zenon
    <2>6. node'[n].reqs \ reqs \subseteq Done' \cup cancelled'
        BY <2>1, <2>3, ExecutableStep, Monotone, Zenon DEF SyncInv
    <2>7. /\ thr'[u].todo \subseteq thr[u].todo
          /\ thr'[u].pc \in {"lock", "locked", "publish", "use"} => thr'[u].r \in reqs
      <3>1. thr \in [Threads -> ThreadType] /\ thr[u] \in ThreadType
          BY Zenon DEF Inv, Typed
      <3>2. /\ thr[u].todo \subseteq reqs
            /\ thr[u].pc \in {"lock", "locked", "publish", "use"} => thr[u].r \in reqs
          BY <2>1, Zenon DEF SyncInv
      <3>3. CASE thr'[u] = thr[u]
          BY <3>2, <3>3, Zenon
      <3>4. ASSUME NEW s \in thr[u].todo, Skip(u, s) \/ StreamWaitFor(u, s)
            PROVE  /\ thr'[u].todo \subseteq thr[u].todo
                   /\ thr'[u].pc \in {"lock", "locked", "publish", "use"} => thr'[u].r \in reqs
          BY <3>1, <3>2, <3>4 DEF Skip, StreamWaitFor, RequirementHandled, ThreadType
      <3>5. ASSUME EnqueuesWait(u) \/ UseEvent(u)
            PROVE  thr'[u].todo \subseteq thr[u].todo /\ thr'[u].pc = "sync"
        <4>1. PICK s : RequirementHandled(u, s)
            BY <3>5, Zenon DEF EnqueuesWait, SubmitExternalWaitFor, OmpWaitFor, UseEvent
        <4> QED BY <3>1, <4>1, Zenon DEF RequirementHandled, ThreadType
      <3>6. ASSUME LockDecay(u) \/ Decay(u) \/ Publish(u) \/ Dispatch(u)
            PROVE  /\ thr'[u].todo = thr[u].todo
                   /\ \/ thr'[u].pc = "dispatched"
                      \/ thr'[u].r = thr[u].r /\ thr[u].pc \in {"lock", "locked", "publish"}
          BY <3>1, <3>6 DEF LockDecay, Decay, InsertEvent, Publish, Dispatch, At, ThreadType
      <3> QED BY <1>2, <3>2, <3>3, <3>4, <3>5, <3>6, SubmissionStep, Zenon
    <2>8. ASSUME NEW r \in reqs \ thr'[u].todo
          PROVE  ~ LastOfLane(r, reqs)' \/ Secured(q, r, end)'
      <3>1. LastOfLane(r, reqs)' <=> LastOfLane(r, reqs)
          BY <2>4, Persist DEF LastOfLane
      <3>2. CASE r \in thr[u].todo
          BY <1>2, <2>1, <2>3, <2>8, <3>1, <3>2, HandledSecured, Zenon
      <3>3. CASE r \notin thr[u].todo
        <4>1. ~ LastOfLane(r, reqs) \/ Secured(q, r, Len(tasks[q]) + 1)
            BY <2>1, <2>3, <2>8, <3>3 DEF SyncInv
        <4>2. tasks' \in [Queues -> Seq(TaskType)]
            BY Zenon DEF Inv, Typed
        <4>3. Len(tasks[q]) + 1 \in Nat /\ end \in Nat /\ Len(tasks[q]) + 1 <= end
            BY <2>3, <4>2, Elements, Persist
        <4> QED BY <2>3, <2>4, <2>8, <3>1, <4>1, <4>3, SecuredStays, Zenon
      <3> QED BY <3>2, <3>3, Zenon
    <2>9. thr[u].todo \subseteq reqs
        BY <2>1, Zenon DEF SyncInv
    <2> QED BY <2>5, <2>6, <2>7, <2>8, <2>9, Zenon
  <1> QED BY <1>1, <1>2, Zenon

-----------------------------------------------------------------------------
(* Waiting                                                                 *)

\* The task with which a queue advances.
LEMMA Advance ==
    ASSUME Inv, StateInv, TaskInv, EventInv, BlockInv, CompleteInv, Steps,
           NEW q \in Queues, head'[q] # head[q]
    PROVE  /\ head'[q] = head[q] + 1 /\ head[q] + 1 \in 1..Len(tasks[q])
           /\ tasks[q][head[q] + 1].do \in WaitKinds => tasks[q][head[q] + 1].n \in Done
  <1> DEFINE task == CurrentTask(q)
  <1>1. head \in [Queues -> Nat] /\ waiting \in [Queues \cup Threads -> WaitType]
      BY Zenon DEF StateInv
  <1>2. RunTask(q) \/ StreamWaited(q) \/ WaitReturns(q) \/ WaitEnds(q)
      BY <1>1, HeadChange DEF RunTask, StreamWaited, WaitReturns, WaitEnds, TaskDone
  <1>3. head'[q] = head[q] + 1
      BY <1>1, <1>2, Zenon DEF RunTask, StreamWaited, WaitReturns, WaitEnds, TaskDone
  <1>4. CASE RunTask(q)
    <2>1. head[q] + 1 \in 1..Len(tasks[q]) /\ task.do \in {"op", "signal"}
        BY <1>4, CurrentFacts, Zenon DEF RunTask
    <2> QED BY <1>3, <2>1, Zenon DEF CurrentTask, WaitKinds
  <1>5. CASE StreamWaited(q)
    <2>1. head[q] + 1 \in 1..Len(tasks[q]) /\ task.do \in {"streamWait"}
        BY <1>5, CurrentFacts, Zenon DEF StreamWaited
    <2>2. task.n \in Executable /\ task.at # 0 /\ task.at = fine[task.n]
        BY <2>1, Zenon DEF TaskInv, CurrentTask, WaitKinds
    <2>3. task.n \in Done
        BY <1>5, <2>2, FineEventDone, Zenon DEF StreamWaited
    <2> QED BY <1>3, <2>1, <2>3, Zenon DEF CurrentTask
  <1>6. CASE WaitReturns(q)
    <2>1. head[q] + 1 \in 1..Len(tasks[q]) /\ task.do \in {"waitNode", "waitEvent"}
        BY <1>6, CurrentFacts, Zenon DEF WaitReturns
    <2>2. task.n \in Executable
        BY <2>1, Zenon DEF TaskInv, CurrentTask, WaitKinds
    <2>3. task.n \in known \/ task.n \in finished
        BY <1>6, Zenon DEF WaitReturns
    <2>4. task.n \in Done
        BY <2>2, <2>3, Zenon DEF CompleteInv, Executable
    <2> QED BY <1>3, <2>1, <2>4, Zenon DEF CurrentTask
  <1>7. CASE WaitEnds(q)
    <2>1. head[q] + 1 \in 1..Len(tasks[q]) /\ task.do \in {"waitNode", "waitEvent"}
        BY <1>7, CurrentFacts, Zenon DEF WaitEnds
    <2>2. task.n \in Nodes
        BY <2>1, Zenon DEF TaskInv, CurrentTask
    <2>3. Covers(waiting[q], task.n)
        BY <1>7, Zenon DEF BlockInv, WaitEnds, WaitOver
    <2>4. task.n \in Done
        BY <1>7, <2>2, <2>3, WaitOverDone, Zenon DEF WaitEnds
    <2> QED BY <1>3, <2>1, <2>4, Zenon DEF CurrentTask
  <1> QED BY <1>2, <1>4, <1>5, <1>6, <1>7, Zenon

\* A queue passes a wait task when what it waits for is done
\* (queue_completion_event.hpp:47-59, omp_queue.cpp, cuda_queue.cpp).
LEMMA WaitedPreserved ==
    ASSUME OrderedInv, Inv', Steps PROVE WaitedInv'
  <1> USE DEF OrderedInv, Shape, Placed, Waits
  <1> SUFFICES ASSUME NEW q \in Queues, NEW j \in 1..head'[q], tasks'[q][j].do \in WaitKinds
               PROVE  tasks'[q][j].n \in Done'
      BY Zenon DEF WaitedInv
  <1>1. /\ head[q] \in Nat /\ head[q] <= Len(tasks[q]) /\ Len(tasks[q]) \in Nat
        /\ \A i \in 1..Len(tasks[q]) : tasks'[q][i] = tasks[q][i]
        /\ Done \subseteq Done'
      BY Elements, Persist, Monotone, Zenon DEF StateInv
  <1>2. CASE j \in 1..head[q]
      BY <1>1, <1>2 DEF WaitedInv
  <1>3. CASE j \notin 1..head[q]
    <2>1. head'[q] # head[q]
        BY <1>3, Zenon
    <2>2. /\ head'[q] = head[q] + 1 /\ head[q] + 1 \in 1..Len(tasks[q])
          /\ tasks[q][head[q] + 1].do \in WaitKinds => tasks[q][head[q] + 1].n \in Done
        BY <2>1, Advance, Zenon
    <2>3. j = head[q] + 1
        BY <1>1, <1>3, <2>2
    <2> QED BY <1>1, <2>2, <2>3, Zenon
  <1> QED BY <1>2, <1>3, Zenon

\* What the wait for an event blocks on comes after the operation of the event's node.
LEMMA CoversTarget ==
    ASSUME Inv, EnqueuedInv, EventInv, NEW n \in Executable
    PROVE  Covers(WaitTarget(n), n)
  <1>1. n \in Nodes /\ n \in 1..MaxOps /\ Len(tasks[QueueOf(n)]) \in Nat /\ fine[n] \in Nat
    <2>1. n \in Nodes /\ n \in 1..MaxOps /\ Len(tasks[QueueOf(n)]) \in Nat
        BY Elements, Zenon DEF Executable
    <2> QED BY <2>1, Zenon DEF Inv, Typed
  <1>2. CASE HasFineEvent(n)
    <2>1. fine[n] # 0
        BY <1>2, Zenon DEF EventInv
    <2>2. PICK i \in Positions(n) : i < fine[n]
        BY <1>1, <2>1, Zenon DEF EventInv
    <2>3. i <= fine[n]
        BY <1>1, <2>2 DEF Positions
    <2> QED BY <1>2, <2>3, Zenon DEF Covers, WaitTarget
  <1>3. CASE ~ HasFineEvent(n)
    <2>1. PICK i \in Positions(n) : TRUE
        BY Zenon DEF EnqueuedInv
    <2>2. i <= Len(tasks[QueueOf(n)])
        BY <1>1 DEF Positions
    <2> QED BY <1>3, <2>2, Zenon DEF Covers, WaitTarget
  <1> QED BY <1>2, <1>3, Zenon

\* A wait keeps covering its node.
LEMMA CoversStays ==
    ASSUME Inv, StateInv, Inv', Steps, NEW w, NEW n \in Nodes, Covers(w, n)
    PROVE  Covers(w, n)'
  BY Persist, Monotone, Zenon DEF Covers

\* A queue that blocks stays at its task, a thread that blocks stays in wait().
LEMMA BlockPreserved ==
    ASSUME OrderedInv, Inv', Steps PROVE BlockInv'
  <1> USE DEF OrderedInv, Shape, Placed, Waits
  <1>1. /\ waiting \in [Queues \cup Threads -> WaitType] /\ head \in [Queues -> Nat]
        /\ thr \in [Threads -> ThreadType]
      BY Zenon DEF StateInv, Inv, Typed
  <1>2. \A q \in Queues : q \notin Threads
      BY SetupAssumption, Zenon
  <1>3. ASSUME NEW q \in Queues, waiting'[q] # NotWaiting
        PROVE  Current(q, {"waitNode", "waitEvent"})' /\ Covers(waiting[q], CurrentTask(q).n)'
    <2>1. \/ waiting'[q] = waiting[q] /\ ~ WaitEnds(q)
          \/ WaitStarts(q) /\ waiting'[q] = WaitTarget(CurrentTask(q).n)
      <3>1. ASSUME WaitEnds(q) PROVE FALSE
          BY <1>1, <1>3, <3>1, Zenon DEF WaitEnds, StopWaiting
      <3> QED BY <1>1, <1>2, <1>3, <3>1, WaitingChange, Zenon DEF HostWaitEnds, HostWait,
                 WaitStarts, WaitEnds, StartWaiting, StopWaiting
    <2>2. /\ Current(q, {"waitNode", "waitEvent"}) /\ Covers(waiting'[q], CurrentTask(q).n)
          /\ head'[q] = head[q]
      <3>1. CASE waiting'[q] = waiting[q] /\ ~ WaitEnds(q)
        <4>1. Current(q, {"waitNode", "waitEvent"}) /\ Covers(waiting[q], CurrentTask(q).n)
            BY <1>3, <3>1, Zenon DEF BlockInv
        <4>2. ~ RunTask(q) /\ ~ StreamWaited(q) /\ ~ WaitReturns(q)
            BY <1>3, <3>1, <4>1, Zenon DEF RunTask, StreamWaited, WaitReturns, Current
        <4>3. head'[q] = head[q]
          <5>1. ASSUME NEW p \in Queues,
                       RunTask(p) \/ StreamWaited(p) \/ WaitReturns(p) \/ WaitEnds(p)
                PROVE  head'[q] = head[q]
            <6>1. p # q
                BY <3>1, <4>2, <5>1, Zenon
            <6>2. head' = [head EXCEPT ![p] = @ + 1]
                BY <5>1, Zenon DEF RunTask, StreamWaited, WaitReturns, WaitEnds, TaskDone
            <6> QED BY <1>1, <6>1, <6>2, Zenon
          <5> QED BY <5>1, HeadChange, Zenon
        <4> QED BY <3>1, <4>1, <4>3, Zenon
      <3>2. CASE WaitStarts(q) /\ waiting'[q] = WaitTarget(CurrentTask(q).n)
        <4>1. Current(q, {"waitNode", "waitEvent"}) /\ head' = head
            BY <3>2, Zenon DEF WaitStarts
        <4>2. CurrentTask(q).n \in Executable
          <5>1. head[q] + 1 \in 1..Len(tasks[q]) /\ CurrentTask(q).do \in {"waitNode", "waitEvent"}
              BY <4>1, CurrentFacts, Zenon
          <5> QED BY <5>1, Zenon DEF TaskInv, CurrentTask, WaitKinds
        <4> QED BY <3>2, <4>1, <4>2, CoversTarget, Zenon
      <3> QED BY <2>1, <3>1, <3>2, Zenon
    <2>3. /\ head[q] + 1 \in 1..Len(tasks[q]) /\ Len(tasks[q]) \in Nat /\ Len(tasks'[q]) \in Nat
          /\ Len(tasks[q]) <= Len(tasks'[q]) /\ tasks'[q][head[q] + 1] = tasks[q][head[q] + 1]
      <3>1. head[q] + 1 \in 1..Len(tasks[q])
          BY <2>2, CurrentFacts, Zenon
      <3>2. tasks' \in [Queues -> Seq(TaskType)]
          BY Zenon DEF Inv, Typed
      <3> QED BY <3>1, <3>2, Persist, Elements
    <2>4. Current(q, {"waitNode", "waitEvent"})'
        BY <1>1, <2>2, <2>3 DEF Current
    <2>5. PICK n \in Nodes : n = CurrentTask(q).n
        BY <2>3, Zenon DEF TaskInv, CurrentTask
    <2>6. PICK w : w = waiting'[q]
        BY Zenon
    <2>7. Covers(w, n)'
        BY <2>2, <2>5, <2>6, CoversStays, Zenon
    <2>8. CurrentTask(q)' = CurrentTask(q)
        BY <2>2, <2>3, Zenon DEF CurrentTask
    <2> QED BY <2>4, <2>5, <2>6, <2>7, <2>8, Zenon DEF Covers
  <1>4. ASSUME NEW t \in Threads, waiting'[t] # NotWaiting PROVE thr'[t].pc = "wait"
    <2>1. ASSUME NEW n \in Nodes, HostWait(t, n) PROVE thr'[t].pc = "wait"
        BY <1>1, <2>1, Zenon DEF HostWait, ThreadType
    <2>2. CASE waiting'[t] = waiting[t]
      <3>1. thr[t].pc = "wait"
          BY <1>4, <2>2, Zenon DEF BlockInv
      <3>2. ~ HostWaitEnds(t)
          BY <1>1, <1>4, Zenon DEF HostWaitEnds, StopWaiting
      <3>3. thr'[t] = thr[t]
          BY <3>1, <3>2, OwnStep, Zenon DEF Begin, Cancel, HostWait, At, SubmitStep, Skip,
             SubmitExternalWaitFor, OmpWaitFor, StreamWaitFor, SyncStep, LockDecay, Decay,
             Publish, UseEvent, Dispatch, MarkSubmitted
      <3> QED BY <3>1, <3>3, Zenon
    <2>3. CASE waiting'[t] # waiting[t]
      <3>1. \E n \in Nodes : HostWait(t, n)
        <4>1. ~ HostWaitEnds(t)
            BY <1>1, <1>4, Zenon DEF HostWaitEnds, StopWaiting
        <4>2. ASSUME NEW q \in Queues, WaitStarts(q) \/ WaitEnds(q) PROVE FALSE
            BY <1>1, <1>2, <2>3, <4>2, Zenon DEF WaitStarts, WaitEnds, StartWaiting,
               StopWaiting
        <4>3. ASSUME NEW u \in Threads, u # t, HostWaitEnds(u) \/ \E n \in Nodes : HostWait(u, n)
              PROVE  FALSE
            BY <1>1, <2>3, <4>3, Zenon DEF HostWaitEnds, HostWait, StartWaiting, StopWaiting
        <4> QED BY <2>3, <4>1, <4>2, <4>3, WaitingChange, Zenon
      <3> QED BY <2>1, <3>1, Zenon
    <2> QED BY <2>2, <2>3, Zenon
  <1>5. ASSUME NEW t \in Threads, thr'[t].pc = "wait"
        PROVE  thr'[t].n \in Executable' /\ Covers(waiting[t], thr[t].n)'
    <2>1. thr'[t] = thr[t] \/ \E n \in Nodes : HostWait(t, n)
      <3>1. thr[t] \in ThreadType
          BY <1>1, Zenon
      <3>2. ~ Begin(t) /\ ~ Cancel(t) /\ ~ MarkSubmitted(t) /\ ~ HostWaitEnds(t)
        <4>1. ASSUME Begin(t) PROVE thr'[t].pc = "sync"
            BY <1>1, <4>1, Zenon DEF Begin
        <4>2. Idle.pc = "idle"
            BY Zenon DEF Idle
        <4>3. ASSUME Cancel(t) \/ MarkSubmitted(t) \/ HostWaitEnds(t) PROVE thr'[t] = Idle
            BY <1>1, <4>3, Zenon DEF Cancel, MarkSubmitted, HostWaitEnds
        <4> QED BY <1>5, <4>1, <4>2, <4>3, Zenon
      <3>3. ~ (LockDecay(t) \/ Decay(t) \/ Publish(t) \/ Dispatch(t))
        <4>1. ~ LockDecay(t)
            BY <1>1, <1>5, <3>1, Zenon DEF LockDecay, ThreadType
        <4>2. ~ Decay(t)
            BY <1>1, <1>5, <3>1 DEF Decay, InsertEvent, ThreadType
        <4>3. ~ Publish(t)
            BY <1>1, <1>5, <3>1, Zenon DEF Publish, ThreadType
        <4>4. ~ Dispatch(t)
            BY <1>1, <1>5, <3>1 DEF Dispatch, ThreadType
        <4> QED BY <4>1, <4>2, <4>3, <4>4, Zenon
      <3>4. ~ UseEvent(t) /\ \A r \in thr[t].todo : ~ (\/ Skip(t, r) \/ SubmitExternalWaitFor(t, r)
                                                      \/ OmpWaitFor(t, r) \/ StreamWaitFor(t, r))
        <4>1. \A r : ~ RequirementHandled(t, r)
            BY <1>1, <1>5, <3>1 DEF RequirementHandled, ThreadType
        <4>2. \A r : ~ StreamWaitFor(t, r)
            BY <1>1, <1>5, <3>1 DEF StreamWaitFor, ThreadType
        <4> QED BY <4>1, <4>2, Zenon DEF UseEvent, Skip, SubmitExternalWaitFor, OmpWaitFor
      <3> QED BY <3>2, <3>3, <3>4, OwnStep, Zenon DEF SubmitStep
    <2>2. /\ thr'[t].n \in Executable /\ Covers(waiting'[t], thr'[t].n)
      <3>1. ASSUME NEW n \in Nodes, HostWait(t, n)
            PROVE  thr'[t].n \in Executable /\ Covers(waiting'[t], thr'[t].n)
        <4>1. /\ thr'[t].n = n /\ waiting'[t] = WaitTarget(n) /\ n \in submitted \ known
            BY <1>1, <3>1, Zenon DEF HostWait, StartWaiting, ThreadType
        <4>2. n \in Executable
            BY <4>1, Zenon DEF StateInv, Executable
        <4> QED BY <4>1, <4>2, CoversTarget, Zenon
      <3>2. CASE thr'[t] = thr[t] /\ ~ \E n \in Nodes : HostWait(t, n)
        <4>1. thr[t].n \in Executable /\ Covers(waiting[t], thr[t].n)
            BY <1>5, <3>2, Zenon DEF BlockInv
        <4>2. ~ HostWaitEnds(t)
            BY <1>1, <1>5, SMTT(30) DEF HostWaitEnds, Idle
        <4>3. waiting'[t] = waiting[t]
            BY <1>1, <1>2, <3>2, <4>2, WaitingChange, Zenon DEF HostWaitEnds, HostWait,
               WaitStarts, WaitEnds, StartWaiting, StopWaiting
        <4> QED BY <3>2, <4>1, <4>3, Zenon
      <3> QED BY <2>1, <3>1, <3>2, Zenon
    <2>3. PICK n \in Nodes : n = thr'[t].n
        BY <2>2, Elements, Zenon DEF Executable
    <2>4. PICK w : w = waiting'[t]
        BY Zenon
    <2>5. Covers(w, n)'
        BY <2>2, <2>3, <2>4, CoversStays, Zenon
    <2> QED BY <2>2, <2>3, <2>4, <2>5, ExecutableStep, Zenon DEF Covers
  <1> QED BY <1>3, <1>4, <1>5, Zenon DEF BlockInv

-----------------------------------------------------------------------------
(* The theorems                                                            *)

\* The invariant holds before the first submission.
LEMMA InitOrdered == Init => OrderedInv
  <1> SUFFICES ASSUME Init PROVE OrderedInv
      BY Zenon
  <1>1. Inv
      BY InitEstablishes, Zenon
  <1>2. Nodes = {} /\ Executable = {} /\ Done = {}
      BY DEF Init, Nodes, Executable, Done
  <1>3. \A t \in Threads : thr[t].pc = "idle" /\ ~ Active(t)
      BY Zenon DEF Init, Idle, Active
  <1>4. \A q \in Queues : head[q] = 0 /\ Len(tasks[q]) = 0
      BY Zenon DEF Init
  <1>5. StateInv
    <2>1. NotWaiting \in WaitType
        BY Zenon DEF NotWaiting, WaitType
    <2> QED BY <1>4, <2>1 DEF Init, StateInv
  <1>6. NodeInv /\ LaneInv
      BY <1>2, <1>3, Zenon DEF NodeInv, LaneInv
  <1>7. TaskInv
      BY <1>4 DEF TaskInv
  <1>8. EnqueuedInv
      BY <1>2, <1>3, Zenon DEF EnqueuedInv
  <1>9. EventInv
      BY <1>2, <1>3, Zenon DEF EventInv, Init
  <1>10. OrderInv
      BY <1>2, Zenon DEF OrderInv
  <1>11. SecuredInv
      BY <1>4 DEF SecuredInv
  <1>12. SyncInv
      BY <1>3, Zenon DEF SyncInv
  <1>13. WaitedInv
      BY <1>4 DEF WaitedInv
  <1>14. BlockInv
    <2>1. \A a \in Queues \cup Threads : waiting[a] = NotWaiting
        BY Zenon DEF Init
    <2> QED BY <1>3, <2>1, Zenon DEF BlockInv
  <1>15. CompleteInv
      BY Zenon DEF Init, CompleteInv
  <1> QED BY <1>1, <1>5, <1>6, <1>7, <1>8, <1>9, <1>10, <1>11, <1>12, <1>13, <1>14, <1>15,
             Zenon DEF OrderedInv, Shape, Placed, Waits

\* Every step preserves the invariant.
LEMMA NextOrdered == OrderedInv /\ [Next]_vars => OrderedInv'
  <1> SUFFICES ASSUME OrderedInv, [Next]_vars PROVE OrderedInv'
      BY Zenon
  <1> USE DEF OrderedInv, Shape, Placed, Waits
  <1>1. Steps
      BY Zenon DEF Steps
  <1>2. Inv'
      BY NextPreserves, Zenon
  <1>3. RequirementsDone
      BY InvRequirementsDone, Zenon
  <1>4. StateInv' /\ NodeInv' /\ LaneInv'
      BY <1>1, <1>2, <1>3, StatePreserved, NodePreserved, LanePreserved, Zenon
  <1>5. TaskInv' /\ EnqueuedInv' /\ EventInv' /\ OrderInv'
      BY <1>1, <1>2, TaskPreserved, EnqueuedPreserved, EventPreserved, OrderPreserved, Zenon
  <1>6. SecuredInv' /\ SyncInv' /\ WaitedInv' /\ BlockInv'
      BY <1>1, <1>2, SecuredPreserved, SyncPreserved, WaitedPreserved, BlockPreserved, Zenon
  <1>7. CompleteInv'
    <2>1. Done \subseteq Done' /\ cancelled \subseteq cancelled'
        BY <1>1, <1>2, Monotone, ExecutableStep, Zenon
    <2>2. known' \subseteq Done \cup cancelled \cup cancelled' /\ finished' \subseteq Done
        BY <1>1, <1>2, <1>3, CompletesDone, Zenon
    <2> QED BY <2>1, <2>2, Zenon DEF CompleteInv
  <1> QED BY <1>2, <1>4, <1>5, <1>6, <1>7, Zenon

\* The invariant of the order of execution, for every application.
THEOREM OrderedCorrect == Spec => []OrderedInv
  BY InitOrdered, NextOrdered, PTL DEF Spec

\* An operation runs only after everything it depends on has run or was cancelled,
\* although complete requirements, those of the same queue and all but the last one
\* of a lane are not waited for (inorder_executor.cpp:107-166).
THEOREM RequirementsDoneCorrect == Spec => []RequirementsDone
  <1>1. OrderedInv => RequirementsDone
      BY InvRequirementsDone, Zenon DEF OrderedInv, Shape, Placed, Waits
  <1> QED BY <1>1, OrderedCorrect, PTL

\* A node that counts as complete has been executed or was cancelled, whether it was
\* waited for, queried, or marked with a node that depends on it
\* (dag_node.cpp:41-56, 228-247; queue_completion_event.hpp:34-59).
THEOREM KnownIsDoneCorrect == Spec => []KnownIsDone
  <1>1. OrderedInv => KnownIsDone
      BY Zenon DEF OrderedInv, Waits, CompleteInv, KnownIsDone
  <1> QED BY <1>1, OrderedCorrect, PTL

\* Execution indices count nodes.
LEMMA IndexRange ==
    ASSUME Inv, NodeInv, NEW n \in Nodes PROVE node[n].index \in 1..n
  <1> DEFINE before == {k \in 1..(n - 1) : QueueOf(k) = QueueOf(n)}
  <1>1. n \in Nat /\ n >= 1
      BY Elements
  <1>2. IsFiniteSet(1..(n - 1)) /\ Cardinality(1..(n - 1)) = n - 1
      BY <1>1, FS_Interval
  <1>3. before \subseteq 1..(n - 1)
      BY Zenon
  <1>4. node[n].index = Cardinality(before) + 1
      BY Zenon DEF NodeInv
  <1> HIDE DEF before
  <1>5. Cardinality(before) \in Nat /\ Cardinality(before) <= n - 1
      BY <1>2, <1>3, FS_Subset, FS_CardinalityType, Zenon
  <1> QED BY <1>1, <1>4, <1>5

\* Types, and the event of a coarse event that has decayed is there and enqueued in
\* its own queue (queue_completion_event.hpp:61-79).
THEOREM InorderQueuesTypeCorrect == Spec => []TypeOK
  <1>1. ASSUME OrderedInv PROVE TypeOK
    <2> USE <1>1 DEF OrderedInv, Shape, Placed, Waits
    <2>1. setup \in Setups /\ Len(node) <= MaxOps /\ submitted \subseteq Nodes
          /\ fine \in [1..MaxOps -> Nat]
        BY Zenon DEF Inv, Typed
    <2>2. \A n \in Nodes : /\ node[n].queue \in Queues /\ node[n].coarse \in BOOLEAN
                            /\ node[n].reqs \subseteq 1..(n - 1) /\ node[n].index \in 1..n
        BY Elements, IndexRange, Zenon DEF NodeType, NodeInv
    <2>3. ASSUME NEW n \in decayed
          PROVE  n \in submitted /\ fine[n] \in 1..Len(tasks[QueueOf(n)])
      <3>1. n \in Executable /\ HasFineEvent(n)
          BY Zenon DEF EventInv, HasFineEvent
      <3>2. n \in 1..MaxOps /\ Len(tasks[QueueOf(n)]) \in Nat
          BY <3>1, Elements, Zenon DEF Executable
      <3>3. fine[n] # 0 /\ fine[n] <= Len(tasks[QueueOf(n)])
          BY <3>1, <3>2, Zenon DEF EventInv
      <3> QED BY <2>1, <3>1, <3>2, <3>3 DEF Executable
    <2>4. ASSUME NEW q \in Queues
          PROVE  /\ head[q] \in 0..Len(tasks[q])
                 /\ \A i \in 1..Len(tasks[q]) :
                        /\ tasks[q][i].do \in TaskKinds /\ tasks[q][i].n \in Nodes
                        /\ tasks[q][i].do = "streamWait" => tasks[q][i].at # 0
      <3>1. head[q] \in 0..Len(tasks[q])
          BY Elements DEF StateInv
      <3>2. \A i \in 1..Len(tasks[q]) : tasks[q][i].do \in TaskKinds
          BY Elements, Zenon DEF TaskType
      <3> QED BY <3>1, <3>2, Zenon DEF TaskInv
    <2> QED BY <2>1, <2>2, <2>3, <2>4, Zenon DEF TypeOK, StateInv
  <1> QED BY <1>1, OrderedCorrect, PTL
=============================================================================
