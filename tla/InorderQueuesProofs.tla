------------------------ MODULE InorderQueuesProofs -------------------------
(***************************************************************************)
(* Proofs about InorderQueues, for every set of queues and threads and     *)
(* every application: the decay of coarse events, and the invariant from   *)
(* which queues execute what depends on each other in order and only       *)
(* executed nodes count as complete.                                       *)
(***************************************************************************)
EXTENDS InorderQueues, FiniteSetTheorems, Induction

Labels == {"idle", "wait", "sync", "lock", "locked", "publish", "use", "dispatched"}
NodeType == [queue : Queues, coarse : BOOLEAN, reqs : SUBSET Nat, index : Nat]
TaskType == [do : TaskKinds, n : Nat, at : Nat]
ThreadType == [pc : Labels, n : Nat, reqs : SUBSET Nat, todo : SUBSET Nat, r : Nat]

Typed ==
    /\ setup \in Setups
    /\ node \in Seq(NodeType) /\ Len(node) <= MaxOps
    /\ submitted \subseteq Nodes
    /\ fine \in [1..MaxOps -> Nat]
    /\ tasks \in [Queues -> Seq(TaskType)]
    /\ thr \in [Threads -> ThreadType]

Active(t) == thr[t].pc \notin {"idle", "wait"}

\* A thread inside submit() has a node of its own, not submitted yet.
OwnInv ==
    /\ \A t \in Threads : Active(t) => thr[t].n \in Nodes \ submitted
    /\ \A t, u \in Threads : Active(t) /\ Active(u) /\ t # u => thr[t].n # thr[u].n

\* It synchronizes with submitted nodes; only coarse events decay.
RequirementInv ==
    \A t \in Threads :
        /\ Active(t) => thr[t].todo \subseteq submitted
        /\ thr[t].pc \in {"lock", "locked", "publish", "use"} => thr[t].r \in submitted
        /\ thr[t].pc \in {"lock", "locked", "publish"} => node[thr[t].r].coarse

Decaying(t) == thr[t].pc \in {"locked", "publish"}

\* The mutex of an event admits one thread at a time.
LockInv ==
    /\ \A t \in Threads : Decaying(t) => thr[t].r \in decayMutex
    /\ \A t, u \in Threads : Decaying(t) /\ Decaying(u) /\ t # u => thr[t].r # thr[u].r

\* A fine-grained event belongs to a submitted node; that of a coarse event is
\* announced, or about to be announced by the thread that holds the mutex.
FineInv ==
    \A n \in 1..MaxOps : fine[n] # 0 =>
        /\ n \in submitted
        /\ node[n].coarse =>
               n \in decayed \/ \E t \in Threads : thr[t].pc = "publish" /\ thr[t].r = n

Inv == Typed /\ OwnInv /\ RequirementInv /\ LockInv /\ FineInv

-----------------------------------------------------------------------------
(* Each step preserves the invariant                                       *)

\* Where the application's program ends.
LEMMA MaxOpsType == setup \in Setups => MaxOps \in Nat
  BY SetupAssumption DEF MaxOps

\* Elements of a sequence.
LEMMA ElementType == ASSUME NEW S, NEW s \in Seq(S), NEW i \in 1..Len(s) PROVE s[i] \in S
  OBVIOUS

\* Steps of the backend queues, queries and wake-ups touch nothing of it.
LEMMA QuietPreserves ==
    Inv /\ UNCHANGED <<setup, node, submitted, fine, decayed, decayMutex, tasks, thr>> => Inv'
  BY DEF Inv, Typed, OwnInv, RequirementInv, LockInv, FineInv, Active, Decaying, Nodes, MaxOps

\* A task at the end of a queue.
LEMMA EnqueueTyped ==
    ASSUME NEW q \in Queues, NEW task \in TaskType, Typed, Enqueue(q, task)
    PROVE  tasks' \in [Queues -> Seq(TaskType)]
  BY DEF Typed, Enqueue

\* inorder_executor.cpp:100-105: a thread begins with a node of its own.
LEMMA BeginPreserves == ASSUME NEW t \in Threads PROVE Inv /\ Begin(t) => Inv'
  <1> SUFFICES ASSUME Inv, Begin(t) PROVE Inv'
      BY Zenon
  <1> DEFINE group == setup.ops[Len(node) + 1]
             onQueue == {n \in Nodes : QueueOf(n) = group.queue}
             new == [queue |-> group.queue, coarse |-> group.coarse, reqs |-> group.reqs,
                     index |-> Cardinality(onQueue) + 1]
  <1>1. /\ setup \in Setups /\ MaxOps \in Nat /\ node \in Seq(NodeType)
        /\ Len(node) < MaxOps /\ Len(node) \in Nat
      BY MaxOpsType DEF Inv, Typed, Begin
  <1>2. group \in [queue : Queues, coarse : BOOLEAN, reqs : SUBSET Nat]
    <2>1. setup.ops \in Seq([queue : Queues, coarse : BOOLEAN, reqs : SUBSET Nat])
        BY <1>1, SetupAssumption, ZenonT(60)
    <2>2. Len(node) + 1 \in 1..Len(setup.ops)
        BY <1>1 DEF MaxOps
    <2> QED BY <2>1, <2>2, ElementType, Zenon
  <1>3. Cardinality(onQueue) \in Nat
    <2>1. IsFiniteSet(Nodes)
        BY <1>1, FS_Interval DEF Nodes
    <2> QED BY <2>1, FS_Subset, FS_CardinalityType, Zenon
  <1>4. new \in NodeType
      BY <1>2, <1>3 DEF NodeType
  <1>5. /\ node' = Append(node, new)
        /\ thr' = [thr EXCEPT ![t] = [pc |-> "sync", n |-> Len(node) + 1, r |-> 0,
                                     reqs |-> group.reqs \ known,
                                     todo |-> group.reqs \ known]]
        /\ group.reqs \subseteq submitted
        /\ UNCHANGED <<setup, submitted, fine, decayed, decayMutex, tasks>>
      BY Zenon DEF Begin, eventVars
  <1>6. thr[t].pc = "idle"
      BY Zenon DEF Begin, At
  <1> HIDE DEF new, group
  <1>7. /\ node' \in Seq(NodeType) /\ Len(node') = Len(node) + 1
        /\ \A n \in Nodes : node'[n] = node[n]
        /\ Nodes' = Nodes \cup {Len(node) + 1} /\ Len(node) + 1 \notin Nodes
      BY <1>1, <1>4, <1>5 DEF Nodes
  <1>8. Typed'
    <2>1. [pc |-> "sync", n |-> Len(node) + 1, r |-> 0,
           reqs |-> group.reqs \ known, todo |-> group.reqs \ known] \in ThreadType
        BY <1>1, <1>2 DEF ThreadType, Labels
    <2> QED BY <1>1, <1>5, <1>7, <2>1 DEF Inv, Typed, MaxOps
  <1>9. submitted \subseteq Nodes /\ thr \in [Threads -> ThreadType]
      BY Zenon DEF Inv, Typed
  <1>10. OwnInv'
      BY <1>5, <1>6, <1>7, <1>9 DEF Inv, OwnInv, Active
  <1>11. RequirementInv'
      BY <1>5, <1>6, <1>7, <1>9, ZenonT(60) DEF Inv, RequirementInv, Active
  <1>12. LockInv'
      BY <1>5, <1>6, <1>9, Zenon DEF Inv, LockInv, Decaying
  <1>13. FineInv'
      BY <1>5, <1>6, <1>7, <1>9, ZenonT(60) DEF Inv, FineInv, MaxOps
  <1> QED BY <1>8, <1>10, <1>11, <1>12, <1>13, Zenon DEF Inv

\* Steps of a thread inside submit() that do not concern the event's mutex:
\* requirements are handled one after the other (inorder_executor.cpp:107-173).
Synchronizes(t) ==
    /\ UNCHANGED <<setup, node, submitted, fine, decayed, decayMutex>>
    /\ tasks' \in [Queues -> Seq(TaskType)]
    /\ thr[t].pc \in {"sync", "use"}
    /\ thr'[t] \in ThreadType
    /\ thr'[t].pc \in {"sync", "lock", "use", "dispatched"}
    /\ thr'[t].n = thr[t].n
    /\ thr'[t].todo \subseteq thr[t].todo
    /\ thr'[t].pc \in {"lock", "use"} => thr'[t].r \in thr[t].todo
    /\ thr'[t].pc = "lock" => node[thr'[t].r].coarse
    /\ thr' = [thr EXCEPT ![t] = thr'[t]]

\* They preserve the invariant.
LEMMA SynchronizesPreserves ==
    ASSUME NEW t \in Threads PROVE Inv /\ Synchronizes(t) => Inv'
  <1> SUFFICES ASSUME Inv, Synchronizes(t) PROVE Inv'
      BY Zenon
  <1>1. /\ thr \in [Threads -> ThreadType]
        /\ \A u \in Threads : u # t => thr'[u] = thr[u]
        /\ UNCHANGED <<setup, node, submitted, fine, decayed, decayMutex>>
        /\ Nodes' = Nodes /\ MaxOps' = MaxOps
      BY Zenon DEF Inv, Typed, Synchronizes, Nodes, MaxOps
  <1>2. Typed'
      BY <1>1, ZenonT(60) DEF Inv, Typed, Synchronizes
  <1>3. OwnInv'
      BY <1>1 DEF Inv, OwnInv, Active, Synchronizes
  <1>4. RequirementInv'
      BY <1>1, Zenon DEF Inv, RequirementInv, Active, Synchronizes
  <1>5. LockInv'
      BY <1>1 DEF Inv, LockInv, Decaying, Synchronizes
  <1>6. FineInv'
      BY <1>1 DEF Inv, FineInv, Synchronizes
  <1> QED BY <1>2, <1>3, <1>4, <1>5, <1>6, Zenon DEF Inv

\* inorder_executor.cpp:109-173: the waits of a queue, and the dispatch.
LEMMA SyncPreserves ==
    ASSUME NEW t \in Threads, NEW r \in thr[t].todo
    PROVE  Inv /\ (\/ Skip(t, r) \/ SubmitExternalWaitFor(t, r) \/ OmpWaitFor(t, r)
                   \/ StreamWaitFor(t, r)) => Inv'
  <1> SUFFICES ASSUME Inv, \/ Skip(t, r) \/ SubmitExternalWaitFor(t, r) \/ OmpWaitFor(t, r)
                           \/ StreamWaitFor(t, r)
               PROVE  Inv'
      BY Zenon
  <1>1. /\ thr \in [Threads -> ThreadType] /\ thr[t].pc = "sync"
        /\ tasks \in [Queues -> Seq(TaskType)]
      BY Zenon DEF Inv, Typed, Skip, SubmitExternalWaitFor, OmpWaitFor, StreamWaitFor,
         SyncStep, At
  <1>2. r \in Nat /\ thr[t].n \in Nodes /\ node \in Seq(NodeType)
      BY <1>1, Zenon DEF ThreadType, Inv, OwnInv, Active, Typed
  <1>3. QueueOf(thr[t].n) \in Queues
    <2>1. node[thr[t].n] \in NodeType
        BY <1>2 DEF Nodes
    <2> QED BY <2>1, Zenon DEF QueueOf, NodeType
  <1>4. tasks' \in [Queues -> Seq(TaskType)]
    <2>1. Task("waitNode", r, 0) \in TaskType /\ Task("waitEvent", r, 0) \in TaskType
        BY <1>2, Zenon DEF Task, TaskType, TaskKinds
    <2>2. CASE Skip(t, r) \/ StreamWaitFor(t, r)
        BY <1>1, <2>2, Zenon DEF Skip, StreamWaitFor
    <2>3. CASE SubmitExternalWaitFor(t, r)
        BY <2>1, <2>3, <1>3, EnqueueTyped, Zenon DEF SubmitExternalWaitFor, Inv
    <2>4. CASE OmpWaitFor(t, r)
        BY <2>1, <2>4, <1>3, EnqueueTyped, Zenon DEF OmpWaitFor, Inv
    <2> QED BY <2>2, <2>3, <2>4, Zenon
  <1>5. Synchronizes(t)
    <2>1. CASE StreamWaitFor(t, r)
        BY <1>1, <1>2, <1>4, <2>1 DEF Synchronizes, StreamWaitFor, ThreadType, Labels,
           nodeVars, eventVars
    <2>2. CASE Skip(t, r) \/ SubmitExternalWaitFor(t, r) \/ OmpWaitFor(t, r)
      <3>1. /\ RequirementHandled(t, r)
            /\ UNCHANGED <<setup, node, submitted, fine, decayed, decayMutex>>
          BY <2>2, Zenon DEF Skip, SubmitExternalWaitFor, OmpWaitFor, nodeVars, eventVars
      <3>2. thr'[t] = [thr[t] EXCEPT !.todo = @ \ {r}, !.pc = "sync", !.r = 0]
          BY <1>1, <3>1, Zenon DEF RequirementHandled, ThreadType
      <3>3. thr' = [thr EXCEPT ![t] = thr'[t]]
          BY <1>1, <3>1, ZenonT(60) DEF RequirementHandled, ThreadType
      <3>4. thr[t] \in ThreadType
          BY <1>1, Zenon
      <3>5. /\ thr'[t] \in ThreadType /\ thr'[t].pc = "sync" /\ thr'[t].n = thr[t].n
            /\ thr'[t].todo \subseteq thr[t].todo
        <4>1. thr'[t] = [pc |-> "sync", n |-> thr[t].n, reqs |-> thr[t].reqs,
                         todo |-> thr[t].todo \ {r}, r |-> 0]
            BY <3>2, <3>4, ZenonT(60) DEF ThreadType
        <4>2. thr[t].n \in Nat /\ thr[t].reqs \subseteq Nat /\ thr[t].todo \ {r} \subseteq Nat
            BY <3>4, Zenon DEF ThreadType
        <4> QED BY <4>1, <4>2 DEF ThreadType, Labels
      <3> QED BY <1>1, <1>4, <3>1, <3>3, <3>5, Zenon DEF Synchronizes
    <2> QED BY <2>1, <2>2, Zenon
  <1> QED BY <1>5, SynchronizesPreserves, Zenon

\* cuda_queue.cpp:478-480 and inorder_executor.cpp:172: the backend event is used,
\* the operation dispatched.
LEMMA UsePreserves == ASSUME NEW t \in Threads PROVE Inv /\ (UseEvent(t) \/ Dispatch(t)) => Inv'
  <1> SUFFICES ASSUME Inv, UseEvent(t) \/ Dispatch(t) PROVE Inv'
      BY Zenon
  <1>1. /\ thr \in [Threads -> ThreadType] /\ thr[t].pc \in {"sync", "use"}
        /\ tasks \in [Queues -> Seq(TaskType)]
      BY Zenon DEF Inv, Typed, UseEvent, Dispatch, At
  <1>2. thr[t].n \in Nodes /\ thr[t].n \in Nat /\ thr[t].r \in Nat /\ node \in Seq(NodeType)
      BY <1>1, ZenonT(60) DEF ThreadType, Inv, OwnInv, Active, Typed
  <1>3. QueueOf(thr[t].n) \in Queues
    <2>1. node[thr[t].n] \in NodeType
        BY <1>2 DEF Nodes
    <2> QED BY <2>1, Zenon DEF QueueOf, NodeType
  <1>4. CASE UseEvent(t)
    <2>1. thr[t].r \in submitted /\ submitted \subseteq Nodes
        BY <1>4, Zenon DEF Inv, RequirementInv, UseEvent, At, Typed
    <2>2. fine[thr[t].r] \in Nat
      <3>1. MaxOps \in Nat /\ Len(node) \in Nat /\ Len(node) <= MaxOps
          BY <1>2, MaxOpsType DEF Inv, Typed
      <3>2. thr[t].r \in 1..MaxOps
          BY <2>1, <3>1 DEF Nodes
      <3> QED BY <3>2, Zenon DEF Inv, Typed
    <2>3. Task("streamWait", thr[t].r, fine[thr[t].r]) \in TaskType
        BY <1>2, <2>2, Zenon DEF Task, TaskType, TaskKinds
    <2>4. tasks' \in [Queues -> Seq(TaskType)]
        BY <1>3, <1>4, <2>3, EnqueueTyped, Zenon DEF UseEvent, Inv
    <2>5. Synchronizes(t)
        BY <1>1, <1>2, <1>4, <2>4, ZenonT(60) DEF Synchronizes, UseEvent, At,
           RequirementHandled, ThreadType, Labels, nodeVars, eventVars
    <2> QED BY <2>5, SynchronizesPreserves, Zenon
  <1>5. CASE Dispatch(t)
    <2>1. Task("op", thr[t].n, 0) \in TaskType
        BY <1>2, Zenon DEF Task, TaskType, TaskKinds
    <2>2. tasks' \in [Queues -> Seq(TaskType)]
        BY <1>3, <1>5, <2>1, EnqueueTyped, Zenon DEF Dispatch, Inv
    <2>3. Synchronizes(t)
        BY <1>1, <1>2, <1>5, <2>2, ZenonT(60) DEF Synchronizes, Dispatch, At, ThreadType,
           Labels, nodeVars, eventVars
    <2> QED BY <2>3, SynchronizesPreserves, Zenon
  <1> QED BY <1>4, <1>5, Zenon

\* queue_completion_event.hpp:62-66: the mutex of the event is taken.
LEMMA LockPreserves == ASSUME NEW t \in Threads PROVE Inv /\ LockDecay(t) => Inv'
  <1> SUFFICES ASSUME Inv, LockDecay(t) PROVE Inv'
      BY Zenon
  <1>1. /\ thr \in [Threads -> ThreadType] /\ thr[t].pc = "lock"
        /\ thr' = [thr EXCEPT ![t].pc = "locked"]
        /\ thr[t].r \notin decayMutex /\ decayMutex' = decayMutex \cup {thr[t].r}
        /\ UNCHANGED <<setup, node, submitted, fine, decayed, tasks>>
        /\ Nodes' = Nodes /\ MaxOps' = MaxOps
      BY Zenon DEF Inv, Typed, LockDecay, At, nodeVars, Nodes, MaxOps
  <1>2. Typed'
      BY <1>1, ZenonT(60) DEF Inv, Typed, ThreadType, Labels
  <1>3. OwnInv'
      BY <1>1 DEF Inv, OwnInv, Active, ThreadType
  <1>4. RequirementInv'
      BY <1>1, Zenon DEF Inv, RequirementInv, Active, ThreadType
  <1>5. LockInv'
      BY <1>1 DEF Inv, LockInv, Decaying, ThreadType
  <1>6. FineInv'
      BY <1>1, Zenon DEF Inv, FineInv, ThreadType
  <1> QED BY <1>2, <1>3, <1>4, <1>5, <1>6, Zenon DEF Inv

\* The event has not decayed, and the thread that holds its mutex inserts one:
\* there was none before.
LEMMA NoEventYet ==
    ASSUME NEW t \in Threads, Inv, thr[t].pc = "locked", thr[t].r \notin decayed
    PROVE  thr[t].r \in 1..MaxOps /\ thr[t].r \in Nodes /\ fine[thr[t].r] = 0
  <1>1. thr[t].r \in submitted /\ node[thr[t].r].coarse /\ Decaying(t)
      BY Zenon DEF Inv, RequirementInv, Decaying
  <1>2. thr[t].r \in Nodes
      BY <1>1, Zenon DEF Inv, Typed
  <1>3. thr[t].r \in 1..MaxOps
    <2>1. Len(node) \in Nat /\ MaxOps \in Nat /\ Len(node) <= MaxOps
        BY MaxOpsType DEF Inv, Typed
    <2> QED BY <1>2, <2>1 DEF Nodes
  <1>4. ~ \E u \in Threads : thr[u].pc = "publish" /\ thr[u].r = thr[t].r
      BY <1>1, Zenon DEF Inv, LockInv, Decaying
  <1> QED BY <1>1, <1>2, <1>3, <1>4, Zenon DEF Inv, FineInv

\* queue_completion_event.hpp:67-71: looks again, and inserts an event.
LEMMA DecayPreserves == ASSUME NEW t \in Threads PROVE Inv /\ Decay(t) => Inv'
  <1> SUFFICES ASSUME Inv, Decay(t) PROVE Inv'
      BY Zenon
  <1>1. /\ thr \in [Threads -> ThreadType] /\ thr[t].pc = "locked"
        /\ UNCHANGED <<setup, node, submitted, decayed>>
        /\ Nodes' = Nodes /\ MaxOps' = MaxOps
      BY Zenon DEF Inv, Typed, Decay, At, nodeVars, Nodes, MaxOps
  <1>2. CASE thr[t].r \notin decayed /\ InsertEvent(t, thr[t].r)
    <2> DEFINE r == thr[t].r
               q == QueueOf(r)
    <2>1. r \in 1..MaxOps /\ r \in Nodes /\ fine[r] = 0 /\ r \in Nat /\ r \in submitted
        BY <1>1, <1>2, NoEventYet, Zenon DEF ThreadType, Inv, RequirementInv
    <2>2. q \in Queues
      <3>1. node[r] \in NodeType
          BY <2>1, ElementType, Zenon DEF Nodes, Inv, Typed
      <3> QED BY <3>1, Zenon DEF QueueOf, NodeType
    <2>3. Task("signal", r, 0) \in TaskType
        BY <2>1, Zenon DEF Task, TaskType, TaskKinds
    <2>4. tasks' \in [Queues -> Seq(TaskType)]
        BY <1>2, <2>2, <2>3, EnqueueTyped, Zenon DEF InsertEvent, Inv
    <2>5. /\ thr' = [thr EXCEPT ![t].pc = "publish"] /\ decayMutex' = decayMutex
          /\ fine' = [fine EXCEPT ![r] = Len(tasks[q]) + 1]
        BY <1>2, Zenon DEF InsertEvent
    <2>6. Len(tasks[q]) + 1 \in Nat
        BY <2>2 DEF Inv, Typed
    <2>7. Typed'
        BY <1>1, <2>1, <2>4, <2>5, <2>6, ZenonT(60) DEF Inv, Typed, ThreadType, Labels
    <2>8. OwnInv'
        BY <1>1, <2>5 DEF Inv, OwnInv, Active, ThreadType
    <2>9. RequirementInv'
        BY <1>1, <2>5, Zenon DEF Inv, RequirementInv, Active, ThreadType
    <2>10. LockInv'
        BY <1>1, <2>5 DEF Inv, LockInv, Decaying, ThreadType
    <2>11. FineInv'
      <3> SUFFICES ASSUME NEW n \in 1..MaxOps, fine'[n] # 0
                   PROVE  /\ n \in submitted
                          /\ node[n].coarse =>
                               n \in decayed \/ \E u \in Threads : thr'[u].pc = "publish" /\ thr'[u].r = n
          BY <1>1, Zenon DEF FineInv
      <3>1. CASE n = r
          BY <1>1, <2>1, <2>5, <3>1, Zenon DEF ThreadType
      <3>2. CASE n # r
        <4>1. fine[n] # 0
            BY <2>5, <3>2, Zenon DEF Inv, Typed
        <4> QED BY <1>1, <2>5, <4>1, Zenon DEF Inv, FineInv, ThreadType
      <3> QED BY <3>1, <3>2, Zenon
    <2> QED BY <2>7, <2>8, <2>9, <2>10, <2>11, Zenon DEF Inv
  <1>3. CASE thr[t].r \in decayed
    <2>1. /\ thr' = [thr EXCEPT ![t].pc = "use"] /\ decayMutex' = decayMutex \ {thr[t].r}
          /\ UNCHANGED <<fine, tasks>>
        BY <1>3, Zenon DEF Decay
    <2>2. Typed'
        BY <1>1, <2>1, ZenonT(60) DEF Inv, Typed, ThreadType, Labels
    <2>3. OwnInv'
        BY <1>1, <2>1, Zenon DEF Inv, OwnInv, Active, ThreadType
    <2>4. RequirementInv'
        BY <1>1, <2>1, Zenon DEF Inv, RequirementInv, Active, ThreadType
    <2>5. LockInv'
        BY <1>1, <2>1 DEF Inv, LockInv, Decaying, ThreadType
    <2>6. FineInv'
        BY <1>1, <2>1, Zenon DEF Inv, FineInv, ThreadType
    <2> QED BY <2>2, <2>3, <2>4, <2>5, <2>6, Zenon DEF Inv
  <1> QED BY <1>2, <1>3, Zenon DEF Decay

\* queue_completion_event.hpp:72-74: the event is announced, the mutex released.
LEMMA PublishPreserves == ASSUME NEW t \in Threads PROVE Inv /\ Publish(t) => Inv'
  <1> SUFFICES ASSUME Inv, Publish(t) PROVE Inv'
      BY Zenon
  <1>1. /\ thr \in [Threads -> ThreadType] /\ thr[t].pc = "publish"
        /\ thr' = [thr EXCEPT ![t].pc = "use"]
        /\ decayMutex' = decayMutex \ {thr[t].r} /\ decayed' = decayed \cup {thr[t].r}
        /\ UNCHANGED <<setup, node, submitted, fine, tasks>>
        /\ Nodes' = Nodes /\ MaxOps' = MaxOps
      BY Zenon DEF Inv, Typed, Publish, At, nodeVars, Nodes, MaxOps
  <1>2. Typed'
      BY <1>1, ZenonT(60) DEF Inv, Typed, ThreadType, Labels
  <1>3. OwnInv'
      BY <1>1, Zenon DEF Inv, OwnInv, Active, ThreadType
  <1>4. RequirementInv'
      BY <1>1, Zenon DEF Inv, RequirementInv, Active, ThreadType
  <1>5. LockInv'
      BY <1>1, Zenon DEF Inv, LockInv, Decaying, ThreadType
  <1>6. FineInv'
      BY <1>1, Zenon DEF Inv, FineInv, ThreadType
  <1> QED BY <1>2, <1>3, <1>4, <1>5, <1>6, Zenon DEF Inv

\* A node that is being submitted has no event yet.
LEMMA NoEventBeforeSubmission ==
    ASSUME NEW t \in Threads, Inv, thr[t].pc = "dispatched"
    PROVE  thr[t].n \in 1..MaxOps /\ thr[t].n \in Nodes \ submitted /\ fine[thr[t].n] = 0
  <1>1. thr[t].n \in Nodes \ submitted
      BY Zenon DEF Inv, OwnInv, Active
  <1>2. Len(node) \in Nat /\ MaxOps \in Nat /\ Len(node) <= MaxOps
      BY MaxOpsType DEF Inv, Typed
  <1>3. thr[t].n \in 1..MaxOps
      BY <1>1, <1>2 DEF Nodes
  <1> QED BY <1>1, <1>3, Zenon DEF Inv, FineInv

\* inorder_executor.cpp:180-185: the node gets its event and is submitted.
LEMMA MarkSubmittedPreserves == ASSUME NEW t \in Threads PROVE Inv /\ MarkSubmitted(t) => Inv'
  <1> SUFFICES ASSUME Inv, MarkSubmitted(t) PROVE Inv'
      BY Zenon
  <1> DEFINE n == thr[t].n
             q == QueueOf(n)
  <1>1. /\ thr \in [Threads -> ThreadType] /\ thr[t].pc = "dispatched"
        /\ thr' = [thr EXCEPT ![t] = Idle]
        /\ submitted' = submitted \cup {n}
        /\ UNCHANGED <<setup, node, decayed, decayMutex>>
        /\ Nodes' = Nodes /\ MaxOps' = MaxOps
      BY Zenon DEF Inv, Typed, MarkSubmitted, At, Nodes, MaxOps
  <1>2. n \in 1..MaxOps /\ n \in Nodes \ submitted /\ fine[n] = 0 /\ n \in Nat
      BY <1>1, NoEventBeforeSubmission, Zenon DEF ThreadType
  <1>3. Idle \in ThreadType /\ Idle.pc = "idle"
      BY Zenon DEF Idle, ThreadType, Labels
  <1>4. q \in Queues
    <2>1. node[n] \in NodeType
        BY <1>2, ElementType, Zenon DEF Nodes, Inv, Typed
    <2> QED BY <2>1, Zenon DEF QueueOf, NodeType
  <1>5. /\ fine' \in [1..MaxOps -> Nat]
        /\ \A m \in 1..MaxOps : m # n => fine'[m] = fine[m]
        /\ node[n].coarse => fine'[n] = 0
        /\ tasks' \in [Queues -> Seq(TaskType)]
    <2>1. CASE node[n].coarse
        BY <1>2, <2>1, Zenon DEF MarkSubmitted, Inv, Typed
    <2>2. CASE ~ node[n].coarse
      <3>1. /\ Enqueue(q, Task("signal", n, 0))
            /\ fine' = [fine EXCEPT ![n] = Len(tasks[q]) + 1]
          BY <2>2, Zenon DEF MarkSubmitted
      <3>2. Task("signal", n, 0) \in TaskType
          BY <1>2, Zenon DEF Task, TaskType, TaskKinds
      <3>3. tasks' \in [Queues -> Seq(TaskType)]
          BY <1>4, <3>1, <3>2, EnqueueTyped, Zenon DEF Inv
      <3>4. Len(tasks[q]) + 1 \in Nat
          BY <1>4 DEF Inv, Typed
      <3> QED BY <1>2, <2>2, <3>1, <3>3, <3>4, Zenon DEF Inv, Typed
    <2> QED BY <2>1, <2>2, Zenon
  <1>6. Typed'
      BY <1>1, <1>2, <1>3, <1>5, Zenon DEF Inv, Typed
  <1>7. OwnInv'
      BY <1>1, <1>3, Zenon DEF Inv, OwnInv, Active
  <1>8. RequirementInv'
      BY <1>1, <1>3, Zenon DEF Inv, RequirementInv, Active
  <1>9. LockInv'
      BY <1>1, <1>3, Zenon DEF Inv, LockInv, Decaying
  <1>10. FineInv'
      BY <1>1, <1>2, <1>3, <1>5 DEF Inv, FineInv
  <1> QED BY <1>6, <1>7, <1>8, <1>9, <1>10, Zenon DEF Inv

\* inorder_executor.cpp:160-164, 174-178: the node is cancelled.
LEMMA CancelPreserves == ASSUME NEW t \in Threads PROVE Inv /\ Cancel(t) => Inv'
  <1> SUFFICES ASSUME Inv, Cancel(t) PROVE Inv'
      BY Zenon
  <1>1. /\ thr \in [Threads -> ThreadType] /\ thr[t].pc \in {"sync", "use"}
        /\ thr' = [thr EXCEPT ![t] = Idle]
        /\ submitted' = submitted \cup {thr[t].n}
        /\ UNCHANGED <<setup, node, fine, decayed, decayMutex, tasks>>
        /\ Nodes' = Nodes /\ MaxOps' = MaxOps
      BY Zenon DEF Inv, Typed, Cancel, At, eventVars, Nodes, MaxOps
  <1>2. thr[t].n \in Nodes
      BY <1>1, Zenon DEF Inv, OwnInv, Active
  <1>3. Idle \in ThreadType /\ Idle.pc = "idle"
      BY Zenon DEF Idle, ThreadType, Labels
  <1>4. Typed'
      BY <1>1, <1>2, <1>3, Zenon DEF Inv, Typed
  <1>5. OwnInv'
      BY <1>1, <1>3, Zenon DEF Inv, OwnInv, Active
  <1>6. RequirementInv'
      BY <1>1, <1>3, Zenon DEF Inv, RequirementInv, Active
  <1>7. LockInv'
      BY <1>1, <1>3, Zenon DEF Inv, LockInv, Decaying
  <1>8. FineInv'
      BY <1>1, <1>3, Zenon DEF Inv, FineInv
  <1> QED BY <1>4, <1>5, <1>6, <1>7, <1>8, Zenon DEF Inv

\* dag_node.cpp:228-247: a thread waits for an event outside of submit().
LEMMA HostWaitPreserves ==
    ASSUME NEW t \in Threads
    PROVE  Inv /\ (HostWaitEnds(t) \/ \E n \in Nodes : HostWait(t, n)) => Inv'
  <1> SUFFICES ASSUME Inv, HostWaitEnds(t) \/ \E n \in Nodes : HostWait(t, n) PROVE Inv'
      BY Zenon
  <1>1. /\ thr \in [Threads -> ThreadType] /\ thr[t].pc \in {"idle", "wait"}
        /\ UNCHANGED <<setup, node, submitted, fine, decayed, decayMutex, tasks>>
        /\ Nodes' = Nodes /\ MaxOps' = MaxOps
      BY Zenon DEF Inv, Typed, HostWait, HostWaitEnds, At, nodeVars, eventVars, Nodes, MaxOps
  <1>2. /\ thr' = [thr EXCEPT ![t] = thr'[t]] /\ thr'[t] \in ThreadType
        /\ thr'[t].pc \in {"idle", "wait"}
    <2>1. CASE HostWaitEnds(t)
        BY <1>1, <2>1, Zenon DEF HostWaitEnds, Idle, ThreadType, Labels
    <2>2. ASSUME NEW n \in Nodes, HostWait(t, n)
          PROVE  /\ thr' = [thr EXCEPT ![t] = thr'[t]] /\ thr'[t] \in ThreadType
                 /\ thr'[t].pc \in {"idle", "wait"}
      <3>1. n \in Nat
          BY DEF Nodes, Inv, Typed
      <3>2. thr' = [thr EXCEPT ![t].pc = "wait", ![t].n = n] /\ thr[t] \in ThreadType
          BY <1>1, <2>2, ZenonT(60) DEF HostWait
      <3>3. thr'[t] = [thr[t] EXCEPT !.pc = "wait", !.n = n]
          BY <1>1, <3>2, Zenon
      <3>4. thr' = [thr EXCEPT ![t] = thr'[t]]
          BY <1>1, <3>2, <3>3, ZenonT(60)
      <3>5. thr'[t] \in ThreadType /\ thr'[t].pc = "wait"
        <4>1. thr'[t] = [pc |-> "wait", n |-> n, reqs |-> thr[t].reqs,
                         todo |-> thr[t].todo, r |-> thr[t].r]
            BY <3>2, <3>3, ZenonT(60) DEF ThreadType
        <4>2. thr[t].reqs \subseteq Nat /\ thr[t].todo \subseteq Nat /\ thr[t].r \in Nat
            BY <3>2, Zenon DEF ThreadType
        <4> QED BY <3>1, <4>1, <4>2 DEF ThreadType, Labels
      <3> QED BY <3>4, <3>5, Zenon
    <2> QED BY <2>1, <2>2, Zenon
  <1>3. Typed'
      BY <1>1, <1>2, Zenon DEF Inv, Typed
  <1>4. OwnInv'
      BY <1>1, <1>2, Zenon DEF Inv, OwnInv, Active
  <1>5. RequirementInv'
      BY <1>1, <1>2, Zenon DEF Inv, RequirementInv, Active
  <1>6. LockInv'
      BY <1>1, <1>2 DEF Inv, LockInv, Decaying
  <1>7. FineInv'
      BY <1>1, <1>2 DEF Inv, FineInv
  <1> QED BY <1>3, <1>4, <1>5, <1>6, <1>7, Zenon DEF Inv

-----------------------------------------------------------------------------

\* No node and no event exists at the beginning.
LEMMA InitEstablishes == Init => Inv
  <1> SUFFICES ASSUME Init PROVE Inv
      BY Zenon
  <1>1. setup \in Setups /\ MaxOps \in Nat
      BY MaxOpsType, Zenon DEF Init
  <1>2. Idle \in ThreadType /\ Idle.pc = "idle"
      BY Zenon DEF Idle, ThreadType, Labels
  <1>3. Typed
      BY <1>1, <1>2 DEF Init, Typed, Nodes
  <1>4. \A t \in Threads : thr[t].pc = "idle"
      BY <1>2, Zenon DEF Init
  <1>5. OwnInv /\ RequirementInv /\ LockInv
      BY <1>4, Zenon DEF OwnInv, RequirementInv, LockInv, Active, Decaying
  <1>6. FineInv
      BY Zenon DEF Init, FineInv
  <1> QED BY <1>3, <1>5, <1>6, Zenon DEF Inv

\* Every step preserves the invariant.
LEMMA NextPreserves == Inv /\ [Next]_vars => Inv'
  <1> SUFFICES ASSUME Inv, [Next]_vars PROVE Inv'
      BY Zenon
  <1>1. ASSUME NEW t \in Threads, SubmitStep(t) PROVE Inv'
      BY <1>1, SyncPreserves, UsePreserves, LockPreserves, DecayPreserves, PublishPreserves,
         MarkSubmittedPreserves, HostWaitPreserves, Zenon DEF SubmitStep
  <1>2. ASSUME NEW t \in Threads, Begin(t) \/ Cancel(t) \/ \E n \in Nodes : HostWait(t, n)
        PROVE  Inv'
      BY <1>2, BeginPreserves, CancelPreserves, HostWaitPreserves, Zenon
  <1>3. ASSUME NEW t \in Threads, NEW n \in Nodes, HostWaitReturns(t, n) PROVE Inv'
      BY <1>3, QuietPreserves, Zenon DEF HostWaitReturns, nodeVars, eventVars
  <1>4. ASSUME NEW q \in Queues, QueueStep(q) PROVE Inv'
      BY <1>4, QuietPreserves, Zenon DEF QueueStep, RunTask, StreamWaited, WaitReturns,
         WaitStarts, WaitEnds, nodeVars, eventVars
  <1>5. ASSUME NEW n \in Nodes, Query(n) PROVE Inv'
      BY <1>5, QuietPreserves, Zenon DEF Query, nodeVars, eventVars
  <1>6. CASE UNCHANGED vars
      BY <1>6, QuietPreserves, Zenon DEF vars
  <1> QED BY <1>1, <1>2, <1>3, <1>4, <1>5, <1>6, Zenon DEF Next, SpuriousWakeup, Terminated

\* Who holds a node, an event's mutex and its event, at all times.
THEOREM Invariance == Spec => []Inv
  BY InitEstablishes, NextPreserves, PTL DEF Spec

\* No step replaces a fine-grained event.
LEMMA EventStays ==
    ASSUME Inv, Next, NEW n \in 1..MaxOps, fine[n] # 0
    PROVE  fine'[n] = fine[n]
  <1>1. fine \in [1..MaxOps -> Nat]
      BY Zenon DEF Inv, Typed
  <1>2. ASSUME NEW t \in Threads, Decay(t) PROVE fine'[n] = fine[n]
    <2>1. thr[t].pc = "locked"
        BY <1>2, Zenon DEF Decay, At
    <2>2. CASE thr[t].r \notin decayed
        BY <1>1, <1>2, <2>1, <2>2, NoEventYet, ZenonT(60) DEF Decay, InsertEvent
    <2>3. CASE thr[t].r \in decayed
        BY <1>2, <2>3, Zenon DEF Decay
    <2> QED BY <2>2, <2>3, Zenon
  <1>3. ASSUME NEW t \in Threads, MarkSubmitted(t) PROVE fine'[n] = fine[n]
    <2>1. thr[t].pc = "dispatched"
        BY <1>3, Zenon DEF MarkSubmitted, At
    <2> QED BY <1>1, <1>3, <2>1, NoEventBeforeSubmission, ZenonT(60) DEF MarkSubmitted
  <1>4. ASSUME NEW t \in Threads, SubmitStep(t) PROVE fine'[n] = fine[n]
      BY <1>2, <1>3, <1>4, ZenonT(60) DEF SubmitStep, Skip, SubmitExternalWaitFor, OmpWaitFor,
         StreamWaitFor, LockDecay, Publish, UseEvent, Dispatch, HostWaitEnds, eventVars
  <1>5. ASSUME NEW t \in Threads,
               \/ Begin(t) \/ Cancel(t)
               \/ \E m \in Nodes : HostWait(t, m) \/ HostWaitReturns(t, m)
        PROVE  fine'[n] = fine[n]
      BY <1>5, Zenon DEF Begin, Cancel, HostWait, HostWaitReturns, eventVars
  <1>6. ASSUME NEW q \in Queues, QueueStep(q) PROVE fine'[n] = fine[n]
      BY <1>6, Zenon DEF QueueStep, RunTask, StreamWaited, WaitReturns, WaitStarts, WaitEnds,
         eventVars
  <1> QED BY <1>4, <1>5, <1>6, Zenon DEF Next, Query, SpuriousWakeup, Terminated, eventVars,
             vars

\* A coarse event decays to one fine-grained event for good, however many
\* threads ask for it at once (queue_completion_event.hpp:61-79).
THEOREM DecayCorrect == Spec => EventIsStable
  <1> DEFINE A == \A n \in 1..MaxOps : fine[n] # 0 => fine'[n] = fine[n]
  <1>1. Inv /\ [Next]_vars => [A]_vars
      BY EventStays, Zenon
  <1> QED BY <1>1, Invariance, PTL DEF Spec, EventIsStable

-----------------------------------------------------------------------------
(* The order of the operations                                             *)

WaitKinds == {"waitNode", "waitEvent", "streamWait"}
WaitType == [q : Queues \cup {"none"}, upto : Nat, drain : BOOLEAN]

\* Where the operation of node n is among the tasks of its queue.
Positions(n) ==
    {i \in 1..Len(tasks[QueueOf(n)]) :
        tasks[QueueOf(n)][i].do = "op" /\ tasks[QueueOf(n)][i].n = n}

\* Nodes whose operation has been enqueued for good.
Executable == submitted \ cancelled

StateInv ==
    /\ head \in [Queues -> Nat]
    /\ \A q \in Queues : head[q] <= Len(tasks[q])
    /\ waiting \in [Queues \cup Threads -> WaitType]
    /\ cancelled \subseteq submitted \cap known
    /\ known \subseteq submitted /\ finished \subseteq submitted
    /\ decayMutex \subseteq submitted

\* Requirements are older nodes, and the execution index counts the nodes of a queue.
NodeInv ==
    \A n \in Nodes :
        /\ node[n].reqs \subseteq 1..(n - 1)
        /\ node[n].reqs \subseteq submitted
        /\ node[n].index = Cardinality({k \in 1..(n - 1) : QueueOf(k) = QueueOf(n)}) + 1

\* The node in submission is the newest of its queue, which is locked meanwhile.
LaneInv ==
    \A t \in Threads : Active(t) =>
        \A k \in Nodes : QueueOf(k) = QueueOf(thr[t].n) => k <= thr[t].n

\* Whose tasks there are.
TaskInv ==
    \A q \in Queues : \A i \in 1..Len(tasks[q]) :
        LET task == tasks[q][i]
        IN  /\ task.n \in Nodes
            /\ task.do = "op" =>
                   /\ QueueOf(task.n) = q /\ task.n \notin cancelled
                   /\ \/ task.n \in submitted
                      \/ \E t \in Threads : thr[t].pc = "dispatched" /\ thr[t].n = task.n
            /\ task.do \in WaitKinds => task.n \in Executable
            /\ task.do = "streamWait" => task.at # 0 /\ task.at = fine[task.n]

\* What was submitted and not cancelled has been enqueued.
EnqueuedInv ==
    /\ \A n \in Executable : Positions(n) # {}
    /\ \A t \in Threads : thr[t].pc = "dispatched" => Positions(thr[t].n) # {}

\* A fine-grained event comes after the operation in its queue.
EventInv ==
    /\ \A n \in 1..MaxOps : fine[n] # 0 =>
           /\ n \in Executable
           /\ fine[n] <= Len(tasks[QueueOf(n)])
           /\ \E i \in Positions(n) : i < fine[n]
    /\ \A n \in Executable : HasFineEvent(n) => fine[n] # 0
    /\ decayed \subseteq Executable
    /\ \A t \in Threads : thr[t].pc \in {"publish", "use"} => fine[thr[t].r] # 0

\* The operations of a queue are enqueued in the order of the nodes.
OrderInv ==
    \A n, m \in Nodes : n < m /\ QueueOf(n) = QueueOf(m) =>
        \A i \in Positions(n), j \in Positions(m) : i < j

\* Queue q waits, before its i-th task, for node r or a later one of r's queue.
WaitsFor(q, r, i) ==
    \E j \in 1..Len(tasks[q]) :
        /\ j < i /\ tasks[q][j].do \in WaitKinds
        /\ QueueOf(tasks[q][j].n) = QueueOf(r) /\ r <= tasks[q][j].n

\* Node r will have been executed when queue q executes its i-th task.
Secured(q, r, i) == r \in Done \/ QueueOf(r) = q \/ WaitsFor(q, r, i)

SecuredInv ==
    \A q \in Queues : \A i \in 1..Len(tasks[q]) :
        tasks[q][i].do = "op" =>
            \A r \in node[tasks[q][i].n].reqs : r \in cancelled \/ Secured(q, r, i)

\* A submission leaves out what is complete, and has handled what is not in todo.
SyncInv ==
    \A t \in Threads : Active(t) =>
        LET n == thr[t].n
            reqs == thr[t].reqs
        IN  /\ reqs \subseteq node[n].reqs \ cancelled /\ thr[t].todo \subseteq reqs
            /\ node[n].reqs \ reqs \subseteq Done \cup cancelled
            /\ thr[t].pc \in {"lock", "locked", "publish", "use"} => thr[t].r \in reqs
            /\ \A r \in reqs \ thr[t].todo :
                   \/ ~ LastOfLane(r, reqs)
                   \/ Secured(QueueOf(n), r, Len(tasks[QueueOf(n)]) + 1)

\* A wait task that is finished has waited long enough.
WaitedInv ==
    \A q \in Queues : \A j \in 1..head[q] :
        tasks[q][j].do \in WaitKinds => tasks[q][j].n \in Done

\* Who waits as in w waits for the operation of node n.
Covers(w, n) == w.q = QueueOf(n) /\ \E i \in Positions(n) : i <= w.upto

BlockInv ==
    /\ \A q \in Queues : waiting[q] # NotWaiting =>
           Current(q, {"waitNode", "waitEvent"}) /\ Covers(waiting[q], CurrentTask(q).n)
    /\ \A t \in Threads : waiting[t] # NotWaiting => thr[t].pc = "wait"
    /\ \A t \in Threads : thr[t].pc = "wait" =>
           thr[t].n \in Executable /\ Covers(waiting[t], thr[t].n)

\* What counts as complete has been executed.
CompleteInv == known \subseteq Done \cup cancelled /\ finished \subseteq Done

Shape == StateInv /\ NodeInv /\ LaneInv
Placed == TaskInv /\ EnqueuedInv /\ EventInv /\ OrderInv
Waits == SecuredInv /\ SyncInv /\ WaitedInv /\ BlockInv /\ CompleteInv
OrderedInv == Inv /\ Shape /\ Placed /\ Waits

-----------------------------------------------------------------------------
(* What the invariant says about the properties                            *)

\* Types of the elements.
LEMMA Elements ==
    ASSUME Inv
    PROVE  /\ Len(node) \in Nat /\ Nodes = 1..Len(node) /\ submitted \subseteq Nodes
           /\ \A n \in Nodes : /\ QueueOf(n) \in Queues /\ n \in 1..MaxOps
                               /\ node[n] \in NodeType
           /\ \A q \in Queues : /\ tasks[q] \in Seq(TaskType) /\ Len(tasks[q]) \in Nat
                                /\ \A i \in 1..Len(tasks[q]) : tasks[q][i] \in TaskType
  <1>1. /\ node \in Seq(NodeType) /\ Len(node) <= MaxOps /\ MaxOps \in Nat
        /\ submitted \subseteq Nodes /\ tasks \in [Queues -> Seq(TaskType)]
      BY MaxOpsType, Zenon DEF Inv, Typed
  <1>2. \A n \in Nodes : node[n] \in NodeType /\ n \in 1..MaxOps
      BY <1>1, ElementType DEF Nodes
  <1>3. \A n \in Nodes : QueueOf(n) \in Queues
      BY <1>2, Zenon DEF QueueOf, NodeType
  <1>4. \A q \in Queues : tasks[q] \in Seq(TaskType) /\ Len(tasks[q]) \in Nat
      BY <1>1
  <1> QED BY <1>1, <1>2, <1>3, <1>4, ElementType DEF Nodes

\* An operation is done if its queue has passed one of its positions.
LEMMA DonePositions ==
    ASSUME Inv, StateInv, NEW n \in Nodes
    PROVE  n \in Done <=> \E i \in Positions(n) : i <= head[QueueOf(n)]
  <1>1. QueueOf(n) \in Queues /\ Len(tasks[QueueOf(n)]) \in Nat
      BY Elements, Zenon
  <1>2. head[QueueOf(n)] \in Nat /\ head[QueueOf(n)] <= Len(tasks[QueueOf(n)])
      BY <1>1, Zenon DEF StateInv
  <1> QED BY <1>1, <1>2 DEF Done, Positions

\* What was enqueued in a queue before something done is done.
LEMMA EarlierDone ==
    ASSUME Inv, StateInv, EnqueuedInv, OrderInv,
           NEW r \in Executable, NEW s \in Done, QueueOf(r) = QueueOf(s), r <= s
    PROVE  r \in Done
  <1>1. r \in Nodes /\ s \in Nodes /\ r \in Nat /\ s \in Nat
      BY Elements DEF Executable, Done
  <1>2. QueueOf(s) \in Queues /\ Len(tasks[QueueOf(s)]) \in Nat /\ head[QueueOf(s)] \in Nat
      BY <1>1, Elements, Zenon DEF StateInv
  <1>3. PICK j \in Positions(s) : j <= head[QueueOf(s)]
      BY <1>1, DonePositions, Zenon
  <1>4. PICK i \in Positions(r) : TRUE
      BY Zenon DEF EnqueuedInv
  <1>5. i \in Nat /\ j \in Nat
      BY <1>2 DEF Positions
  <1>6. CASE r = s
      BY <1>6, Zenon
  <1>7. CASE r < s
    <2>1. i < j
        BY <1>1, <1>7, Zenon DEF OrderInv
    <2> QED BY <2>1, <1>1, <1>2, <1>3, <1>5, DonePositions
  <1> QED BY <1>1, <1>6, <1>7

\* The queue has passed what secures a requirement: it is done.
LEMMA SecuredDone ==
    ASSUME Inv, StateInv, TaskInv, EnqueuedInv, OrderInv, WaitedInv,
           NEW n \in Done, NEW i \in Positions(n), i <= head[QueueOf(n)],
           NEW r \in Executable, r < n, Secured(QueueOf(n), r, i)
    PROVE  r \in Done
  <1>1. r \in Nodes /\ n \in Nodes /\ r \in Nat /\ n \in Nat
      BY Elements DEF Executable, Done
  <1>2. /\ QueueOf(n) \in Queues /\ Len(tasks[QueueOf(n)]) \in Nat
        /\ head[QueueOf(n)] \in Nat /\ i \in 1..Len(tasks[QueueOf(n)])
      BY <1>1, Elements, Zenon DEF StateInv, Positions
  <1>3. CASE QueueOf(r) = QueueOf(n)
      BY <1>1, <1>3, EarlierDone
  <1>4. CASE WaitsFor(QueueOf(n), r, i)
    <2>1. PICK j \in 1..Len(tasks[QueueOf(n)]) :
              /\ j < i /\ tasks[QueueOf(n)][j].do \in WaitKinds
              /\ QueueOf(tasks[QueueOf(n)][j].n) = QueueOf(r)
              /\ r <= tasks[QueueOf(n)][j].n
        BY <1>4, Zenon DEF WaitsFor
    <2>2. j \in 1..head[QueueOf(n)]
        BY <1>2, <2>1
    <2>3. tasks[QueueOf(n)][j].n \in Done
        BY <1>2, <2>1, <2>2, Zenon DEF WaitedInv
    <2> QED BY <2>1, <2>3, EarlierDone, Zenon
  <1> QED BY <1>3, <1>4, Zenon DEF Secured

\* The requirements of an executed operation have been executed or cancelled.
LEMMA InvRequirementsDone ==
    ASSUME Inv, StateInv, NodeInv, TaskInv, EnqueuedInv, OrderInv, WaitedInv, SecuredInv
    PROVE  RequirementsDone
  <1> SUFFICES ASSUME NEW n \in Done, NEW r \in node[n].reqs, r \notin cancelled
               PROVE  r \in Done
      BY Zenon DEF RequirementsDone
  <1>1. n \in Nodes /\ r \in 1..(n - 1) /\ r \in Executable /\ n \in Nat
    <2>1. n \in Nodes /\ n \in Nat
        BY Elements DEF Done
    <2>2. node[n].reqs \subseteq 1..(n - 1) /\ node[n].reqs \subseteq submitted
        BY <2>1, Zenon DEF NodeInv
    <2> QED BY <2>1, <2>2, Zenon DEF Executable
  <1>2. PICK i \in Positions(n) : i <= head[QueueOf(n)]
      BY <1>1, DonePositions, Zenon
  <1>3. Secured(QueueOf(n), r, i)
    <2>1. QueueOf(n) \in Queues
        BY <1>1, Elements, Zenon
    <2>2. /\ i \in 1..Len(tasks[QueueOf(n)]) /\ tasks[QueueOf(n)][i].do = "op"
          /\ tasks[QueueOf(n)][i].n = n
        BY Zenon DEF Positions
    <2> QED BY <2>1, <2>2, Zenon DEF SecuredInv
  <1> QED BY <1>1, <1>2, <1>3, SecuredDone

-----------------------------------------------------------------------------
(* Marking nodes as complete                                               *)

\* dag_node.cpp:228-247: what wait() marks lies in every set that contains the node
\* and, with a node not known to be complete, its requirements not known to be.
LEMMA MarkedByWaitWithin ==
    ASSUME NEW n \in Nat, NEW X, n \in X,
           \A j \in X \ known : node[j].reqs \ known \subseteq X
    PROVE  MarkedByWait(n) \subseteq X
  <1> DEFINE step(S) == S \cup {m \in Nodes \ known : \E j \in S : m \in node[j].reqs}
             F(g, m) == g = [k \in 0..m |-> IF k = 0 THEN {n} \ known ELSE step(g[k - 1])]
             level[k \in 0..n] ==
                IF k = 0 THEN {n} \ known
                ELSE level[k - 1] \cup
                     {m \in Nodes \ known : \E j \in level[k - 1] : m \in node[j].reqs}
  <1>1. MarkedByWait(n) = level[n] \cup {n}
      BY Zenon DEF MarkedByWait
  <1>2. \A m \in Nat : \E g : F(g, m)
    <2> DEFINE good == {m \in Nat : \E g : F(g, m)}
    <2>1. 0 \in good
      <3>1. F([k \in 0..0 |-> {n} \ known], 0)
          OBVIOUS
      <3> QED BY <3>1, Zenon
    <2>2. ASSUME NEW m \in Nat, m \in good PROVE m + 1 \in good
      <3>1. PICK g : F(g, m)
          BY <2>2, Zenon
      <3> DEFINE h == [k \in 0..(m + 1) |-> IF k = m + 1 THEN step(g[m]) ELSE g[k]]
      <3> HIDE DEF step
      <3>2. \A k \in 0..m : g[k] = IF k = 0 THEN {n} \ known ELSE step(g[k - 1])
          BY <3>1, Zenon
      <3>3. \A k \in 0..(m + 1) : h[k] = IF k = 0 THEN {n} \ known ELSE step(h[k - 1])
        <4>1. \A k \in 0..m : h[k] = g[k]
            OBVIOUS
        <4>2. h[m + 1] = step(g[m])
            OBVIOUS
        <4> HIDE DEF h
        <4> TAKE k \in 0..(m + 1)
        <4>3. CASE k = m + 1
            BY <4>1, <4>2, <4>3
        <4>4. CASE k \in 0..m /\ k # 0
          <5>1. k - 1 \in 0..m
              BY <4>4
          <5> QED BY <3>2, <4>1, <4>4, <5>1, Zenon
        <4>5. CASE k = 0
            BY <3>2, <4>1, <4>5
        <4> QED BY <4>3, <4>4, <4>5
      <3>4. h = [k \in 0..(m + 1) |-> h[k]]
          BY Zenon
      <3> HIDE DEF h
      <3>5. F(h, m + 1)
          BY <3>3, <3>4, Zenon
      <3> QED BY <3>5
    <2> HIDE DEF good
    <2>3. Nat \subseteq good
        BY <2>1, <2>2, SetInduction, Zenon
    <2> QED BY <2>3, Zenon DEF good
  <1>3. F(level, n)
    <2>1. level = CHOOSE g : F(g, n)
        BY Zenon
    <2> HIDE DEF level, F
    <2> QED BY <1>2, <2>1, Zenon
  <1>4. \A k \in 0..n : level[k] = IF k = 0 THEN {n} \ known ELSE step(level[k - 1])
    <2> HIDE DEF level, step
    <2> QED BY <1>3, Zenon
  <1> HIDE DEF level
  <1>5. \A k \in 0..n : level[k] \subseteq X \ known
    <2> DEFINE good == {k \in Nat : k \in 0..n => level[k] \subseteq X \ known}
    <2>1. 0 \in good
        BY <1>4, Zenon
    <2>2. ASSUME NEW k \in Nat, k \in good PROVE k + 1 \in good
      <3> SUFFICES ASSUME k + 1 \in 0..n PROVE level[k + 1] \subseteq X \ known
          OBVIOUS
      <3>1. level[k] \subseteq X \ known
          BY <2>2
      <3>2. level[k + 1] = step(level[k])
        <4> HIDE DEF step
        <4>1. k + 1 # 0 /\ (k + 1) - 1 = k
            OBVIOUS
        <4> QED BY <1>4, <4>1, Zenon
      <3>3. step(level[k]) \subseteq X \ known
          BY <3>1, Zenon
      <3> QED BY <3>2, <3>3, Zenon
    <2> HIDE DEF good
    <2>3. Nat \subseteq good
        BY <2>1, <2>2, SetInduction, Zenon
    <2> QED BY <2>3 DEF good
  <1> QED BY <1>1, <1>5

-----------------------------------------------------------------------------
(* Which steps change what                                                 *)

EnqueuesWait(t) == \E r \in thr[t].todo : SubmitExternalWaitFor(t, r) \/ OmpWaitFor(t, r)
Steps == Next \/ UNCHANGED vars

\* Nodes are created when a submission begins.
LEMMA NodeChange == Steps => UNCHANGED <<setup, node>> \/ \E t \in Threads : Begin(t)
  BY Zenon DEF Steps, Next, SubmitStep, Skip, SubmitExternalWaitFor, OmpWaitFor,
     StreamWaitFor, LockDecay, Decay, Publish, UseEvent, Dispatch, MarkSubmitted,
     HostWaitEnds, Cancel, HostWait, HostWaitReturns, QueueStep, RunTask, StreamWaited,
     WaitReturns, WaitStarts, WaitEnds, Query, SpuriousWakeup, Terminated, vars, nodeVars

\* Nodes become submitted at the end of submit(), or when they are cancelled.
LEMMA SubmittedChange ==
    Steps => \/ UNCHANGED <<submitted, cancelled>>
             \/ \E t \in Threads : MarkSubmitted(t) \/ Cancel(t)
  BY Zenon DEF Steps, Next, Begin, SubmitStep, Skip, SubmitExternalWaitFor, OmpWaitFor,
     StreamWaitFor, LockDecay, Decay, Publish, UseEvent, Dispatch, HostWaitEnds, HostWait,
     HostWaitReturns, QueueStep, RunTask, StreamWaited, WaitReturns, WaitStarts, WaitEnds,
     Query, SpuriousWakeup, Terminated, vars, nodeVars

\* Queues receive waits, events and operations from submitting threads only.
LEMMA TasksChange ==
    Steps => \/ UNCHANGED <<tasks, fine>>
             \/ \E t \in Threads : \/ EnqueuesWait(t) \/ Decay(t) \/ UseEvent(t)
                                   \/ Dispatch(t) \/ MarkSubmitted(t)
  BY Zenon DEF Steps, Next, Begin, SubmitStep, Skip, EnqueuesWait, StreamWaitFor, LockDecay,
     Publish, HostWaitEnds, Cancel, HostWait, HostWaitReturns, QueueStep, RunTask,
     StreamWaited, WaitReturns, WaitStarts, WaitEnds, Query, SpuriousWakeup, Terminated, vars,
     eventVars

\* Coarse events change in the three steps of their decay.
LEMMA EventsChange ==
    Steps => \/ UNCHANGED <<decayed, decayMutex>>
             \/ \E t \in Threads : LockDecay(t) \/ Decay(t) \/ Publish(t)
  BY Zenon DEF Steps, Next, Begin, SubmitStep, Skip, SubmitExternalWaitFor, OmpWaitFor,
     StreamWaitFor, UseEvent, Dispatch, MarkSubmitted, HostWaitEnds, Cancel, HostWait,
     HostWaitReturns, QueueStep, RunTask, StreamWaited, WaitReturns, WaitStarts, WaitEnds,
     Query, SpuriousWakeup, Terminated, vars, eventVars

\* A queue advances when it has executed a task or its wait has ended.
LEMMA HeadChange ==
    Steps => \/ UNCHANGED head
             \/ \E q \in Queues : RunTask(q) \/ StreamWaited(q) \/ WaitReturns(q) \/ WaitEnds(q)
  BY Zenon DEF Steps, Next, Begin, SubmitStep, Skip, SubmitExternalWaitFor, OmpWaitFor,
     StreamWaitFor, LockDecay, Decay, Publish, UseEvent, Dispatch, MarkSubmitted,
     HostWaitEnds, Cancel, HostWait, HostWaitReturns, QueueStep, WaitStarts, Query,
     SpuriousWakeup, Terminated, vars

\* Threads and queues alone begin and end their own waits.
LEMMA WaitingChange ==
    Steps => \/ UNCHANGED waiting
             \/ \E t \in Threads : HostWaitEnds(t) \/ \E n \in Nodes : HostWait(t, n)
             \/ \E q \in Queues : WaitStarts(q) \/ WaitEnds(q)
  BY Zenon DEF Steps, Next, Begin, SubmitStep, Skip, SubmitExternalWaitFor, OmpWaitFor,
     StreamWaitFor, LockDecay, Decay, Publish, UseEvent, Dispatch, MarkSubmitted, Cancel,
     HostWaitReturns, QueueStep, RunTask, StreamWaited, WaitReturns, Query, SpuriousWakeup,
     Terminated, vars

\* Nodes count as complete after a wait or a query, or when cancelled.
LEMMA CompleteChange ==
    Steps => \/ UNCHANGED <<known, finished>>
             \/ \E t \in Threads : \/ Cancel(t) \/ HostWaitEnds(t)
                                   \/ \E n \in Nodes : HostWaitReturns(t, n)
             \/ \E q \in Queues : WaitReturns(q) \/ WaitEnds(q)
             \/ \E n \in Nodes : Query(n)
  BY Zenon DEF Steps, Next, Begin, SubmitStep, Skip, SubmitExternalWaitFor, OmpWaitFor,
     StreamWaitFor, LockDecay, Decay, Publish, UseEvent, Dispatch, MarkSubmitted, HostWait,
     QueueStep, RunTask, StreamWaited, WaitStarts, SpuriousWakeup, Terminated, vars

\* What a thread remembers of its submission changes with its own steps.
LEMMA ThreadChange ==
    Steps => \/ UNCHANGED thr
             \/ \E t \in Threads :
                    \/ Begin(t) \/ Cancel(t) \/ \E n \in Nodes : HostWait(t, n)
                    \/ SubmitStep(t)
  BY Zenon DEF Steps, Next, HostWaitReturns, QueueStep, RunTask, StreamWaited, WaitReturns,
     WaitStarts, WaitEnds, Query, SpuriousWakeup, Terminated, vars

\* A thread changes its own state only.
LEMMA OwnStep ==
    ASSUME Inv, Steps, NEW u \in Threads
    PROVE  \/ thr'[u] = thr[u]
           \/ Begin(u) \/ Cancel(u) \/ \E n \in Nodes : HostWait(u, n)
           \/ SubmitStep(u)
  <1>1. thr \in [Threads -> ThreadType]
      BY Zenon DEF Inv, Typed
  <1>2. ASSUME NEW t \in Threads, t # u,
               \/ Begin(t) \/ Cancel(t) \/ \E n \in Nodes : HostWait(t, n)
               \/ SubmitStep(t)
        PROVE  thr'[u] = thr[u]
      BY <1>1, <1>2, Zenon DEF Begin, Cancel, HostWait, SubmitStep, Skip,
         SubmitExternalWaitFor, OmpWaitFor, StreamWaitFor, LockDecay, Decay, InsertEvent,
         Publish, UseEvent, Dispatch, MarkSubmitted, HostWaitEnds, RequirementHandled
  <1> QED BY <1>2, ThreadChange, Zenon

\* What a thread inside submit() can do.
LEMMA SubmissionStep ==
    ASSUME Inv, Steps, NEW u \in Threads, Active(u)', ~ Begin(u)
    PROVE  /\ Active(u) /\ thr'[u].n = thr[u].n /\ thr'[u].reqs = thr[u].reqs
           /\ \/ thr'[u] = thr[u]
              \/ /\ thr[u].pc # "dispatched"
                 /\ \/ \E r \in thr[u].todo : Skip(u, r) \/ StreamWaitFor(u, r)
                    \/ EnqueuesWait(u) \/ LockDecay(u) \/ Decay(u) \/ Publish(u)
                    \/ UseEvent(u) \/ Dispatch(u)
  <1>1. thr \in [Threads -> ThreadType] /\ thr[u] \in ThreadType
      BY Zenon DEF Inv, Typed
  <1>2. ~ (Cancel(u) \/ MarkSubmitted(u) \/ HostWaitEnds(u) \/ \E n \in Nodes : HostWait(u, n))
    <2>1. ASSUME Cancel(u) \/ MarkSubmitted(u) \/ HostWaitEnds(u) PROVE thr'[u].pc = "idle"
      <3>1. thr' = [thr EXCEPT ![u] = Idle]
          BY <2>1, Zenon DEF Cancel, MarkSubmitted, HostWaitEnds
      <3>2. Idle.pc = "idle"
          BY Zenon DEF Idle
      <3> QED BY ONLY <1>1, <3>1, <3>2, u \in Threads, Zenon
    <2>2. ASSUME NEW n \in Nodes, HostWait(u, n) PROVE thr'[u].pc = "wait"
        BY <1>1, <2>2, Zenon DEF HostWait, ThreadType
    <2> QED BY <2>1, <2>2, Zenon DEF Active
  <1>3. CASE thr'[u] = thr[u]
      BY <1>3, Zenon DEF Active
  <1>4. CASE \E r \in thr[u].todo : Skip(u, r) \/ StreamWaitFor(u, r)
    <2>1. PICK r \in thr[u].todo : Skip(u, r) \/ StreamWaitFor(u, r)
        BY <1>4, Zenon
    <2>2. thr'[u].n = thr[u].n /\ thr'[u].reqs = thr[u].reqs
        BY <1>1, <2>1 DEF Skip, StreamWaitFor, RequirementHandled, ThreadType
    <2>3. thr[u].pc = "sync"
        BY <2>1, Zenon DEF Skip, StreamWaitFor, SyncStep, At
    <2> QED BY <1>4, <2>2, <2>3, Zenon DEF Active
  <1>5. CASE EnqueuesWait(u)
    <2>1. PICK r \in thr[u].todo : SubmitExternalWaitFor(u, r) \/ OmpWaitFor(u, r)
        BY <1>5, Zenon DEF EnqueuesWait
    <2>2. thr'[u].n = thr[u].n /\ thr'[u].reqs = thr[u].reqs
        BY <1>1, <2>1 DEF SubmitExternalWaitFor, OmpWaitFor, RequirementHandled, ThreadType
    <2>3. thr[u].pc = "sync"
        BY <2>1, Zenon DEF SubmitExternalWaitFor, OmpWaitFor, SyncStep, At
    <2> QED BY <1>5, <2>2, <2>3, Zenon DEF Active
  <1>6. CASE LockDecay(u) \/ Decay(u) \/ Publish(u) \/ UseEvent(u) \/ Dispatch(u)
    <2>1. thr'[u].n = thr[u].n /\ thr'[u].reqs = thr[u].reqs
        BY <1>1, <1>6 DEF LockDecay, Decay, InsertEvent, Publish, UseEvent, Dispatch,
           RequirementHandled, ThreadType
    <2>2. thr[u].pc \in {"lock", "locked", "publish", "use", "sync"}
        BY <1>6, Zenon DEF LockDecay, Decay, Publish, UseEvent, Dispatch, At
    <2> QED BY <1>6, <2>1, <2>2, Zenon DEF Active
  <1> QED BY <1>2, <1>3, <1>4, <1>5, <1>6, OwnStep, Zenon DEF SubmitStep, EnqueuesWait

\* Why task is appended to queue q.
Cause(q, task) ==
    \/ task.do = "signal" /\ task.n \in Nodes
    \/ \E t \in Threads :
          /\ q = QueueOf(thr[t].n) /\ thr[t].pc = "sync"
          /\ task.do \in {"waitNode", "waitEvent"} /\ task.n \in thr[t].todo \ known
          /\ thr' = [thr EXCEPT ![t].todo = @ \ {task.n}, ![t].pc = "sync", ![t].r = 0]
    \/ \E t \in Threads :
          /\ UseEvent(t) /\ q = QueueOf(thr[t].n)
          /\ task = Task("streamWait", thr[t].r, fine[thr[t].r])
    \/ \E t \in Threads :
          Dispatch(t) /\ q = QueueOf(thr[t].n) /\ task = Task("op", thr[t].n, 0)

\* Tasks are appended one at a time.
LEMMA NewTask ==
    ASSUME Inv, Steps, NEW q \in Queues
    PROVE  \/ tasks'[q] = tasks[q]
           \/ \E task \in TaskType : tasks'[q] = Append(tasks[q], task) /\ Cause(q, task)
  <1>1. /\ tasks \in [Queues -> Seq(TaskType)] /\ fine \in [1..MaxOps -> Nat]
        /\ thr \in [Threads -> ThreadType] /\ submitted \subseteq Nodes
        /\ \A n \in Nodes : n \in 1..MaxOps
      BY Elements, Zenon DEF Inv, Typed
  <1> DEFINE Good(task) == task \in TaskType /\ Cause(q, task)
  <1>2. ASSUME NEW p, NEW task, Enqueue(p, task), p = q => Good(task)
        PROVE  tasks'[q] = tasks[q] \/ (tasks'[q] = Append(tasks[q], task) /\ Good(task))
      BY <1>1, <1>2, Zenon DEF Enqueue
  <1> HIDE DEF Good
  <1>3. ASSUME NEW t \in Threads, NEW r \in thr[t].todo,
               SubmitExternalWaitFor(t, r) \/ OmpWaitFor(t, r)
        PROVE  \E task : \/ tasks'[q] = tasks[q]
                         \/ tasks'[q] = Append(tasks[q], task) /\ Good(task)
    <2>1. PICK do \in {"waitNode", "waitEvent"} : Enqueue(QueueOf(thr[t].n), Task(do, r, 0))
        BY <1>3, Zenon DEF SubmitExternalWaitFor, OmpWaitFor
    <2>2. r \notin known
        BY <1>3, Zenon DEF SubmitExternalWaitFor, OmpWaitFor, SyncStep, WayToWait
    <2>3. r \in Nat
        BY <1>1, Zenon DEF ThreadType
    <2>4. Task(do, r, 0) \in TaskType
        BY <2>3, Zenon DEF Task, TaskType, TaskKinds
    <2>5. ASSUME QueueOf(thr[t].n) = q PROVE Cause(q, Task(do, r, 0))
      <3>1. thr[t].pc = "sync"
          BY <1>3, Zenon DEF SubmitExternalWaitFor, OmpWaitFor, SyncStep, At
      <3>2. thr' = [thr EXCEPT ![t].todo = @ \ {r}, ![t].pc = "sync", ![t].r = 0]
          BY <1>3, Zenon DEF SubmitExternalWaitFor, OmpWaitFor, RequirementHandled
      <3>3. Task(do, r, 0).do = do /\ Task(do, r, 0).n = r
          BY Zenon DEF Task
      <3> QED BY <2>2, <2>5, <3>1, <3>2, <3>3, Zenon DEF Cause
    <2> QED BY <1>2, <2>1, <2>4, <2>5, Zenon DEF Good
  <1>4. ASSUME NEW t \in Threads, Decay(t)
        PROVE  \E task : \/ tasks'[q] = tasks[q]
                         \/ tasks'[q] = Append(tasks[q], task) /\ Good(task)
    <2>1. CASE thr[t].r \in decayed
        BY <1>4, <2>1, Zenon DEF Decay
    <2>2. CASE thr[t].r \notin decayed
      <3>1. thr[t].r \in Nodes /\ thr[t].r \in Nat
          BY <1>1, <1>4, <2>2, NoEventYet DEF Decay, At
      <3>2. Enqueue(QueueOf(thr[t].r), Task("signal", thr[t].r, 0))
          BY <1>4, <2>2, Zenon DEF Decay, InsertEvent
      <3>3. Good(Task("signal", thr[t].r, 0))
          BY <3>1, Zenon DEF Good, Task, TaskType, TaskKinds, Cause
      <3> QED BY <1>2, <3>2, <3>3, Zenon
    <2> QED BY <2>1, <2>2, Zenon
  <1>5. ASSUME NEW t \in Threads, UseEvent(t)
        PROVE  \E task : \/ tasks'[q] = tasks[q]
                         \/ tasks'[q] = Append(tasks[q], task) /\ Good(task)
    <2>1. thr[t].r \in submitted
        BY <1>5, Zenon DEF UseEvent, At, Inv, RequirementInv
    <2>2. thr[t].r \in Nat /\ fine[thr[t].r] \in Nat
        BY <1>1, <2>1, Zenon DEF ThreadType
    <2>3. Task("streamWait", thr[t].r, fine[thr[t].r]) \in TaskType
        BY <2>2, Zenon DEF Task, TaskType, TaskKinds
    <2> QED BY <1>2, <1>5, <2>3, Zenon DEF Good, UseEvent, Cause
  <1>6. ASSUME NEW t \in Threads, Dispatch(t)
        PROVE  \E task : \/ tasks'[q] = tasks[q]
                         \/ tasks'[q] = Append(tasks[q], task) /\ Good(task)
    <2>1. Task("op", thr[t].n, 0) \in TaskType
        BY <1>1, Zenon DEF ThreadType, Task, TaskType, TaskKinds
    <2> QED BY <1>2, <1>6, <2>1, Zenon DEF Good, Dispatch, Cause
  <1>7. ASSUME NEW t \in Threads, MarkSubmitted(t)
        PROVE  \E task : \/ tasks'[q] = tasks[q]
                         \/ tasks'[q] = Append(tasks[q], task) /\ Good(task)
    <2>1. CASE node[thr[t].n].coarse
        BY <1>7, <2>1, Zenon DEF MarkSubmitted
    <2>2. CASE ~ node[thr[t].n].coarse
      <3>1. thr[t].n \in Nodes /\ thr[t].n \in Nat
          BY <1>1, <1>7, NoEventBeforeSubmission DEF MarkSubmitted, At
      <3>2. Enqueue(QueueOf(thr[t].n), Task("signal", thr[t].n, 0))
          BY <1>7, <2>2, Zenon DEF MarkSubmitted
      <3>3. Good(Task("signal", thr[t].n, 0))
          BY <3>1, Zenon DEF Good, Task, TaskType, TaskKinds, Cause
      <3> QED BY <1>2, <3>2, <3>3, Zenon
    <2> QED BY <2>1, <2>2, Zenon
  <1> QED BY <1>3, <1>4, <1>5, <1>6, <1>7, TasksChange, Zenon DEF EnqueuesWait, Good

\* The operations that have happened stay.
LEMMA Persist ==
    ASSUME Inv, StateInv, Inv', Steps
    PROVE  /\ Nodes \subseteq Nodes' /\ submitted \subseteq submitted'
           /\ \A n \in Nodes : node'[n] = node[n] /\ QueueOf(n)' = QueueOf(n)
           /\ \A q \in Queues :
                  /\ Len(tasks[q]) <= Len(tasks'[q])
                  /\ \A i \in 1..Len(tasks[q]) : tasks'[q][i] = tasks[q][i]
                  /\ head'[q] \in Nat /\ head[q] <= head'[q] /\ head'[q] <= Len(tasks'[q])
           /\ head' \in [Queues -> Nat]
  <1>1. Nodes \subseteq Nodes' /\ \A n \in Nodes : node'[n] = node[n]
    <2>1. node \in Seq(NodeType)
        BY Zenon DEF Inv, Typed
    <2>2. ASSUME NEW t \in Threads, Begin(t) PROVE \E new : node' = Append(node, new)
        BY <2>2, Zenon DEF Begin
    <2>3. ASSUME NEW new, node' = Append(node, new)
          PROVE  Nodes \subseteq Nodes' /\ \A n \in Nodes : node'[n] = node[n]
        BY <2>1, <2>3 DEF Nodes
    <2> QED BY <2>2, <2>3, NodeChange, Zenon DEF Nodes
  <1>2. submitted \subseteq submitted'
      BY SubmittedChange, Zenon DEF MarkSubmitted, Cancel
  <1>3. ASSUME NEW q \in Queues
        PROVE  /\ Len(tasks[q]) <= Len(tasks'[q])
               /\ \A i \in 1..Len(tasks[q]) : tasks'[q][i] = tasks[q][i]
    <2>1. tasks[q] \in Seq(TaskType) /\ Len(tasks[q]) \in Nat
        BY Elements, Zenon
    <2>2. ASSUME NEW task, tasks'[q] = Append(tasks[q], task)
          PROVE  /\ Len(tasks[q]) <= Len(tasks'[q])
                 /\ \A i \in 1..Len(tasks[q]) : tasks'[q][i] = tasks[q][i]
        BY <2>1, <2>2
    <2> QED BY <2>1, <2>2, NewTask
  <1>4. /\ head' \in [Queues -> Nat]
        /\ \A q \in Queues : head[q] <= head'[q] /\ head'[q] <= Len(tasks'[q])
    <2>1. /\ head \in [Queues -> Nat]
          /\ \A q \in Queues : /\ head[q] <= Len(tasks[q]) /\ Len(tasks[q]) \in Nat
                               /\ Len(tasks'[q]) \in Nat
        BY Elements DEF StateInv, Inv, Typed
    <2>2. CASE UNCHANGED head
        BY <1>3, <2>1, <2>2
    <2>3. ASSUME NEW q \in Queues, RunTask(q) \/ StreamWaited(q) \/ WaitReturns(q) \/ WaitEnds(q)
          PROVE  /\ head' \in [Queues -> Nat]
                 /\ \A p \in Queues : head[p] <= head'[p] /\ head'[p] <= Len(tasks'[p])
      <3>1. head' = [head EXCEPT ![q] = @ + 1] /\ head[q] < Len(tasks[q]) /\ tasks' = tasks
          BY <2>3, Zenon DEF RunTask, StreamWaited, WaitReturns, WaitEnds, TaskDone, Current
      <3> QED BY <2>1, <3>1
    <2> QED BY <2>2, <2>3, HeadChange, Zenon
  <1> QED BY <1>1, <1>2, <1>3, <1>4, Zenon DEF QueueOf

\* Enqueued operations stay where they are, and executed ones executed.
LEMMA Monotone ==
    ASSUME Inv, StateInv, Inv', Steps
    PROVE  /\ \A n \in Nodes : Positions(n) \subseteq Positions(n)'
           /\ Done \subseteq Done'
  <1>1. ASSUME NEW n \in Nodes
        PROVE  /\ QueueOf(n) \in Queues /\ QueueOf(n)' = QueueOf(n)
               /\ Len(tasks[QueueOf(n)]) \in Nat /\ Len(tasks'[QueueOf(n)]) \in Nat
               /\ Len(tasks[QueueOf(n)]) <= Len(tasks'[QueueOf(n)])
               /\ \A i \in 1..Len(tasks[QueueOf(n)]) :
                     tasks'[QueueOf(n)][i] = tasks[QueueOf(n)][i]
    <2>1. QueueOf(n) \in Queues /\ QueueOf(n)' = QueueOf(n)
        BY Elements, Persist, Zenon
    <2>2. tasks' \in [Queues -> Seq(TaskType)]
        BY Zenon DEF Inv, Typed
    <2> QED BY <2>1, <2>2, Elements, Persist
  <1>2. \A n \in Nodes : Positions(n) \subseteq Positions(n)'
      BY <1>1 DEF Positions
  <1>3. ASSUME NEW n \in Done PROVE n \in Done'
    <2>1. n \in Nodes /\ n \in Nodes'
        BY Persist, Zenon DEF Done
    <2>2. PICK i \in Positions(n) : i <= head[QueueOf(n)]
        BY <2>1, DonePositions, Zenon
    <2>3. i \in Positions(n)' /\ i \in Nat
        BY <1>1, <1>2, <2>1 DEF Positions
    <2>4. head[QueueOf(n)] \in Nat /\ head'[QueueOf(n)] \in Nat /\ i <= head'[QueueOf(n)]
        BY <1>1, <2>1, <2>2, <2>3, Persist DEF StateInv
    <2>5. i \in 1..head'[QueueOf(n)] /\ tasks'[QueueOf(n)][i].do = "op"
          /\ tasks'[QueueOf(n)][i].n = n
        BY <1>1, <2>1, <2>3, <2>4 DEF Positions
    <2> QED BY <1>1, <2>1, <2>5, Zenon DEF Done
  <1> QED BY <1>2, <1>3, Zenon
=============================================================================
