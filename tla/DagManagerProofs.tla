-------------------------- MODULE DagManagerProofs --------------------------
(***************************************************************************)
(* Safety of DagManager for every set of threads and every number of       *)
(* nodes; then of the WorkerThread on which its submitted operations are   *)
(* collected.                                                              *)
(***************************************************************************)
EXTENDS DagManager, Sequences, TLAPS

\* A thread holds the mutex exactly while it is inside flush().
MutexInv == \A t \in Threads : pc[t] \in FlushLabels <=> mutex = t

\* What flush() has achieved: outside of it, everything taken out of the builder
\* is submitted and registered; inside, the thread's position tells how much is.
Settled == submitted = 1..dagFrom /\ 1..dagFrom \subseteq ops \cup complete

InsideBatch(t) == from[t] <= at[t] /\ at[t] < upTo[t] /\ upTo[t] = dagFrom

FlushInv ==
    /\ mutex = None => Settled
    /\ \A t \in Threads :
         /\ pc[t] \in FlushLabels \ {"schedule", "register"} => Settled
         /\ pc[t] = "schedule" => /\ InsideBatch(t)
                                  /\ submitted = 1..at[t]
                                  /\ 1..from[t] \subseteq ops \cup complete
         /\ pc[t] = "register" => /\ InsideBatch(t)
                                  /\ submitted = 1..dagFrom
                                  /\ 1..at[t] \subseteq ops \cup complete

\* Only queue::wait() and host accessors call flush_and_gc(), and only the former
\* goes on to copy the list.
CallerInv ==
    \A t \in Threads :
        /\ pc[t] \in {"checkSize", "checkUpdater", "enqueue"} => op[t] # "submit"
        /\ pc[t] = "copyGroup" => op[t] = "wait"
        /\ nested[t] => pc[t] \in FlushLabels \cup {"lock"} /\ op[t] # "submit"

\* Nodes of a thread that are still in the builder will be taken out by the
\* flush() of the thread itself at the latest.
BuiltInv ==
    \A t \in Threads :
        built[t] \subseteq 1..dagFrom \/ pc[t] \in {"lock", "checkSize", "finishAndReset"}

Ensured(t) == built[t] \subseteq submitted /\ built[t] \subseteq ops \cup complete

EnsuredInv ==
    \A t \in Threads :
        op[t] = "wait" \/ pc[t] \in {"idle", "copyGroup", "wait", "waited"} => Ensured(t)

\* What a thread has yet to wait for covers what it must not miss.
WaitInv ==
    \A t \in Threads :
        /\ op[t] = "wait" /\ pc[t] = "wait" => built[t] \subseteq waitSet[t] \cup complete
        /\ op[t] = "wait" /\ pc[t] = "waited" => built[t] \subseteq complete
        /\ op[t] = "host" =>
             \E n \in built[t] : /\ \A m \in built[t] : m <= n
                                 /\ n \in waitSet[t] \cup complete
        /\ op[t] = "host" /\ pc[t] = "waited" => waitSet[t] = {}
        /\ op[t] = "submit" => pc[t] \notin {"wait", "waited"}

GcInv == gcPc = "wait" => tasks > 0

Inv == TypeOK /\ MutexInv /\ FlushInv /\ CallerInv /\ BuiltInv /\ EnsuredInv /\ WaitInv /\ GcInv


\* Building a node preserves the invariant: the node is beyond dagFrom, and its
\* thread goes on to flush().
LEMMA AddNodePreserves ==
    ASSUME Inv, NEW t \in Threads, AddNode(t) PROVE Inv'
<1> USE ManagerAssumption DEF Inv, AddNode, Goto, Nodes, FlushLabels, Labels,
            threadVars, batchVars, gcVars
<1>1. TypeOK'
  <2>1. created' \in Nat /\ dagFrom' \in 0..created' /\ Nodes \subseteq Nodes'
    BY DEF TypeOK
  <2>2. built' \in [Threads -> SUBSET Nodes'] /\ waitSet' \in [Threads -> SUBSET Nodes']
    BY <2>1 DEF TypeOK
  <2> QED
    BY <2>1, <2>2 DEF TypeOK
<1>2. MutexInv' /\ FlushInv'
  <2>1. MutexInv'
    BY DEF TypeOK, MutexInv
  <2>2. FlushInv'
    BY DEF TypeOK, MutexInv, FlushInv, Settled, InsideBatch
  <2> QED
    BY <2>1, <2>2
<1>3. CallerInv' /\ BuiltInv' /\ EnsuredInv'
  <2>1. CallerInv'
    BY DEF TypeOK, CallerInv
  <2>2. BuiltInv'
    BY DEF TypeOK, BuiltInv
  <2>3. EnsuredInv'
    BY SMTT(30) DEF TypeOK, FlushInv, Settled, CallerInv, BuiltInv, EnsuredInv, Ensured
  <2> QED
    BY <2>1, <2>2, <2>3
<1>4. WaitInv' /\ GcInv'
  BY DEF TypeOK, CallerInv, EnsuredInv, Ensured, WaitInv, GcInv
<1> QED
  BY <1>1, <1>2, <1>3, <1>4

\* Entering queue::wait() preserves it: the caller comes from an ensured state.
LEMMA BeginQueueWaitPreserves ==
    ASSUME Inv, NEW t \in Threads, BeginQueueWait(t) PROVE Inv'
<1> USE ManagerAssumption DEF Inv, BeginQueueWait, Goto, Nodes, FlushLabels, Labels,
            threadVars, batchVars, gcVars
<1>1. TypeOK'
  BY DEF TypeOK, GcInv
<1>2. MutexInv' /\ FlushInv'
  BY DEF TypeOK, MutexInv, FlushInv, Settled, InsideBatch
<1>3. CallerInv' /\ BuiltInv' /\ EnsuredInv'
  BY DEF TypeOK, FlushInv, Settled, CallerInv, BuiltInv, EnsuredInv, Ensured
<1>4. WaitInv' /\ GcInv'
  BY DEF TypeOK, CallerInv, EnsuredInv, Ensured, WaitInv, GcInv
<1> QED
  BY <1>1, <1>2, <1>3, <1>4

\* Taking _flush_mutex preserves it: the mutex was free, so all is settled.
LEMMA LockPreserves ==
    ASSUME Inv, NEW t \in Threads, Lock(t) PROVE Inv'
<1> USE ManagerAssumption DEF Inv, Lock, Goto, Nodes, FlushLabels, Labels,
            threadVars, batchVars, gcVars
<1>1. TypeOK'
  BY DEF TypeOK, GcInv
<1>2. MutexInv' /\ FlushInv'
  BY DEF TypeOK, MutexInv, FlushInv, Settled, InsideBatch
<1>3. CallerInv' /\ BuiltInv' /\ EnsuredInv'
  BY DEF TypeOK, FlushInv, Settled, CallerInv, BuiltInv, EnsuredInv, Ensured
<1>4. WaitInv' /\ GcInv'
  BY DEF TypeOK, CallerInv, EnsuredInv, Ensured, WaitInv, GcInv
<1> QED
  BY <1>1, <1>2, <1>3, <1>4

\* Taking the nodes out of the builder preserves it: the new batch starts where
\* the submitted nodes end.
LEMMA FinishAndResetPreserves ==
    ASSUME Inv, NEW t \in Threads, FinishAndReset(t) PROVE Inv'
<1> USE ManagerAssumption DEF Inv, FinishAndReset, Goto, Nodes, FlushLabels, Labels,
            threadVars, batchVars, gcVars
<1>1. TypeOK'
  <2>1. dagFrom' \in 0..created' /\ dagFrom <= dagFrom'
    BY DEF TypeOK
  <2>2. 0..dagFrom \subseteq 0..dagFrom' /\ dagFrom \in 0..dagFrom' /\ 1..dagFrom \subseteq 1..dagFrom'
    BY <2>1 DEF TypeOK
  <2>3. created > dagFrom => created \in 0..dagFrom'
    BY DEF TypeOK
  <2>4. from' \in [Threads -> 0..dagFrom']
    BY <2>2 DEF TypeOK
  <2>5. at' \in [Threads -> 0..dagFrom']
    BY <2>2 DEF TypeOK
  <2>6. upTo' \in [Threads -> 0..dagFrom']
    BY <2>2, <2>3 DEF TypeOK
  <2> QED
    BY <2>1, <2>2, <2>4, <2>5, <2>6 DEF TypeOK
<1>2. MutexInv' /\ FlushInv'
  <2>1. MutexInv'
    BY DEF TypeOK, MutexInv
  <2>2. FlushInv'
    BY DEF TypeOK, MutexInv, FlushInv, Settled, InsideBatch
  <2> QED
    BY <2>1, <2>2
<1>3. CallerInv' /\ BuiltInv' /\ EnsuredInv'
  <2>1. CallerInv'
    BY DEF TypeOK, CallerInv
  <2>2. BuiltInv'
    BY DEF TypeOK, BuiltInv
  <2>3. EnsuredInv'
    BY SMTT(30) DEF TypeOK, FlushInv, Settled, CallerInv, BuiltInv, EnsuredInv, Ensured
  <2> QED
    BY <2>1, <2>2, <2>3
<1>4. WaitInv' /\ GcInv'
  BY DEF TypeOK, CallerInv, EnsuredInv, Ensured, WaitInv, GcInv
<1> QED
  BY <1>1, <1>2, <1>3, <1>4

\* Submitting the next node of the batch preserves it.
LEMMA SchedulePreserves ==
    ASSUME Inv, NEW t \in Threads, Schedule(t) PROVE Inv'
<1> USE ManagerAssumption DEF Inv, Schedule, Goto, Nodes, FlushLabels, Labels,
            threadVars, batchVars, gcVars
<1>1. TypeOK'
  <2>1. at[t] + 1 \in 1..dagFrom
    BY DEF TypeOK, FlushInv, InsideBatch
  <2>2. at' \in [Threads -> 0..dagFrom']
    BY <2>1 DEF TypeOK
  <2>3. submitted' \subseteq 1..dagFrom' /\ submitted \subseteq submitted'
    BY <2>1, <2>2, Zenon DEF TypeOK
  <2> QED
    BY <2>1, <2>2, <2>3 DEF TypeOK
<1>2. MutexInv' /\ FlushInv'
  <2>1. MutexInv'
    BY DEF TypeOK, MutexInv
  <2>2. FlushInv'
    <3>1. mutex' = t /\ \A u \in Threads : u # t => pc'[u] \notin FlushLabels
      BY <2>1 DEF TypeOK, MutexInv
    <3>2. /\ submitted = 1..at[t] /\ InsideBatch(t)
          /\ 1..from[t] \subseteq ops \cup complete
      BY DEF FlushInv
    <3>3. submitted' = 1..(at[t] + 1)
      BY <3>2 DEF TypeOK, InsideBatch
    <3>4. CASE at[t] + 1 < upTo[t]
      BY <3>1, <3>2, <3>3, <3>4 DEF TypeOK, FlushInv, InsideBatch
    <3>5. CASE ~(at[t] + 1 < upTo[t])
      <4>1. at[t] + 1 = dagFrom
        BY <3>2, <3>5 DEF TypeOK, InsideBatch
      <4> QED
        BY <3>1, <3>2, <3>3, <3>5, <4>1 DEF TypeOK, FlushInv, InsideBatch
    <3> QED
      BY <3>4, <3>5
  <2> QED
    BY <2>1, <2>2
<1>3. CallerInv' /\ BuiltInv' /\ EnsuredInv'
  <2>1. CallerInv'
    BY DEF TypeOK, CallerInv
  <2>2. BuiltInv'
    BY DEF TypeOK, BuiltInv
  <2>3. EnsuredInv'
    BY SMTT(30) DEF TypeOK, FlushInv, Settled, CallerInv, BuiltInv, EnsuredInv, Ensured
  <2> QED
    BY <2>1, <2>2, <2>3
<1>4. WaitInv' /\ GcInv'
  BY DEF TypeOK, CallerInv, EnsuredInv, Ensured, WaitInv, GcInv
<1> QED
  BY <1>1, <1>2, <1>3, <1>4

\* Registering the next node of the batch preserves it, and settles the batch
\* after the last one.
LEMMA RegisterPreserves ==
    ASSUME Inv, NEW t \in Threads, Register(t) PROVE Inv'
<1> USE ManagerAssumption DEF Inv, Register, Goto, Nodes, FlushLabels, Labels,
            threadVars, batchVars, gcVars
<1>1. TypeOK'
  <2>1. at[t] + 1 \in submitted /\ at[t] + 1 \in 0..dagFrom
    BY DEF TypeOK, FlushInv, InsideBatch
  <2>2. at' \in [Threads -> 0..dagFrom'] /\ ops' \subseteq submitted
    BY <2>1, Zenon DEF TypeOK
  <2> QED
    BY <2>1, <2>2 DEF TypeOK
<1>2. MutexInv' /\ FlushInv'
  <2>1. MutexInv'
    BY DEF TypeOK, MutexInv
  <2>2. /\ InsideBatch(t) /\ at[t] \in Nat /\ from[t] \in Nat /\ upTo[t] \in Nat
        /\ submitted = 1..dagFrom /\ 1..at[t] \subseteq ops \cup complete
    BY DEF TypeOK, FlushInv
  <2>3. 1..(at[t] + 1) \subseteq ops' \cup complete'
    BY <2>2
  <2>4. ASSUME NEW u \in Threads, u # t PROVE pc'[u] \notin FlushLabels
    BY <2>4 DEF TypeOK, MutexInv
  <2>5. CASE at[t] + 1 < upTo[t]
    BY <2>2, <2>3, <2>4, <2>5 DEF TypeOK, MutexInv, FlushInv, Settled, InsideBatch
  <2>6. CASE ~(at[t] + 1 < upTo[t])
    <3>1. at[t] + 1 = dagFrom /\ dagFrom' = dagFrom
      BY <2>2, <2>6 DEF TypeOK, InsideBatch
    <3>2. Settled'
      BY <2>2, <2>3, <3>1 DEF Settled
    <3>3. pc'[t] = "countNodes"
      BY <2>6 DEF TypeOK
    <3> QED
      BY <2>1, <2>4, <3>2, <3>3 DEF MutexInv, FlushInv
  <2> QED
    BY <2>1, <2>5, <2>6
<1>3. CallerInv' /\ BuiltInv' /\ EnsuredInv'
  <2>1. CallerInv'
    BY DEF TypeOK, CallerInv
  <2>2. BuiltInv'
    BY DEF TypeOK, BuiltInv
  <2>3. EnsuredInv'
    BY SMTT(30) DEF TypeOK, FlushInv, Settled, CallerInv, BuiltInv, EnsuredInv, Ensured
  <2> QED
    BY <2>1, <2>2, <2>3
<1>4. WaitInv' /\ GcInv'
  BY DEF TypeOK, CallerInv, EnsuredInv, Ensured, WaitInv, GcInv
<1> QED
  BY <1>1, <1>2, <1>3, <1>4

\* Deciding on a garbage collection preserves it.
LEMMA CountNodesPreserves ==
    ASSUME Inv, NEW t \in Threads, CountNodes(t) PROVE Inv'
<1> USE ManagerAssumption DEF Inv, CountNodes, Goto, Nodes, FlushLabels, Labels,
            threadVars, batchVars, gcVars
<1>1. TypeOK'
  BY DEF TypeOK, GcInv
<1>2. MutexInv' /\ FlushInv'
  <2>1. MutexInv'
    BY DEF TypeOK, MutexInv
  <2>2. FlushInv'
    BY DEF TypeOK, MutexInv, FlushInv, Settled, InsideBatch
  <2> QED
    BY <2>1, <2>2
<1>3. CallerInv' /\ BuiltInv' /\ EnsuredInv'
  <2>1. CallerInv'
    BY DEF TypeOK, CallerInv
  <2>2. BuiltInv'
    BY DEF TypeOK, BuiltInv
  <2>3. EnsuredInv'
    BY SMTT(30) DEF TypeOK, FlushInv, Settled, CallerInv, BuiltInv, EnsuredInv, Ensured
  <2> QED
    BY <2>1, <2>2, <2>3
<1>4. WaitInv' /\ GcInv'
  BY DEF TypeOK, CallerInv, EnsuredInv, Ensured, WaitInv, GcInv
<1> QED
  BY <1>1, <1>2, <1>3, <1>4

\* Releasing _flush_mutex preserves it: the batch is settled by then.
LEMMA UnlockPreserves ==
    ASSUME Inv, NEW t \in Threads, Unlock(t) PROVE Inv'
<1> USE ManagerAssumption DEF Inv, Unlock, Goto, AfterGuard, Nodes, FlushLabels, Labels,
            threadVars, batchVars, gcVars
<1>1. TypeOK'
  BY DEF TypeOK, GcInv
<1>2. MutexInv' /\ FlushInv'
  <2>1. MutexInv'
    BY DEF TypeOK, MutexInv
  <2>2. FlushInv'
    <3>1. \A u \in Threads : pc'[u] \notin FlushLabels
      BY DEF TypeOK, MutexInv
    <3>2. Settled'
      BY DEF FlushInv, Settled
    <3> QED
      BY <3>1, <3>2 DEF FlushInv
  <2> QED
    BY <2>1, <2>2
<1>3. CallerInv' /\ BuiltInv' /\ EnsuredInv'
  <2>1. CallerInv'
    BY DEF TypeOK, CallerInv
  <2>2. BuiltInv'
    BY DEF TypeOK, BuiltInv
  <2>3. EnsuredInv'
    BY SMTT(30) DEF TypeOK, FlushInv, Settled, CallerInv, BuiltInv, EnsuredInv, Ensured
  <2> QED
    BY <2>1, <2>2, <2>3
<1>4. WaitInv' /\ GcInv'
  BY DEF TypeOK, CallerInv, EnsuredInv, Ensured, WaitInv, GcInv
<1> QED
  BY <1>1, <1>2, <1>3, <1>4

\* The unlocked size check of flush_and_gc() preserves it: a thread whose own
\* nodes are in the builder sees a nonempty builder.
LEMMA CheckSizePreserves ==
    ASSUME Inv, NEW t \in Threads, CheckSize(t) PROVE Inv'
<1> USE ManagerAssumption DEF Inv, CheckSize, Goto, AfterFlushAndGc, Nodes, FlushLabels, Labels,
            threadVars, batchVars, gcVars
<1>1. TypeOK'
  BY Zenon DEF TypeOK, GcInv
<1>2. MutexInv' /\ FlushInv'
  <2>1. MutexInv'
    BY DEF TypeOK, MutexInv
  <2>2. FlushInv'
    BY DEF TypeOK, MutexInv, FlushInv, Settled, InsideBatch
  <2> QED
    BY <2>1, <2>2
<1>3. CallerInv' /\ BuiltInv' /\ EnsuredInv'
  <2>1. CallerInv'
    BY DEF TypeOK, CallerInv
  <2>2. BuiltInv'
    BY DEF TypeOK, BuiltInv
  <2>3. EnsuredInv'
    BY SMTT(30) DEF TypeOK, FlushInv, Settled, CallerInv, BuiltInv, EnsuredInv, Ensured
  <2> QED
    BY <2>1, <2>2, <2>3
<1>4. WaitInv' /\ GcInv'
  BY DEF TypeOK, CallerInv, EnsuredInv, Ensured, WaitInv, GcInv
<1> QED
  BY <1>1, <1>2, <1>3, <1>4

\* Asking the updater thread for its queue size preserves it.
LEMMA CheckUpdaterPreserves ==
    ASSUME Inv, NEW t \in Threads, CheckUpdater(t) PROVE Inv'
<1> USE ManagerAssumption DEF Inv, CheckUpdater, Goto, AfterFlushAndGc, Nodes, FlushLabels, Labels,
            threadVars, batchVars, gcVars
<1>1. TypeOK'
  BY DEF TypeOK, GcInv
<1>2. MutexInv' /\ FlushInv'
  <2>1. MutexInv'
    BY DEF TypeOK, MutexInv
  <2>2. FlushInv'
    BY DEF TypeOK, MutexInv, FlushInv, Settled, InsideBatch
  <2> QED
    BY <2>1, <2>2
<1>3. CallerInv' /\ BuiltInv' /\ EnsuredInv'
  <2>1. CallerInv'
    BY DEF TypeOK, CallerInv
  <2>2. BuiltInv'
    BY DEF TypeOK, BuiltInv
  <2>3. EnsuredInv'
    BY SMTT(30) DEF TypeOK, FlushInv, Settled, CallerInv, BuiltInv, EnsuredInv, Ensured
  <2> QED
    BY <2>1, <2>2, <2>3
<1>4. WaitInv' /\ GcInv'
  BY DEF TypeOK, CallerInv, EnsuredInv, Ensured, WaitInv, GcInv
<1> QED
  BY <1>1, <1>2, <1>3, <1>4

\* Enqueueing a garbage collection preserves it.
LEMMA EnqueueTaskPreserves ==
    ASSUME Inv, NEW t \in Threads, EnqueueTask(t) PROVE Inv'
<1> USE ManagerAssumption DEF Inv, EnqueueTask, Goto, AfterFlushAndGc, Nodes, FlushLabels, Labels,
            threadVars, batchVars, gcVars
<1>1. TypeOK'
  <2>1. tasks' \in Nat
    BY DEF TypeOK
  <2>2. pc' \in [Threads -> Labels]
    BY <2>1 DEF TypeOK
  <2> QED
    BY <2>1, <2>2 DEF TypeOK
<1>2. MutexInv' /\ FlushInv'
  <2>1. MutexInv'
    BY DEF TypeOK, MutexInv
  <2>2. FlushInv'
    BY DEF TypeOK, MutexInv, FlushInv, Settled, InsideBatch
  <2> QED
    BY <2>1, <2>2
<1>3. CallerInv' /\ BuiltInv' /\ EnsuredInv'
  <2>1. CallerInv'
    BY DEF TypeOK, CallerInv
  <2>2. BuiltInv'
    BY DEF TypeOK, BuiltInv
  <2>3. EnsuredInv'
    BY SMTT(30) DEF TypeOK, FlushInv, Settled, CallerInv, BuiltInv, EnsuredInv, Ensured
  <2> QED
    BY <2>1, <2>2, <2>3
<1>4. WaitInv' /\ GcInv'
  BY DEF TypeOK, CallerInv, EnsuredInv, Ensured, WaitInv, GcInv
<1> QED
  BY <1>1, <1>2, <1>3, <1>4

\* Copying the list preserves it: what is not in the list is complete.
LEMMA CopyGroupPreserves ==
    ASSUME Inv, NEW t \in Threads, CopyGroup(t) PROVE Inv'
<1> USE ManagerAssumption DEF Inv, CopyGroup, Goto, Nodes, FlushLabels, Labels,
            threadVars, batchVars, gcVars
<1>1. TypeOK'
  BY DEF TypeOK, GcInv
<1>2. MutexInv' /\ FlushInv'
  BY DEF TypeOK, MutexInv, FlushInv, Settled, InsideBatch
<1>3. CallerInv' /\ BuiltInv' /\ EnsuredInv'
  BY DEF TypeOK, FlushInv, Settled, CallerInv, BuiltInv, EnsuredInv, Ensured
<1>4. WaitInv' /\ GcInv'
  BY DEF TypeOK, CallerInv, EnsuredInv, Ensured, WaitInv, GcInv
<1> QED
  BY <1>1, <1>2, <1>3, <1>4

\* Waiting for one node preserves it: the node leaves the wait set and is complete.
LEMMA WaitNodePreserves ==
    ASSUME Inv, NEW t \in Threads, WaitNode(t) PROVE Inv'
<1> USE ManagerAssumption DEF Inv, WaitNode, NodeWait, Goto, Nodes, FlushLabels, Labels,
            threadVars, batchVars, gcVars
<1>1. TypeOK'
  BY DEF TypeOK, GcInv
<1>2. MutexInv' /\ FlushInv'
  BY DEF TypeOK, MutexInv, FlushInv, Settled, InsideBatch
<1>3. CallerInv' /\ BuiltInv' /\ EnsuredInv'
  BY DEF TypeOK, FlushInv, Settled, CallerInv, BuiltInv, EnsuredInv, Ensured
<1>4. WaitInv' /\ GcInv'
  BY DEF TypeOK, CallerInv, EnsuredInv, Ensured, WaitInv, GcInv
<1> QED
  BY <1>1, <1>2, <1>3, <1>4

\* The end of the loop preserves it: an empty wait set leaves only complete nodes.
LEMMA WaitReturnsPreserves ==
    ASSUME Inv, NEW t \in Threads, WaitReturns(t) PROVE Inv'
<1> USE ManagerAssumption DEF Inv, WaitReturns, Goto, Nodes, FlushLabels, Labels,
            threadVars, batchVars, gcVars
<1>1. TypeOK'
  BY DEF TypeOK, GcInv
<1>2. MutexInv' /\ FlushInv'
  BY DEF TypeOK, MutexInv, FlushInv, Settled, InsideBatch
<1>3. CallerInv' /\ BuiltInv' /\ EnsuredInv'
  BY DEF TypeOK, FlushInv, Settled, CallerInv, BuiltInv, EnsuredInv, Ensured
<1>4. WaitInv' /\ GcInv'
  BY DEF TypeOK, CallerInv, EnsuredInv, Ensured, WaitInv, GcInv
<1> QED
  BY <1>1, <1>2, <1>3, <1>4

\* Returning to the application preserves it.
LEMMA OperationReturnsPreserves ==
    ASSUME Inv, NEW t \in Threads, OperationReturns(t) PROVE Inv'
<1> USE ManagerAssumption DEF Inv, OperationReturns, Goto, Nodes, FlushLabels, Labels,
            threadVars, batchVars, gcVars
<1>1. TypeOK'
  BY DEF TypeOK, GcInv
<1>2. MutexInv' /\ FlushInv'
  BY DEF TypeOK, MutexInv, FlushInv, Settled, InsideBatch
<1>3. CallerInv' /\ BuiltInv' /\ EnsuredInv'
  BY DEF TypeOK, FlushInv, Settled, CallerInv, BuiltInv, EnsuredInv, Ensured
<1>4. WaitInv' /\ GcInv'
  BY DEF TypeOK, CallerInv, EnsuredInv, Ensured, WaitInv, GcInv
<1> QED
  BY <1>1, <1>2, <1>3, <1>4

\* The copy of the updater thread preserves it.
LEMMA GcCopyPreserves ==
    ASSUME Inv, GcCopy PROVE Inv'
<1> USE ManagerAssumption DEF Inv, GcCopy, Goto, Nodes, FlushLabels, Labels,
            threadVars, batchVars, gcVars
<1>1. TypeOK'
  BY DEF TypeOK, GcInv
<1>2. MutexInv' /\ FlushInv'
  BY DEF TypeOK, MutexInv, FlushInv, Settled, InsideBatch
<1>3. CallerInv' /\ BuiltInv' /\ EnsuredInv'
  BY DEF TypeOK, FlushInv, Settled, CallerInv, BuiltInv, EnsuredInv, Ensured
<1>4. WaitInv' /\ GcInv'
  BY DEF TypeOK, CallerInv, EnsuredInv, Ensured, WaitInv, GcInv
<1> QED
  BY <1>1, <1>2, <1>3, <1>4

\* A wait of the updater thread preserves it.
LEMMA GcWaitPreserves ==
    ASSUME Inv, GcWait PROVE Inv'
<1> USE ManagerAssumption DEF Inv, GcWait, NodeWait, Goto, Nodes, FlushLabels, Labels,
            threadVars, batchVars, gcVars
<1>1. TypeOK'
  BY DEF TypeOK, GcInv
<1>2. MutexInv' /\ FlushInv'
  BY DEF TypeOK, MutexInv, FlushInv, Settled, InsideBatch
<1>3. CallerInv' /\ BuiltInv' /\ EnsuredInv'
  BY DEF TypeOK, FlushInv, Settled, CallerInv, BuiltInv, EnsuredInv, Ensured
<1>4. WaitInv' /\ GcInv'
  BY DEF TypeOK, CallerInv, EnsuredInv, Ensured, WaitInv, GcInv
<1> QED
  BY <1>1, <1>2, <1>3, <1>4

\* Unregistering preserves it: only nodes known to be complete are dropped.
LEMMA GcPurgePreserves ==
    ASSUME Inv, GcPurge PROVE Inv'
<1> USE ManagerAssumption DEF Inv, GcPurge, Goto, Nodes, FlushLabels, Labels,
            threadVars, batchVars, gcVars
<1>1. TypeOK'
  BY DEF TypeOK, GcInv
<1>2. MutexInv' /\ FlushInv'
  BY DEF TypeOK, MutexInv, FlushInv, Settled, InsideBatch
<1>3. CallerInv' /\ BuiltInv' /\ EnsuredInv'
  BY DEF TypeOK, FlushInv, Settled, CallerInv, BuiltInv, EnsuredInv, Ensured
<1>4. WaitInv' /\ GcInv'
  BY DEF TypeOK, CallerInv, EnsuredInv, Ensured, WaitInv, GcInv
<1> QED
  BY <1>1, <1>2, <1>3, <1>4

\* The completion of an event preserves it.
LEMMA FinishPreserves ==
    ASSUME Inv, NEW n \in submitted, Finish(n) PROVE Inv'
<1> USE ManagerAssumption DEF Inv, Finish, Goto, Nodes, FlushLabels, Labels,
            threadVars, batchVars, gcVars
<1>1. TypeOK'
  BY DEF TypeOK, GcInv
<1>2. MutexInv' /\ FlushInv'
  BY DEF TypeOK, MutexInv, FlushInv, Settled, InsideBatch
<1>3. CallerInv' /\ BuiltInv' /\ EnsuredInv'
  BY DEF TypeOK, FlushInv, Settled, CallerInv, BuiltInv, EnsuredInv, Ensured
<1>4. WaitInv' /\ GcInv'
  BY DEF TypeOK, CallerInv, EnsuredInv, Ensured, WaitInv, GcInv
<1> QED
  BY <1>1, <1>2, <1>3, <1>4

\* The invariant holds in every reachable state: a step of any thread, of the
\* updater thread or of a device preserves it.
THEOREM Invariance == Spec => []Inv
<1>1. Init => Inv
  <2> SUFFICES ASSUME Init PROVE Inv
    OBVIOUS
  <2>1. TypeOK
    BY ManagerAssumption DEF Init, TypeOK, Nodes, Labels, FlushLabels
  <2>2. MutexInv /\ FlushInv
    BY ManagerAssumption DEF Init, FlushLabels, MutexInv, FlushInv, Settled
  <2>3. CallerInv /\ BuiltInv /\ EnsuredInv /\ WaitInv /\ GcInv
    BY DEF Init, CallerInv, BuiltInv, EnsuredInv, Ensured, WaitInv, GcInv
  <2> QED
    BY <2>1, <2>2, <2>3 DEF Inv
<1>2. Inv /\ [Next]_vars => Inv'
  <2> SUFFICES ASSUME Inv, [Next]_vars PROVE Inv'
    OBVIOUS
  <2>1. ASSUME NEW t \in Threads, AddNode(t) PROVE Inv'
    BY <2>1, AddNodePreserves
  <2>2. ASSUME NEW t \in Threads, BeginQueueWait(t) PROVE Inv'
    BY <2>2, BeginQueueWaitPreserves
  <2>3. ASSUME NEW t \in Threads, Lock(t) PROVE Inv'
    BY <2>3, LockPreserves
  <2>4. ASSUME NEW t \in Threads, FinishAndReset(t) PROVE Inv'
    BY <2>4, FinishAndResetPreserves
  <2>5. ASSUME NEW t \in Threads, Schedule(t) PROVE Inv'
    BY <2>5, SchedulePreserves
  <2>6. ASSUME NEW t \in Threads, Register(t) PROVE Inv'
    BY <2>6, RegisterPreserves
  <2>7. ASSUME NEW t \in Threads, CountNodes(t) PROVE Inv'
    BY <2>7, CountNodesPreserves
  <2>8. ASSUME NEW t \in Threads, Unlock(t) PROVE Inv'
    BY <2>8, UnlockPreserves
  <2>9. ASSUME NEW t \in Threads, CheckSize(t) PROVE Inv'
    BY <2>9, CheckSizePreserves
  <2>10. ASSUME NEW t \in Threads, CheckUpdater(t) PROVE Inv'
    BY <2>10, CheckUpdaterPreserves
  <2>11. ASSUME NEW t \in Threads, EnqueueTask(t) PROVE Inv'
    BY <2>11, EnqueueTaskPreserves
  <2>12. ASSUME NEW t \in Threads, CopyGroup(t) PROVE Inv'
    BY <2>12, CopyGroupPreserves
  <2>13. ASSUME NEW t \in Threads, WaitNode(t) PROVE Inv'
    BY <2>13, WaitNodePreserves
  <2>14. ASSUME NEW t \in Threads, WaitReturns(t) PROVE Inv'
    BY <2>14, WaitReturnsPreserves
  <2>15. ASSUME NEW t \in Threads, OperationReturns(t) PROVE Inv'
    BY <2>15, OperationReturnsPreserves
  <2>16. CASE GcCopy
    BY <2>16, GcCopyPreserves
  <2>17. CASE GcWait
    BY <2>17, GcWaitPreserves
  <2>18. CASE GcPurge
    BY <2>18, GcPurgePreserves
  <2>19. ASSUME NEW n \in submitted, Finish(n) PROVE Inv'
    BY <2>19, FinishPreserves
  <2>20. CASE UNCHANGED vars
    BY <2>20 DEF vars, threadVars, batchVars, gcVars, Inv, TypeOK, Nodes, Labels, FlushLabels,
       MutexInv, FlushInv, Settled, InsideBatch, CallerInv, BuiltInv, EnsuredInv, Ensured, WaitInv, GcInv
  <2> QED
    BY <2>1, <2>2, <2>3, <2>4, <2>5, <2>6, <2>7, <2>8, <2>9, <2>10,
       <2>11, <2>12, <2>13, <2>14, <2>15, <2>16, <2>17, <2>18, <2>19, <2>20
       DEF Next, Flush, WaitSteps, Updater
<1> QED
  BY <1>1, <1>2, PTL DEF Spec

\* The state of dag_manager, dag_submitted_ops and their threads keeps its types;
\* in particular only submitted nodes are registered, waited for and completed.
THEOREM TypeCorrect == Spec => []TypeOK
<1>1. Inv => TypeOK
  BY DEF Inv
<1> QED
  BY <1>1, Invariance, PTL

\* A thread whose dag_build_guard has released its flush() finds its nodes
\* submitted and registered, whichever thread flushed them.
THEOREM SubmissionCorrect == Spec => []SubmissionEnsured
<1>1. Inv => SubmissionEnsured
  BY DEF Inv, EnsuredInv, Ensured, SubmissionEnsured
<1> QED
  BY <1>1, Invariance, PTL

\* flush() hands the nodes to the scheduler in the order in which dag_builder
\* admitted them, however the flushes of several threads interleave.
THEOREM OrderCorrect == Spec => []ScheduledInOrder
<1>1. Inv => ScheduledInOrder
  <2> SUFFICES ASSUME Inv PROVE ScheduledInOrder
    OBVIOUS
  <2>1. CASE mutex = None
    BY <2>1 DEF Inv, TypeOK, FlushInv, Settled, ScheduledInOrder
  <2>2. CASE mutex \in Threads
    <3>1. \E k \in Nat : submitted = 1..k
      BY <2>2 DEF Inv, TypeOK, MutexInv, FlushLabels, FlushInv, Settled
    <3> QED
      BY <3>1 DEF ScheduledInOrder
  <2> QED
    BY <2>1, <2>2 DEF Inv, TypeOK
<1> QED
  BY <1>1, Invariance, PTL

\* queue::wait() returns only when everything that its thread submitted has
\* finished, and the constructor of a host accessor only when its node has, in
\* spite of the updater thread unregistering operations at the same time.
THEOREM WaitCorrect == Spec => []WaitMeansFinished
<1>1. Inv => WaitMeansFinished
  <2> SUFFICES ASSUME Inv, NEW t \in Threads, pc[t] = "waited"
               PROVE IF op[t] = "wait" THEN built[t] \subseteq finished
                     ELSE \E n \in built[t] \cap finished : \A m \in built[t] : m <= n
    BY DEF WaitMeansFinished
  <2>1. op[t] \in {"wait", "host"}
    BY DEF Inv, TypeOK, WaitInv
  <2> QED
    BY <2>1, Zenon DEF Inv, TypeOK, WaitInv
<1> QED
  BY <1>1, Invariance, PTL

-----------------------------------------------------------------------------
(* The worker thread                                                       *)
(*                                                                         *)
(* The tasks that async_wait_and_unregister() enqueues run on the          *)
(* _updater_thread of dag_submitted_ops, a worker_thread.  Safety of       *)
(* WorkerThread, for every set of clients and every number of tasks.       *)

CONSTANTS Clients, MaxTasks
VARIABLES queue, continue, asleep, workerPc, current, clientPc, ownerPc, pushed, executed

W == INSTANCE WorkerThread

\* 1 while the task at the front of the queue has run and is still queued.
Overlapping == IF workerPc = "pop" /\ current # 0 THEN 1 ELSE 0

\* What has run are the first tasks, and the queue goes on from there.
OrderInv ==
    /\ \A i \in 1..Len(executed) : executed[i] = i
    /\ \A i \in 1..Len(queue) : queue[i] = Len(executed) - Overlapping + i
    /\ Len(executed) - Overlapping + Len(queue) = pushed

WorkerInv == W!TypeOK /\ OrderInv

-----------------------------------------------------------------------------
(* Each step preserves the invariant                                       *)

\* Steps that leave the queue, the history and the worker's task alone, and do
\* not lead into or out of the part of the loop where they matter.
Untouched ==
    /\ UNCHANGED <<queue, current, pushed, executed>>
    /\ \/ workerPc' = workerPc
       \/ workerPc' \notin {"run", "pop"} /\ workerPc \notin {"run", "pop"}

\* Such steps preserve the order of the tasks.
LEMMA UntouchedPreserves == WorkerInv /\ Untouched => W!FrontRuns' /\ OrderInv'
  <1> SUFFICES ASSUME WorkerInv, Untouched PROVE W!FrontRuns' /\ OrderInv'
      OBVIOUS
  <1>1. Overlapping' = Overlapping
      BY DEF Untouched, Overlapping
  <1>2. W!FrontRuns'
      BY DEF WorkerInv, W!TypeOK, W!FrontRuns, Untouched
  <1>3. OrderInv'
      BY <1>1 DEF WorkerInv, OrderInv, Untouched
  <1> QED BY <1>2, <1>3

\* async_worker.cpp:63-80, 105-107: the loop condition, the wait, the notification.
LEMMA LoopPreserves ==
    WorkerInv /\ (\/ W!LoadContinue \/ W!CheckSize \/ W!EnterWait
                  \/ W!WorkerWakes \/ W!NotifyDone) => WorkerInv'
  <1> SUFFICES ASSUME WorkerInv, \/ W!LoadContinue \/ W!CheckSize \/ W!EnterWait
                                 \/ W!WorkerWakes \/ W!NotifyDone
               PROVE WorkerInv'
      OBVIOUS
  <1>1. Untouched
      BY DEF Untouched, W!LoadContinue, W!CheckSize, W!EnterWait, W!WorkerWakes, W!NotifyDone
  <1>2. W!FrontRuns' /\ OrderInv'
      BY <1>1, UntouchedPreserves
  <1>3. W!TypeOK'
      BY <1>2 DEF WorkerInv, W!TypeOK, W!Sleepers, W!LoadContinue, W!CheckSize, W!EnterWait,
             W!WorkerWakes, W!NotifyDone
  <1> QED BY <1>2, <1>3 DEF WorkerInv

\* async_worker.cpp:82-95: the front of the queue becomes the worker's task.
LEMMA FetchPreserves ==
    ASSUME MaxTasks \in Nat
    PROVE  WorkerInv /\ W!Fetch => WorkerInv'
  <1> SUFFICES ASSUME WorkerInv, W!Fetch PROVE WorkerInv'
      OBVIOUS
  <1> USE DEF WorkerInv
  <1>1. W!TypeOK'
    <2>1. queue \in Seq(1..MaxTasks)
        BY DEF W!TypeOK
    <2>2. ASSUME queue # <<>> PROVE Head(queue) \in 1..MaxTasks
      <3>1. Len(queue) \in Nat \ {0}
          BY <2>1, <2>2
      <3>2. Head(queue) = queue[1] /\ 1 \in 1..Len(queue)
          BY <2>1, <3>1
      <3>3. \A i \in 1..Len(queue) : queue[i] \in 1..MaxTasks
          BY <2>1
      <3> QED BY <3>2, <3>3
    <2>3. current' \in 0..MaxTasks
        BY <2>2 DEF W!Fetch
    <2>4. W!FrontRuns'
        BY DEF W!FrontRuns, W!Fetch
    <2> QED BY <2>3, <2>4 DEF W!TypeOK, W!Sleepers, W!Fetch
  <1>2. Overlapping' = 0 /\ Overlapping = 0
      BY DEF Overlapping, W!Fetch
  <1>3. OrderInv'
      BY <1>2 DEF OrderInv, W!Fetch
  <1> QED BY <1>1, <1>3

\* async_worker.cpp:97: the task runs, and stays queued.
LEMMA RunPreserves ==
    ASSUME MaxTasks \in Nat
    PROVE  WorkerInv /\ W!Run => WorkerInv'
  <1> SUFFICES ASSUME WorkerInv, W!Run PROVE WorkerInv'
      OBVIOUS
  <1> USE DEF WorkerInv
  <1>1. W!FrontRuns'
      BY DEF W!TypeOK, W!FrontRuns, W!Run
  <1>2. W!TypeOK'
    <2>1. executed \in Seq(1..MaxTasks) /\ (current # 0 => current \in 1..MaxTasks)
        BY DEF W!TypeOK
    <2>2. CASE current # 0
      <3>1. Append(executed, current) \in Seq(1..MaxTasks)
          BY <2>1, <2>2
      <3> QED BY <1>1, <2>2, <3>1 DEF W!TypeOK, W!Sleepers, W!Run
    <2>3. CASE current = 0
        BY <1>1, <2>3 DEF W!TypeOK, W!Sleepers, W!Run
    <2> QED BY <2>2, <2>3
  <1>3. CASE current = 0
    <2>1. Overlapping' = 0 /\ Overlapping = 0
        BY <1>3 DEF Overlapping, W!Run
    <2> QED BY <1>2, <1>3, <2>1 DEF OrderInv, W!Run
  <1>4. CASE current # 0
    <2>1. Overlapping' = 1 /\ Overlapping = 0
        BY <1>4 DEF Overlapping, W!Run
    <2>2. executed' = Append(executed, current) /\ queue' = queue /\ pushed' = pushed
        BY <1>4 DEF W!Run
    <2>3. queue # <<>> /\ current = queue[1] /\ queue[1] = Len(executed) + 1
        BY <1>4, <2>1 DEF W!FrontRuns, OrderInv, W!Run, W!TypeOK
    <2>4. Len(executed') = Len(executed) + 1
        BY <2>2 DEF W!TypeOK
    <2>5. \A i \in 1..Len(executed') : executed'[i] = i
        BY <2>2, <2>3, <2>4 DEF OrderInv, W!TypeOK
    <2> QED BY <1>2, <2>1, <2>2, <2>4, <2>5 DEF OrderInv, W!TypeOK
  <1> QED BY <1>3, <1>4

\* async_worker.cpp:99-103: the task that has run leaves the queue.
LEMMA PopPreserves ==
    ASSUME MaxTasks \in Nat
    PROVE  WorkerInv /\ W!Pop => WorkerInv'
  <1> SUFFICES ASSUME WorkerInv, W!Pop PROVE WorkerInv'
      OBVIOUS
  <1> USE DEF WorkerInv
  <1>1. CASE current = 0
    <2>1. UNCHANGED queue
        BY <1>1 DEF W!Pop
    <2>2. W!TypeOK'
        BY <2>1 DEF W!TypeOK, W!Sleepers, W!FrontRuns, W!Pop
    <2>3. Overlapping' = 0 /\ Overlapping = 0
        BY <1>1 DEF Overlapping, W!Pop
    <2> QED BY <2>1, <2>2, <2>3 DEF OrderInv, W!Pop
  <1>2. CASE current # 0
    <2>1. queue # <<>> /\ queue' = Tail(queue)
        BY <1>2 DEF W!Pop, W!TypeOK, W!FrontRuns
    <2>2. queue \in Seq(1..MaxTasks) /\ executed \in Seq(1..MaxTasks) /\ pushed \in Nat
        BY DEF W!TypeOK
    <2>3. /\ queue' \in Seq(1..MaxTasks)
          /\ Len(queue') = Len(queue) - 1
          /\ \A i \in 1..Len(queue') : queue'[i] = queue[i + 1]
        BY <2>1, <2>2
    <2>4. W!FrontRuns'
        BY DEF W!FrontRuns, W!Pop
    <2>5. W!TypeOK'
        BY <2>3, <2>4 DEF W!TypeOK, W!Sleepers, W!Pop
    <2>6. Overlapping' = 0 /\ Overlapping = 1
        BY <1>2 DEF Overlapping, W!Pop
    <2>7. OrderInv'
      <3>1. Len(executed) \in Nat /\ Len(queue) \in Nat \ {0}
          BY <2>1, <2>2
      <3>2. ASSUME NEW i \in 1..Len(queue')
            PROVE  queue'[i] = Len(executed) + i
          BY <2>3, <2>6, <3>1 DEF OrderInv
      <3>3. Len(executed) + Len(queue') = pushed
          BY <2>2, <2>3, <2>6, <3>1 DEF OrderInv
      <3> QED BY <2>6, <3>1, <3>2, <3>3 DEF OrderInv, W!Pop
    <2> QED BY <2>5, <2>7
  <1> QED BY <1>1, <1>2

\* async_worker.cpp:110-116: a client appends a task.
LEMMA EnqueuePreserves ==
    ASSUME MaxTasks \in Nat, NEW c \in Clients
    PROVE  WorkerInv /\ W!Enqueue(c) => WorkerInv'
  <1> SUFFICES ASSUME WorkerInv, W!Enqueue(c) PROVE WorkerInv'
      OBVIOUS
  <1> USE DEF WorkerInv
  <1>1. /\ queue \in Seq(1..MaxTasks) /\ executed \in Seq(1..MaxTasks)
        /\ pushed \in Nat /\ pushed + 1 \in 1..MaxTasks
      BY DEF W!TypeOK, W!Enqueue
  <1>2. /\ queue' \in Seq(1..MaxTasks)
        /\ Len(queue') = Len(queue) + 1
        /\ \A i \in 1..Len(queue) : queue'[i] = queue[i]
        /\ queue'[Len(queue) + 1] = pushed + 1
      BY <1>1 DEF W!Enqueue
  <1>3. Overlapping' = Overlapping /\ Overlapping \in {0, 1}
      BY DEF Overlapping, W!Enqueue
  <1>4. W!FrontRuns'
    <2>1. queue # <<>> => Len(queue) >= 1
        BY <1>1
    <2>2. queue' # <<>>
        BY <1>1, <1>2
    <2>3. queue # <<>> => Head(queue') = Head(queue)
        BY <1>1, <1>2, <2>1, <2>2
    <2> QED BY <2>2, <2>3 DEF W!TypeOK, W!FrontRuns, W!Enqueue
  <1>5. W!TypeOK'
      BY <1>1, <1>2, <1>4 DEF W!TypeOK, W!Sleepers, W!Enqueue
  <1>6. OrderInv'
      BY <1>1, <1>2, <1>3 DEF OrderInv, W!Enqueue
  <1> QED BY <1>5, <1>6

\* async_worker.cpp:34-45, 116-118: a client notifies, waits or wakes up.
LEMMA WorkerClientPreserves ==
    ASSUME NEW c \in Clients
    PROVE  WorkerInv /\ (W!EnqueueNotify(c) \/ W!Wait(c) \/ W!ClientWakes(c)) => WorkerInv'
  <1> SUFFICES ASSUME WorkerInv, W!EnqueueNotify(c) \/ W!Wait(c) \/ W!ClientWakes(c)
               PROVE  WorkerInv'
      OBVIOUS
  <1>1. Untouched
      BY DEF Untouched, W!EnqueueNotify, W!Wait, W!ClientWakes
  <1>2. W!FrontRuns' /\ OrderInv'
      BY <1>1, UntouchedPreserves
  <1>3. W!TypeOK'
      BY <1>2 DEF WorkerInv, W!TypeOK, W!Sleepers, W!EnqueueNotify, W!Wait, W!ClientWakes
  <1> QED BY <1>2, <1>3 DEF WorkerInv

\* async_worker.cpp:27-29, 48-59: the destructor, and spurious wake-ups.
LEMMA WorkerOwnerPreserves ==
    WorkerInv /\ (W!BeginHalt \/ W!HaltStep \/ W!SpuriousWakeup) => WorkerInv'
  <1> SUFFICES ASSUME WorkerInv, W!BeginHalt \/ W!HaltStep \/ W!SpuriousWakeup PROVE WorkerInv'
      OBVIOUS
  <1> USE DEF W!HaltStep
  <1>1. Untouched
      BY DEF Untouched, W!BeginHalt, W!HaltWait, W!OwnerWakes, W!Stop, W!Join, W!SpuriousWakeup
  <1>2. W!FrontRuns' /\ OrderInv'
      BY <1>1, UntouchedPreserves
  <1>3. W!TypeOK'
      BY <1>2 DEF WorkerInv, W!TypeOK, W!Sleepers, W!BeginHalt, W!HaltWait, W!OwnerWakes, W!Stop,
             W!Join, W!SpuriousWakeup
  <1> QED BY <1>2, <1>3 DEF WorkerInv

-----------------------------------------------------------------------------

\* The worker thread starts with an empty queue.
LEMMA WorkerInit ==
    ASSUME MaxTasks \in Nat
    PROVE  W!Init => WorkerInv
  BY DEF W!Init, WorkerInv, W!TypeOK, W!Sleepers, W!FrontRuns, OrderInv, Overlapping

\* Every step of the worker, its clients and its owner preserves the invariant.
LEMMA WorkerNext ==
    ASSUME MaxTasks \in Nat
    PROVE  WorkerInv /\ [W!Next]_(W!vars) => WorkerInv'
  <1> SUFFICES ASSUME WorkerInv, [W!Next]_(W!vars) PROVE WorkerInv'
      OBVIOUS
  <1>1. CASE W!WorkerStep
      BY <1>1, LoopPreserves, FetchPreserves, RunPreserves, PopPreserves DEF W!WorkerStep
  <1>2. ASSUME NEW c \in Clients, W!Enqueue(c) \/ W!EnqueueNotify(c) \/ W!Wait(c) \/ W!ClientWakes(c)
        PROVE  WorkerInv'
      BY <1>2, EnqueuePreserves, WorkerClientPreserves
  <1>3. CASE W!BeginHalt \/ W!HaltStep \/ W!SpuriousWakeup
      BY <1>3, WorkerOwnerPreserves
  <1>4. CASE UNCHANGED W!vars
    <2>1. Untouched
        BY <1>4 DEF Untouched, W!vars
    <2>2. W!FrontRuns' /\ OrderInv'
        BY <2>1, UntouchedPreserves
    <2>3. W!TypeOK'
        BY <1>4, <2>2 DEF WorkerInv, W!TypeOK, W!Sleepers, W!vars
    <2> QED BY <2>2, <2>3 DEF WorkerInv
  <1> QED BY <1>1, <1>2, <1>3, <1>4 DEF W!Next, W!Terminated

\* The order of the tasks in the queue and in the history holds at all times.
THEOREM WorkerInvariance ==
    ASSUME MaxTasks \in Nat
    PROVE  W!Spec => []WorkerInv
  <1>1. W!Init => WorkerInv
      BY WorkerInit
  <1>2. WorkerInv /\ [W!Next]_(W!vars) => WorkerInv'
      BY WorkerNext
  <1> QED BY <1>1, <1>2, PTL DEF W!Spec

\* Types; only threads inside a wait() are blocked; and the task that runs is the
\* front of the queue until the pop that removes it (async_worker.cpp:85-103),
\* although clients enqueue at any time.
THEOREM WorkerTypeCorrect ==
    ASSUME MaxTasks \in Nat
    PROVE  W!Spec => []W!TypeOK
  <1>1. WorkerInv => W!TypeOK
      BY DEF WorkerInv
  <1>2. W!Spec => []WorkerInv
      BY WorkerInvariance
  <1> QED BY <1>1, <1>2, PTL

\* Every task runs once and in the order of the calls of operator(), and none is
\* lost (async_worker.cpp:82-118), for every number of clients and tasks.
THEOREM WorkerOrderCorrect ==
    ASSUME MaxTasks \in Nat
    PROVE  W!Spec => []W!RunsOnceInOrder
  <1>1. WorkerInv => W!RunsOnceInOrder
    <2> SUFFICES ASSUME WorkerInv PROVE W!RunsOnceInOrder
        OBVIOUS
    <2> DEFINE n == Len(executed)
               r == W!Remaining
    <2>1. /\ queue \in Seq(1..MaxTasks) /\ executed \in Seq(1..MaxTasks) /\ pushed \in Nat
        BY DEF WorkerInv, W!TypeOK
    <2>2. /\ r \in Seq(1..MaxTasks)
          /\ n + Len(r) = pushed
          /\ \A i \in 1..Len(r) : r[i] = n + i
      <3>1. CASE workerPc = "pop" /\ current # 0
        <4>1. queue # <<>> /\ Overlapping = 1 /\ r = Tail(queue)
            BY <3>1 DEF WorkerInv, W!TypeOK, W!FrontRuns, Overlapping, W!Remaining
        <4>2. /\ r \in Seq(1..MaxTasks)
              /\ Len(r) = Len(queue) - 1
              /\ \A i \in 1..Len(r) : r[i] = queue[i + 1]
            BY <2>1, <4>1
        <4> HIDE DEF r
        <4> QED BY <2>1, <4>1, <4>2 DEF WorkerInv, OrderInv
      <3>2. CASE ~ (workerPc = "pop" /\ current # 0)
        <4>1. Overlapping = 0 /\ r = queue
            BY <3>2 DEF Overlapping, W!Remaining
        <4> HIDE DEF r
        <4> QED BY <2>1, <4>1 DEF WorkerInv, OrderInv
      <3> QED BY <3>1, <3>2
    <2> HIDE DEF r
    <2>3. /\ executed \o r \in Seq(1..MaxTasks)
          /\ Len(executed \o r) = pushed
        BY <2>1, <2>2
    <2>4. \A i \in 1..pushed : (executed \o r)[i] = i
      <3> SUFFICES ASSUME NEW i \in 1..pushed PROVE (executed \o r)[i] = i
          OBVIOUS
      <3>1. n \in Nat /\ Len(r) \in Nat
          BY <2>1, <2>2
      <3>2. CASE i <= n
        <4>1. (executed \o r)[i] = executed[i]
            BY <2>1, <2>2, <3>1, <3>2
        <4> QED BY <3>1, <3>2, <4>1, <2>1 DEF WorkerInv, OrderInv
      <3>3. CASE i > n
        <4>1. i - n \in 1..Len(r)
            BY <2>1, <2>2, <3>1, <3>3
        <4>2. (executed \o r)[i] = r[i - n]
            BY <2>1, <2>2, <3>1, <3>3
        <4> QED BY <2>1, <2>2, <3>1, <4>1, <4>2
      <3>4. i <= n \/ i > n
          BY <2>1, <3>1
      <3> QED BY <3>2, <3>3, <3>4
    <2>5. executed \o r = [i \in 1..pushed |-> i]
      <3> DEFINE s == executed \o r
      <3> HIDE DEF s
      <3>1. s \in Seq(1..MaxTasks) /\ Len(s) = pushed /\ \A i \in 1..pushed : s[i] = i
          BY <2>3, <2>4 DEF s
      <3>2. s = [i \in 1..pushed |-> s[i]]
          BY <3>1
      <3>3. [i \in 1..pushed |-> s[i]] = [i \in 1..pushed |-> i]
          BY <3>1
      <3> QED BY <3>2, <3>3 DEF s
    <2> QED BY <2>5 DEF r, W!RunsOnceInOrder
  <1>2. W!Spec => []WorkerInv
      BY WorkerInvariance
  <1> QED BY <1>1, <1>2, PTL

\* A client comes back from wait() only when every task enqueued so far has run
\* to its end (async_worker.cpp:34-45), for every number of clients and tasks.
THEOREM WorkerWaitCorrect ==
    ASSUME MaxTasks \in Nat
    PROVE  W!Spec => W!WaitMeansDone
  <1> DEFINE A == \A c \in Clients :
                     clientPc[c] = "sleep" /\ clientPc'[c] = "idle" => Len(executed) = pushed
  <1>1. WorkerInv /\ [W!Next]_(W!vars) => [A]_(W!vars)
    <2> SUFFICES ASSUME WorkerInv, W!Next, NEW c \in Clients,
                        clientPc[c] = "sleep", clientPc'[c] = "idle"
                 PROVE  Len(executed) = pushed
        OBVIOUS
    <2>1. queue = <<>>
        BY DEF WorkerInv, W!TypeOK, W!Next, W!WorkerStep, W!LoadContinue, W!CheckSize, W!EnterWait,
               W!WorkerWakes, W!Fetch, W!Run, W!Pop, W!NotifyDone, W!Enqueue, W!EnqueueNotify,
               W!Wait, W!ClientWakes,
               W!BeginHalt, W!HaltStep, W!HaltWait, W!OwnerWakes, W!Stop, W!Join, W!SpuriousWakeup,
               W!Terminated, W!vars
    <2>2. Overlapping = 0
        BY <2>1 DEF WorkerInv, W!TypeOK, W!FrontRuns, Overlapping
    <2> QED BY <2>1, <2>2 DEF WorkerInv, OrderInv, W!TypeOK
  <1>2. W!Spec => []WorkerInv
      BY WorkerInvariance
  <1> QED BY <1>1, <1>2, PTL DEF W!Spec, W!WaitMeansDone
=============================================================================
