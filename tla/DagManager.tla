----------------------------- MODULE DagManager -----------------------------
(***************************************************************************)
(* rt::dag_manager and rt::dag_submitted_ops: threads that submit command  *)
(* groups, construct host accessors and wait for their queue, and the      *)
(* worker thread that unregisters completed operations.  Nodes are         *)
(* numbered in the order in which the builder's mutex admits them, so that *)
(* the DAG under construction is dagFrom+1..created.                       *)
(***************************************************************************)
EXTENDS Integers, FiniteSets

CONSTANTS Threads,       \* application threads, each with a queue of its own
          None,          \* owner of a free mutex
          GcBatch,       \* setting gc_trigger_batch_size
          MaxNodes       \* bound on the number of nodes

ASSUME ManagerAssumption == None \notin Threads /\ MaxNodes \in Nat

VARIABLES created,       \* nodes added to the builder so far
          dagFrom,       \* nodes that finish_and_reset() has taken so far
          built,         \* thread -> nodes it added: the node group of its queue
          mutex,         \* _flush_mutex
          pc, op,        \* thread -> where it is, and in which operation
          nested,        \* thread -> whether flush() was called by flush_and_gc()
          from, at, upTo,\* thread -> new_dag is from+1..upTo; position in it
          waitSet,       \* thread -> nodes it has yet to wait for
          submitted,     \* nodes whose is_submitted() holds
          ops,           \* dag_submitted_ops::_ops
          complete,      \* nodes whose is_known_complete() holds
          finished,      \* nodes whose event is complete
          tasks,         \* tasks of the updater thread, including a running one
          gcList, gcPc   \* its copy of the list, and where it is

threadVars == <<pc, op, nested, waitSet>>
batchVars == <<from, at, upTo>>
gcVars == <<tasks, gcList, gcPc>>
vars == <<created, dagFrom, built, mutex, threadVars, batchVars,
          submitted, ops, complete, finished, gcVars>>

Init ==
    /\ created = 0 /\ dagFrom = 0
    /\ built = [t \in Threads |-> {}]
    /\ mutex = None
    /\ pc = [t \in Threads |-> "idle"]
    /\ op = [t \in Threads |-> "submit"]
    /\ nested = [t \in Threads |-> FALSE]
    /\ from = [t \in Threads |-> 0]
    /\ at = [t \in Threads |-> 0]
    /\ upTo = [t \in Threads |-> 0]
    /\ waitSet = [t \in Threads |-> {}]
    /\ submitted = {} /\ ops = {} /\ complete = {} /\ finished = {}
    /\ tasks = 0 /\ gcList = {} /\ gcPc = "idle"

Goto(t, label) == pc' = [pc EXCEPT ![t] = label]

-----------------------------------------------------------------------------
(* Operations of the application                                           *)

\* handler::create_task() and the constructor of a host accessor: the node is
\* added under a dag_build_guard, whose destructor calls flush(); the accessor
\* also calls flush_and_gc() first.
AddNode(t) ==
    /\ pc[t] = "idle" /\ created < MaxNodes
    /\ created' = created + 1
    /\ built' = [built EXCEPT ![t] = @ \cup {created + 1}]
    /\ \/ /\ op' = [op EXCEPT ![t] = "submit"] /\ Goto(t, "lock")
          /\ UNCHANGED waitSet
       \/ /\ op' = [op EXCEPT ![t] = "host"] /\ Goto(t, "checkSize")
          /\ waitSet' = [waitSet EXCEPT ![t] = {created + 1}]
    /\ UNCHANGED <<dagFrom, mutex, nested, batchVars, submitted, ops, complete, finished, gcVars>>

\* queue::wait(): flush_and_gc(), then wait_for_group().
BeginQueueWait(t) ==
    /\ pc[t] = "idle"
    /\ op' = [op EXCEPT ![t] = "wait"]
    /\ Goto(t, "checkSize")
    /\ UNCHANGED <<created, dagFrom, built, mutex, nested, waitSet, batchVars,
                   submitted, ops, complete, finished, gcVars>>

-----------------------------------------------------------------------------
(* flush()                                                                 *)

\* Bug: an empty builder is noticed before the mutex is taken.
LockUnlessEmpty(t) ==
    /\ pc[t] = "lock"
    /\ IF created > dagFrom
       THEN mutex = None /\ mutex' = t /\ Goto(t, "finishAndReset")
       ELSE Goto(t, IF op[t] = "host" THEN "wait" ELSE "idle") /\ UNCHANGED mutex
    /\ UNCHANGED <<created, dagFrom, built, op, nested, waitSet, batchVars,
                   submitted, ops, complete, finished, gcVars>>

Lock(t) ==
    /\ pc[t] = "lock" /\ mutex = None
    /\ mutex' = t
    /\ Goto(t, "finishAndReset")
    /\ UNCHANGED <<created, dagFrom, built, op, nested, waitSet, batchVars,
                   submitted, ops, complete, finished, gcVars>>

\* Bug: the mutex is released once the nodes are taken out of the builder.
FinishAndResetUnlocks(t) ==
    /\ pc[t] = "finishAndReset"
    /\ from' = [from EXCEPT ![t] = dagFrom]
    /\ at' = [at EXCEPT ![t] = dagFrom]
    /\ upTo' = [upTo EXCEPT ![t] = created]
    /\ dagFrom' = created
    /\ Goto(t, IF created > dagFrom THEN "schedule" ELSE "unlock")
    /\ mutex' = None
    /\ UNCHANGED <<created, built, op, nested, waitSet,
                   submitted, ops, complete, finished, gcVars>>

\* get_current_dag_size() and finish_and_reset().
FinishAndReset(t) ==
    /\ pc[t] = "finishAndReset"
    /\ IF created > dagFrom
       THEN /\ from' = [from EXCEPT ![t] = dagFrom]
            /\ at' = [at EXCEPT ![t] = dagFrom]
            /\ upTo' = [upTo EXCEPT ![t] = created]
            /\ dagFrom' = created
            /\ Goto(t, "schedule")
       ELSE /\ Goto(t, "unlock")
            /\ UNCHANGED <<dagFrom, batchVars>>
    /\ UNCHANGED <<created, built, mutex, op, nested, waitSet,
                   submitted, ops, complete, finished, gcVars>>

\* The scheduler submits the command groups in the order of the DAG.
Schedule(t) ==
    /\ pc[t] = "schedule"
    /\ submitted' = submitted \cup {at[t] + 1}
    /\ IF at[t] + 1 < upTo[t]
       THEN at' = [at EXCEPT ![t] = @ + 1] /\ UNCHANGED pc
       ELSE at' = [at EXCEPT ![t] = from[t]] /\ Goto(t, "register")
    /\ UNCHANGED <<created, dagFrom, built, mutex, op, nested, waitSet, from, upTo,
                   ops, complete, finished, gcVars>>

\* register_submitted_ops().
Register(t) ==
    /\ pc[t] = "register"
    /\ ops' = ops \cup {at[t] + 1}
    /\ at' = [at EXCEPT ![t] = @ + 1]
    /\ IF at[t] + 1 < upTo[t] THEN UNCHANGED pc ELSE Goto(t, "countNodes")
    /\ UNCHANGED <<created, dagFrom, built, mutex, op, nested, waitSet, from, upTo,
                   submitted, complete, finished, gcVars>>

\* The garbage collection is due, and the updater thread has nothing to do.
CountNodes(t) ==
    /\ pc[t] = "countNodes"
    /\ Goto(t, IF Cardinality(ops) > GcBatch /\ tasks = 0 THEN "enqueueLocked" ELSE "unlock")
    /\ UNCHANGED <<created, dagFrom, built, mutex, op, nested, waitSet, batchVars,
                   submitted, ops, complete, finished, gcVars>>

\* Where an operation continues after flush_and_gc(), and after the guard.
AfterFlushAndGc(t) == IF op[t] = "host" THEN "lock" ELSE "copyGroup"
AfterGuard(t) == IF op[t] = "host" THEN "wait" ELSE "idle"

Unlock(t) ==
    /\ pc[t] = "unlock"
    /\ mutex' = None
    /\ Goto(t, IF nested[t] THEN "checkUpdater" ELSE AfterGuard(t))
    /\ nested' = [nested EXCEPT ![t] = FALSE]
    /\ from' = [from EXCEPT ![t] = 0]
    /\ at' = [at EXCEPT ![t] = 0]
    /\ upTo' = [upTo EXCEPT ![t] = 0]
    /\ UNCHANGED <<created, dagFrom, built, op, waitSet,
                   submitted, ops, complete, finished, gcVars>>

-----------------------------------------------------------------------------
(* flush_and_gc() and async_wait_and_unregister()                          *)

\* The size is read without _flush_mutex.
CheckSize(t) ==
    /\ pc[t] = "checkSize"
    /\ IF created > dagFrom
       THEN Goto(t, "lock") /\ nested' = [nested EXCEPT ![t] = TRUE]
       ELSE Goto(t, AfterFlushAndGc(t)) /\ UNCHANGED nested
    /\ UNCHANGED <<created, dagFrom, built, mutex, op, waitSet, batchVars,
                   submitted, ops, complete, finished, gcVars>>

\* A new task only if the updater thread has none; the answer may be outdated
\* when the task is enqueued.
CheckUpdater(t) ==
    /\ pc[t] = "checkUpdater"
    /\ Goto(t, IF tasks = 0 THEN "enqueue" ELSE AfterFlushAndGc(t))
    /\ UNCHANGED <<created, dagFrom, built, mutex, op, nested, waitSet, batchVars,
                   submitted, ops, complete, finished, gcVars>>

EnqueueTask(t) ==
    /\ \/ pc[t] = "enqueue" /\ Goto(t, AfterFlushAndGc(t))
       \/ pc[t] = "enqueueLocked" /\ Goto(t, "unlock")
    /\ tasks' = tasks + 1
    /\ UNCHANGED <<created, dagFrom, built, mutex, op, nested, waitSet, batchVars,
                   submitted, ops, complete, finished, gcList, gcPc>>

-----------------------------------------------------------------------------
(* Waiting                                                                 *)

\* The node that a loop over the list, newest first, waits for next.
Newest(S, n) == n \in S /\ \A m \in S : m <= n

\* wait_for_group(): a copy of the list, of which the nodes of the group count.
CopyGroup(t) ==
    /\ pc[t] = "copyGroup"
    /\ waitSet' = [waitSet EXCEPT ![t] = ops \cap built[t]]
    /\ Goto(t, "wait")
    /\ UNCHANGED <<created, dagFrom, built, mutex, op, nested, batchVars,
                   submitted, ops, complete, finished, gcVars>>

\* Bug: an operation that was submitted is taken for complete.
WaitNodeSubmitted(t) ==
    /\ pc[t] = "wait" /\ waitSet[t] # {}
    /\ complete' = complete \cup waitSet[t]
    /\ waitSet' = [waitSet EXCEPT ![t] = {}]
    /\ UNCHANGED <<created, dagFrom, built, mutex, pc, op, nested, batchVars,
                   submitted, ops, finished, gcVars>>

\* Bug: waiting for the newest operation is taken to be enough.
WaitNewestNode(t) ==
    /\ pc[t] = "wait"
    /\ \E n \in waitSet[t] \cap finished :
         Newest(waitSet[t], n) /\ complete' = complete \cup {n}
    /\ waitSet' = [waitSet EXCEPT ![t] = {}]
    /\ UNCHANGED <<created, dagFrom, built, mutex, pc, op, nested, batchVars,
                   submitted, ops, finished, gcVars>>

\* Bug: the loop does not advance.
WaitSameNode(t) ==
    /\ pc[t] = "wait"
    /\ \E n \in waitSet[t] \cap finished :
         Newest(waitSet[t], n) /\ complete' = complete \cup {n}
    /\ UNCHANGED <<created, dagFrom, built, mutex, threadVars, batchVars,
                   submitted, ops, finished, gcVars>>

\* dag_node::wait(): a node known to be complete is passed; otherwise it waits for
\* the event, and marks the node and what it requires.  Which nodes those are is
\* left open: earlier ones, which have finished by then (KnownIsDone of
\* InorderQueues and KnownCompleteIsComplete of BufferRuntime are about that).
NodeWait(n) ==
    /\ n \in finished
    /\ \E required \in SUBSET {m \in finished : m < n} :
         complete' = IF n \in complete THEN complete ELSE complete \cup {n} \cup required

WaitNode(t) ==
    /\ pc[t] = "wait"
    /\ \E n \in waitSet[t] :
         /\ Newest(waitSet[t], n)
         /\ NodeWait(n)
         /\ waitSet' = [waitSet EXCEPT ![t] = @ \ {n}]
    /\ UNCHANGED <<created, dagFrom, built, mutex, pc, op, nested, batchVars,
                   submitted, ops, finished, gcVars>>

WaitReturns(t) ==
    /\ pc[t] = "wait" /\ waitSet[t] = {}
    /\ Goto(t, "waited")
    /\ UNCHANGED <<created, dagFrom, built, mutex, op, nested, waitSet, batchVars,
                   submitted, ops, complete, finished, gcVars>>

OperationReturns(t) ==
    /\ pc[t] = "waited"
    /\ Goto(t, "idle")
    /\ op' = [op EXCEPT ![t] = "submit"]
    /\ UNCHANGED <<created, dagFrom, built, mutex, nested, waitSet, batchVars,
                   submitted, ops, complete, finished, gcVars>>

-----------------------------------------------------------------------------
(* The updater thread, and the devices                                     *)

GcCopy ==
    /\ gcPc = "idle" /\ tasks > 0
    /\ gcList' = ops /\ gcPc' = "wait"
    /\ UNCHANGED <<created, dagFrom, built, mutex, threadVars, batchVars,
                   submitted, ops, complete, finished, tasks>>

GcWait ==
    /\ gcPc = "wait"
    /\ \E n \in gcList :
         /\ Newest(gcList, n)
         /\ NodeWait(n)
         /\ gcList' = gcList \ {n}
    /\ UNCHANGED <<created, dagFrom, built, mutex, threadVars, batchVars,
                   submitted, ops, finished, tasks, gcPc>>

\* purge_known_completed(), and the task leaves the queue.
GcPurge ==
    /\ gcPc = "wait" /\ gcList = {}
    /\ ops' = ops \ complete
    /\ gcPc' = "idle" /\ tasks' = tasks - 1
    /\ UNCHANGED <<created, dagFrom, built, mutex, threadVars, batchVars,
                   submitted, complete, finished, gcList>>

\* The event of a node becomes complete.
Finish(n) ==
    /\ n \in submitted \ finished
    /\ finished' = finished \cup {n}
    /\ UNCHANGED <<created, dagFrom, built, mutex, threadVars, batchVars,
                   submitted, ops, complete, gcVars>>

-----------------------------------------------------------------------------
Flush(t) ==
    \/ FinishAndReset(t) \/ Schedule(t) \/ Register(t) \/ CountNodes(t) \/ Unlock(t)
    \/ CheckSize(t) \/ CheckUpdater(t) \/ EnqueueTask(t)

WaitSteps(t) == CopyGroup(t) \/ WaitNode(t) \/ WaitReturns(t) \/ OperationReturns(t)

Updater == GcCopy \/ GcWait \/ GcPurge

Next ==
    \/ \E t \in Threads : AddNode(t) \/ BeginQueueWait(t) \/ Lock(t) \/ Flush(t) \/ WaitSteps(t)
    \/ Updater
    \/ \E n \in submitted : Finish(n)

\* Threads run; a thread that asks for the mutex gets it in the end; operations
\* that were submitted finish.
Fairness ==
    /\ \A t \in Threads : /\ WF_vars(Flush(t)) /\ WF_vars(WaitSteps(t))
                          /\ SF_vars(Lock(t))
    /\ WF_vars(Updater)
    /\ WF_vars(\E n \in submitted : Finish(n))

Spec == Init /\ [][Next]_vars
FairSpec == Spec /\ Fairness

-----------------------------------------------------------------------------
(* Properties                                                              *)

Nodes == 1..created
FlushLabels == {"finishAndReset", "schedule", "register", "countNodes", "enqueueLocked", "unlock"}
Labels == FlushLabels \cup {"idle", "lock", "checkSize", "checkUpdater", "enqueue",
                            "copyGroup", "wait", "waited"}

\* Types of the state.
TypeOK ==
    /\ created \in Nat /\ dagFrom \in 0..created
    /\ built \in [Threads -> SUBSET Nodes]
    /\ mutex \in Threads \cup {None}
    /\ pc \in [Threads -> Labels]
    /\ op \in [Threads -> {"submit", "host", "wait"}]
    /\ nested \in [Threads -> BOOLEAN]
    /\ from \in [Threads -> 0..dagFrom] /\ at \in [Threads -> 0..dagFrom]
    /\ upTo \in [Threads -> 0..dagFrom]
    /\ waitSet \in [Threads -> SUBSET Nodes]
    /\ submitted \subseteq 1..dagFrom
    /\ ops \subseteq submitted /\ finished \subseteq submitted /\ complete \subseteq finished
    /\ tasks \in Nat /\ gcList \subseteq submitted /\ gcPc \in {"idle", "wait"}

\* Every node that a thread added is submitted and registered when the operation
\* that added it returns, whichever thread's flush() took it out of the builder:
\* what event::wait(), queue::wait() and ~buffer_impl() rely on.
SubmissionEnsured ==
    \A t \in Threads :
        pc[t] = "idle" => built[t] \subseteq submitted /\ built[t] \subseteq ops \cup complete

\* Nodes are handed to the scheduler in the order in which they were built, so that
\* a node never depends on one that is not submitted (dag_manager.cpp:59).
ScheduledInOrder == \A n \in submitted : 1..n \subseteq submitted

\* When queue::wait() returns, everything that the thread ever submitted has
\* finished, although garbage collections unregister operations meanwhile; when
\* the constructor of a host accessor returns, its node has finished.
WaitMeansFinished ==
    \A t \in Threads : pc[t] = "waited" =>
        IF op[t] = "wait" THEN built[t] \subseteq finished
        ELSE \E n \in built[t] \cap finished : \A m \in built[t] : m <= n

\* Every operation of the application returns.
OperationsReturn == \A t \in Threads : pc[t] # "idle" ~> pc[t] = "idle"

\* flush_and_gc() does "wait until they have been submitted" (dag_manager.hpp:36):
\* it does not return at once while a node is yet to be submitted.
FlushAndGcWaits ==
    [][\A t \in Threads : pc[t] = "checkSize" /\ pc'[t] = "copyGroup" => Nodes \subseteq submitted]_vars
=============================================================================
