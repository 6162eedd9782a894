---------------------------- MODULE WorkerThread ----------------------------
(***************************************************************************)
(* rt::worker_thread (src/runtime/generic/async_worker.cpp): a queue of    *)
(* tasks, one thread that runs them, client threads that enqueue tasks and *)
(* wait, and the owner that halts the thread when it destroys the object.  *)
(*                                                                         *)
(* _mutex protects the queue, so a critical section is one step, cut only  *)
(* where the code sleeps on _condition_wait.  Everything the code does     *)
(* outside the mutex (loading _continue, running the task, a notify_all    *)
(* after an unlock) is a step of its own.  Tasks are numbered in the order *)
(* in which they enter the queue.                                          *)
(***************************************************************************)
EXTENDS Integers, Sequences

CONSTANTS Clients,     \* threads that call operator() and wait()
          MaxTasks     \* bound on the number of tasks ever enqueued

ASSUME WorkerAssumption == MaxTasks \in Nat

VARIABLES queue,       \* _enqueued_operations
          continue,    \* _continue
          asleep,      \* threads blocked in _condition_wait
          workerPc,    \* control point of work()
          current,     \* "operation" of work(): a task, or 0 if has_operation is false
          clientPc,    \* control point of each client
          ownerPc,     \* control point of halt(), as called by the destructor
          pushed,      \* number of tasks enqueued so far
          executed     \* history: tasks in the order in which they ran

vars == <<queue, continue, asleep, workerPc, current, clientPc, ownerPc, pushed, executed>>

\* Names of the worker and the owner in the set of sleeping threads.
Worker == "worker"
Owner == "owner"

\* Threads inside _condition_wait.wait(), whether blocked or already notified.
Sleepers ==
    {c \in Clients : clientPc[c] = "sleep"}
        \cup (IF workerPc = "sleep" THEN {Worker} ELSE {})
        \cup (IF ownerPc = "sleep" THEN {Owner} ELSE {})

\* Until it is popped, the task that runs is the front of the queue, whatever the
\* clients enqueue meanwhile.
FrontRuns ==
    workerPc \in {"run", "pop"} /\ current # 0 => queue # <<>> /\ Head(queue) = current

\* The types of the variables.  Only a thread inside a wait() can be blocked.  An
\* empty queue means that no task runs, as wait() and queue_size() take it to, and
\* the pop at async_worker.cpp:102 removes the task that ran.
TypeOK ==
    /\ queue \in Seq(1..MaxTasks)
    /\ continue \in BOOLEAN
    /\ workerPc \in {"loop", "size", "enter", "sleep", "fetch", "run", "pop", "notify", "exit"}
    /\ current \in 0..MaxTasks
    /\ clientPc \in [Clients -> {"idle", "notify", "sleep"}]
    /\ ownerPc \in {"alive", "wait", "sleep", "stop", "join", "destroyed"}
    /\ pushed \in 0..MaxTasks
    /\ executed \in Seq(1..MaxTasks)
    /\ asleep \subseteq Sleepers
    /\ FrontRuns

Init ==
    /\ queue = <<>>
    /\ continue = TRUE
    /\ asleep = {}
    /\ workerPc = "loop"
    /\ current = 0
    /\ clientPc = [c \in Clients |-> "idle"]
    /\ ownerPc = "alive"
    /\ pushed = 0
    /\ executed = <<>>

-----------------------------------------------------------------------------
(* work()                                                                  *)

HasWork == queue # <<>> \/ ~continue

\* Loop condition, first operand: _continue is loaded without the lock.
LoadContinue ==
    /\ workerPc = "loop"
    /\ workerPc' = IF continue THEN "enter" ELSE "size"
    /\ UNCHANGED <<queue, continue, asleep, current, clientPc, ownerPc, pushed, executed>>

\* Loop condition, second operand: queue_size() > 0.
CheckSize ==
    /\ workerPc = "size"
    /\ workerPc' = IF queue # <<>> THEN "enter" ELSE "exit"
    /\ UNCHANGED <<queue, continue, asleep, current, clientPc, ownerPc, pushed, executed>>

\* First critical section: notify_all, then test the predicate of the wait.
EnterWait ==
    /\ workerPc = "enter"
    /\ workerPc' = IF HasWork THEN "fetch" ELSE "sleep"
    /\ asleep' = IF HasWork THEN {} ELSE {Worker}
    /\ UNCHANGED <<queue, continue, current, clientPc, ownerPc, pushed, executed>>

\* Back from the condition variable: test the predicate again.
WorkerWakes ==
    /\ workerPc = "sleep"
    /\ Worker \notin asleep
    /\ workerPc' = IF HasWork THEN "fetch" ELSE "sleep"
    /\ asleep' = IF HasWork THEN asleep ELSE asleep \cup {Worker}
    /\ UNCHANGED <<queue, continue, current, clientPc, ownerPc, pushed, executed>>

\* Bug variant of Fetch: takes the task out of the queue before it runs.
FetchAndPop ==
    /\ workerPc = "fetch"
    /\ current' = IF queue # <<>> THEN Head(queue) ELSE 0
    /\ queue' = IF queue # <<>> THEN Tail(queue) ELSE queue
    /\ workerPc' = "run"
    /\ UNCHANGED <<continue, asleep, clientPc, ownerPc, pushed, executed>>

\* Second critical section: copy the front of the queue and leave it there.
Fetch ==
    /\ workerPc = "fetch"
    /\ current' = IF queue # <<>> THEN Head(queue) ELSE 0
    /\ workerPc' = "run"
    /\ UNCHANGED <<queue, continue, asleep, clientPc, ownerPc, pushed, executed>>

\* operation() runs outside the lock; without a task it is an empty function.
Run ==
    /\ workerPc = "run"
    /\ executed' = IF current # 0 THEN Append(executed, current) ELSE executed
    /\ workerPc' = "pop"
    /\ UNCHANGED <<queue, continue, asleep, current, clientPc, ownerPc, pushed>>

\* Bug variant of Pop: clears the queue, with the tasks enqueued during the run.
PopAll ==
    /\ workerPc = "pop"
    /\ queue' = <<>>
    /\ workerPc' = "notify"
    /\ UNCHANGED <<continue, asleep, current, clientPc, ownerPc, pushed, executed>>

\* Third critical section: drop the task that has just run.
Pop ==
    /\ workerPc = "pop"
    /\ queue' = IF current # 0 THEN Tail(queue) ELSE queue
    /\ workerPc' = "notify"
    /\ UNCHANGED <<continue, asleep, current, clientPc, ownerPc, pushed, executed>>

NotifyDone ==
    /\ workerPc = "notify"
    /\ asleep' = {}
    /\ workerPc' = "loop"
    /\ UNCHANGED <<queue, continue, current, clientPc, ownerPc, pushed, executed>>

WorkerStep ==
    \/ LoadContinue
    \/ CheckSize
    \/ EnterWait
    \/ WorkerWakes
    \/ Fetch
    \/ Run
    \/ Pop
    \/ NotifyDone

-----------------------------------------------------------------------------
(* operator() and wait(), called by the clients while the object exists    *)

Enqueue(c) ==
    /\ clientPc[c] = "idle"
    /\ ownerPc = "alive"
    /\ pushed < MaxTasks
    /\ queue' = Append(queue, pushed + 1)
    /\ pushed' = pushed + 1
    /\ clientPc' = [clientPc EXCEPT ![c] = "notify"]
    /\ UNCHANGED <<continue, asleep, workerPc, current, ownerPc, executed>>

\* Bug variant of EnqueueNotify: the notification is forgotten.
EnqueueSilent(c) ==
    /\ clientPc[c] = "notify"
    /\ clientPc' = [clientPc EXCEPT ![c] = "idle"]
    /\ UNCHANGED <<queue, continue, asleep, workerPc, current, ownerPc, pushed, executed>>

\* notify_all after lock.unlock().
EnqueueNotify(c) ==
    /\ clientPc[c] = "notify"
    /\ asleep' = {}
    /\ clientPc' = [clientPc EXCEPT ![c] = "idle"]
    /\ UNCHANGED <<queue, continue, workerPc, current, ownerPc, pushed, executed>>

\* Bug variant of Wait: goes to sleep without looking at the queue first.
WaitUnconditionally(c) ==
    /\ clientPc[c] = "idle"
    /\ ownerPc = "alive"
    /\ asleep' = {c}
    /\ clientPc' = [clientPc EXCEPT ![c] = "sleep"]
    /\ UNCHANGED <<queue, continue, workerPc, current, ownerPc, pushed, executed>>

\* wait() on a queue that is not empty; on an empty queue it changes nothing.
Wait(c) ==
    /\ clientPc[c] = "idle"
    /\ ownerPc = "alive"
    /\ queue # <<>>
    /\ asleep' = {c}
    /\ clientPc' = [clientPc EXCEPT ![c] = "sleep"]
    /\ UNCHANGED <<queue, continue, workerPc, current, ownerPc, pushed, executed>>

\* Bug variant of ClientWakes: a wait without a predicate, woken by anything.
ClientWakesUnchecked(c) ==
    /\ clientPc[c] = "sleep"
    /\ c \notin asleep
    /\ clientPc' = [clientPc EXCEPT ![c] = "idle"]
    /\ UNCHANGED <<queue, continue, asleep, workerPc, current, ownerPc, pushed, executed>>

ClientWakes(c) ==
    /\ clientPc[c] = "sleep"
    /\ c \notin asleep
    /\ clientPc' = [clientPc EXCEPT ![c] = IF queue = <<>> THEN "idle" ELSE "sleep"]
    /\ asleep' = IF queue = <<>> THEN asleep ELSE asleep \cup {c}
    /\ UNCHANGED <<queue, continue, workerPc, current, ownerPc, pushed, executed>>

-----------------------------------------------------------------------------
(* halt() from the destructor: no other thread uses the object any more    *)

BeginHalt ==
    /\ ownerPc = "alive"
    /\ \A c \in Clients : clientPc[c] = "idle"
    /\ ownerPc' = "wait"
    /\ UNCHANGED <<queue, continue, asleep, workerPc, current, clientPc, pushed, executed>>

\* halt() first calls wait().
HaltWait ==
    /\ ownerPc = "wait"
    /\ ownerPc' = IF queue = <<>> THEN "stop" ELSE "sleep"
    /\ asleep' = IF queue = <<>> THEN asleep ELSE {Owner}
    /\ UNCHANGED <<queue, continue, workerPc, current, clientPc, pushed, executed>>

OwnerWakes ==
    /\ ownerPc = "sleep"
    /\ Owner \notin asleep
    /\ ownerPc' = IF queue = <<>> THEN "stop" ELSE "sleep"
    /\ asleep' = IF queue = <<>> THEN asleep ELSE asleep \cup {Owner}
    /\ UNCHANGED <<queue, continue, workerPc, current, clientPc, pushed, executed>>

\* Bug variant of Stop: _continue is cleared without waking the worker.
StopSilent ==
    /\ ownerPc = "stop"
    /\ continue' = FALSE
    /\ ownerPc' = "join"
    /\ UNCHANGED <<queue, asleep, workerPc, current, clientPc, pushed, executed>>

Stop ==
    /\ ownerPc = "stop"
    /\ continue' = FALSE
    /\ asleep' = {}
    /\ ownerPc' = "join"
    /\ UNCHANGED <<queue, workerPc, current, clientPc, pushed, executed>>

Join ==
    /\ ownerPc = "join"
    /\ workerPc = "exit"
    /\ ownerPc' = "destroyed"
    /\ UNCHANGED <<queue, continue, asleep, workerPc, current, clientPc, pushed, executed>>

-----------------------------------------------------------------------------
\* std::condition_variable may wake a thread without a notification.
SpuriousWakeup ==
    \E t \in asleep :
        /\ asleep' = asleep \ {t}
        /\ UNCHANGED <<queue, continue, workerPc, current, clientPc, ownerPc, pushed, executed>>

Terminated == ownerPc = "destroyed" /\ UNCHANGED vars

HaltStep == HaltWait \/ OwnerWakes \/ Stop \/ Join

Next ==
    \/ WorkerStep
    \/ \E c \in Clients : Enqueue(c) \/ EnqueueNotify(c) \/ Wait(c) \/ ClientWakes(c)
    \/ BeginHalt
    \/ HaltStep
    \/ SpuriousWakeup
    \/ Terminated

\* A thread that can run runs eventually.  Nothing obliges a client to make a
\* call, the owner to destroy the object, or a spurious wakeup to happen.
Fairness ==
    /\ WF_vars(WorkerStep)
    /\ \A c \in Clients : WF_vars(EnqueueNotify(c) \/ ClientWakes(c))
    /\ WF_vars(HaltStep)

Spec == Init /\ [][Next]_vars /\ Fairness

-----------------------------------------------------------------------------
(* Properties                                                              *)

\* Tasks that still have to run: the front of the queue stays queued while it
\* runs, so after Run and before Pop it is no longer one of them.
Remaining ==
    IF workerPc = "pop" /\ current # 0 THEN Tail(queue) ELSE queue

\* Every task runs at most once, in the order of the operator() calls, and none
\* is lost: what ran followed by what is left is everything enqueued.  omp_queue
\* relies on it to be an in-order queue.
RunsOnceInOrder == executed \o Remaining = [i \in 1..pushed |-> i]

\* async_worker.hpp: wait() "Waits until all enqueued tasks have completed".
\* When a client comes back from the condition variable, every task enqueued so
\* far has run to its end.
WaitMeansDone ==
    [][\A c \in Clients :
         clientPc[c] = "sleep" /\ clientPc'[c] = "idle" => Len(executed) = pushed]_vars

\* No notification is lost: an enqueued task is eventually executed, although
\* operator() notifies after it has released the mutex.
TasksRun == \A i \in 1..MaxTasks : pushed >= i ~> Len(executed) >= i

\* wait() returns: the worker that empties the queue wakes the waiting client.
WaitReturns == \A c \in Clients : clientPc[c] = "sleep" ~> clientPc[c] = "idle"

\* The destructor terminates: halt() cannot miss the worker going to sleep
\* between its test of _continue and its wait, so join() returns.
HaltTerminates == ownerPc = "wait" ~> ownerPc = "destroyed"
=============================================================================
