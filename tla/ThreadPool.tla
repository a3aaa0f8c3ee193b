----------------------------- MODULE ThreadPool -----------------------------
(***************************************************************************)
(* CThreadPool (NeoMathEngine/src/ThreadPool.cpp): one worker thread, one  *)
(* mutex, one condition variable and one task queue per index.             *)
(*                                                                         *)
(* Every critical section of the code that does not release its mutex half *)
(* way is one action.  Waiting on the condition variable is the program    *)
(* counter "asleep"; a thread that was notified competes for the mutex and *)
(* takes its next action when it gets it.                                  *)
(*                                                                         *)
(* Clients are the threads that hold a pointer to the pool.  `Uses' names  *)
(* the entry points a configuration lets them call.                        *)
(***************************************************************************)
EXTENDS Naturals, Sequences, Functions

CONSTANTS NumThreads,   \* threadCount of the constructor
          Clients,      \* threads that use the pool
          Owner,        \* the client that deletes it
          MaxCalls,     \* bound: calls each client makes
          Uses,         \* entry points in use
          NoTask        \* "no task in hand"

EntryPoints == {"ExecuteTasks", "AddTask", "WaitAllTask", "Delete"}

\* CreateThreadPool builds a CThreadPool for two threads or more only.
ASSUME PoolAssumption ==
    /\ NumThreads \in Nat /\ NumThreads >= 2
    /\ Owner \in Clients
    /\ MaxCalls \in Nat
    /\ Uses \subseteq EntryPoints

Workers == 0 .. NumThreads - 1
Task == [client : Clients, call : 1 .. MaxCalls, worker : Workers]

ASSUME NoTaskAssumption == NoTask \notin Task

VARIABLES
    queue,      \* params[w]->Queue
    stopped,    \* params[w]->Stopped
    wpc,        \* where worker w is in threadEntry
    task,       \* the local `task' of threadEntry
    cpc,        \* where client c is in its call
    idx,        \* the loop index i of ExecuteTasks, WaitAllTask, stopAndWait
    calls,      \* number of calls c has begun (its tasks carry the number)
    log,        \* history: the tasks worker w has executed, in order
    given,      \* history: the tasks pushed for worker w, in order
    covered     \* history: the value of calls[c] when its last wait returned

workerVars == <<wpc, task, log>>
clientVars == <<idx, calls, covered>>
vars == <<queue, stopped, wpc, task, cpc, idx, calls, log, given, covered>>

Init ==
    /\ queue = [w \in Workers |-> <<>>]
    /\ stopped = [w \in Workers |-> FALSE]
    /\ wpc = [w \in Workers |-> "checking"]
    /\ task = [w \in Workers |-> NoTask]
    /\ cpc = [c \in Clients |-> "idle"]
    /\ idx = [c \in Clients |-> 0]
    /\ calls = [c \in Clients |-> 0]
    /\ log = [w \in Workers |-> <<>>]
    /\ given = [w \in Workers |-> <<>>]
    /\ covered = [c \in Clients |-> 0]

-----------------------------------------------------------------------------
(* The worker: threadEntry.                                                *)

\* while( !Stopped ), evaluated with the mutex held.
LeaveLoop(w) ==
    /\ wpc[w] = "checking"
    /\ stopped[w]
    /\ wpc' = [wpc EXCEPT ![w] = "exited"]
    /\ UNCHANGED <<queue, stopped, task, log, given, cpc, clientVars>>

\* The front task is copied, not popped, and the mutex is released.
TakeTask(w) ==
    /\ wpc[w] = "checking"
    /\ ~stopped[w]
    /\ queue[w] # <<>>
    /\ task' = [task EXCEPT ![w] = Head(queue[w])]
    /\ wpc' = [wpc EXCEPT ![w] = "running"]
    /\ UNCHANGED <<queue, stopped, log, given, cpc, clientVars>>

RunTask(w) ==
    /\ wpc[w] = "running"
    /\ log' = [log EXCEPT ![w] = Append(@, task[w])]
    /\ wpc' = [wpc EXCEPT ![w] = "returning"]
    /\ UNCHANGED <<queue, stopped, task, given, cpc, clientVars>>

\* The clients that sleep on the condition variable of worker w.
SleepersOn(w) == {c \in Clients : cpc[c] = "asleep" /\ idx[c] = w}

WakeClients(w) ==
    cpc' = [c \in Clients |-> IF c \in SleepersOn(w) THEN "waiting" ELSE cpc[c]]

\* Mutant of FinishTask: the task is never popped.
FinishTaskNoPop(w) ==
    /\ wpc[w] = "returning"
    /\ task' = [task EXCEPT ![w] = NoTask]
    /\ WakeClients(w)
    /\ wpc' = [wpc EXCEPT ![w] = "checking"]
    /\ UNCHANGED <<queue, stopped, log, given, clientVars>>

\* Mutant of FinishTask: the waiting clients are not notified.
FinishTaskNoNotify(w) ==
    /\ wpc[w] = "returning"
    /\ queue' = [queue EXCEPT ![w] = Tail(@)]
    /\ task' = [task EXCEPT ![w] = NoTask]
    /\ wpc' = [wpc EXCEPT ![w] = "asleep"]
    /\ UNCHANGED <<stopped, log, given, cpc, clientVars>>

\* pop, notify_all and wait: the queue is not looked at again before the wait.
FinishTask(w) ==
    /\ wpc[w] = "returning"
    /\ queue' = [queue EXCEPT ![w] = Tail(@)]
    /\ task' = [task EXCEPT ![w] = NoTask]
    /\ WakeClients(w)
    /\ wpc' = [wpc EXCEPT ![w] = "asleep"]
    /\ UNCHANGED <<stopped, log, given, clientVars>>

\* Mutant of GoToSleep: the worker waits without a look at its queue.
GoToSleepUnchecked(w) ==
    /\ wpc[w] = "checking"
    /\ ~stopped[w]
    /\ wpc' = [wpc EXCEPT ![w] = "asleep"]
    /\ UNCHANGED <<queue, stopped, task, log, given, cpc, clientVars>>

\* Nothing to do at the check: wait.
GoToSleep(w) ==
    /\ wpc[w] = "checking"
    /\ ~stopped[w]
    /\ queue[w] = <<>>
    /\ wpc' = [wpc EXCEPT ![w] = "asleep"]
    /\ UNCHANGED <<queue, stopped, task, log, given, cpc, clientVars>>

\* ConditionVariable.notify_all() as the worker sees it.
NotifyWorker(w) ==
    wpc' = [wpc EXCEPT ![w] = IF @ = "asleep" THEN "checking" ELSE @]

\* A condition variable may return from wait without a notification.
SpuriousWorkerWakeup(w) ==
    /\ wpc[w] = "asleep"
    /\ wpc' = [wpc EXCEPT ![w] = "checking"]
    /\ UNCHANGED <<queue, stopped, task, log, given, cpc, clientVars>>

-----------------------------------------------------------------------------
(* The clients.                                                            *)

\* The pool is deleted by its owner when no one else is inside a call, and
\* nobody calls it afterwards.
Deleting == cpc[Owner] \in {"stop", "notify", "join", "deleted"}

Begin(c, use) ==
    /\ use \in Uses
    /\ cpc[c] = "idle"
    /\ ~Deleting
    /\ calls[c] < MaxCalls
    /\ calls' = [calls EXCEPT ![c] = @ + 1]
    /\ idx' = [idx EXCEPT ![c] = 0]

\* Pushes a task of client c for worker w under its mutex and notifies.  The
\* notification also reaches the clients that sleep on the same variable.
Push(c, w, k, next) ==
    LET t == [client |-> c, call |-> k, worker |-> w] IN
    /\ queue' = [queue EXCEPT ![w] = Append(@, t)]
    /\ given' = [given EXCEPT ![w] = Append(@, t)]
    /\ NotifyWorker(w)
    /\ cpc' = [d \in Clients |-> IF d = c THEN next
                                 ELSE IF d \in SleepersOn(w) THEN "waiting"
                                 ELSE cpc[d]]

\* A direct call of IThreadPool::AddTask.
AddTask(c, w) ==
    /\ Begin(c, "AddTask")
    /\ Push(c, w, calls[c] + 1, "idle")
    /\ UNCHANGED <<stopped, task, log, covered>>

BeginExecuteTasks(c) ==
    /\ Begin(c, "ExecuteTasks")
    /\ cpc' = [cpc EXCEPT ![c] = "adding"]
    /\ UNCHANGED <<queue, stopped, workerVars, given, covered>>

\* One iteration of the loop of ExecuteTasks; after the last one, WaitAllTask.
AddNext(c) ==
    /\ cpc[c] = "adding"
    /\ LET last == idx[c] = NumThreads - 1 IN
       /\ Push(c, idx[c], calls[c], IF last THEN "waiting" ELSE "adding")
       /\ idx' = [idx EXCEPT ![c] = IF last THEN 0 ELSE @ + 1]
    /\ UNCHANGED <<stopped, task, log, calls, covered>>

BeginWaitAllTask(c) ==
    /\ Begin(c, "WaitAllTask")
    /\ cpc' = [cpc EXCEPT ![c] = "waiting"]
    /\ UNCHANGED <<queue, stopped, workerVars, given, covered>>

\* Mutant of WaitNext: the last worker is not waited for.
WaitNextSkipsLast(c) ==
    /\ cpc[c] = "waiting"
    /\ queue[idx[c]] = <<>>
    /\ IF idx[c] >= NumThreads - 2
       THEN /\ cpc' = [cpc EXCEPT ![c] = "idle"]
            /\ idx' = [idx EXCEPT ![c] = 0]
            /\ covered' = [covered EXCEPT ![c] = calls[c]]
       ELSE /\ idx' = [idx EXCEPT ![c] = @ + 1]
            /\ UNCHANGED <<cpc, covered>>
    /\ UNCHANGED <<queue, stopped, workerVars, given, calls>>

\* The mutex of worker idx[c] is held and its queue is empty: go on to the next.
WaitNext(c) ==
    /\ cpc[c] = "waiting"
    /\ queue[idx[c]] = <<>>
    /\ IF idx[c] = NumThreads - 1
       THEN /\ cpc' = [cpc EXCEPT ![c] = "idle"]
            /\ idx' = [idx EXCEPT ![c] = 0]
            /\ covered' = [covered EXCEPT ![c] = calls[c]]
       ELSE /\ idx' = [idx EXCEPT ![c] = @ + 1]
            /\ UNCHANGED <<cpc, covered>>
    /\ UNCHANGED <<queue, stopped, workerVars, given, calls>>

WaitSleep(c) ==
    /\ cpc[c] = "waiting"
    /\ queue[idx[c]] # <<>>
    /\ cpc' = [cpc EXCEPT ![c] = "asleep"]
    /\ UNCHANGED <<queue, stopped, workerVars, given, clientVars>>

SpuriousClientWakeup(c) ==
    /\ cpc[c] = "asleep"
    /\ cpc' = [cpc EXCEPT ![c] = "waiting"]
    /\ UNCHANGED <<queue, stopped, workerVars, given, clientVars>>

-----------------------------------------------------------------------------
(* The destructor: stopAndWait.                                            *)

BeginDelete ==
    /\ "Delete" \in Uses
    /\ \A c \in Clients : cpc[c] = "idle"
    /\ cpc' = [cpc EXCEPT ![Owner] = "stop"]
    /\ idx' = [idx EXCEPT ![Owner] = 0]
    /\ UNCHANGED <<queue, stopped, workerVars, given, calls, covered>>

SetStopped ==
    /\ cpc[Owner] = "stop"
    /\ stopped' = [stopped EXCEPT ![idx[Owner]] = TRUE]
    /\ cpc' = [cpc EXCEPT ![Owner] = "notify"]
    /\ UNCHANGED <<queue, workerVars, given, clientVars>>

\* Mutant of NotifyStopped: the worker is not woken.
NotifyStoppedLost ==
    /\ cpc[Owner] = "notify"
    /\ cpc' = [cpc EXCEPT ![Owner] = "join"]
    /\ UNCHANGED <<queue, stopped, wpc, task, log, given, clientVars>>

\* notify_all after the mutex was released.
NotifyStopped ==
    /\ cpc[Owner] = "notify"
    /\ NotifyWorker(idx[Owner])
    /\ cpc' = [cpc EXCEPT ![Owner] = "join"]
    /\ UNCHANGED <<queue, stopped, task, log, given, clientVars>>

Join ==
    /\ cpc[Owner] = "join"
    /\ wpc[idx[Owner]] = "exited"
    /\ IF idx[Owner] = NumThreads - 1
       THEN /\ cpc' = [cpc EXCEPT ![Owner] = "deleted"]
            /\ UNCHANGED idx
       ELSE /\ cpc' = [cpc EXCEPT ![Owner] = "stop"]
            /\ idx' = [idx EXCEPT ![Owner] = @ + 1]
    /\ UNCHANGED <<queue, stopped, workerVars, given, calls, covered>>

-----------------------------------------------------------------------------
WorkerStep(w) ==
    LeaveLoop(w) \/ TakeTask(w) \/ RunTask(w) \/ FinishTask(w) \/ GoToSleep(w)

\* What a client does once it is inside a call.
ClientStep(c) == AddNext(c) \/ WaitNext(c) \/ WaitSleep(c)
DeleteStep == SetStopped \/ NotifyStopped \/ Join

ClientCall(c) ==
    \/ BeginExecuteTasks(c)
    \/ BeginWaitAllTask(c)
    \/ \E w \in Workers : AddTask(c, w)

Next ==
    \/ \E w \in Workers : WorkerStep(w) \/ SpuriousWorkerWakeup(w)
    \/ \E c \in Clients : ClientCall(c) \/ ClientStep(c) \/ SpuriousClientWakeup(c)
    \/ BeginDelete
    \/ DeleteStep

Spec == Init /\ [][Next]_vars

\* Every thread that can go on is scheduled.  Nobody is obliged to begin a
\* call, and nothing promises a spurious wakeup.
Fairness ==
    /\ \A w \in Workers : WF_vars(WorkerStep(w))
    /\ \A c \in Clients : WF_vars(ClientStep(c))
    /\ WF_vars(DeleteStep)

FairSpec == Spec /\ Fairness

-----------------------------------------------------------------------------
(* Properties.                                                             *)

WorkerPC == {"checking", "running", "returning", "asleep", "exited"}
ClientPC == {"idle", "adding", "waiting", "asleep", "stop", "notify", "join", "deleted"}

\* The type invariant of the pool.
TypeOK ==
    /\ queue \in [Workers -> Seq(Task)]
    /\ stopped \in [Workers -> BOOLEAN]
    /\ wpc \in [Workers -> WorkerPC]
    /\ task \in [Workers -> Task \cup {NoTask}]
    /\ cpc \in [Clients -> ClientPC]
    /\ idx \in [Clients -> Workers]
    /\ calls \in [Clients -> 0 .. MaxCalls]
    /\ log \in [Workers -> Seq(Task)]
    /\ given \in [Workers -> Seq(Task)]
    /\ covered \in [Clients -> 0 .. MaxCalls]

\* The queued tasks of worker w whose function was not called yet: the front
\* task stays in the queue until its function has returned.
Unexecuted(w) == IF wpc[w] = "returning" THEN Tail(queue[w]) ELSE queue[w]

\* A worker executes exactly the tasks given to it, each once and in the order
\* of the AddTask calls: what was given is what was executed followed by what
\* is still to be executed, across the window in which the front task is both
\* queued and running with the mutex released.
ExecutedInOrder ==
    \A w \in Workers : given[w] = log[w] \o Unexecuted(w)

\* WaitAllTask is sound: once a wait of client c has returned, no task that c
\* submitted before it is still queued or running on any worker, whatever the
\* other clients push meanwhile and however the waiters are woken.
NoTaskOutlivesItsWait ==
    \A w \in Workers : \A i \in DOMAIN queue[w] :
        queue[w][i].call > covered[queue[w][i].client]

\* A wakeup is never lost between ExecuteTasks and a worker: a worker that
\* sleeps has nothing to do.  Holds as long as nobody adds a task for a worker
\* that still has one (see the README for what happens otherwise).
NoWorkerSleepsOnWork ==
    \A w \in Workers : wpc[w] = "asleep" => queue[w] = <<>>

\* stopAndWait: "Stops all threads and waits for them to complete."
DeleteCompletes == cpc[Owner] = "stop" ~> cpc[Owner] = "deleted"

\* IThreadPool::WaitAllTask: "Waits for all tasks to complete."
WaitAllTaskReturns ==
    \A c \in Clients : cpc[c] = "waiting" ~> cpc[c] = "idle"

\* The pool implements the abstract task service: every push is a submission
\* of a new task, a task is executed at most once and only after it was
\* submitted, and a wait returns only when the tasks it covers were executed.
Service == INSTANCE TaskExecution WITH
    submitted <- UNION {Range(given[w]) : w \in Workers},
    executed <- UNION {Range(log[w]) : w \in Workers}

ImplementsService == Service!AbsSpec
=============================================================================
