-------------------------- MODULE ThreadPoolProofs --------------------------
(***************************************************************************)
(* Proofs about ThreadPool, for every number of workers, clients and calls *)
(* and every mix of entry points; and, from the second half on, about the  *)
(* division of work among its threads (TaskPartition) and the parallel     *)
(* loops that use it (ParallelReduction), for every size and alignment.    *)
(***************************************************************************)
EXTENDS ParallelReduction, SequenceTheorems, WellFoundedInduction, TLAPS

(* A queue kept as a sequence: pushing at the back and taking the front, next to a log *)
(* of what was taken.                                                                *)

\* What a push at the back leaves in place.
LEMMA PushKeepsFront ==
    ASSUME NEW S, NEW q \in Seq(S), NEW t \in S
    PROVE  /\ Append(q, t) \in Seq(S)
           /\ Append(q, t) # <<>>
           /\ \A i \in DOMAIN Append(q, t) :
                  (i \in DOMAIN q /\ Append(q, t)[i] = q[i]) \/ Append(q, t)[i] = t
           /\ q # <<>> => Head(Append(q, t)) = Head(q)
<1>1. /\ Append(q, t) \in Seq(S)
      /\ Append(q, t) # <<>>
      /\ Len(Append(q, t)) = Len(q) + 1
      /\ \A i \in 1 .. Len(q) : Append(q, t)[i] = q[i]
      /\ Append(q, t)[Len(q) + 1] = t
  BY AppendProperties
<1>2. Len(q) \in Nat /\ DOMAIN q = 1 .. Len(q) /\ DOMAIN Append(q, t) = 1 .. Len(q) + 1
  BY <1>1, LenProperties
<1>3. q # <<>> => Head(Append(q, t)) = Head(q)
  OBVIOUS
<1> QED BY <1>1, <1>2, <1>3

\* A non-empty sequence is its head followed by its tail.
LEMMA HeadThenTail ==
    ASSUME NEW S, NEW q \in Seq(S), q # <<>>
    PROVE  /\ Head(q) \in S
           /\ Tail(q) \in Seq(S)
           /\ <<Head(q)>> \in Seq(S)
           /\ q = <<Head(q)>> \o Tail(q)
<1>1. /\ Head(q) \in S /\ Head(q) = q[1]
      /\ Tail(q) \in Seq(S) /\ Len(q) \in Nat \ {0}
  BY HeadTailProperties, EmptySeq
<1>2. SubSeq(q, 1, Len(q)) = <<q[1]>> \o SubSeq(q, 2, Len(q))
  <2>1. 1 \in 1 .. Len(q) /\ Len(q) \in 1 .. Len(q) /\ 1 + 1 = 2
    BY <1>1
  <2> QED BY <2>1, SubSeqRecursiveFirst
<1>3. SubSeq(q, 1, Len(q)) = q /\ SubSeq(q, 2, Len(q)) = Tail(q)
  BY SubSeqFull, TailIsSubSeq
<1> QED BY <1>1, <1>2, <1>3

\* Taking the front moves it from the queue to the log.
LEMMA TakeFront ==
    ASSUME NEW S, NEW l \in Seq(S), NEW q \in Seq(S), q # <<>>
    PROVE  /\ Append(l, Head(q)) \in Seq(S)
           /\ Append(l, Head(q)) \o Tail(q) = l \o q
<1>1. /\ Head(q) \in S /\ Tail(q) \in Seq(S) /\ <<Head(q)>> \in Seq(S)
      /\ q = <<Head(q)>> \o Tail(q)
  BY HeadThenTail
<1>2. Append(l, Head(q)) = l \o <<Head(q)>> /\ Append(l, Head(q)) \in Seq(S)
  BY <1>1, AppendIsConcat, AppendProperties
<1>3. (l \o <<Head(q)>>) \o Tail(q) = l \o (<<Head(q)>> \o Tail(q))
  BY <1>1, ConcatAssociative
<1> QED BY <1>1, <1>2, <1>3

\* The elements of the tail are elements of the queue.
LEMMA TailElements ==
    ASSUME NEW S, NEW q \in Seq(S), q # <<>>
    PROVE  \A i \in DOMAIN Tail(q) : i + 1 \in DOMAIN q /\ Tail(q)[i] = q[i + 1]
<1>1. /\ Tail(q) \in Seq(S) /\ Len(Tail(q)) = Len(q) - 1 /\ Len(q) \in Nat
      /\ \A i \in 1 .. Len(Tail(q)) : Tail(q)[i] = q[i + 1]
  BY HeadTailProperties, LenProperties
<1>2. DOMAIN Tail(q) = 1 .. Len(q) - 1 /\ DOMAIN q = 1 .. Len(q)
  BY <1>1, LenProperties
<1> QED BY <1>1, <1>2

-----------------------------------------------------------------------------
(* The invariant. *)

\* The front task stays queued while the worker runs it.
TaskInHand ==
    \A w \in Workers :
        /\ wpc[w] \in {"running", "returning"} => queue[w] # <<>>
        /\ wpc[w] = "running" => task[w] = Head(queue[w])

\* Calls are numbered in order; a call that pushes is not covered by a wait.
CallsNumbered ==
    \A c \in Clients :
        /\ covered[c] <= calls[c]
        /\ cpc[c] = "adding" => covered[c] < calls[c]

\* A waiting client has seen the queues of workers 0 .. idx - 1 without tasks
\* of its own.
WaitProgress ==
    \A c \in Clients : cpc[c] \in {"waiting", "asleep"} =>
        \A w \in Workers : w < idx[c] =>
            \A i \in DOMAIN queue[w] : queue[w][i].client # c

-----------------------------------------------------------------------------
\* What a push does to each queue, in the form the proofs below use.
LEMMA PushEffect ==
    ASSUME TypeOK, NEW c \in Clients, NEW w \in Workers, NEW k \in 1 .. MaxCalls,
           NEW next, Push(c, w, k, next)
    PROVE  LET t == [client |-> c, call |-> k, worker |-> w] IN
           /\ t \in Task
           /\ queue' \in [Workers -> Seq(Task)]
           /\ given' \in [Workers -> Seq(Task)]
           /\ queue'[w] = Append(queue[w], t) /\ given'[w] = Append(given[w], t)
           /\ \A v \in Workers \ {w} : queue'[v] = queue[v] /\ given'[v] = given[v]
           /\ \A v \in Workers : /\ wpc'[v] = "running" <=> wpc[v] = "running"
                                 /\ wpc'[v] = "returning" <=> wpc[v] = "returning"
           /\ wpc' \in [Workers -> WorkerPC]
<1> DEFINE t == [client |-> c, call |-> k, worker |-> w]
<1>1. t \in Task
  BY DEF Task
<1>2. Append(queue[w], t) \in Seq(Task) /\ Append(given[w], t) \in Seq(Task)
  BY <1>1, AppendProperties DEF TypeOK
<1>3. /\ queue' = [queue EXCEPT ![w] = Append(queue[w], t)]
      /\ given' = [given EXCEPT ![w] = Append(given[w], t)]
  BY DEF Push
<1> HIDE DEF t
<1>4. /\ queue' \in [Workers -> Seq(Task)]
      /\ given' \in [Workers -> Seq(Task)]
      /\ queue'[w] = Append(queue[w], t) /\ given'[w] = Append(given[w], t)
      /\ \A v \in Workers \ {w} : queue'[v] = queue[v] /\ given'[v] = given[v]
  BY <1>2, <1>3 DEF TypeOK
<1>5. /\ \A v \in Workers : /\ wpc'[v] = "running" <=> wpc[v] = "running"
                            /\ wpc'[v] = "returning" <=> wpc[v] = "returning"
      /\ wpc' \in [Workers -> WorkerPC]
  BY DEF Push, NotifyWorker, TypeOK, WorkerPC, ClientPC
<1> QED BY <1>1, <1>4, <1>5 DEF t

-----------------------------------------------------------------------------
(* Type correctness, with the numbering of the calls and the task in hand. *)

LEMMA WorkerIndexes ==
    /\ 0 \in Workers
    /\ \A i \in Workers : i # NumThreads - 1 => i + 1 \in Workers
BY PoolAssumption DEF Workers

TypeInv == TypeOK /\ CallsNumbered /\ TaskInHand

LEMMA TypeInit == Init => TypeInv
<1> SUFFICES ASSUME Init PROVE TypeInv
  OBVIOUS
<1>1. <<>> \in Seq(Task) /\ 0 \in Workers /\ 0 \in 0 .. MaxCalls
  BY PoolAssumption, WorkerIndexes
<1>2. TypeOK
  BY <1>1 DEF Init, TypeOK
<1>3. CallsNumbered /\ TaskInHand
  BY DEF Init, CallsNumbered, TaskInHand
<1> QED BY <1>2, <1>3 DEF TypeInv

LEMMA PushKeepsTaskInHand ==
    ASSUME TypeOK, TaskInHand, NEW c \in Clients, NEW w \in Workers,
           NEW k \in 1 .. MaxCalls, NEW next, Push(c, w, k, next), UNCHANGED task
    PROVE  TaskInHand'
<1> SUFFICES ASSUME NEW v \in Workers
             PROVE  /\ wpc'[v] \in {"running", "returning"} => queue'[v] # <<>>
                    /\ wpc'[v] = "running" => task'[v] = Head(queue'[v])
  BY DEF TaskInHand
<1> DEFINE t == [client |-> c, call |-> k, worker |-> w]
<1>1. /\ t \in Task
      /\ queue'[w] = Append(queue[w], t)
      /\ v # w => queue'[v] = queue[v]
      /\ wpc'[v] = "running" <=> wpc[v] = "running"
      /\ wpc'[v] = "returning" <=> wpc[v] = "returning"
  BY PushEffect
<1> HIDE DEF t
<1>2. queue[v] \in Seq(Task)
  BY DEF TypeOK
<1>3. CASE v = w
  BY <1>1, <1>2, <1>3, PushKeepsFront DEF TaskInHand
<1>4. CASE v # w
  BY <1>1, <1>4 DEF TaskInHand
<1> QED BY <1>3, <1>4

LEMMA TypeStep == TypeInv /\ [Next]_vars => TypeInv'
<1> SUFFICES ASSUME TypeOK, CallsNumbered, TaskInHand, [Next]_vars
             PROVE  TypeOK' /\ CallsNumbered' /\ TaskInHand'
  BY DEF TypeInv
<1>1. ASSUME NEW w \in Workers,
             LeaveLoop(w) \/ GoToSleep(w) \/ SpuriousWorkerWakeup(w)
      PROVE  TypeOK' /\ CallsNumbered' /\ TaskInHand'
  <2> USE <1>1 DEF LeaveLoop, GoToSleep, SpuriousWorkerWakeup, clientVars
  <2>1. TypeOK'
    BY DEF TypeOK, WorkerPC, ClientPC
  <2>2. CallsNumbered'
    BY DEF CallsNumbered
  <2>3. TaskInHand'
    BY DEF TaskInHand, TypeOK
  <2> QED BY <2>1, <2>2, <2>3
<1>2. ASSUME NEW w \in Workers, TakeTask(w)
      PROVE  TypeOK' /\ CallsNumbered' /\ TaskInHand'
  <2> USE <1>2 DEF TakeTask, clientVars
  <2>1. Head(queue[w]) \in Task
    BY HeadTailProperties DEF TypeOK
  <2>2. TypeOK'
    BY <2>1 DEF TypeOK, WorkerPC, ClientPC
  <2>3. CallsNumbered'
    BY DEF CallsNumbered
  <2>4. TaskInHand'
    BY DEF TaskInHand, TypeOK
  <2> QED BY <2>2, <2>3, <2>4
<1>3. ASSUME NEW w \in Workers, RunTask(w)
      PROVE  TypeOK' /\ CallsNumbered' /\ TaskInHand'
  <2> USE <1>3 DEF RunTask, clientVars
  <2>1. task[w] \in Task
    <3>1. queue[w] # <<>> /\ task[w] = Head(queue[w]) /\ queue[w] \in Seq(Task)
      BY DEF TaskInHand, TypeOK
    <3> QED BY <3>1, HeadTailProperties
  <2>2. Append(log[w], task[w]) \in Seq(Task)
    BY <2>1, AppendProperties DEF TypeOK
  <2>3. TypeOK'
    BY <2>2 DEF TypeOK, WorkerPC, ClientPC
  <2>4. CallsNumbered'
    BY DEF CallsNumbered
  <2>5. TaskInHand'
    BY DEF TaskInHand, TypeOK
  <2> QED BY <2>3, <2>4, <2>5
<1>4. ASSUME NEW w \in Workers, FinishTask(w)
      PROVE  TypeOK' /\ CallsNumbered' /\ TaskInHand'
  <2> USE <1>4 DEF FinishTask, clientVars, WakeClients
  <2>1. Tail(queue[w]) \in Seq(Task)
    BY HeadTailProperties DEF TypeOK, TaskInHand
  <2>2. TypeOK'
    BY <2>1 DEF TypeOK, WorkerPC, ClientPC
  <2>3. CallsNumbered'
    BY DEF CallsNumbered
  <2>4. TaskInHand'
    BY DEF TaskInHand, TypeOK
  <2> QED BY <2>2, <2>3, <2>4
<1>5. ASSUME NEW c \in Clients, NEW w \in Workers, AddTask(c, w)
      PROVE  TypeOK' /\ CallsNumbered' /\ TaskInHand'
  <2>1. /\ calls[c] + 1 \in 1 .. MaxCalls
        /\ Push(c, w, calls[c] + 1, "idle")
        /\ UNCHANGED <<stopped, task, log, covered>>
        /\ calls' = [calls EXCEPT ![c] = calls[c] + 1]
        /\ idx' = [idx EXCEPT ![c] = 0]
    BY <1>5, PoolAssumption DEF AddTask, Begin, TypeOK
  <2>2. /\ queue' \in [Workers -> Seq(Task)] /\ given' \in [Workers -> Seq(Task)]
        /\ wpc' \in [Workers -> WorkerPC]
    BY <2>1, PushEffect
  <2>3. cpc' \in [Clients -> ClientPC]
    BY <2>1 DEF Push, TypeOK, WorkerPC, ClientPC
  <2>4. TypeOK'
    <3>1. calls' \in [Clients -> 0 .. MaxCalls]
      BY <2>1, PoolAssumption DEF TypeOK
    <3>3. idx' \in [Clients -> Workers]
      BY <2>1, WorkerIndexes DEF TypeOK
    <3>2. /\ stopped' \in [Workers -> BOOLEAN] /\ task' \in [Workers -> Task \cup {NoTask}]
          /\ log' \in [Workers -> Seq(Task)] /\ covered' \in [Clients -> 0 .. MaxCalls]
      BY <2>1 DEF TypeOK
    <3> QED BY <2>2, <2>3, <3>1, <3>2, <3>3 DEF TypeOK
  <2>5. CallsNumbered'
    BY <2>1, SMTT(30) DEF CallsNumbered, Push, TypeOK
  <2> QED BY <2>1, <2>4, <2>5, PushKeepsTaskInHand
<1>6. ASSUME NEW c \in Clients, AddNext(c)
      PROVE  TypeOK' /\ CallsNumbered' /\ TaskInHand'
  <2> DEFINE last == idx[c] = NumThreads - 1
             next == IF last THEN "waiting" ELSE "adding"
  <2>1. /\ calls[c] \in 1 .. MaxCalls /\ idx[c] \in Workers
        /\ Push(c, idx[c], calls[c], next)
        /\ UNCHANGED <<stopped, task, log, covered, calls>>
        /\ idx' = [idx EXCEPT ![c] = IF last THEN 0 ELSE idx[c] + 1]
    BY <1>6 DEF AddNext, CallsNumbered, TypeOK
  <2>2. /\ next \in {"waiting", "adding"}
        /\ (IF last THEN 0 ELSE idx[c] + 1) \in Workers
    BY <2>1, WorkerIndexes
  <2> HIDE DEF next, last
  <2>3. /\ queue' \in [Workers -> Seq(Task)] /\ given' \in [Workers -> Seq(Task)]
        /\ wpc' \in [Workers -> WorkerPC]
    BY <2>1, PushEffect
  <2>4. cpc' \in [Clients -> ClientPC]
    BY <2>1, <2>2 DEF Push, TypeOK, WorkerPC, ClientPC
  <2>5. TypeOK'
    BY <2>1, <2>2, <2>3, <2>4 DEF TypeOK
  <2>6. CallsNumbered'
    BY <1>6, <2>1, <2>2 DEF AddNext, CallsNumbered, Push, TypeOK
  <2> QED BY <2>1, <2>5, <2>6, PushKeepsTaskInHand
<1>7. ASSUME NEW c \in Clients, BeginExecuteTasks(c) \/ BeginWaitAllTask(c)
      PROVE  TypeOK' /\ CallsNumbered' /\ TaskInHand'
  <2>1. /\ calls[c] + 1 \in 0 .. MaxCalls
        /\ UNCHANGED <<queue, stopped, wpc, task, log, given, covered>>
        /\ calls' = [calls EXCEPT ![c] = calls[c] + 1]
        /\ idx' = [idx EXCEPT ![c] = 0]
        /\ \E p \in {"adding", "waiting"} : cpc' = [cpc EXCEPT ![c] = p]
    BY <1>7, PoolAssumption
       DEF BeginExecuteTasks, BeginWaitAllTask, Begin, TypeOK, workerVars
  <2>2. TypeOK'
    BY <2>1, WorkerIndexes DEF TypeOK, WorkerPC, ClientPC
  <2>3. CallsNumbered'
    BY <2>1 DEF CallsNumbered, TypeOK
  <2>4. TaskInHand'
    BY <2>1 DEF TaskInHand
  <2> QED BY <2>2, <2>3, <2>4
<1>8. ASSUME NEW c \in Clients, WaitSleep(c) \/ SpuriousClientWakeup(c)
      PROVE  TypeOK' /\ CallsNumbered' /\ TaskInHand'
  <2> USE <1>8 DEF WaitSleep, SpuriousClientWakeup, workerVars, clientVars
  <2>1. TypeOK'
    BY DEF TypeOK, WorkerPC, ClientPC
  <2>2. CallsNumbered' /\ TaskInHand'
    BY DEF CallsNumbered, TaskInHand, TypeOK
  <2> QED BY <2>1, <2>2
<1>9. ASSUME NEW c \in Clients, WaitNext(c)
      PROVE  TypeOK' /\ CallsNumbered' /\ TaskInHand'
  <2> USE <1>9 DEF WaitNext, workerVars
  <2>1. idx' \in [Clients -> Workers]
    BY WorkerIndexes DEF TypeOK
  <2>2. TypeOK'
    BY <2>1, ZenonT(30) DEF TypeOK, WorkerPC, ClientPC
  <2>3. CallsNumbered'
    <3>1. CASE idx[c] = NumThreads - 1
      <4>1. \A d \in Clients : IF d = c THEN cpc'[d] = "idle" /\ covered'[d] = calls[d]
                                        ELSE cpc'[d] = cpc[d] /\ covered'[d] = covered[d]
        BY <3>1 DEF TypeOK
      <4>2. calls' = calls /\ \A d \in Clients : calls[d] \in Nat /\ calls[d] <= calls[d]
        BY PoolAssumption DEF TypeOK
      <4> QED BY <4>1, <4>2, Zenon DEF CallsNumbered
    <3>2. CASE idx[c] # NumThreads - 1
      BY <3>2 DEF CallsNumbered, TypeOK
    <3> QED BY <3>1, <3>2
  <2>4. TaskInHand'
    BY DEF TaskInHand
  <2> QED BY <2>2, <2>3, <2>4
<1>10. ASSUME BeginDelete \/ DeleteStep
       PROVE  TypeOK' /\ CallsNumbered' /\ TaskInHand'
  <2>1. /\ \E p \in {"stop", "notify", "join", "deleted"} : cpc' = [cpc EXCEPT ![Owner] = p]
        /\ UNCHANGED <<queue, task, log, given, calls, covered>>
    BY <1>10 DEF BeginDelete, DeleteStep, SetStopped, NotifyStopped, Join,
                 workerVars, clientVars
  <2>2. /\ wpc' \in [Workers -> WorkerPC]
        /\ \A w \in Workers : /\ wpc'[w] = "running" => wpc[w] = "running"
                              /\ wpc'[w] = "returning" => wpc[w] = "returning"
    BY <1>10 DEF BeginDelete, DeleteStep, SetStopped, NotifyStopped, Join,
                 NotifyWorker, workerVars, TypeOK, WorkerPC, ClientPC
  <2>3. stopped' \in [Workers -> BOOLEAN]
    BY <1>10 DEF BeginDelete, DeleteStep, SetStopped, NotifyStopped, Join, TypeOK
  <2>4. idx' \in [Clients -> Workers]
    BY <1>10, WorkerIndexes, PoolAssumption
       DEF BeginDelete, DeleteStep, SetStopped, NotifyStopped, Join, clientVars, TypeOK
  <2>5. TypeOK'
    <3>1. cpc' \in [Clients -> ClientPC]
      BY <2>1 DEF TypeOK, ClientPC
    <3>2. /\ queue' \in [Workers -> Seq(Task)] /\ task' \in [Workers -> Task \cup {NoTask}]
          /\ log' \in [Workers -> Seq(Task)] /\ given' \in [Workers -> Seq(Task)]
          /\ calls' \in [Clients -> 0 .. MaxCalls] /\ covered' \in [Clients -> 0 .. MaxCalls]
      BY <2>1 DEF TypeOK
    <3> QED BY <2>2, <2>3, <2>4, <3>1, <3>2 DEF TypeOK
  <2>6. CallsNumbered'
    BY <2>1 DEF CallsNumbered, TypeOK
  <2>7. TaskInHand'
    BY <2>1, <2>2 DEF TaskInHand, TypeOK
  <2> QED BY <2>5, <2>6, <2>7
<1>11. CASE UNCHANGED vars
  BY <1>11 DEF vars, TypeOK, CallsNumbered, TaskInHand
<1> QED BY <1>1, <1>2, <1>3, <1>4, <1>5, <1>6, <1>7, <1>8, <1>9, <1>10, <1>11
     DEF Next, WorkerStep, ClientCall, ClientStep

-----------------------------------------------------------------------------
(* Each task is executed once, in the order of the AddTask calls.          *)

\* A push extends both what was given and what is still to be executed.
LEMMA PushKeepsOrder ==
    ASSUME TypeInv, ExecutedInOrder, NEW c \in Clients, NEW w \in Workers,
           NEW k \in 1 .. MaxCalls, NEW next, Push(c, w, k, next), UNCHANGED log
    PROVE  ExecutedInOrder'
<1> DEFINE t == [client |-> c, call |-> k, worker |-> w]
<1> SUFFICES ASSUME NEW v \in Workers
             PROVE  given'[v] = log'[v] \o Unexecuted(v)'
  BY DEF ExecutedInOrder
<1>1. /\ t \in Task
      /\ queue'[w] = Append(queue[w], t) /\ given'[w] = Append(given[w], t)
      /\ v # w => queue'[v] = queue[v] /\ given'[v] = given[v]
      /\ wpc'[v] = "returning" <=> wpc[v] = "returning"
  BY PushEffect DEF TypeInv
<1> HIDE DEF t
<1>2. /\ queue[v] \in Seq(Task) /\ log[v] \in Seq(Task)
      /\ wpc[v] = "returning" => queue[v] # <<>> /\ Tail(queue[v]) \in Seq(Task)
  BY HeadTailProperties DEF TypeInv, TypeOK, TaskInHand
<1>3. given[v] = log[v] \o Unexecuted(v) /\ Unexecuted(v) \in Seq(Task)
  BY <1>2 DEF ExecutedInOrder, Unexecuted
<1>4. CASE v # w
  BY <1>1, <1>3, <1>4 DEF Unexecuted
<1>5. CASE v = w
  <2>1. Unexecuted(v)' = Append(Unexecuted(v), t)
    BY <1>1, <1>2, <1>5, HeadTailAppend DEF Unexecuted
  <2>2. /\ t \in Task /\ <<t>> \in Seq(Task)
        /\ log[v] \in Seq(Task) /\ Unexecuted(v) \in Seq(Task)
        /\ log[v] \o Unexecuted(v) \in Seq(Task)
    BY <1>1, <1>2, <1>3, ConcatProperties
  <2>3. given'[v] = (log[v] \o Unexecuted(v)) \o <<t>>
    BY <1>1, <1>3, <1>5, <2>2, AppendIsConcat
  <2>4. Append(Unexecuted(v), t) = Unexecuted(v) \o <<t>>
    BY <2>2, AppendIsConcat
  <2>5. (log[v] \o Unexecuted(v)) \o <<t>> = log[v] \o (Unexecuted(v) \o <<t>>)
    <3> DEFINE l == log[v]
               u == Unexecuted(v)
               p == <<t>>
    <3>1. l \in Seq(Task) /\ u \in Seq(Task) /\ p \in Seq(Task)
      BY <2>2
    <3> HIDE DEF l, u, p
    <3>2. (l \o u) \o p = l \o (u \o p)
      BY <3>1, ConcatAssociative
    <3> QED BY <3>2 DEF l, u, p
  <2> QED BY <2>1, <2>3, <2>4, <2>5
<1> QED BY <1>4, <1>5

\* A step that leaves queues and histories alone, and finishes no execution.
LEMMA QuietStepKeepsOrder ==
    ASSUME ExecutedInOrder, UNCHANGED <<queue, given, log>>,
           \A w \in Workers : wpc'[w] = "returning" <=> wpc[w] = "returning"
    PROVE  ExecutedInOrder'
BY DEF ExecutedInOrder, Unexecuted

LEMMA OrderStep == TypeInv /\ ExecutedInOrder /\ [Next]_vars => ExecutedInOrder'
<1> SUFFICES ASSUME TypeInv, ExecutedInOrder, [Next]_vars PROVE ExecutedInOrder'
  OBVIOUS
<1>1. ASSUME NEW w \in Workers, RunTask(w) PROVE ExecutedInOrder'
  <2> SUFFICES ASSUME NEW v \in Workers
               PROVE  given'[v] = log'[v] \o Unexecuted(v)'
    BY DEF ExecutedInOrder
  <2>1. CASE v = w
    <3>1. /\ queue[w] \in Seq(Task) /\ log[w] \in Seq(Task) /\ queue[w] # <<>>
          /\ task[w] = Head(queue[w])
      BY <1>1 DEF TypeInv, TypeOK, TaskInHand, RunTask
    <3>2. Append(log[w], Head(queue[w])) \o Tail(queue[w]) = log[w] \o queue[w]
      BY <3>1, TakeFront
    <3>3. /\ given' = given /\ given[w] = log[w] \o queue[w]
          /\ log'[w] = Append(log[w], Head(queue[w]))
          /\ Unexecuted(w)' = Tail(queue[w])
      BY <1>1, <3>1 DEF RunTask, ExecutedInOrder, Unexecuted, TypeInv, TypeOK
    <3> QED BY <2>1, <3>2, <3>3
  <2>2. CASE v # w
    BY <1>1, <2>2 DEF RunTask, ExecutedInOrder, Unexecuted, TypeInv, TypeOK
  <2> QED BY <2>1, <2>2
<1>2. ASSUME NEW w \in Workers, FinishTask(w) PROVE ExecutedInOrder'
  BY <1>2 DEF FinishTask, ExecutedInOrder, Unexecuted, TypeInv, TypeOK
<1>3. ASSUME NEW w \in Workers,
             LeaveLoop(w) \/ TakeTask(w) \/ GoToSleep(w) \/ SpuriousWorkerWakeup(w)
      PROVE  ExecutedInOrder'
  BY <1>3, QuietStepKeepsOrder
     DEF LeaveLoop, TakeTask, GoToSleep, SpuriousWorkerWakeup, TypeInv, TypeOK
<1>4. ASSUME NEW c \in Clients, NEW w \in Workers, AddTask(c, w) PROVE ExecutedInOrder'
  <2>1. /\ calls[c] + 1 \in 1 .. MaxCalls
        /\ Push(c, w, calls[c] + 1, "idle") /\ UNCHANGED log
    BY <1>4, PoolAssumption DEF AddTask, Begin, TypeInv, TypeOK
  <2> QED BY <2>1, PushKeepsOrder
<1>5. ASSUME NEW c \in Clients, AddNext(c) PROVE ExecutedInOrder'
  <2>1. /\ calls[c] \in 1 .. MaxCalls /\ idx[c] \in Workers
        /\ \E next : Push(c, idx[c], calls[c], next)
        /\ UNCHANGED log
    BY <1>5 DEF AddNext, CallsNumbered, TypeInv, TypeOK
  <2> QED BY <2>1, PushKeepsOrder
<1>6. ASSUME NEW c \in Clients,
             \/ BeginExecuteTasks(c) \/ BeginWaitAllTask(c)
             \/ WaitNext(c) \/ WaitSleep(c) \/ SpuriousClientWakeup(c)
      PROVE  ExecutedInOrder'
  BY <1>6, QuietStepKeepsOrder
     DEF BeginExecuteTasks, BeginWaitAllTask, WaitNext, WaitSleep,
         SpuriousClientWakeup, workerVars
<1>7. ASSUME BeginDelete \/ DeleteStep PROVE ExecutedInOrder'
  <2>1. UNCHANGED <<queue, given, log>>
    BY <1>7 DEF BeginDelete, DeleteStep, SetStopped, NotifyStopped, Join, workerVars
  <2>2. \A w \in Workers : wpc'[w] = "returning" <=> wpc[w] = "returning"
    BY <1>7 DEF BeginDelete, DeleteStep, SetStopped, NotifyStopped, Join, workerVars,
                NotifyWorker, TypeInv, TypeOK
  <2> QED BY <2>1, <2>2, QuietStepKeepsOrder
<1>8. CASE UNCHANGED vars
  BY <1>8, QuietStepKeepsOrder DEF vars
<1> QED BY <1>1, <1>2, <1>3, <1>4, <1>5, <1>6, <1>7, <1>8
     DEF Next, WorkerStep, ClientCall, ClientStep

-----------------------------------------------------------------------------
(* WaitAllTask is sound.                                                   *)

\* Every queued task belongs to a call that has begun.
WaitInv == WaitProgress /\ NoTaskOutlivesItsWait

\* A step that pushes nothing only shortens the queues.
LEMMA FewerTasks ==
    ASSUME TypeInv, NEW w \in Workers, FinishTask(w), NEW v \in Workers, NEW i \in DOMAIN queue'[v]
    PROVE  \E j \in DOMAIN queue[v] : queue'[v][i] = queue[v][j]
<1>1. CASE v = w
  <2>1. queue[w] \in Seq(Task) /\ queue[w] # <<>>
    BY DEF FinishTask, TypeInv, TypeOK, TaskInHand
  <2>2. queue'[w] = Tail(queue[w])
    BY DEF FinishTask, TypeInv, TypeOK
  <2> QED BY <1>1, <2>1, <2>2, TailElements
<1>2. CASE v # w
  BY <1>2 DEF FinishTask, TypeInv, TypeOK
<1> QED BY <1>1, <1>2

\* A push of client c adds one task of a call of c that no wait covers, and
\* c is not waiting after it, or starts to wait at the first worker.
LEMMA PushKeepsWaitInv ==
    ASSUME TypeInv, WaitInv, NEW c \in Clients, NEW w \in Workers,
           NEW k \in 1 .. MaxCalls, NEW next, Push(c, w, k, next),
           k > covered[c], UNCHANGED covered,
           next \notin {"waiting", "asleep"} \/ idx'[c] = 0,
           \A d \in Clients \ {c} : idx'[d] = idx[d]
    PROVE  WaitInv'
<1> DEFINE t == [client |-> c, call |-> k, worker |-> w]
<1>1. /\ t \in Task /\ t.client = c /\ t.call = k
      /\ queue'[w] = Append(queue[w], t)
      /\ \A v \in Workers \ {w} : queue'[v] = queue[v]
  BY PushEffect DEF TypeInv
<1> HIDE DEF t
<1>2. \A v \in Workers : \A i \in DOMAIN queue'[v] :
          (i \in DOMAIN queue[v] /\ queue'[v][i] = queue[v][i]) \/ queue'[v][i] = t
  <2> SUFFICES ASSUME NEW v \in Workers, NEW i \in DOMAIN queue'[v]
               PROVE  (i \in DOMAIN queue[v] /\ queue'[v][i] = queue[v][i]) \/ queue'[v][i] = t
    OBVIOUS
  <2>1. queue[w] \in Seq(Task)
    BY DEF TypeInv, TypeOK
  <2> QED BY <1>1, <2>1, PushKeepsFront, SMTT(30)
<1>3. NoTaskOutlivesItsWait'
  BY <1>1, <1>2 DEF WaitInv, NoTaskOutlivesItsWait
<1>4. WaitProgress'
  <2> SUFFICES ASSUME NEW d \in Clients, cpc'[d] \in {"waiting", "asleep"},
                      NEW v \in Workers, v < idx'[d], NEW i \in DOMAIN queue'[v]
               PROVE  queue'[v][i].client # d
    BY DEF WaitProgress
  <2>1. CASE d = c
    <3>1. cpc'[c] = next
      BY DEF Push
    <3>2. idx'[c] = 0
      BY <2>1, <3>1
    <3> QED BY <2>1, <3>2, PoolAssumption DEF Workers
  <2>2. CASE d # c
    <3>1. cpc[d] \in {"waiting", "asleep"} /\ idx'[d] = idx[d]
      BY <2>2 DEF Push, SleepersOn
    <3>2. \A j \in DOMAIN queue[v] : queue[v][j].client # d
      BY <3>1 DEF WaitInv, WaitProgress
    <3> QED BY <1>1, <1>2, <2>2, <3>2
  <2> QED BY <2>1, <2>2
<1> QED BY <1>3, <1>4 DEF WaitInv

\* A step that changes no queue, moves no loop index and ends no wait.
LEMMA QuietStepKeepsWaitInv ==
    ASSUME WaitInv, UNCHANGED <<queue, covered>>,
           \A c \in Clients :
               cpc'[c] \in {"waiting", "asleep"} =>
                   \/ cpc[c] \in {"waiting", "asleep"} /\ idx'[c] = idx[c]
                   \/ idx'[c] = 0
    PROVE  WaitInv'
<1>1. NoTaskOutlivesItsWait'
  BY DEF WaitInv, NoTaskOutlivesItsWait
<1>2. WaitProgress'
  <2> SUFFICES ASSUME NEW c \in Clients, cpc'[c] \in {"waiting", "asleep"},
                      NEW w \in Workers, w < idx'[c], NEW i \in DOMAIN queue[w]
               PROVE  queue[w][i].client # c
    BY DEF WaitProgress
  <2>1. idx'[c] # 0
    BY PoolAssumption DEF Workers
  <2> QED BY <2>1 DEF WaitInv, WaitProgress
<1> QED BY <1>1, <1>2 DEF WaitInv

LEMMA WaitStep == TypeInv /\ WaitInv /\ [Next]_vars => WaitInv'
<1> SUFFICES ASSUME TypeInv, WaitInv, [Next]_vars PROVE WaitInv'
  OBVIOUS
<1>1. ASSUME NEW w \in Workers, FinishTask(w) PROVE WaitInv'
  <2>1. UNCHANGED <<idx, covered>>
        /\ \A c \in Clients : cpc'[c] \in {"waiting", "asleep"} => cpc[c] \in {"waiting", "asleep"}
    BY <1>1 DEF FinishTask, WakeClients, SleepersOn, clientVars
  <2>2. NoTaskOutlivesItsWait'
    BY <1>1, <2>1, FewerTasks DEF WaitInv, NoTaskOutlivesItsWait
  <2>3. WaitProgress'
    BY <1>1, <2>1, FewerTasks DEF WaitInv, WaitProgress
  <2> QED BY <2>2, <2>3 DEF WaitInv
<1>2. ASSUME NEW w \in Workers,
             \/ LeaveLoop(w) \/ TakeTask(w) \/ RunTask(w)
             \/ GoToSleep(w) \/ SpuriousWorkerWakeup(w)
      PROVE  WaitInv'
  BY <1>2, QuietStepKeepsWaitInv
     DEF LeaveLoop, TakeTask, RunTask, GoToSleep, SpuriousWorkerWakeup, clientVars
<1>3. ASSUME NEW c \in Clients, NEW w \in Workers, AddTask(c, w) PROVE WaitInv'
  <2>1. /\ calls[c] + 1 \in 1 .. MaxCalls /\ calls[c] + 1 > covered[c]
        /\ Push(c, w, calls[c] + 1, "idle") /\ UNCHANGED covered
        /\ \A d \in Clients \ {c} : idx'[d] = idx[d]
    BY <1>3, PoolAssumption DEF AddTask, Begin, TypeInv, TypeOK, CallsNumbered
  <2> QED BY <2>1, PushKeepsWaitInv
<1>4. ASSUME NEW c \in Clients, AddNext(c) PROVE WaitInv'
  <2> DEFINE next == IF idx[c] = NumThreads - 1 THEN "waiting" ELSE "adding"
  <2>1. /\ calls[c] \in 1 .. MaxCalls /\ idx[c] \in Workers /\ calls[c] > covered[c]
        /\ Push(c, idx[c], calls[c], next) /\ UNCHANGED covered
    BY <1>4 DEF AddNext, CallsNumbered, TypeInv, TypeOK
  <2>2. /\ \A d \in Clients \ {c} : idx'[d] = idx[d]
        /\ next \notin {"waiting", "asleep"} \/ idx'[c] = 0
    BY <1>4 DEF AddNext, TypeInv, TypeOK
  <2> HIDE DEF next
  <2> QED BY <2>1, <2>2, PushKeepsWaitInv
<1>5. ASSUME NEW c \in Clients,
             \/ BeginExecuteTasks(c) \/ BeginWaitAllTask(c)
             \/ WaitSleep(c) \/ SpuriousClientWakeup(c)
      PROVE  WaitInv'
  BY <1>5, QuietStepKeepsWaitInv
     DEF BeginExecuteTasks, BeginWaitAllTask, Begin, WaitSleep, SpuriousClientWakeup,
         clientVars, TypeInv, TypeOK
<1>6. ASSUME NEW c \in Clients, WaitNext(c) PROVE WaitInv'
  <2>1. \* No task of c is queued for the workers 0 .. idx[c].
        \A w \in Workers : w <= idx[c] =>
            \A i \in DOMAIN queue[w] : queue[w][i].client # c
    <3> SUFFICES ASSUME NEW w \in Workers, w <= idx[c], NEW i \in DOMAIN queue[w]
                 PROVE  queue[w][i].client # c
      OBVIOUS
    <3>1. w # idx[c]
      BY <1>6 DEF WaitNext
    <3>2. w < idx[c]
      BY <3>1 DEF Workers, TypeInv, TypeOK
    <3> QED BY <1>6, <3>2 DEF WaitNext, WaitInv, WaitProgress
  <2>2. UNCHANGED queue
    BY <1>6 DEF WaitNext
  <2>3. CASE idx[c] = NumThreads - 1
    <3>1. /\ \A d \in Clients \ {c} : covered'[d] = covered[d] /\ cpc'[d] = cpc[d] /\ idx'[d] = idx[d]
          /\ cpc'[c] = "idle"
      BY <1>6, <2>3 DEF WaitNext, TypeInv, TypeOK
    <3>2. \A w \in Workers : \A i \in DOMAIN queue[w] :
              queue[w][i].client \in Clients \ {c}
      <4> SUFFICES ASSUME NEW w \in Workers, NEW i \in DOMAIN queue[w]
                   PROVE  queue[w][i].client \in Clients \ {c}
        OBVIOUS
      <4>1. w <= idx[c]
        BY <2>3, PoolAssumption DEF Workers
      <4>2. queue[w][i] \in Task
        BY ElementOfSeq, LenProperties DEF TypeInv, TypeOK
      <4> QED BY <2>1, <4>1, <4>2 DEF Task
    <3>3. NoTaskOutlivesItsWait'
      BY <2>2, <3>1, <3>2 DEF WaitInv, NoTaskOutlivesItsWait
    <3>4. WaitProgress'
      BY <2>2, <3>1 DEF WaitInv, WaitProgress
    <3> QED BY <3>3, <3>4 DEF WaitInv
  <2>4. CASE idx[c] # NumThreads - 1
    <3>1. /\ UNCHANGED <<cpc, covered>> /\ idx'[c] = idx[c] + 1
          /\ \A d \in Clients \ {c} : idx'[d] = idx[d]
      BY <1>6, <2>4 DEF WaitNext, TypeInv, TypeOK
    <3>2. \A w \in Workers : w < idx'[c] => w <= idx[c]
      BY <3>1 DEF Workers, TypeInv, TypeOK
    <3>3. NoTaskOutlivesItsWait'
      BY <2>2, <3>1 DEF WaitInv, NoTaskOutlivesItsWait
    <3>4. WaitProgress'
      BY <2>1, <2>2, <3>1, <3>2 DEF WaitInv, WaitProgress
    <3> QED BY <3>3, <3>4 DEF WaitInv
  <2> QED BY <2>3, <2>4
<1>7. ASSUME BeginDelete \/ DeleteStep PROVE WaitInv'
  <2>1. UNCHANGED <<queue, covered>>
    BY <1>7 DEF BeginDelete, DeleteStep, SetStopped, NotifyStopped, Join, workerVars, clientVars
  <2>2. ASSUME NEW c \in Clients, cpc'[c] \in {"waiting", "asleep"}
        PROVE  cpc[c] \in {"waiting", "asleep"} /\ idx'[c] = idx[c]
    BY <1>7, <2>2 DEF BeginDelete, DeleteStep, SetStopped, NotifyStopped, Join, workerVars,
                clientVars, TypeInv, TypeOK
  <2> QED BY <2>1, <2>2, QuietStepKeepsWaitInv
<1>8. CASE UNCHANGED vars
  BY <1>8, QuietStepKeepsWaitInv DEF vars
<1> QED BY <1>1, <1>2, <1>3, <1>4, <1>5, <1>6, <1>7, <1>8
     DEF Next, WorkerStep, ClientCall, ClientStep

-----------------------------------------------------------------------------
(* No wakeup is lost where one client calls ExecuteTasks, WaitAllTask and the *)
(* destructor only.                                                           *)

ForkJoin == Clients = {Owner} /\ "AddTask" \notin Uses

\* A worker has one task at most, and none outside the call that gave it.
OneTask ==
    \A w \in Workers :
        /\ queue[w] # <<>> =>
               /\ Tail(queue[w]) = <<>>
               /\ cpc[Owner] \in {"adding", "waiting", "asleep"}
               /\ cpc[Owner] = "adding" <=> w < idx[Owner]
        /\ wpc[w] = "asleep" => queue[w] = <<>>

LEMMA OneTaskStep == ASSUME ForkJoin, TypeInv, OneTask, [Next]_vars PROVE OneTask'
<1> USE PoolAssumption
<1>1. ASSUME NEW w \in Workers, FinishTask(w) PROVE OneTask'
  <2> SUFFICES ASSUME NEW v \in Workers
               PROVE  /\ queue'[v] # <<>> =>
                             /\ Tail(queue'[v]) = <<>>
                             /\ cpc'[Owner] \in {"adding", "waiting", "asleep"}
                             /\ cpc'[Owner] = "adding" <=> v < idx'[Owner]
                      /\ wpc'[v] = "asleep" => queue'[v] = <<>>
    BY DEF OneTask
  <2>1. /\ idx' = idx /\ (cpc'[Owner] = "adding" <=> cpc[Owner] = "adding")
        /\ cpc[Owner] \in {"adding", "waiting", "asleep"} => cpc'[Owner] \in {"adding", "waiting", "asleep"}
    BY <1>1 DEF FinishTask, WakeClients, SleepersOn, clientVars
  <2>2. CASE v = w
    <3>1. queue'[w] = Tail(queue[w]) /\ queue[w] # <<>>
      BY <1>1 DEF FinishTask, TypeInv, TypeOK, TaskInHand
    <3> QED BY <2>2, <3>1 DEF OneTask
  <2>3. CASE v # w
    <3>1. queue'[v] = queue[v] /\ wpc'[v] = wpc[v]
      BY <1>1, <2>3 DEF FinishTask, TypeInv, TypeOK
    <3> QED BY <2>1, <3>1 DEF OneTask
  <2> QED BY <2>2, <2>3
<1>2. ASSUME NEW w \in Workers,
             \/ LeaveLoop(w) \/ TakeTask(w) \/ RunTask(w)
             \/ GoToSleep(w) \/ SpuriousWorkerWakeup(w)
      PROVE  OneTask'
  <2>1. UNCHANGED <<queue, cpc, idx>> /\ \A v \in Workers : wpc'[v] = "asleep" => wpc[v] = "asleep" \/ queue[v] = <<>>
    BY <1>2 DEF LeaveLoop, TakeTask, RunTask, GoToSleep, SpuriousWorkerWakeup, clientVars, TypeInv, TypeOK
  <2> QED BY <2>1 DEF OneTask
<1>3. ASSUME NEW c \in Clients, AddNext(c) PROVE OneTask'
  <2> DEFINE last == idx[c] = NumThreads - 1
             next == IF last THEN "waiting" ELSE "adding"
  <2>1. /\ c = Owner /\ calls[c] \in 1 .. MaxCalls /\ idx[c] \in Workers /\ cpc[c] = "adding"
        /\ Push(c, idx[c], calls[c], next)
        /\ idx'[c] = IF last THEN 0 ELSE idx[c] + 1
    BY <1>3 DEF AddNext, CallsNumbered, TypeInv, TypeOK, ForkJoin
  <2>2. cpc'[c] = next
    BY <2>1 DEF Push
  <2>3. \A v \in Workers : wpc'[v] = "asleep" => wpc[v] = "asleep" /\ v # idx[c]
    BY <2>1 DEF Push, NotifyWorker, TypeInv, TypeOK
  <2>4. PICK t \in Task : /\ queue'[idx[c]] = Append(queue[idx[c]], t)
                          /\ \A v \in Workers \ {idx[c]} : queue'[v] = queue[v]
    <3> HIDE DEF next
    <3> QED BY <2>1, PushEffect DEF TypeInv
  <2>5. queue[idx[c]] = <<>>
    BY <2>1 DEF OneTask, Workers
  <2>6. Tail(queue'[idx[c]]) = <<>>
    BY <2>4, <2>5
  <2>7. ASSUME NEW v \in Workers
        PROVE  /\ queue'[v] # <<>> =>
                      /\ Tail(queue'[v]) = <<>>
                      /\ cpc'[Owner] \in {"adding", "waiting", "asleep"}
                      /\ cpc'[Owner] = "adding" <=> v < idx'[Owner]
               /\ wpc'[v] = "asleep" => queue'[v] = <<>>
    <3>1. queue'[v] # <<>> => v <= idx[c]
      BY <2>1, <2>4, SMTT(30) DEF OneTask, Workers
    <3>2. queue'[v] # <<>> => Tail(queue'[v]) = <<>>
      BY <2>4, <2>6 DEF OneTask
    <3>3. wpc'[v] = "asleep" => queue'[v] = <<>>
      BY <2>3, <2>4 DEF OneTask
    <3>4. v <= idx[c] => (cpc'[Owner] = "adding" <=> v < idx'[Owner])
      BY <2>1, <2>2 DEF Workers
    <3> QED BY <2>1, <2>2, <3>1, <3>2, <3>3, <3>4
  <2> QED BY <2>7 DEF OneTask
<1>4. ASSUME NEW c \in Clients,
             \/ BeginExecuteTasks(c) \/ BeginWaitAllTask(c)
      PROVE  OneTask'
  <2>1. cpc[Owner] = "idle" /\ UNCHANGED <<queue, wpc>>
    BY <1>4 DEF BeginExecuteTasks, BeginWaitAllTask, Begin, workerVars, ForkJoin
  <2> QED BY <2>1 DEF OneTask
<1>5. ASSUME NEW c \in Clients, WaitSleep(c) \/ SpuriousClientWakeup(c) PROVE OneTask'
  <2>1. /\ UNCHANGED <<queue, wpc, idx>> /\ cpc[Owner] \in {"waiting", "asleep"}
        /\ cpc'[Owner] \in {"waiting", "asleep"}
    BY <1>5 DEF WaitSleep, SpuriousClientWakeup, workerVars, clientVars, ForkJoin, TypeInv, TypeOK
  <2> QED BY <2>1 DEF OneTask
<1>6. ASSUME NEW c \in Clients, WaitNext(c) PROVE OneTask'
  <2>1. /\ c = Owner /\ cpc[c] = "waiting" /\ queue[idx[c]] = <<>> /\ UNCHANGED <<queue, wpc>>
    BY <1>6 DEF WaitNext, ForkJoin, workerVars
  <2>2. \A w \in Workers : queue[w] # <<>> => w > idx[c]
    BY <2>1, SMTT(30) DEF OneTask, Workers, TypeInv, TypeOK
  <2>3. CASE idx[c] = NumThreads - 1
    <3>1. \A w \in Workers : queue[w] = <<>>
      BY <2>2, <2>3 DEF Workers
    <3> QED BY <2>1, <3>1 DEF OneTask
  <2>4. CASE idx[c] # NumThreads - 1
    <3>1. cpc' = cpc /\ idx'[c] = idx[c] + 1 /\ idx[c] \in Nat
      BY <1>6, <2>4 DEF WaitNext, TypeInv, TypeOK, Workers
    <3>2. \A w \in Workers : queue[w] # <<>> => ~(w < idx'[c])
      BY <2>2, <3>1 DEF Workers
    <3> QED BY <2>1, <3>1, <3>2 DEF OneTask
  <2> QED BY <2>3, <2>4
<1>7. ASSUME BeginDelete \/ DeleteStep PROVE OneTask'
  <2>1. /\ UNCHANGED queue /\ cpc[Owner] \notin {"adding", "waiting", "asleep"}
        /\ \A w \in Workers : wpc'[w] = "asleep" => wpc[w] = "asleep"
    BY <1>7 DEF BeginDelete, DeleteStep, SetStopped, NotifyStopped, Join, workerVars, NotifyWorker,
                TypeInv, TypeOK
  <2> QED BY <2>1 DEF OneTask
<1>8. CASE UNCHANGED vars
  BY <1>8 DEF vars, OneTask
<1>9. ASSUME NEW c \in Clients, NEW w \in Workers PROVE ~AddTask(c, w)
  BY DEF AddTask, Begin, ForkJoin
<1> QED BY <1>1, <1>2, <1>3, <1>4, <1>5, <1>6, <1>7, <1>8, <1>9
     DEF Next, WorkerStep, ClientCall, ClientStep

-----------------------------------------------------------------------------
(* The pool implements TaskExecution. *)

\* Every task is given once, by a call that has begun.
GivenI ==
    \A w \in Workers :
        /\ \A i \in DOMAIN given[w] : /\ given[w][i].worker = w
                                      /\ given[w][i].call <= calls[given[w][i].client]
        /\ \A i, j \in DOMAIN given[w] : given[w][i] = given[w][j] => i = j
        /\ \A c \in Clients : cpc[c] = "adding" /\ w >= idx[c] =>
               \A i \in DOMAIN given[w] : ~(given[w][i].client = c /\ given[w][i].call = calls[c])

AbsSubmitted == UNION {Range(given[w]) : w \in Workers}
AbsExecuted == UNION {Range(log[w]) : w \in Workers}

LEMMA AppendRange ==
    ASSUME NEW S, NEW s \in Seq(S), NEW t \in S
    PROVE  Range(Append(s, t)) = Range(s) \cup {t}
<1>1. /\ Append(s, t) \in Seq(S) /\ Len(Append(s, t)) = Len(s) + 1 /\ Len(s) \in Nat
      /\ \A i \in 1 .. Len(s) : Append(s, t)[i] = s[i]
      /\ Append(s, t)[Len(s) + 1] = t
  BY AppendProperties, LenProperties
<1>2. DOMAIN s = 1 .. Len(s) /\ DOMAIN Append(s, t) = 1 .. Len(s) + 1
  BY <1>1, LenProperties
<1> DEFINE a == Append(s, t)
           n == Len(s)
<1> HIDE DEF a, n
<1>3. /\ n \in Nat /\ DOMAIN s = 1 .. n /\ DOMAIN a = 1 .. n + 1
      /\ \A i \in 1 .. n : a[i] = s[i]
      /\ a[n + 1] = t
  BY <1>1, <1>2 DEF a, n
<1>4. 1 .. n + 1 = (1 .. n) \cup {n + 1}
  BY <1>3
<1>5. Range(a) = Range(s) \cup {t}
  BY <1>3, <1>4 DEF Range
<1> QED BY <1>5 DEF a

LEMMA ElementsAreTasks ==
    ASSUME NEW s \in Seq(Task)
    PROVE  /\ DOMAIN s = 1 .. Len(s) /\ Len(s) \in Nat
           /\ \A i \in DOMAIN s : /\ s[i] \in Task /\ s[i].client \in Clients
                                  /\ s[i].call \in Nat /\ s[i].worker \in Workers
<1>1. DOMAIN s = 1 .. Len(s) /\ Len(s) \in Nat
  BY LenProperties
<1>2. \A i \in DOMAIN s : s[i] \in Task
  BY <1>1, ElementOfSeq
<1>3. \A t \in Task : t.client \in Clients /\ t.call \in Nat /\ t.worker \in Workers
  BY PoolAssumption DEF Task
<1> QED BY <1>1, <1>2, <1>3

LEMMA QuietStepKeepsGiven ==
    ASSUME GivenI, UNCHANGED given, \A c \in Clients : calls'[c] \in Nat /\ calls[c] <= calls'[c],
           \A c \in Clients : calls[c] \in Nat,
           \A c \in Clients : cpc'[c] = "adding" =>
               \/ cpc[c] = "adding" /\ idx'[c] = idx[c] /\ calls'[c] = calls[c]
               \/ calls'[c] > calls[c],
           \A w \in Workers : given[w] \in Seq(Task)
    PROVE  GivenI'
<1> SUFFICES ASSUME NEW w \in Workers
             PROVE  /\ \A i \in DOMAIN given[w] : /\ given[w][i].worker = w
                                                  /\ given[w][i].call <= calls'[given[w][i].client]
                    /\ \A i, j \in DOMAIN given[w] : given[w][i] = given[w][j] => i = j
                    /\ \A c \in Clients : cpc'[c] = "adding" /\ w >= idx'[c] =>
                           \A i \in DOMAIN given[w] :
                               ~(given[w][i].client = c /\ given[w][i].call = calls'[c])
  BY DEF GivenI
<1>1. \A i \in DOMAIN given[w] : /\ given[w][i].client \in Clients /\ given[w][i].call \in Nat
                                 /\ given[w][i].worker = w
                                 /\ given[w][i].call <= calls[given[w][i].client]
  BY ElementsAreTasks DEF GivenI
<1>2. \A i \in DOMAIN given[w] : given[w][i].call <= calls'[given[w][i].client]
  BY <1>1
<1>3. ASSUME NEW c \in Clients, cpc'[c] = "adding", w >= idx'[c], NEW i \in DOMAIN given[w],
             given[w][i].client = c, given[w][i].call = calls'[c]
      PROVE  FALSE
  BY <1>1, <1>3 DEF GivenI
<1> QED BY <1>1, <1>2, <1>3 DEF GivenI

\* A push gives a new task.
LEMMA PushIsSubmit ==
    ASSUME TypeInv, GivenI, NEW c \in Clients, NEW w \in Workers, NEW k \in 1 .. MaxCalls,
           NEW next, Push(c, w, k, next), UNCHANGED <<log, covered>>,
           \A i \in DOMAIN given[w] : ~(given[w][i].client = c /\ given[w][i].call = k),
           calls'[c] = k, calls[c] <= k,
           \A d \in Clients \ {c} : calls'[d] = calls[d] /\ idx'[d] = idx[d],
           next = "adding" => cpc[c] = "adding" /\ calls[c] = k /\ idx[c] = w /\ idx'[c] = w + 1
    PROVE  /\ GivenI'
           /\ [client |-> c, call |-> k, worker |-> w] \in Task
           /\ Service!Submit([client |-> c, call |-> k, worker |-> w])
<1> DEFINE t == [client |-> c, call |-> k, worker |-> w]
<1>1. /\ t \in Task /\ t.client = c /\ t.call = k /\ t.worker = w
      /\ given'[w] = Append(given[w], t)
      /\ \A v \in Workers \ {w} : given'[v] = given[v]
  BY PushEffect DEF TypeInv
<1>2. \A d \in Clients \ {c} : cpc'[d] = "adding" => cpc[d] = "adding"
  BY DEF Push
<1>3. cpc'[c] = next
  BY DEF Push
<1> HIDE DEF t
<1>4. /\ \A v \in Workers : given[v] \in Seq(Task) /\ DOMAIN given[v] = 1 .. Len(given[v])
                            /\ Len(given[v]) \in Nat
      /\ \A v \in Workers : \A i \in DOMAIN given[v] :
             /\ given[v][i] \in Task /\ given[v][i].client \in Clients /\ given[v][i].call \in Nat
             /\ given[v][i].worker = v /\ given[v][i].call <= calls[given[v][i].client]
  <2>1. \A v \in Workers : given[v] \in Seq(Task)
    BY DEF TypeInv, TypeOK
  <2> QED BY <2>1, ElementsAreTasks DEF GivenI
<1>5. \A d \in Clients : calls[d] \in Nat /\ calls'[d] \in Nat /\ calls[d] <= calls'[d]
  <2>1. \A d \in Clients : calls[d] \in Nat
    BY PoolAssumption DEF TypeInv, TypeOK
  <2>2. k \in Nat
    BY PoolAssumption
  <2> QED BY <2>1, <2>2
<1>6. /\ DOMAIN given'[w] = 1 .. Len(given[w]) + 1
      /\ \A i \in 1 .. Len(given[w]) : given'[w][i] = given[w][i]
      /\ given'[w][Len(given[w]) + 1] = t
  <2>1. /\ Len(Append(given[w], t)) = Len(given[w]) + 1 /\ Append(given[w], t) \in Seq(Task)
        /\ \A i \in 1 .. Len(given[w]) : Append(given[w], t)[i] = given[w][i]
        /\ Append(given[w], t)[Len(given[w]) + 1] = t
    BY <1>1, <1>4, AppendProperties
  <2>2. DOMAIN Append(given[w], t) = 1 .. Len(given[w]) + 1
    BY <2>1, LenProperties
  <2> QED BY <1>1, <2>1, <2>2
<1>7. \A i \in DOMAIN given[w] : given[w][i] # t
  BY <1>1
<1>8. GivenI'
  <2> SUFFICES ASSUME NEW v \in Workers
               PROVE  /\ \A i \in DOMAIN given'[v] : /\ given'[v][i].worker = v
                                                    /\ given'[v][i].call <= calls'[given'[v][i].client]
                      /\ \A i, j \in DOMAIN given'[v] : given'[v][i] = given'[v][j] => i = j
                      /\ \A d \in Clients : cpc'[d] = "adding" /\ v >= idx'[d] =>
                             \A i \in DOMAIN given'[v] :
                                 ~(given'[v][i].client = d /\ given'[v][i].call = calls'[d])
    BY DEF GivenI
  <2>1. CASE v # w
    <3>1. given'[v] = given[v]
      BY <1>1, <2>1
    <3>2. \A i \in DOMAIN given[v] : given[v][i].call <= calls'[given[v][i].client]
      BY <1>4, <1>5
    <3>3. ASSUME NEW d \in Clients, cpc'[d] = "adding", v >= idx'[d], NEW i \in DOMAIN given[v],
                 given[v][i].client = d, given[v][i].call = calls'[d]
          PROVE  FALSE
      <4>1. cpc[d] = "adding" /\ calls[d] = calls'[d] /\ v >= idx[d]
        BY <1>2, <1>3, <3>3 DEF Workers
      <4> QED BY <3>3, <4>1 DEF GivenI
    <3> QED BY <1>4, <3>1, <3>2, <3>3 DEF GivenI
  <2>2. CASE v = w
    <3>1. \A i \in DOMAIN given'[w] : /\ given'[w][i].worker = w
                                      /\ given'[w][i].call <= calls'[given'[w][i].client]
      <4>1. ASSUME NEW i \in 1 .. Len(given[w])
            PROVE  given'[w][i].worker = w /\ given'[w][i].call <= calls'[given'[w][i].client]
        <5>1. given'[w][i] = given[w][i] /\ i \in DOMAIN given[w]
          BY <1>4, <1>6
        <5>2. given[w][i].client \in Clients /\ given[w][i].call <= calls[given[w][i].client]
          BY <1>4, <5>1
        <5> QED BY <1>4, <1>5, <5>1, <5>2
      <4>2. t.worker = w /\ t.call <= calls'[t.client]
        BY <1>1, <1>5
      <4>3. \A i \in DOMAIN given'[w] : i \in 1 .. Len(given[w]) \/ i = Len(given[w]) + 1
        BY <1>4, <1>6
      <4>4. given'[w][Len(given[w]) + 1] = t
        BY <1>6
      <4> QED BY <4>1, <4>2, <4>3, <4>4
    <3>2. \A i, j \in DOMAIN given'[w] : given'[w][i] = given'[w][j] => i = j
      <4> SUFFICES ASSUME NEW i \in DOMAIN given'[w], NEW j \in DOMAIN given'[w], given'[w][i] = given'[w][j]
                   PROVE  i = j
        OBVIOUS
      <4>1. CASE i \in DOMAIN given[w] /\ j \in DOMAIN given[w]
        BY <1>4, <1>6, <4>1, SMTT(30) DEF GivenI
      <4>2. CASE ~(i \in DOMAIN given[w] /\ j \in DOMAIN given[w])
        BY <1>4, <1>6, <1>7, <4>2, SMTT(30)
      <4> QED BY <4>1, <4>2
    <3>3. ASSUME NEW d \in Clients, cpc'[d] = "adding", w >= idx'[d], NEW i \in DOMAIN given'[w],
                 given'[w][i].client = d, given'[w][i].call = calls'[d]
          PROVE  FALSE
      <4>1. d # c
        BY <1>3, <3>3 DEF Workers
      <4>2. cpc[d] = "adding" /\ calls[d] = calls'[d] /\ w >= idx[d]
        BY <1>2, <3>3, <4>1
      <4>3. i \in DOMAIN given[w] /\ given'[w][i] = given[w][i]
        BY <1>1, <1>4, <1>6, <3>3, <4>1
      <4> QED BY <3>3, <4>2, <4>3 DEF GivenI
    <3> QED BY <2>2, <3>1, <3>2, <3>3
  <2> QED BY <2>1, <2>2
<1>9. t \notin AbsSubmitted
  <2> SUFFICES ASSUME NEW v \in Workers, NEW i \in DOMAIN given[v], given[v][i] = t
               PROVE  FALSE
    BY DEF AbsSubmitted, Range
  <2>1. v = w
    BY <1>1, <1>4
  <2> QED BY <1>7, <2>1
<1>10. AbsSubmitted' = AbsSubmitted \cup {t}
  <2>2. Range(given'[w]) = Range(given[w]) \cup {t}
    BY <1>1, <1>4, AppendRange
  <2>3. \A v \in Workers \ {w} : Range(given'[v]) = Range(given[v])
    BY <1>1
  <2>4. \A x : x \in AbsSubmitted <=> \E v \in Workers : x \in Range(given[v])
    BY Zenon DEF AbsSubmitted
  <2>5. \A x : x \in AbsSubmitted' <=> \E v \in Workers : x \in Range(given'[v])
    BY Zenon DEF AbsSubmitted
  <2> QED BY <2>2, <2>3, <2>4, <2>5
<1>11. AbsExecuted' = AbsExecuted
  BY DEF AbsExecuted
<1>12. Service!Submit(t)
  BY <1>9, <1>10, <1>11 DEF Service!Submit, AbsSubmitted, AbsExecuted
<1> QED BY <1>1, <1>8, <1>12 DEF t

\* Running a task executes it in TaskExecution.
LEMMA RunIsExecute ==
    ASSUME TypeInv, ExecutedInOrder, GivenI, NEW w \in Workers, RunTask(w)
    PROVE  /\ Service!Execute(task[w])
           /\ task[w] \in Task /\ task[w].worker = w
           /\ queue[w] # <<>> /\ task[w] = Head(queue[w])
<1>1. /\ UNCHANGED <<given, covered, calls, cpc, idx>>
      /\ log' = [log EXCEPT ![w] = Append(@, task[w])]
      /\ queue[w] # <<>> /\ queue[w] \in Seq(Task) /\ log[w] \in Seq(Task)
      /\ task[w] = Head(queue[w]) /\ given[w] = log[w] \o queue[w]
  BY DEF RunTask, clientVars, TypeInv, TypeOK, TaskInHand, ExecutedInOrder, Unexecuted
<1> DEFINE t == Head(queue[w])
           n == Len(log[w])
<1>20. t = Head(queue[w]) /\ n = Len(log[w])
  OBVIOUS
<1> HIDE DEF t, n
<1>3. /\ t \in Task /\ Len(queue[w]) \in Nat \ {0} /\ n \in Nat /\ t = queue[w][1]
      /\ DOMAIN given[w] = 1 .. n + Len(queue[w])
      /\ given[w][n + 1] = t /\ \A i \in 1 .. n : given[w][i] = log[w][i]
      /\ DOMAIN log[w] = 1 .. n
  <2>1. /\ t \in Task /\ t = queue[w][1] /\ Len(queue[w]) \in Nat \ {0} /\ n \in Nat
        /\ DOMAIN log[w] = 1 .. n
    BY <1>1, <1>20, HeadTailProperties, LenProperties, EmptySeq
  <2>2. /\ given[w] \in Seq(Task) /\ Len(given[w]) = n + Len(queue[w])
        /\ \A i \in 1 .. Len(given[w]) :
              given[w][i] = IF i <= n THEN log[w][i] ELSE queue[w][i - n]
    <3> DEFINE l == log[w]
               q == queue[w]
    <3>1. l \in Seq(Task) /\ q \in Seq(Task) /\ given[w] = l \o q
      BY <1>1
    <3> HIDE DEF l, q
    <3>2. /\ l \o q \in Seq(Task) /\ Len(l \o q) = Len(l) + Len(q)
          /\ \A i \in 1 .. Len(l) + Len(q) :
                (l \o q)[i] = IF i <= Len(l) THEN l[i] ELSE q[i - Len(l)]
      BY <3>1, ConcatProperties
    <3> QED BY <1>20, <3>1, <3>2 DEF l, q
  <2>3. DOMAIN given[w] = 1 .. Len(given[w])
    BY <2>2, LenProperties
  <2>4. given[w][n + 1] = queue[w][(n + 1) - n] /\ (n + 1) - n = 1
    <3>1. n + 1 \in 1 .. Len(given[w]) /\ ~(n + 1 <= n) /\ (n + 1) - n = 1
      BY <2>1, <2>2
    <3> QED BY <2>2, <3>1
  <2>5. \A i \in 1 .. n : given[w][i] = log[w][i]
    <3>1. \A i \in 1 .. n : i \in 1 .. Len(given[w]) /\ i <= n
      BY <2>1, <2>2
    <3> QED BY <2>2, <3>1
  <2> QED BY <2>1, <2>2, <2>3, <2>4, <2>5
<1>31. n + 1 \in DOMAIN given[w] /\ \A i \in 1 .. n : i # n + 1
  BY <1>3
<1>4. t \in AbsSubmitted
  BY <1>3, <1>31 DEF AbsSubmitted, Range
<1>5. t \notin AbsExecuted
  <2> SUFFICES ASSUME NEW v \in Workers, NEW i \in DOMAIN log[v], log[v][i] = t
               PROVE  FALSE
    BY DEF AbsExecuted, Range
  <2>1. /\ log[v] \in Seq(Task) /\ Unexecuted(v) \in Seq(Task)
        /\ given[v] = log[v] \o Unexecuted(v)
    BY HeadTailProperties DEF TypeInv, TypeOK, ExecutedInOrder, Unexecuted, TaskInHand
  <2>2. i \in DOMAIN given[v] /\ given[v][i] = t
    BY <2>1, ConcatProperties, LenProperties
  <2>3. v = w
    BY <1>3, <1>31, <2>2 DEF GivenI
  <2>4. n + 1 \in DOMAIN given[w] /\ i # n + 1 /\ i \in DOMAIN given[w] /\ given[w][i] = given[w][n + 1]
    BY <1>3, <1>31, <2>2, <2>3
  <2> QED BY <2>4 DEF GivenI
<1>6. AbsExecuted' = AbsExecuted \cup {t}
  <2>1. log'[w] = Append(log[w], t) /\ \A v \in Workers \ {w} : log'[v] = log[v]
    BY <1>1, <1>20 DEF TypeInv, TypeOK
  <2>2. Range(log'[w]) = Range(log[w]) \cup {t}
    BY <1>1, <1>3, <2>1, AppendRange
  <2> QED BY <2>1, <2>2 DEF AbsExecuted
<1>7. Service!Execute(t)
  <2>1. AbsSubmitted' = AbsSubmitted /\ covered' = covered
    BY <1>1 DEF AbsSubmitted
  <2> QED BY <1>4, <1>5, <1>6, <2>1 DEF Service!Execute, AbsSubmitted, AbsExecuted
<1>8. t.worker = w
  BY <1>3, <1>31 DEF GivenI
<1> QED BY <1>1, <1>20, <1>3, <1>7, <1>8

\* The return of a wait is the one of TaskExecution: all tasks of the client were executed.
LEMMA WaitIsReturn ==
    ASSUME TypeInv, ExecutedInOrder, WaitInv, GivenI, NEW c \in Clients, WaitNext(c),
           idx[c] = NumThreads - 1
    PROVE  Service!Return(c, calls[c])
<1>0. \A w \in Workers : given[w] \in Seq(Task)
  BY DEF TypeInv, TypeOK
<1>00. UNCHANGED <<given, log>> /\ cpc[c] = "waiting" /\ queue[idx[c]] = <<>>
  BY DEF WaitNext, workerVars
<1>1. covered' = [covered EXCEPT ![c] = calls[c]] /\ calls[c] \in 0 .. MaxCalls
  BY DEF WaitNext, TypeInv, TypeOK
<1>2. ASSUME NEW t \in AbsSubmitted, t.client = c PROVE t \in AbsExecuted /\ t.call <= calls[c]
  <2>1. PICK w \in Workers : t \in Range(given[w])
    BY DEF AbsSubmitted
  <2>2. PICK i \in DOMAIN given[w] : given[w][i] = t
    BY <2>1 DEF Range
  <2>3. /\ log[w] \in Seq(Task) /\ Unexecuted(w) \in Seq(Task) /\ queue[w] \in Seq(Task)
        /\ given[w] = log[w] \o Unexecuted(w)
        /\ wpc[w] = "returning" => queue[w] # <<>>
    BY HeadTailProperties DEF TypeInv, TypeOK, ExecutedInOrder, Unexecuted, TaskInHand
  <2>4. \/ i \in DOMAIN log[w] /\ t = log[w][i]
        \/ \E j \in DOMAIN Unexecuted(w) : t = Unexecuted(w)[j]
    <3>1. /\ Len(log[w]) \in Nat /\ Len(Unexecuted(w)) \in Nat
          /\ DOMAIN log[w] = 1 .. Len(log[w]) /\ DOMAIN Unexecuted(w) = 1 .. Len(Unexecuted(w))
          /\ DOMAIN given[w] = 1 .. Len(given[w])
          /\ Len(given[w]) = Len(log[w]) + Len(Unexecuted(w))
          /\ given[w][i] = IF i <= Len(log[w]) THEN log[w][i] ELSE Unexecuted(w)[i - Len(log[w])]
      BY <1>0, <2>3, ConcatProperties, LenProperties
    <3>2. CASE i <= Len(log[w])
      BY <2>2, <3>1, <3>2
    <3>3. CASE ~(i <= Len(log[w]))
      <4>1. i - Len(log[w]) \in 1 .. Len(Unexecuted(w)) /\ t = Unexecuted(w)[i - Len(log[w])]
        BY <2>2, <3>1, <3>3
      <4> QED BY <3>1, <4>1
    <3> QED BY <3>2, <3>3
  <2>5. ASSUME NEW j \in DOMAIN Unexecuted(w), t = Unexecuted(w)[j] PROVE FALSE
    <3>1. \E k \in DOMAIN queue[w] : queue[w][k] = t
      BY <2>3, <2>5, TailElements DEF Unexecuted
    <3>2. w = idx[c] \/ w < idx[c]
      BY PoolAssumption DEF Workers
    <3>3. w # idx[c]
      BY <1>00, <3>1
    <3> QED BY <1>00, <1>2, <3>1, <3>2, <3>3 DEF WaitInv, WaitProgress
  <2>6. t.call <= calls[c]
    BY <1>2, <2>2 DEF GivenI
  <2> QED BY <2>4, <2>5, <2>6 DEF AbsExecuted, Range
<1>3. AbsSubmitted' = AbsSubmitted /\ AbsExecuted' = AbsExecuted
  BY <1>00 DEF AbsSubmitted, AbsExecuted
<1>4. Service!Return(c, calls[c])
  BY <1>1, <1>2, <1>3 DEF Service!Return, AbsSubmitted, AbsExecuted
<1> QED BY <1>4

LEMMA RefinementStep ==
    ASSUME TypeInv, TypeInv', ExecutedInOrder, WaitInv, GivenI, [Next]_vars
    PROVE  GivenI' /\ [Service!AbsNext]_Service!absVars
<1> DEFINE Goal == GivenI' /\ [Service!AbsNext]_Service!absVars
<1>0. /\ \A w \in Workers : given[w] \in Seq(Task)
      /\ \A c \in Clients : calls[c] \in Nat
  BY PoolAssumption, SMTT(30) DEF TypeInv, TypeOK
<1>00. UNCHANGED <<given, log, covered>> => UNCHANGED Service!absVars
  BY DEF Service!absVars
<1>1. ASSUME NEW w \in Workers, RunTask(w) PROVE Goal
  <2>1. UNCHANGED <<given, covered, calls, cpc, idx>>
    BY <1>1 DEF RunTask, clientVars
  <2>2. GivenI'
    BY <1>0, <2>1, QuietStepKeepsGiven
  <2> QED BY <1>1, <2>2, RunIsExecute DEF Service!AbsNext
<1>2. ASSUME NEW w \in Workers,
             \/ LeaveLoop(w) \/ TakeTask(w) \/ FinishTask(w)
             \/ GoToSleep(w) \/ SpuriousWorkerWakeup(w)
      PROVE  Goal
  <2>1. /\ UNCHANGED <<given, log, covered, calls, idx>>
        /\ \A c \in Clients : cpc'[c] = "adding" => cpc[c] = "adding"
    BY <1>2 DEF LeaveLoop, TakeTask, FinishTask, GoToSleep, SpuriousWorkerWakeup, WakeClients, clientVars
  <2> QED BY <1>0, <1>00, <2>1, QuietStepKeepsGiven
<1>3. ASSUME NEW c \in Clients, NEW w \in Workers, AddTask(c, w) PROVE Goal
  <2>1. /\ calls[c] + 1 \in 1 .. MaxCalls
        /\ Push(c, w, calls[c] + 1, "idle") /\ UNCHANGED <<log, covered>>
        /\ calls'[c] = calls[c] + 1
        /\ \A d \in Clients \ {c} : calls'[d] = calls[d] /\ idx'[d] = idx[d]
    BY <1>3, PoolAssumption, SMTT(30) DEF AddTask, Begin, TypeInv, TypeOK
  <2>2. \A i \in DOMAIN given[w] : ~(given[w][i].client = c /\ given[w][i].call = calls[c] + 1)
    BY <1>0 DEF GivenI
  <2> DEFINE t == [client |-> c, call |-> calls[c] + 1, worker |-> w]
  <2>3. GivenI' /\ t \in Task /\ Service!Submit(t)
    BY <1>0, <2>1, <2>2, PushIsSubmit
  <2> HIDE DEF t
  <2> QED BY <2>3 DEF Service!AbsNext
<1>4. ASSUME NEW c \in Clients, AddNext(c) PROVE Goal
  <2> DEFINE next == IF idx[c] = NumThreads - 1 THEN "waiting" ELSE "adding"
  <2>1. /\ calls[c] \in 1 .. MaxCalls /\ idx[c] \in Workers /\ cpc[c] = "adding"
        /\ Push(c, idx[c], calls[c], next) /\ UNCHANGED <<log, covered, calls>>
        /\ \A d \in Clients \ {c} : idx'[d] = idx[d]
        /\ next = "adding" => idx'[c] = idx[c] + 1
    BY <1>4 DEF AddNext, CallsNumbered, TypeInv, TypeOK
  <2> HIDE DEF next
  <2>2. \A i \in DOMAIN given[idx[c]] : ~(given[idx[c]][i].client = c /\ given[idx[c]][i].call = calls[c])
    BY <2>1 DEF GivenI, Workers
  <2> DEFINE t == [client |-> c, call |-> calls[c], worker |-> idx[c]]
  <2>3. GivenI' /\ t \in Task /\ Service!Submit(t)
    BY <2>1, <2>2, PushIsSubmit
  <2> HIDE DEF t
  <2> QED BY <2>3 DEF Service!AbsNext
<1>5. ASSUME NEW c \in Clients, BeginExecuteTasks(c) \/ BeginWaitAllTask(c) PROVE Goal
  <2>1. /\ UNCHANGED <<given, log, covered>>
        /\ calls' = [calls EXCEPT ![c] = @ + 1] /\ idx' = [idx EXCEPT ![c] = 0]
        /\ \A d \in Clients \ {c} : cpc'[d] = cpc[d]
    BY <1>5 DEF BeginExecuteTasks, BeginWaitAllTask, Begin, workerVars, TypeInv, TypeOK
  <2>2. /\ \A d \in Clients : calls'[d] \in Nat /\ calls[d] <= calls'[d]
        /\ calls'[c] > calls[c]
        /\ \A d \in Clients \ {c} : calls'[d] = calls[d] /\ idx'[d] = idx[d]
    BY <1>0, <2>1 DEF TypeInv, TypeOK
  <2> QED BY <1>0, <1>00, <2>1, <2>2, QuietStepKeepsGiven
<1>6. ASSUME NEW c \in Clients, WaitSleep(c) \/ SpuriousClientWakeup(c) PROVE Goal
  <2>1. /\ UNCHANGED <<given, log, covered, calls, idx>>
        /\ \A d \in Clients : cpc'[d] = "adding" => cpc[d] = "adding"
    BY <1>6 DEF WaitSleep, SpuriousClientWakeup, workerVars, clientVars, TypeInv, TypeOK
  <2> QED BY <1>0, <1>00, <2>1, QuietStepKeepsGiven
<1>7. ASSUME NEW c \in Clients, WaitNext(c) PROVE Goal
  <2>1. /\ UNCHANGED <<given, log, calls, queue, wpc>> /\ cpc[c] = "waiting" /\ queue[idx[c]] = <<>>
        /\ \A d \in Clients : cpc'[d] = "adding" => cpc[d] = "adding" /\ idx'[d] = idx[d]
    BY <1>7 DEF WaitNext, workerVars, TypeInv, TypeOK
  <2>2. GivenI'
    BY <1>0, <2>1, QuietStepKeepsGiven
  <2>3. CASE idx[c] = NumThreads - 1
    <3>1. calls[c] \in 0 .. MaxCalls
      BY DEF TypeInv, TypeOK
    <3> QED BY <1>7, <2>2, <2>3, <3>1, WaitIsReturn DEF Service!AbsNext
  <2>4. CASE idx[c] # NumThreads - 1
    <3>1. covered' = covered
      BY <1>7, <2>4 DEF WaitNext
    <3> QED BY <1>00, <2>1, <2>2, <3>1
  <2> QED BY <2>3, <2>4
<1>8. ASSUME BeginDelete \/ DeleteStep PROVE Goal
  <2>1. /\ UNCHANGED <<given, log, covered, calls>>
        /\ \A c \in Clients : cpc'[c] = "adding" => cpc[c] = "adding" /\ idx'[c] = idx[c]
    BY <1>8 DEF BeginDelete, DeleteStep, SetStopped, NotifyStopped, Join, workerVars, clientVars,
                TypeInv, TypeOK
  <2> QED BY <1>0, <1>00, <2>1, QuietStepKeepsGiven
<1>9. CASE UNCHANGED vars
  <2>1. UNCHANGED <<given, log, covered, calls, cpc, idx>>
    BY <1>9 DEF vars
  <2> QED BY <1>0, <1>00, <2>1, QuietStepKeepsGiven
<1> QED BY <1>1, <1>2, <1>3, <1>4, <1>5, <1>6, <1>7, <1>8, <1>9
     DEF Next, WorkerStep, ClientCall, ClientStep

\* The invariant of all theorems below that ask nothing of the clients.
PoolInv == TypeInv /\ ExecutedInOrder /\ WaitInv /\ GivenI

LEMMA PoolInit == Init => PoolInv
<1>1. ASSUME Init PROVE GivenI /\ WaitInv
  BY <1>1 DEF Init, GivenI, WaitInv, WaitProgress, NoTaskOutlivesItsWait
<1>2. ASSUME Init PROVE ExecutedInOrder
  <2>1. <<>> \o <<>> = <<>>
    BY ConcatEmptySeq, EmptySeq
  <2> QED BY <1>2, <2>1 DEF Init, ExecutedInOrder, Unexecuted
<1> QED BY <1>1, <1>2, TypeInit DEF PoolInv

LEMMA PoolStep == PoolInv /\ [Next]_vars => PoolInv' /\ [Service!AbsNext]_Service!absVars
BY TypeStep, OrderStep, WaitStep, RefinementStep DEF PoolInv

-----------------------------------------------------------------------------
(* The theorems.                                                           *)

\* The pool keeps its types: queues hold tasks, indexes name workers, whatever
\* the clients call.
THEOREM TypeCorrect == Spec => []TypeOK
<1>1. TypeInv /\ [Next]_vars => TypeInv'
  BY TypeStep
<1> QED BY <1>1, TypeInit, PTL DEF Spec, TypeInv

\* threadEntry executes the tasks of a worker once each and in the order of the
\* AddTask calls, though it copies the front task, runs it unlocked and pops later.
THEOREM OrderCorrect == Spec => []ExecutedInOrder
<1>1. PoolInv /\ [Next]_vars => PoolInv'
  BY PoolStep
<1> QED BY <1>1, PoolInit, PTL DEF Spec, PoolInv

\* WaitAllTask and ExecuteTasks are sound for every number of clients that share
\* the pool: no task of a client outlives a wait that covers it.
THEOREM WaitSound == Spec => []NoTaskOutlivesItsWait
<1>1. PoolInv /\ [Next]_vars => PoolInv'
  BY PoolStep
<1> QED BY <1>1, PoolInit, PTL DEF Spec, PoolInv, WaitInv

\* With one client and without direct calls of AddTask no worker sleeps while it has a
\* task: waiting right after pop, without a look at the queue (threadEntry), is safe for
\* the way the library uses the pool, with any number of threads.
THEOREM NoWakeupLost == ASSUME ForkJoin PROVE Spec => []NoWorkerSleepsOnWork
<1>1. Init => OneTask
  BY DEF Init, OneTask
<1>2. OneTask => NoWorkerSleepsOnWork
  BY DEF OneTask, NoWorkerSleepsOnWork
<1>3. TypeInv /\ OneTask /\ [Next]_vars => OneTask'
  BY OneTaskStep
<1> QED BY <1>1, <1>2, <1>3, TypeInit, TypeStep, PTL DEF Spec

\* CThreadPool implements the service IThreadPool declares: tasks are submitted once each,
\* executed once and after they were submitted, and a wait of a client returns when the
\* tasks of that client were executed, for any number of workers and clients.
THEOREM ServiceImplemented == Spec => ImplementsService
<1>1. Init => Service!AbsInit
  BY DEF Init, Service!AbsInit, Range
<1>2. PoolInv /\ [Next]_vars => PoolInv' /\ [Service!AbsNext]_Service!absVars
  BY PoolStep
<1> QED BY <1>1, <1>2, PoolInit, PTL DEF Spec, ImplementsService, Service!AbsSpec

-----------------------------------------------------------------------------
(* Arithmetic of the divisions. *)

\* What a division with rounding returns.
LEMMA DivideUpFacts ==
    ASSUME NEW n \in Nat, NEW m \in Nat \ {0}
    PROVE  /\ DivideUp(n, m) \in Nat
           /\ DivideUp(n, m) * m >= n
           /\ DivideUp(n, m) * m < n + m
<1> DEFINE a == n + m - 1
           q == a \div m
           r == a % m
<1>1. a \in Nat
  OBVIOUS
<1> HIDE DEF a
<1>2. q \in Nat /\ r \in 0 .. m - 1 /\ a = q * m + r
  BY <1>1, Z3
<1>3. q * m \in Nat
  BY <1>2
<1> HIDE DEF q, r
<1>4. q * m >= n /\ q * m < n + m
  <2> DEFINE p == q * m
  <2>1. p \in Nat /\ a = p + r
    BY <1>2, <1>3
  <2> HIDE DEF p
  <2>2. p >= n /\ p < n + m
    BY <1>2, <2>1 DEF a
  <2> QED BY <2>2 DEF p
<1>5. DivideUp(n, m) = q
  BY DEF DivideUp, q, a
<1> QED BY <1>2, <1>4, <1>5

LEMMA AlignUpFacts ==
    ASSUME NEW n \in Nat, NEW align \in Nat \ {0}
    PROVE  /\ AlignUp(n, align) \in Nat
           /\ AlignUp(n, align) >= n
           /\ AlignUp(n, align) < n + align
           /\ AlignUp(n, align) % align = 0
<1> DEFINE q == DivideUp(n, align)
<1>1. q \in Nat /\ q * align >= n /\ q * align < n + align
  BY DivideUpFacts
<1> HIDE DEF q
<1>2. q * align \in Nat /\ (q * align) % align = 0
  BY <1>1, Z3
<1>3. AlignUp(n, align) = q * align
  BY DEF AlignUp, q
<1> QED BY <1>1, <1>2, <1>3

\* The items of a part: those of its size, as far as there is work.
LEMMA PartItems ==
    ASSUME NEW a \in Nat, NEW size \in Nat, NEW full \in Nat, NEW i \in Int
    PROVE  i \in Items(Part(a, size, full)) <=> a <= i /\ i < a + size /\ i < full
<1>1. CASE size < full - a
  <2>1. Part(a, size, full) = [index |-> a, count |-> size]
    BY <1>1 DEF Part, AtLeastZero, AtMost
  <2> QED BY <1>1, <2>1 DEF Items
<1>2. CASE ~(size < full - a)
  <2>1. Part(a, size, full) = [index |-> a, count |-> IF full - a > 0 THEN full - a ELSE 0]
    BY <1>2 DEF Part, AtLeastZero, AtMost
  <2> QED BY <1>2, <2>1 DEF Items
<1> QED BY <1>1, <1>2

\* Every item of the whole is in one part.
PartitionOf(parts, whole) ==
    /\ \A i \in whole : \E w \in DOMAIN parts : \A v \in DOMAIN parts : i \in parts[v] <=> v = w
    /\ \A w \in DOMAIN parts : parts[w] \subseteq whole

\* Parts of one size, next to each other, share the work if there are enough of them.
LEMMA PartsTile ==
    ASSUME NEW size \in Nat, NEW k \in Nat, NEW full \in Nat, size * k >= full
    PROVE  PartitionOf([x \in 0 .. k - 1 |-> Items(Part(size * x, size, full))], 0 .. full - 1)
<1> DEFINE parts == [x \in 0 .. k - 1 |-> Items(Part(size * x, size, full))]
<1>01. \A x \in 0 .. k - 1 : parts[x] \subseteq 0 .. full - 1
  <2> SUFFICES ASSUME NEW x \in 0 .. k - 1, NEW i \in Items(Part(size * x, size, full))
               PROVE  i \in 0 .. full - 1
    OBVIOUS
  <2>1. i \in Int
    BY DEF Items
  <2>2. size * x \in Nat
    BY Z3
  <2> QED BY <2>1, <2>2, PartItems
<1>02. SUFFICES ASSUME NEW i \in 0 .. full - 1
             PROVE  \E x \in 0 .. k - 1 : \A y \in 0 .. k - 1 : i \in parts[y] <=> y = x
  BY <1>01 DEF PartitionOf
<1>1. size # 0
  BY Z3
<1> DEFINE x == i \div size
           r == i % size
<1>2. x \in Nat /\ r \in 0 .. size - 1 /\ i = size * x + r
  BY <1>1, Z3
<1> HIDE DEF x, r
<1>3. x < k
  <2> SUFFICES ASSUME x >= k PROVE FALSE
    BY <1>2
  <2>1. size * x >= size * k
    BY <1>2, Z3
  <2>2. size * x \in Nat /\ size * k \in Nat
    BY <1>2, Z3
  <2> QED BY <1>2, <2>1, <2>2
<1>4. ASSUME NEW y \in 0 .. k - 1
      PROVE  i \in parts[y] <=> y = x
  <2>1. size * y \in Nat
    BY Z3
  <2>2. i \in parts[y] <=> size * y <= i /\ i < size * y + size
    BY <2>1, PartItems
  <2> HIDE DEF parts
  <2>3. CASE y = x
    BY <1>2, <2>1, <2>2, <2>3
  <2>4. CASE y < x
    <3>1. size * y + size <= size * x
      <4>1. size * (y + 1) <= size * x
        BY <1>2, <2>4, Z3
      <4>2. size * (y + 1) = size * y + size
        BY Z3
      <4> QED BY <4>1, <4>2
    <3>2. size * x \in Nat
      BY <1>2, Z3
    <3> QED BY <1>2, <2>1, <2>2, <2>4, <3>1, <3>2
  <2>5. CASE y > x
    <3>1. size * x + size <= size * y
      <4>1. size * (x + 1) <= size * y
        BY <1>2, <2>5, Z3
      <4>2. size * (x + 1) = size * x + size
        BY <1>2, Z3
      <4> QED BY <4>1, <4>2
    <3>2. size * x \in Nat
      BY <1>2, Z3
    <3> QED BY <1>2, <2>1, <2>2, <2>5, <3>1, <3>2
  <2> QED BY <1>2, <2>3, <2>4, <2>5
<1>5. x \in 0 .. k - 1
  BY <1>2, <1>3
<1> HIDE DEF parts
<1> QED BY <1>4, <1>5

-----------------------------------------------------------------------------
(* Intervals. *)

\* What GetTaskIndexAndCount computes on its way, and the largest value an int has.
Intermediates(threadCount, threadIndex, fullCount, align) ==
    LET perThread == DivideUp(fullCount, threadCount)
        aligned == AlignUp(perThread, align)
    IN  {fullCount + threadCount - 1, perThread + align - 1, aligned, aligned * threadIndex,
         fullCount - aligned * threadIndex}

\* The arguments for which all of it is in range, with any bound on int.
FitsInt(threadCount, fullCount, align, bound) == fullCount + threadCount * align <= bound

LEMMA CountPerThreadFacts ==
    ASSUME NEW threadCount \in Nat \ {0}, NEW fullCount \in Nat, NEW align \in Nat \ {0}
    PROVE  LET perThread == DivideUp(fullCount, threadCount)
               size == CountPerThread(threadCount, fullCount, align)
           IN  /\ perThread \in Nat /\ perThread <= fullCount /\ size \in Nat
               /\ size * threadCount >= fullCount
               /\ size * threadCount < fullCount + threadCount * align
               /\ size % align = 0
<1> DEFINE perThread == DivideUp(fullCount, threadCount)
           size == CountPerThread(threadCount, fullCount, align)
<1>1. /\ perThread \in Nat /\ perThread * threadCount >= fullCount
      /\ perThread * threadCount < fullCount + threadCount
  BY DivideUpFacts
<1>2. /\ size \in Nat /\ size >= perThread /\ size <= perThread + (align - 1) /\ size % align = 0
  <2>1. size = AlignUp(perThread, align)
    BY DEF CountPerThread
  <2> HIDE DEF perThread, size
  <2>2. /\ AlignUp(perThread, align) \in Nat /\ AlignUp(perThread, align) >= perThread
        /\ AlignUp(perThread, align) < perThread + align /\ AlignUp(perThread, align) % align = 0
    BY <1>1, AlignUpFacts
  <2> QED BY <1>1, <2>1, <2>2
<1> HIDE DEF perThread, size
<1>3. size * threadCount >= perThread * threadCount
  BY <1>1, <1>2, Z3
<1>4. size * threadCount <= perThread * threadCount + (align - 1) * threadCount
  <2>1. size * threadCount <= (perThread + (align - 1)) * threadCount
    BY <1>1, <1>2, Z3
  <2>2. (perThread + (align - 1)) * threadCount = perThread * threadCount + (align - 1) * threadCount
    BY <1>1, Z3
  <2> QED BY <2>1, <2>2
<1>5. (align - 1) * threadCount + threadCount = threadCount * align
  BY Z3
<1>6. perThread <= fullCount
  <2> SUFFICES ASSUME perThread >= fullCount + 1 PROVE FALSE
    BY <1>1
  <2>1. perThread * threadCount >= (fullCount + 1) * threadCount
    BY <1>1, Z3
  <2>2. (fullCount + 1) * threadCount = fullCount * threadCount + threadCount /\ fullCount * threadCount >= fullCount
    BY Z3
  <2>3. perThread * threadCount \in Nat /\ fullCount * threadCount \in Nat
    BY <1>1, Z3
  <2> QED BY <1>1, <2>1, <2>2, <2>3
<1>7. /\ perThread * threadCount \in Nat /\ size * threadCount \in Nat /\ (align - 1) * threadCount \in Nat
      /\ threadCount * align \in Nat
  BY <1>1, <1>2, Z3
<1>8. size * threadCount >= fullCount /\ size * threadCount < fullCount + threadCount * align
  BY <1>1, <1>3, <1>4, <1>5, <1>7
<1> QED BY <1>1, <1>2, <1>6, <1>8 DEF perThread, size

\* GetTaskIndexAndCount gives every item to one thread, and cuts at multiples of the
\* alignment, for every number of threads, size of the work and alignment.
THEOREM IntervalsPartition ==
    ASSUME NEW threadCount \in Nat \ {0}, NEW fullCount \in Nat, NEW align \in Nat \ {0}
    PROVE  /\ PartitionOf([w \in 0 .. threadCount - 1 |-> Items(TaskIndexAndCount(threadCount, w, fullCount, align))],
                          0 .. fullCount - 1)
           /\ \A w \in 0 .. threadCount - 1 :
                  TaskIndexAndCount(threadCount, w, fullCount, align).index % align = 0
<1> DEFINE size == CountPerThread(threadCount, fullCount, align)
<1>1. size \in Nat /\ size * threadCount >= fullCount /\ size % align = 0
  BY CountPerThreadFacts
<1> HIDE DEF size
<1>2. CASE threadCount > 1
  <2>1. \A v : TaskIndexAndCount(threadCount, v, fullCount, align) = Part(size * v, size, fullCount)
    BY <1>2 DEF TaskIndexAndCount, size
  <2>2. \A w \in 0 .. threadCount - 1 : size * w \in Nat /\ (size * w) % align = 0
    <3> SUFFICES ASSUME NEW w \in 0 .. threadCount - 1
                 PROVE  size * w \in Nat /\ (size * w) % align = 0
      OBVIOUS
    <3> DEFINE q == size \div align
    <3>1. q \in Nat /\ size = q * align
      BY <1>1, Z3
    <3> HIDE DEF q
    <3>2. size * w = (q * w) * align /\ q * w \in Nat
      BY <3>1, Z3
    <3> DEFINE p == q * w
    <3>3. p \in Nat /\ size * w = p * align
      BY <3>2
    <3> HIDE DEF p
    <3> QED BY <3>3, Z3
  <2>3. \A w : Part(size * w, size, fullCount).index = size * w
    BY DEF Part
  <2>4. PartitionOf([w \in 0 .. threadCount - 1 |-> Items(Part(size * w, size, fullCount))], 0 .. fullCount - 1)
    BY <1>1, PartsTile
  <2>5. [w \in 0 .. threadCount - 1 |-> Items(TaskIndexAndCount(threadCount, w, fullCount, align))]
            = [w \in 0 .. threadCount - 1 |-> Items(Part(size * w, size, fullCount))]
    BY <2>1
  <2> QED BY <2>1, <2>2, <2>3, <2>4, <2>5
<1>3. CASE threadCount = 1
  <2>1. \A v : TaskIndexAndCount(threadCount, v, fullCount, align) = [index |-> 0, count |-> fullCount]
    BY <1>3 DEF TaskIndexAndCount
  <2>2. Items([index |-> 0, count |-> fullCount]) = 0 .. fullCount - 1 /\ 0 % align = 0
    BY DEF Items
  <2>3. 0 .. threadCount - 1 = {0}
    BY <1>3
  <2> DEFINE parts == [w \in 0 .. threadCount - 1 |-> Items(TaskIndexAndCount(threadCount, w, fullCount, align))]
  <2>4. parts = [w \in {0} |-> 0 .. fullCount - 1]
    BY <2>1, <2>2, <2>3
  <2>5. PartitionOf(parts, 0 .. fullCount - 1)
    BY <2>4 DEF PartitionOf
  <2>6. \A w \in 0 .. threadCount - 1 : TaskIndexAndCount(threadCount, w, fullCount, align).index % align = 0
    BY <2>1, <2>2
  <2> QED BY <2>5, <2>6
<1>4. threadCount > 1 \/ threadCount = 1
  OBVIOUS
<1> QED BY <1>2, <1>3, <1>4

\* No int overflows in GetTaskIndexAndCount if the work and one alignment for each thread
\* are within range.
THEOREM NoOverflow ==
    ASSUME NEW threadCount \in Nat \ {0}, NEW fullCount \in Nat, NEW align \in Nat \ {0}, NEW bound \in Nat,
           FitsInt(threadCount, fullCount, align, bound), NEW threadIndex \in 0 .. threadCount - 1
    PROVE  \A n \in Intermediates(threadCount, threadIndex, fullCount, align) : n \in -bound .. bound
<1> DEFINE perThread == DivideUp(fullCount, threadCount)
           size == CountPerThread(threadCount, fullCount, align)
<1>1. /\ perThread \in Nat /\ perThread <= fullCount /\ size \in Nat
      /\ size * threadCount < fullCount + threadCount * align
  BY CountPerThreadFacts
<1>2. Intermediates(threadCount, threadIndex, fullCount, align) =
          {fullCount + threadCount - 1, perThread + align - 1, size, size * threadIndex,
           fullCount - size * threadIndex}
  BY DEF Intermediates, CountPerThread
<1> HIDE DEF perThread, size
<1>3. /\ size * threadIndex \in Nat /\ size * threadCount \in Nat /\ threadCount * align \in Nat
      /\ size * threadIndex <= size * threadCount /\ size <= size * threadCount
      /\ threadCount <= threadCount * align /\ align <= threadCount * align
  BY <1>1, Z3
<1>4. fullCount + threadCount * align <= bound
  BY DEF FitsInt
<1> QED BY <1>1, <1>2, <1>3, <1>4

-----------------------------------------------------------------------------
(* The Euclidean algorithm. *)

\* A set of numbers that is not empty has a least one.
LEMMA LeastNumber ==
    ASSUME NEW T, T \subseteq Nat, T # {}
    PROVE  \E x \in T : \A y \in T : x <= y
<1> DEFINE R == {p \in Nat \X Nat : p[1] < p[2]}
<1>1. IsWellFoundedOn(R, Nat)
  BY NatLessThanWellFounded DEF OpToRel
<1>2. PICK x \in T : \A y \in T : ~(<<y, x>> \in R)
  <2> HIDE DEF R
  <2> QED BY <1>1, WFMin
<1>3. ASSUME NEW y \in T PROVE x <= y
  <2>1. ~(<<y, x>> \in R)
    BY <1>2
  <2> QED BY <2>1
<1> QED BY <1>2, <1>3

\* The common factors of m and n.
Common(m, n) == {d \in 1 .. n : m % d = 0 /\ n % d = 0}

\* Divisibility, with the quotient.
LEMMA Multiple ==
    ASSUME NEW n \in Nat, NEW d \in Nat \ {0}
    PROVE  n % d = 0 <=> \E q \in Nat : n = d * q
<1>1. ASSUME n % d = 0 PROVE \E q \in Nat : n = d * q
  <2>1. n \div d \in Nat /\ n = d * (n \div d) + (n % d)
    BY Z3
  <2> QED BY <1>1, <2>1
<1>2. ASSUME NEW q \in Nat, n = d * q PROVE n % d = 0
  BY <1>2, Z3
<1> QED BY <1>1, <1>2

\* A step of the algorithm keeps the common factors.
LEMMA StepKeepsFactors ==
    ASSUME NEW m \in Nat, NEW n \in Nat \ {0}, m % n # 0
    PROVE  m % n \in 1 .. n - 1 /\ Common(m, n) = Common(n, m % n)
<1> DEFINE r == m % n
           k == m \div n
<1>1. r \in 1 .. n - 1 /\ k \in Nat /\ m = n * k + r
  BY Z3
<1> HIDE DEF r, k
<1>2. ASSUME NEW d \in Nat \ {0}, m % d = 0, n % d = 0 PROVE r % d = 0 /\ d <= r
  <2>1. PICK a \in Nat : m = d * a
    BY <1>2, Multiple
  <2>2. PICK b \in Nat : n = d * b
    BY <1>2, Multiple
  <2>3. r = d * (a - b * k)
    <3>1. d * a = d * b * k + r
      BY <1>1, <2>1, <2>2
    <3> QED BY <1>1, <3>1, Z3
  <2>4. a - b * k \in Int
    BY <1>1, Z3
  <2> DEFINE c == a - b * k
  <2>5. c \in Int /\ r = d * c
    BY <2>3, <2>4
  <2> HIDE DEF c
  <2>6. c >= 1
    BY <1>1, <2>5, Z3
  <2>7. d * c >= d
    BY <2>5, <2>6, Z3
  <2>8. c \in Nat /\ r \in Nat /\ d <= r
    BY <1>1, <2>5, <2>6, <2>7
  <2>9. r % d = 0
    BY <2>5, <2>8, Multiple
  <2> QED BY <2>8, <2>9
<1>3. ASSUME NEW d \in Nat \ {0}, n % d = 0, r % d = 0 PROVE m % d = 0
  <2>0. r \in Nat
    BY <1>1
  <2>1. PICK a \in Nat : r = d * a
    BY <1>3, <2>0, Multiple
  <2>2. PICK b \in Nat : n = d * b
    BY <1>3, Multiple
  <2>3. m = d * (b * k + a) /\ b * k + a \in Nat
    BY <1>1, <2>1, <2>2, Z3
  <2> QED BY <2>3, Multiple
<1>4. Common(m, n) = Common(n, r)
  BY <1>1, <1>2, <1>3 DEF Common
<1> QED BY <1>1, <1>4 DEF r

\* The algorithm ends: there is a function that its equation defines.
LEMMA FactorEquation ==
    \A m \in Nat, n \in Nat \ {0} :
        GreatestCommonFactor[<<m, n>>] = IF m % n = 0 THEN n ELSE GreatestCommonFactor[<<n, m % n>>]
<1> DEFINE Largest(S) == CHOOSE d \in S : \A e \in S : e <= d
           D == Nat \X (Nat \ {0})
           f == [p \in D |-> Largest(Common(p[1], p[2]))]
<1>1. ASSUME NEW p \in D
      PROVE  f[p] = IF p[1] % p[2] = 0 THEN p[2] ELSE f[<<p[2], p[1] % p[2]>>]
  <2>0. p[1] \in Nat /\ p[2] \in Nat \ {0} /\ f[p] = Largest(Common(p[1], p[2]))
    OBVIOUS
  <2>1. CASE p[1] % p[2] = 0
    <3>1. p[2] \in Common(p[1], p[2]) /\ \A e \in Common(p[1], p[2]) : e \in 1 .. p[2]
      BY <2>0, <2>1, Z3 DEF Common
    <3>2. Largest(Common(p[1], p[2])) = p[2]
      <4> DEFINE d == Largest(Common(p[1], p[2]))
      <4>1. d \in Common(p[1], p[2]) /\ \A e \in Common(p[1], p[2]) : e <= d
        <5>1. \E d1 \in Common(p[1], p[2]) : \A e \in Common(p[1], p[2]) : e <= d1
          BY <2>0, <3>1
        <5> QED BY <5>1
      <4> HIDE DEF d
      <4>2. d <= p[2] /\ p[2] <= d /\ d \in Nat
        BY <2>0, <3>1, <4>1
      <4>3. d = p[2]
        BY <2>0, <4>2
      <4> QED BY <4>3 DEF d
    <3> HIDE DEF Largest
    <3> QED BY <2>0, <2>1, <3>2
  <2>2. CASE p[1] % p[2] # 0
    <3> DEFINE q == <<p[2], p[1] % p[2]>>
    <3>1. p[1] % p[2] \in Nat \ {0} /\ Common(p[1], p[2]) = Common(p[2], p[1] % p[2])
      BY <2>0, <2>2, StepKeepsFactors
    <3>2. q \in D /\ q[1] = p[2] /\ q[2] = p[1] % p[2]
      BY <2>0, <3>1
    <3>3. f[q] = Largest(Common(q[1], q[2]))
      <4> HIDE DEF q, Largest
      <4> QED BY <3>2
    <3> HIDE DEF f, Largest
    <3> QED BY <2>0, <2>2, <3>1, <3>2, <3>3
  <2> QED BY <2>1, <2>2
<1>2. f = [p \in D |-> IF p[1] % p[2] = 0 THEN p[2] ELSE f[<<p[2], p[1] % p[2]>>]]
  <2>1. f = [p \in D |-> f[p]]
    BY DEF f
  <2> HIDE DEF f
  <2> QED BY <1>1, <2>1
<1>3. GreatestCommonFactor = [p \in D |->
           IF p[1] % p[2] = 0 THEN p[2] ELSE GreatestCommonFactor[<<p[2], p[1] % p[2]>>]]
  <2> HIDE DEF f
  <2> QED BY <1>2 DEF GreatestCommonFactor
<1>4. ASSUME NEW m \in Nat, NEW n \in Nat \ {0}
      PROVE  GreatestCommonFactor[<<m, n>>] = IF m % n = 0 THEN n ELSE GreatestCommonFactor[<<n, m % n>>]
  <2>1. <<m, n>> \in D /\ <<m, n>>[1] = m /\ <<m, n>>[2] = n
    OBVIOUS
  <2> QED BY <1>3, <2>1
<1> QED BY <1>4

\* It returns a factor of both.
LEMMA FactorDivides ==
    ASSUME NEW m \in Nat, NEW n \in Nat \ {0}
    PROVE  GreatestCommonFactor[<<m, n>>] \in Common(m, n)
<1> DEFINE Good(a, b) == GreatestCommonFactor[<<a, b>>] \in Common(a, b)
           Bad == {b \in Nat \ {0} : \E a \in Nat : ~Good(a, b)}
<1>1. Bad = {}
  <2> SUFFICES ASSUME Bad # {} PROVE FALSE
    OBVIOUS
  <2>1. PICK b \in Bad : \A x \in Bad : b <= x
    <3> HIDE DEF Bad
    <3>1. Bad \subseteq Nat
      BY DEF Bad
    <3> QED BY <3>1, LeastNumber
  <2>2. b \in Nat \ {0} /\ \E a \in Nat : ~Good(a, b)
    OBVIOUS
  <2>3. PICK a \in Nat : ~Good(a, b)
    BY <2>2
  <2>4. GreatestCommonFactor[<<a, b>>] = IF a % b = 0 THEN b ELSE GreatestCommonFactor[<<b, a % b>>]
    BY <2>2, FactorEquation
  <2>5. CASE a % b = 0
    <3>1. b \in Common(a, b)
      BY <2>2, <2>5, Z3 DEF Common
    <3> QED BY <2>3, <2>4, <2>5, <3>1
  <2>6. CASE a % b # 0
    <3>1. a % b \in 1 .. b - 1 /\ Common(a, b) = Common(b, a % b)
      BY <2>2, <2>6, StepKeepsFactors
    <3>2. a % b \in Nat \ {0} /\ ~(b <= a % b) /\ b \in Nat
      BY <2>2, <3>1
    <3>3. a % b \notin Bad
      <4> HIDE DEF Bad
      <4> QED BY <2>1, <3>2
    <3>4. Good(b, a % b)
      BY <3>2, <3>3
    <3> QED BY <2>3, <2>4, <2>6, <3>1, <3>4
  <2> QED BY <2>5, <2>6
<1> QED BY <1>1

-----------------------------------------------------------------------------
(* Boxes. *)

\* Quotient and remainder are what the division theorem says.
LEMMA QuotientAndRemainder ==
    ASSUME NEW a \in Nat \ {0}, NEW n \in Nat
    PROVE  /\ n \div a \in Nat /\ n % a \in 0 .. a - 1 /\ n = a * (n \div a) + (n % a)
           /\ \A q \in Nat, r \in 0 .. a - 1 : n = a * q + r => n \div a = q /\ n % a = r
<1>1. n \div a \in Nat /\ n % a \in 0 .. a - 1 /\ n = a * (n \div a) + (n % a)
  <2>1. n % a \in 0 .. a - 1
    OBVIOUS
  <2>2. n \div a \in Nat
    BY Z3
  <2>3. n = a * (n \div a) + (n % a)
    BY Z3
  <2> QED BY <2>1, <2>2, <2>3
<1>2. ASSUME NEW q \in Nat, NEW r \in 0 .. a - 1, n = a * q + r
      PROVE  n \div a = q /\ n % a = r
  <2> DEFINE p == n \div a
             s == n % a
  <2>1. p \in Nat /\ s \in 0 .. a - 1 /\ n = a * p + s
    BY <1>1
  <2> HIDE DEF p, s
  <2>2. a * p \in Nat /\ a * q \in Nat
    BY <2>1, Z3
  <2>3. ~(p < q)
    <3> SUFFICES ASSUME p < q PROVE FALSE
      OBVIOUS
    <3>1. a * (p + 1) <= a * q
      BY <2>1, Z3
    <3>2. a * (p + 1) = a * p + a
      BY <2>1, Z3
    <3> QED BY <1>2, <2>1, <2>2, <3>1, <3>2
  <2>4. ~(q < p)
    <3> SUFFICES ASSUME q < p PROVE FALSE
      OBVIOUS
    <3>1. a * (q + 1) <= a * p
      BY <2>1, Z3
    <3>2. a * (q + 1) = a * q + a
      BY Z3
    <3> QED BY <1>2, <2>1, <2>2, <3>1, <3>2
  <2>5. p = q
    BY <2>1, <2>3, <2>4
  <2>6. s = r
    BY <1>2, <2>1, <2>2, <2>5
  <2> QED BY <2>5, <2>6 DEF p, s
<1> QED BY <1>1, <1>2

\* Below a product is what has its quotient below the other factor.
LEMMA BelowProduct ==
    ASSUME NEW a \in Nat \ {0}, NEW b \in Nat, NEW q \in Nat, NEW r \in 0 .. a - 1
    PROVE  a * q + r < a * b <=> q < b
<1>1. a * q \in Nat /\ a * b \in Nat /\ a * (q + 1) = a * q + a
  BY Z3
<1>2. ASSUME q < b PROVE a * q + r < a * b
  <2>1. a * (q + 1) <= a * b
    BY <1>2, Z3
  <2> QED BY <1>1, <2>1
<1>3. ASSUME ~(q < b) PROVE ~(a * q + r < a * b)
  <2>1. a * b <= a * q
    BY <1>3, Z3
  <2> QED BY <1>1, <2>1
<1> QED BY <1>2, <1>3

\* One of a * b * c threads is at position x, y, z.
HasThread(a, b, c, x, y, z) ==
    \E w \in 0 .. a * (b * c) - 1 : \A v \in 0 .. a * (b * c) - 1 :
        w = v <=> v % a = x /\ (v \div a) % b = y /\ (v \div a) \div b = z

\* Thread indexes and positions in a box of threads correspond.
LEMMA Positions ==
    ASSUME NEW a \in Nat \ {0}, NEW b \in Nat \ {0}, NEW c \in Nat \ {0}
    PROVE  /\ \A w \in 0 .. a * (b * c) - 1 :
                  /\ w % a \in 0 .. a - 1 /\ (w \div a) % b \in 0 .. b - 1
                  /\ (w \div a) \div b \in 0 .. c - 1
           /\ \A x \in 0 .. a - 1, y \in 0 .. b - 1, z \in 0 .. c - 1 :
                  HasThread(a, b, c, x, y, z)
<1>1. b * c \in Nat \ {0} /\ a * (b * c) \in Nat
  BY Z3
<1>2. ASSUME NEW w \in 0 .. a * (b * c) - 1
      PROVE  /\ w % a \in 0 .. a - 1 /\ (w \div a) % b \in 0 .. b - 1
             /\ (w \div a) \div b \in 0 .. c - 1
             /\ w = a * (w \div a) + (w % a) /\ w \div a = b * ((w \div a) \div b) + ((w \div a) % b)
  <2> DEFINE q == w \div a
             r == w % a
             p == q \div b
             s == q % b
  <2>1. w \in Nat /\ w < a * (b * c)
    BY <1>1
  <2>2. q \in Nat /\ r \in 0 .. a - 1 /\ w = a * q + r
    BY <2>1, QuotientAndRemainder
  <2> HIDE DEF q, r
  <2>3. p \in Nat /\ s \in 0 .. b - 1 /\ q = b * p + s
    BY <2>2, QuotientAndRemainder
  <2> HIDE DEF p, s
  <2>4. q < b * c
    BY <1>1, <2>1, <2>2, BelowProduct
  <2>5. p < c
    BY <2>3, <2>4, BelowProduct
  <2>6. p \in 0 .. c - 1 /\ r \in 0 .. a - 1 /\ s \in 0 .. b - 1 /\ w = a * q + r /\ q = b * p + s
    BY <2>2, <2>3, <2>5
  <2> USE DEF p, s, q, r
  <2> QED BY <2>6, Zenon
<1>3. ASSUME NEW x \in 0 .. a - 1, NEW y \in 0 .. b - 1, NEW z \in 0 .. c - 1
      PROVE  HasThread(a, b, c, x, y, z)
  <2> DEFINE q == b * z + y
             w == a * q + x
  <2>1. z \in Nat /\ z < c /\ q \in Nat
    BY Z3
  <2>2. q < b * c
    BY <2>1, BelowProduct
  <2>3. q \div b = z /\ q % b = y
    BY <2>1, QuotientAndRemainder
  <2> HIDE DEF q
  <2>4. w \in Nat
    BY <2>1, Z3
  <2>5. w < a * (b * c)
    BY <1>1, <2>1, <2>2, BelowProduct
  <2>6. w \div a = q /\ w % a = x
    BY <2>1, <2>4, QuotientAndRemainder
  <2>7. w \in 0 .. a * (b * c) - 1
    BY <1>1, <2>4, <2>5
  <2> HIDE DEF w
  <2>8. ASSUME NEW v \in 0 .. a * (b * c) - 1
        PROVE  w = v <=> v % a = x /\ (v \div a) % b = y /\ (v \div a) \div b = z
    <3>1. ASSUME v % a = x, (v \div a) % b = y, (v \div a) \div b = z
          PROVE  w = v
      <4>1. v = a * (v \div a) + (v % a) /\ v \div a = b * ((v \div a) \div b) + ((v \div a) % b)
        BY <1>2
      <4>2. v \div a = q
        BY <3>1, <4>1 DEF q
      <4> QED BY <3>1, <4>1, <4>2 DEF w
    <3>2. ASSUME w = v PROVE v % a = x /\ (v \div a) % b = y /\ (v \div a) \div b = z
      BY <2>3, <2>6, <3>2
    <3> QED BY <3>1, <3>2
  <2> QED BY <2>7, <2>8 DEF HasThread
<1> QED BY <1>2, <1>3

\* A factor of the threads that divides a size, and what is left of both.
FactorOf(m, k, g) ==
    /\ g \in Nat \ {0} /\ k \div g \in Nat \ {0} /\ k = g * (k \div g)
    /\ m \div g \in Nat /\ m = g * (m \div g)

\* The factor that is chosen divides the threads and the size, aligned or not.
LEMMA FactorWithAlignFacts ==
    ASSUME NEW m \in Nat, NEW align \in Nat \ {0}, NEW n \in Nat \ {0}
    PROVE  FactorOf(m, n, FactorWithAlign(m, align, n))
<1> DEFINE units == IF m % align = 0 THEN m \div align ELSE m
           g == FactorWithAlign(m, align, n)
<1>1. units \in Nat
  BY Z3
<1>2. g \in Common(units, n)
  <2>1. g = GreatestCommonFactor[<<units, n>>]
    BY DEF FactorWithAlign
  <2> HIDE DEF units, g
  <2> QED BY <1>1, <2>1, FactorDivides
<1>3. m % align = 0 => m = align * units
  BY Z3
<1>4. m % align # 0 => m = units
  OBVIOUS
<1> HIDE DEF units, g
<1>5. g \in Nat \ {0} /\ units % g = 0 /\ n % g = 0
  BY <1>2 DEF Common
<1>6. m % g = 0
  <2>1. PICK q \in Nat : units = g * q
    BY <1>1, <1>5, Multiple
  <2>2. CASE m % align = 0
    <3>1. m = g * (align * q) /\ align * q \in Nat
      BY <1>3, <1>5, <2>1, <2>2, Z3
    <3> QED BY <1>5, <3>1, Multiple
  <2> QED BY <1>4, <1>5, <2>2
<1>7. n \div g \in Nat /\ n = g * (n \div g) + (n % g) /\ m \div g \in Nat /\ m = g * (m \div g) + (m % g)
  BY <1>5, QuotientAndRemainder
<1>8. g * (n \div g) \in Nat /\ g * (m \div g) \in Nat
  BY <1>5, <1>7, Z3
<1>9. n = g * (n \div g) /\ m = g * (m \div g)
  BY <1>5, <1>6, <1>7, <1>8
<1>10. n \div g # 0
  BY <1>5, <1>9, Z3
<1> QED BY <1>5, <1>7, <1>9, <1>10 DEF g, FactorOf

\* A dimension that is divided, and made larger for the alignment, still covers its size.
LEMMA EnoughParts ==
    ASSUME NEW full \in Nat, NEW mul \in Nat \ {0}, NEW count \in Nat, NEW rest \in Nat \ {0},
           NEW align \in Nat \ {0}, full = mul * count
    PROVE  /\ AlignUp(DivideUp(count, rest), align) \in Nat
           /\ AlignUp(DivideUp(count, rest), align) * (mul * rest) >= full
           /\ AlignUp(count, align) \in Nat /\ AlignUp(count, align) * mul >= full
<1> DEFINE d == DivideUp(count, rest)
           e == AlignUp(d, align)
           f == AlignUp(count, align)
<1>1. d \in Nat /\ d * rest >= count
  BY DivideUpFacts
<1> HIDE DEF d
<1>2. e \in Nat /\ e >= d /\ f \in Nat /\ f >= count
  BY <1>1, AlignUpFacts
<1> HIDE DEF e, f
<1>3. f * mul >= full
  BY <1>2, Z3
<1>4. e * rest >= count
  <2>1. e * rest >= d * rest /\ e * rest \in Nat /\ d * rest \in Nat
    BY <1>1, <1>2, Z3
  <2> QED BY <1>1, <2>1
<1>5. e * (mul * rest) >= full
  <2>1. e * (mul * rest) = mul * (e * rest)
    BY <1>2, Z3
  <2>2. mul * (e * rest) >= mul * count
    BY <1>2, <1>4, Z3
  <2> QED BY <2>1, <2>2
<1> QED BY <1>2, <1>3, <1>5 DEF d, e, f

\* The parts of the dimensions are as many as the threads, and large enough.
LEMMA SplitFacts ==
    ASSUME NEW full \in [Dims -> Nat], NEW align \in [Dims -> Nat \ {0}], NEW threadCount \in Nat \ {0}
    PROVE  LET split == Split(full, align, threadCount) IN
           /\ \A d \in Dims : /\ split.mul[d] \in Nat \ {0} /\ split.count[d] \in Nat
                              /\ split.count[d] * split.mul[d] >= full[d]
           /\ threadCount = split.mul[1] * (split.mul[2] * split.mul[3])
<1> DEFINE mulX == FactorWithAlign(full[1], align[1], threadCount)
           restX == threadCount \div mulX
           mulY == FactorWithAlign(full[2], align[2], restX)
           restY == restX \div mulY
           mulZ == FactorWithAlign(full[3], align[3], restY)
           rest == restY \div mulZ
           mul == <<mulX, mulY, mulZ>>
           count == [d \in Dims |-> full[d] \div mul[d]]
           long == Longest(count, align)
<1>1. Dims = {1, 2, 3}
  BY DEF Dims
<1>2. /\ full[1] \in Nat /\ full[2] \in Nat /\ full[3] \in Nat
      /\ align[1] \in Nat \ {0} /\ align[2] \in Nat \ {0} /\ align[3] \in Nat \ {0}
  BY <1>1
<1>3. /\ mulX \in Nat \ {0} /\ restX \in Nat \ {0} /\ threadCount = mulX * restX
      /\ full[1] \div mulX \in Nat /\ full[1] = mulX * (full[1] \div mulX)
  <2>1. full[1] \in Nat /\ align[1] \in Nat \ {0} /\ threadCount \in Nat \ {0}
    BY <1>2
  <2>2. \A m \in Nat, u, k \in Nat \ {0} : FactorOf(m, k, FactorWithAlign(m, u, k))
    BY FactorWithAlignFacts
  <2>3. FactorOf(full[1], threadCount, mulX)
    BY <2>1, <2>2, Zenon
  <2> HIDE DEF mulX
  <2> QED BY <2>3 DEF FactorOf
<1> HIDE DEF mulX, restX
<1>4. /\ mulY \in Nat \ {0} /\ restY \in Nat \ {0} /\ restX = mulY * restY
      /\ full[2] \div mulY \in Nat /\ full[2] = mulY * (full[2] \div mulY)
  <2>1. full[2] \in Nat /\ align[2] \in Nat \ {0} /\ restX \in Nat \ {0}
    BY <1>2, <1>3
  <2>2. \A m \in Nat, u, k \in Nat \ {0} : FactorOf(m, k, FactorWithAlign(m, u, k))
    BY FactorWithAlignFacts
  <2>3. FactorOf(full[2], restX, mulY)
    BY <2>1, <2>2, Zenon
  <2> HIDE DEF mulY
  <2> QED BY <2>3 DEF FactorOf
<1> HIDE DEF mulY, restY
<1>5. /\ mulZ \in Nat \ {0} /\ rest \in Nat \ {0} /\ restY = mulZ * rest
      /\ full[3] \div mulZ \in Nat /\ full[3] = mulZ * (full[3] \div mulZ)
  <2>1. full[3] \in Nat /\ align[3] \in Nat \ {0} /\ restY \in Nat \ {0}
    BY <1>2, <1>4
  <2>2. \A m \in Nat, u, k \in Nat \ {0} : FactorOf(m, k, FactorWithAlign(m, u, k))
    BY FactorWithAlignFacts
  <2>3. FactorOf(full[3], restY, mulZ)
    BY <2>1, <2>2, Zenon
  <2> HIDE DEF mulZ
  <2> QED BY <2>3 DEF FactorOf
<1> HIDE DEF mulZ, rest
<1>6. EvenSplit(full, align, threadCount) = [mul |-> mul, rest |-> rest]
  BY DEF EvenSplit, mulX, restX, mulY, restY, mulZ, rest
<1>7. /\ mul[1] = mulX /\ mul[2] = mulY /\ mul[3] = mulZ /\ DOMAIN mul = Dims
      /\ mul \in [Dims -> Nat \ {0}]
  BY <1>1, <1>3, <1>4, <1>5
<1> HIDE DEF mul
<1>8. /\ \A d \in Dims : count[d] \in Nat /\ full[d] = mul[d] * count[d] /\ mul[d] \in Nat \ {0}
                         /\ full[d] \in Nat /\ align[d] \in Nat \ {0}
      /\ count \in [Dims -> Nat]
  BY <1>1, <1>2, <1>3, <1>4, <1>5, <1>7
<1>9. long \in Dims
  <2> DEFINE units == [d \in Dims |-> count[d] \div align[d]]
             First(d) == \A e \in Dims : units[d] > units[e] \/ (units[d] = units[e] /\ d <= e)
  <2>1. units[1] \in Nat /\ units[2] \in Nat /\ units[3] \in Nat
    BY <1>1, <1>8, QuotientAndRemainder
  <2> HIDE DEF units
  <2>2. \E d \in Dims : First(d)
    <3>1. First(1) \/ First(2) \/ First(3)
      BY <1>1, <2>1
    <3> QED BY <1>1, <3>1
  <2>3. long = CHOOSE d \in Dims : First(d)
    BY DEF Longest, units
  <2> HIDE DEF First, long
  <2> QED BY <2>2, <2>3
<1> HIDE DEF count, long
<1> DEFINE sizes == [count EXCEPT ![long] = DivideUp(@, rest)]
           split == Split(full, align, threadCount)
<1>10. split = [mul |-> [mul EXCEPT ![long] = @ * rest], count |-> [d \in Dims |-> AlignUp(sizes[d], align[d])]]
  BY <1>6 DEF Split, count, long
<1>11. /\ split.mul = [mul EXCEPT ![long] = @ * rest]
       /\ \A d \in Dims : split.count[d] = AlignUp(sizes[d], align[d])
  BY <1>10
<1>12. /\ \A d \in Dims \ {long} : split.mul[d] = mul[d] /\ split.count[d] = AlignUp(count[d], align[d])
       /\ split.mul[long] = mul[long] * rest
       /\ split.count[long] = AlignUp(DivideUp(count[long], rest), align[long])
  BY <1>7, <1>8, <1>9, <1>11
<1> HIDE DEF split, sizes
<1>13. ASSUME NEW d \in Dims
       PROVE  /\ split.mul[d] \in Nat \ {0} /\ split.count[d] \in Nat
              /\ split.count[d] * split.mul[d] >= full[d]
  <2>1. CASE d = long
    <3>1. mul[d] * rest \in Nat \ {0}
      BY <1>5, <1>8, Z3
    <3>2. /\ AlignUp(DivideUp(count[d], rest), align[d]) \in Nat
          /\ AlignUp(DivideUp(count[d], rest), align[d]) * (mul[d] * rest) >= full[d]
      BY <1>5, <1>8, EnoughParts
    <3> QED BY <1>12, <2>1, <3>1, <3>2
  <2>2. CASE d # long
    <3>1. AlignUp(count[d], align[d]) \in Nat /\ AlignUp(count[d], align[d]) * mul[d] >= full[d]
      BY <1>5, <1>8, EnoughParts
    <3> QED BY <1>8, <1>12, <2>2, <3>1
  <2> QED BY <2>1, <2>2
<1>14. threadCount = split.mul[1] * (split.mul[2] * split.mul[3])
  <2>1. threadCount = mulX * (mulY * (mulZ * rest))
    BY <1>3, <1>4, <1>5
  <2>2. CASE long = 1
    <3>1. split.mul[1] = mulX * rest /\ split.mul[2] = mulY /\ split.mul[3] = mulZ
      BY <1>1, <1>7, <1>12, <2>2
    <3>2. (mulX * rest) * (mulY * mulZ) = mulX * (mulY * (mulZ * rest))
      BY <1>3, <1>4, <1>5, Z3
    <3> QED BY <2>1, <3>1, <3>2
  <2>3. CASE long = 2
    <3>1. split.mul[1] = mulX /\ split.mul[2] = mulY * rest /\ split.mul[3] = mulZ
      BY <1>1, <1>7, <1>12, <2>3
    <3>2. mulX * ((mulY * rest) * mulZ) = mulX * (mulY * (mulZ * rest))
      BY <1>3, <1>4, <1>5, Z3
    <3> QED BY <2>1, <3>1, <3>2
  <2>4. CASE long = 3
    <3>1. split.mul[1] = mulX /\ split.mul[2] = mulY /\ split.mul[3] = mulZ * rest
      BY <1>1, <1>7, <1>12, <2>4
    <3> QED BY <2>1, <3>1
  <2> QED BY <1>1, <1>9, <2>2, <2>3, <2>4
<1> QED BY <1>13, <1>14 DEF split

\* GetTaskIndexAndCount3D gives every cell of a box to one thread, for every number of
\* threads, sizes and alignments.
THEOREM BoxesPartition ==
    ASSUME NEW full \in [Dims -> Nat], NEW align \in [Dims -> Nat \ {0}], NEW threadCount \in Nat, threadCount > 1
    PROVE  PartitionOf([w \in 0 .. threadCount - 1 |-> Cells(TaskIndexAndCount3D(full, align, threadCount, w))],
                       Cells([d \in Dims |-> [index |-> 0, count |-> full[d]]]))
<1> DEFINE split == Split(full, align, threadCount)
           a == split.mul[1]
           b == split.mul[2]
           c == split.mul[3]
           parts(d) == [x \in 0 .. split.mul[d] - 1 |-> Items(Part(split.count[d] * x, split.count[d], full[d]))]
           box == [w \in 0 .. threadCount - 1 |-> Cells(TaskIndexAndCount3D(full, align, threadCount, w))]
           whole == Cells([d \in Dims |-> [index |-> 0, count |-> full[d]]])
<1>1. Dims = {1, 2, 3}
  BY DEF Dims
<1>2. /\ \A d \in Dims : /\ split.mul[d] \in Nat \ {0} /\ split.count[d] \in Nat /\ full[d] \in Nat
                         /\ split.count[d] * split.mul[d] >= full[d]
      /\ threadCount = a * (b * c)
  BY SplitFacts, SMTT(30)
<1> HIDE DEF split
<1>3. \A d \in Dims : PartitionOf(parts(d), 0 .. full[d] - 1)
  BY <1>2, PartsTile
<1>4. whole = (0 .. full[1] - 1) \X (0 .. full[2] - 1) \X (0 .. full[3] - 1)
  BY <1>1 DEF Cells, Items
<1>5. ASSUME NEW w \in 0 .. threadCount - 1
      PROVE  box[w] = parts(1)[w % a] \X parts(2)[(w \div a) % b] \X parts(3)[(w \div a) \div b]
  <2>1. w % a \in 0 .. a - 1 /\ (w \div a) % b \in 0 .. b - 1 /\ (w \div a) \div b \in 0 .. c - 1
    BY <1>1, <1>2, Positions
  <2> DEFINE position == <<w % a, (w \div a) % b, (w \div a) \div b>>
             part == [d \in Dims |-> Part(split.count[d] * position[d], split.count[d], full[d])]
  <2>2. TaskIndexAndCount3D(full, align, threadCount, w) = part
    BY DEF TaskIndexAndCount3D, split
  <2>3. /\ position[1] = w % a /\ position[2] = (w \div a) % b /\ position[3] = (w \div a) \div b
    OBVIOUS
  <2> HIDE DEF position
  <2>4. /\ Items(part[1]) = parts(1)[w % a] /\ Items(part[2]) = parts(2)[(w \div a) % b]
        /\ Items(part[3]) = parts(3)[(w \div a) \div b]
    BY <1>1, <2>1, <2>3
  <2>5. box[w] = Cells(part)
    BY <2>2
  <2> HIDE DEF box, part, parts, a, b, c
  <2> QED BY <2>4, <2>5 DEF Cells
<1>6. box = [w \in 0 .. threadCount - 1 |-> box[w]] /\ DOMAIN box = 0 .. threadCount - 1
  OBVIOUS
<1>7. \A d \in Dims : DOMAIN parts(d) = 0 .. split.mul[d] - 1
  OBVIOUS
<1> HIDE DEF box, parts, whole
<1>8. ASSUME NEW w \in DOMAIN box PROVE box[w] \subseteq whole
  <2>1. /\ w \in 0 .. threadCount - 1 /\ w % a \in 0 .. a - 1 /\ (w \div a) % b \in 0 .. b - 1
        /\ (w \div a) \div b \in 0 .. c - 1
    BY <1>1, <1>2, <1>6, Positions
  <2>2. /\ parts(1)[w % a] \subseteq 0 .. full[1] - 1 /\ parts(2)[(w \div a) % b] \subseteq 0 .. full[2] - 1
        /\ parts(3)[(w \div a) \div b] \subseteq 0 .. full[3] - 1
    BY <1>1, <1>3, <1>7, <2>1 DEF PartitionOf
  <2> QED BY <1>4, <1>5, <2>1, <2>2
<1>9. ASSUME NEW i \in whole
      PROVE  \E w \in DOMAIN box : \A v \in DOMAIN box : i \in box[v] <=> v = w
  <2>1. i[1] \in 0 .. full[1] - 1 /\ i[2] \in 0 .. full[2] - 1 /\ i[3] \in 0 .. full[3] - 1
        /\ i = <<i[1], i[2], i[3]>>
    BY <1>4
  <2> DEFINE P == parts(1)
             Q == parts(2)
             R == parts(3)
  <2>a. /\ PartitionOf(P, 0 .. full[1] - 1) /\ DOMAIN P = 0 .. a - 1
        /\ PartitionOf(Q, 0 .. full[2] - 1) /\ DOMAIN Q = 0 .. b - 1
        /\ PartitionOf(R, 0 .. full[3] - 1) /\ DOMAIN R = 0 .. c - 1
    BY <1>1, <1>3, <1>7
  <2>b. a \in Nat \ {0} /\ b \in Nat \ {0} /\ c \in Nat \ {0}
    BY <1>1, <1>2
  <2> HIDE DEF P, Q, R, a, b, c
  <2>2. PICK x \in 0 .. a - 1 : \A u \in 0 .. a - 1 : i[1] \in P[u] <=> u = x
    BY <2>1, <2>a DEF PartitionOf
  <2>3. PICK y \in 0 .. b - 1 : \A u \in 0 .. b - 1 : i[2] \in Q[u] <=> u = y
    BY <2>1, <2>a DEF PartitionOf
  <2>4. PICK z \in 0 .. c - 1 : \A u \in 0 .. c - 1 : i[3] \in R[u] <=> u = z
    BY <2>1, <2>a DEF PartitionOf
  <2>5. PICK w \in 0 .. threadCount - 1 : \A v \in 0 .. threadCount - 1 :
            w = v <=> v % a = x /\ (v \div a) % b = y /\ (v \div a) \div b = z
    <3>1. HasThread(a, b, c, x, y, z)
      BY <2>b, Positions
    <3> QED BY <1>2, <3>1 DEF HasThread
  <2>6. ASSUME NEW v \in 0 .. threadCount - 1 PROVE i \in box[v] <=> v = w
    <3>1. /\ v % a \in 0 .. a - 1 /\ (v \div a) % b \in 0 .. b - 1 /\ (v \div a) \div b \in 0 .. c - 1
      BY <1>2, <2>b, Positions
    <3>2. box[v] = P[v % a] \X Q[(v \div a) % b] \X R[(v \div a) \div b]
      BY <1>5 DEF P, Q, R, a, b
    <3>3. i \in box[v] <=> /\ i[1] \in P[v % a] /\ i[2] \in Q[(v \div a) % b]
                           /\ i[3] \in R[(v \div a) \div b]
      BY <2>1, <3>2
    <3> QED BY <2>2, <2>3, <2>4, <2>5, <3>1, <3>3
  <2> QED BY <1>6, <2>6
<1> QED BY <1>8, <1>9 DEF PartitionOf, box, whole

-----------------------------------------------------------------------------
(* The parallel loops: every element is reduced once.                      *)

\* What thread w adds to the result of a task, and all that was met once.
Share(t, w) == IF Divided(t) THEN PartOf(t, w) ELSE IF w = 0 THEN Whole(t) ELSE {}
Ones(S) == [i \in Elements |-> IF i \in S THEN 1 ELSE 0]

\* Thread w of the task that c runs now.
SubTask(c, w) == [client |-> c, call |-> calls[c], worker |-> w]
InCall(c) == cpc[c] \in {"adding", "waiting", "asleep"}

RTypeOK ==
    /\ stage \in [Clients -> {"none", "running", "reduced"}]
    /\ work \in [Clients -> Tasks]
    /\ partial \in [Clients -> [Workers -> [Elements -> Nat]]]
    /\ merged \in [Clients -> 0 .. NumThreads]
    /\ result \in [Clients -> [Elements -> Nat]]

\* A call of ExecuteTasks is that of a task that runs; when it returns, all threads ran.
CallI ==
    \A c \in Clients :
        /\ InCall(c) => stage[c] = "running" /\ Divided(work[c]) /\ calls[c] = covered[c] + 1
        /\ ~InCall(c) => calls[c] = covered[c]
        /\ cpc[c] = "adding" => \A w \in Workers : w < idx[c] => SubTask(c, w) \in AbsSubmitted
        /\ cpc[c] \in {"waiting", "asleep"} => \A w \in Workers : SubTask(c, w) \in AbsSubmitted
        /\ stage[c] = "running" /\ ~InCall(c) =>
               cpc[c] = "idle" /\ (Divided(work[c]) => \A w \in Workers : SubTask(c, w) \in AbsExecuted)

\* A thread has added up its share, or nothing yet.
PartialI ==
    \A c \in Clients : stage[c] = "running" =>
        \A w \in Workers :
            partial[c][w] = IF ~Divided(work[c]) \/ SubTask(c, w) \in AbsExecuted
                            THEN Ones(Share(work[c], w)) ELSE Nothing

\* The reduction adds up shares in the order of the threads, when no thread works any more.
MergeI ==
    \A c \in Clients : stage[c] = "running" =>
        /\ merged[c] \in Workers
        /\ InCall(c) => merged[c] = 0
        /\ result[c] = Ones(UNION {Share(work[c], w) : w \in 0 .. merged[c] - 1})

RInv == RTypeOK /\ CallI /\ PartialI /\ MergeI /\ ElementsReducedOnce

\* The shares of the threads partition a task.
LEMMA SharesPartition ==
    ASSUME NEW t \in Tasks
    PROVE  PartitionOf([w \in Workers |-> Share(t, w)], Whole(t))
<1> DEFINE full == t.full
           align == t.align
           shares == [w \in Workers |-> Share(t, w)]
<1>1. /\ full \in [Dims -> Nat] /\ align \in [Dims -> Nat \ {0}] /\ t.form \in {"interval", "box"}
      /\ t.form = "interval" => full[2] = 1 /\ full[3] = 1
      /\ Dims = {1, 2, 3} /\ NumThreads \in Nat /\ NumThreads > 1 /\ Workers = 0 .. NumThreads - 1
  <2>1. Dims = {1, 2, 3}
    BY DEF Dims
  <2> QED BY <2>1, ReductionAssumption, PoolAssumption DEF Workers
<1>2. Whole(t) = Cells([d \in Dims |-> [index |-> 0, count |-> full[d]]])
  BY DEF Whole
<1>3. CASE ~Divided(t)
  <2>1. /\ DOMAIN shares = Workers /\ shares[0] = Whole(t) /\ 0 \in Workers
        /\ \A w \in Workers : w # 0 => shares[w] = {}
    BY <1>1, <1>3 DEF Share
  <2> HIDE DEF shares
  <2>2. PartitionOf(shares, Whole(t))
    BY <2>1 DEF PartitionOf
  <2> QED BY <2>2 DEF shares
<1>4. CASE t.form = "box"
  <2>1. shares = [w \in 0 .. NumThreads - 1 |-> Cells(TaskIndexAndCount3D(full, align, NumThreads, w))]
    BY <1>1, <1>4 DEF Share, Divided, PartOf
  <2> HIDE DEF full, align, shares
  <2>2. PartitionOf([w \in 0 .. NumThreads - 1 |-> Cells(TaskIndexAndCount3D(full, align, NumThreads, w))],
                    Cells([d \in Dims |-> [index |-> 0, count |-> full[d]]]))
    <3>1. /\ full \in [Dims -> Nat] /\ align \in [Dims -> Nat \ {0}]
          /\ NumThreads \in Nat /\ NumThreads > 1
      BY <1>1
    <3>2. \A f \in [Dims -> Nat], a \in [Dims -> Nat \ {0}], n \in Nat : n > 1 =>
              PartitionOf([w \in 0 .. n - 1 |-> Cells(TaskIndexAndCount3D(f, a, n, w))],
                          Cells([d \in Dims |-> [index |-> 0, count |-> f[d]]]))
      BY BoxesPartition, Zenon
    <3> QED BY <3>1, <3>2, Zenon
  <2>3. PartitionOf(shares, Whole(t))
    BY <1>2, <2>1, <2>2, Zenon
  <2> QED BY <2>3 DEF shares
<1>5. CASE t.form = "interval" /\ Divided(t)
  <2> DEFINE ints == [w \in 0 .. NumThreads - 1 |-> Items(TaskIndexAndCount(NumThreads, w, full[1], align[1]))]
  <2>1. \A w \in Workers : shares[w] = ints[w] \X {0} \X {0}
    BY <1>1, <1>5 DEF Share, PartOf
  <2>2. Whole(t) = (0 .. full[1] - 1) \X {0} \X {0}
    <3>1. Items([index |-> 0, count |-> 1]) = {0}
      BY DEF Items
    <3>2. Items([index |-> 0, count |-> full[1]]) = 0 .. full[1] - 1
      BY <1>1 DEF Items
    <3> QED BY <1>1, <1>2, <1>5, <3>1, <3>2 DEF Cells
  <2>3. DOMAIN shares = Workers /\ DOMAIN ints = Workers
    BY <1>1
  <2>4. full[1] \in Nat /\ align[1] \in Nat \ {0} /\ NumThreads \in Nat \ {0}
    BY <1>1
  <2>5. PartitionOf(ints, 0 .. full[1] - 1)
    BY <2>4, IntervalsPartition
  <2> HIDE DEF shares, ints
  <2>6. PartitionOf(shares, Whole(t))
    <3>1. \A w \in Workers : shares[w] \subseteq Whole(t)
      BY <2>1, <2>2, <2>3, <2>5 DEF PartitionOf
    <3>2. ASSUME NEW i \in Whole(t)
          PROVE  \E w \in Workers : \A v \in Workers : i \in shares[v] <=> v = w
      <4>1. i[1] \in 0 .. full[1] - 1 /\ i[2] = 0 /\ i[3] = 0 /\ i = <<i[1], i[2], i[3]>>
        BY <2>2
      <4>2. PICK w \in Workers : \A v \in Workers : i[1] \in ints[v] <=> v = w
        BY <2>3, <2>5, <4>1 DEF PartitionOf
      <4>3. \A v \in Workers : i \in shares[v] <=> i[1] \in ints[v]
        BY <2>1, <4>1
      <4> QED BY <4>2, <4>3
    <3> QED BY <2>3, <3>1, <3>2 DEF PartitionOf
  <2> QED BY <2>6 DEF shares
<1> QED BY <1>1, <1>3, <1>4, <1>5

LEMMA ShareFacts ==
    ASSUME NEW t \in Tasks
    PROVE  /\ UNION {Share(t, w) : w \in Workers} = Whole(t)
           /\ \A v, w \in Workers : v # w => Share(t, v) \cap Share(t, w) = {}
<1> DEFINE shares == [w \in Workers |-> Share(t, w)]
<1>1. PartitionOf(shares, Whole(t)) /\ DOMAIN shares = Workers
  BY SharesPartition
<1>2. \A w \in Workers : shares[w] = Share(t, w)
  OBVIOUS
<1> HIDE DEF shares
<1>3. UNION {Share(t, w) : w \in Workers} = Whole(t)
  BY <1>1, <1>2 DEF PartitionOf
<1>4. ASSUME NEW v \in Workers, NEW w \in Workers, v # w PROVE Share(t, v) \cap Share(t, w) = {}
  BY <1>1, <1>2, <1>4 DEF PartitionOf
<1> QED BY <1>3, <1>4

LEMMA MetOnce == \A S : Met(Nothing, S) = Ones(S)
BY DEF Met, Nothing, Ones

LEMMA SumOfParts ==
    ASSUME NEW A, NEW B, A \cap B = {}
    PROVE  [i \in Elements |-> Ones(A)[i] + Ones(B)[i]] = Ones(A \cup B)
BY DEF Ones

LEMMA LoopStepIsPoolStep == RNext => [Next]_vars
<1> SUFFICES ASSUME RNext PROVE [Next]_vars
  OBVIOUS
<1>1. ASSUME NEW w \in Workers, RWorkerStep(w) \/ (SpuriousWorkerWakeup(w) /\ UNCHANGED reductionVars)
      PROVE  Next
  BY <1>1 DEF Next, RWorkerStep, RunPart, WorkerStep
<1>2. ASSUME NEW c \in Clients, NEW t \in Tasks, ParallelRun(c, t) PROVE [Next]_vars
  <2>1. BeginExecuteTasks(c) => Next
    BY DEF Next, ClientCall
  <2> QED BY <1>2, <2>1 DEF ParallelRun
<1>3. ASSUME NEW c \in Clients, RClientStep(c) \/ (SpuriousClientWakeup(c) /\ UNCHANGED reductionVars)
      PROVE  [Next]_vars
  BY <1>3 DEF Next, RClientStep, Reduce
<1>4. BeginDelete \/ DeleteStep => Next
  BY DEF Next
<1> QED BY <1>1, <1>2, <1>3, <1>4 DEF RNext

\* What was executed was submitted by a call that has begun.
LEMMA ExecutedWasSubmitted ==
    ASSUME PoolInv, NEW t \in AbsExecuted
    PROVE  t \in AbsSubmitted /\ t.client \in Clients /\ t.call <= calls[t.client] /\ t.call \in Nat
<1>0. PICK w \in Workers : t \in Range(log[w])
  BY DEF AbsExecuted
<1>1. PICK i \in DOMAIN log[w] : t = log[w][i]
  BY <1>0 DEF Range
<1>2. /\ log[w] \in Seq(Task) /\ Unexecuted(w) \in Seq(Task) /\ given[w] \in Seq(Task)
      /\ given[w] = log[w] \o Unexecuted(w)
  BY HeadTailProperties DEF PoolInv, TypeInv, TypeOK, ExecutedInOrder, Unexecuted, TaskInHand
<1>3. i \in DOMAIN given[w] /\ given[w][i] = t
  BY <1>1, <1>2, ConcatProperties, LenProperties
<1>4. t \in AbsSubmitted
  BY <1>3 DEF AbsSubmitted, Range
<1>5. t.client \in Clients /\ t.call \in Nat
  BY <1>2, <1>3, ElementsAreTasks
<1>6. t.call <= calls[t.client]
  BY <1>3 DEF PoolInv, GivenI
<1> QED BY <1>4, <1>5, <1>6

\* A step that leaves the loops alone and changes no call but from waiting to asleep, or
\* back, or to the deletion of the pool.
LEMMA QuietLoopStep ==
    ASSUME RInv, UNCHANGED reductionVars, UNCHANGED <<given, log, calls, covered>>,
           \A c \in Clients :
               \/ cpc'[c] = cpc[c] /\ idx'[c] = idx[c]
               \/ cpc[c] \in {"waiting", "asleep"} /\ cpc'[c] \in {"waiting", "asleep"}
               \/ ~InCall(c) /\ ~InCall(c)' /\ stage[c] # "running"
    PROVE  RInv'
<1>1. RTypeOK' /\ ElementsReducedOnce'
  BY DEF RInv, RTypeOK, ElementsReducedOnce, reductionVars
<1>2. /\ AbsSubmitted' = AbsSubmitted /\ AbsExecuted' = AbsExecuted
      /\ \A c \in Clients, w \in Workers : SubTask(c, w)' = SubTask(c, w)
  BY DEF AbsSubmitted, AbsExecuted, SubTask
<1>3. \A c \in Clients : InCall(c)' <=> InCall(c)
  BY DEF InCall
<1>4. PartialI'
  BY <1>2 DEF RInv, PartialI, reductionVars
<1>5. MergeI'
  BY <1>3 DEF RInv, MergeI, reductionVars
<1>6. CallI'
  <2> SUFFICES ASSUME NEW c \in Clients
               PROVE  /\ InCall(c)' => stage'[c] = "running" /\ Divided(work'[c]) /\ calls'[c] = covered'[c] + 1
                      /\ ~InCall(c)' => calls'[c] = covered'[c]
                      /\ cpc'[c] = "adding" => \A w \in Workers : w < idx'[c] => SubTask(c, w)' \in AbsSubmitted'
                      /\ cpc'[c] \in {"waiting", "asleep"} => \A w \in Workers : SubTask(c, w)' \in AbsSubmitted'
                      /\ stage'[c] = "running" /\ ~InCall(c)' =>
                             cpc'[c] = "idle" /\ (Divided(work'[c]) => \A w \in Workers : SubTask(c, w)' \in AbsExecuted')
    BY DEF CallI
  <2>1. UNCHANGED <<stage, work, calls, covered>>
    BY DEF reductionVars
  <2>2. /\ InCall(c) => stage[c] = "running" /\ Divided(work[c]) /\ calls[c] = covered[c] + 1
        /\ ~InCall(c) => calls[c] = covered[c]
        /\ cpc[c] = "adding" => \A w \in Workers : w < idx[c] => SubTask(c, w) \in AbsSubmitted
        /\ cpc[c] \in {"waiting", "asleep"} => \A w \in Workers : SubTask(c, w) \in AbsSubmitted
        /\ stage[c] = "running" /\ ~InCall(c) =>
               cpc[c] = "idle" /\ (Divided(work[c]) => \A w \in Workers : SubTask(c, w) \in AbsExecuted)
    BY DEF RInv, CallI
  <2>3. CASE cpc'[c] = cpc[c] /\ idx'[c] = idx[c]
    BY <1>2, <1>3, <2>1, <2>2, <2>3
  <2>4. CASE cpc[c] \in {"waiting", "asleep"} /\ cpc'[c] \in {"waiting", "asleep"}
    BY <1>2, <1>3, <2>1, <2>2, <2>4 DEF InCall
  <2>5. CASE ~InCall(c) /\ ~InCall(c)' /\ stage[c] # "running"
    BY <1>2, <1>3, <2>1, <2>2, <2>5 DEF InCall
  <2> QED BY <2>3, <2>4, <2>5
<1> QED BY <1>1, <1>4, <1>5, <1>6 DEF RInv

\* A thread meets its share of the task that runs now, and for the first time.
LEMMA RunPartKeeps ==
    ASSUME PoolInv, RInv, NEW w \in Workers, RunPart(w)
    PROVE  RInv'
<1> DEFINE t == task[w]
           c == t.client
<1>1. /\ RunTask(w) /\ partial' = [partial EXCEPT ![c][w] = Met(@, PartOf(work[c], w))]
      /\ UNCHANGED <<stage, work, merged, result>>
  BY DEF RunPart
<1>2. /\ UNCHANGED <<given, queue, covered, calls, cpc, idx>>
  BY <1>1 DEF RunTask, clientVars
<1>3. /\ Service!Execute(t) /\ t \in Task /\ t.worker = w /\ queue[w] # <<>> /\ t = Head(queue[w])
  BY <1>1, RunIsExecute DEF PoolInv
<1>4. /\ t \in AbsSubmitted /\ t \notin AbsExecuted /\ AbsExecuted' = AbsExecuted \cup {t}
      /\ AbsSubmitted' = AbsSubmitted
  BY <1>3 DEF Service!Execute, AbsSubmitted, AbsExecuted
<1>5. c \in Clients /\ t.call \in Nat /\ t = [client |-> c, call |-> t.call, worker |-> w]
  BY <1>3, PoolAssumption DEF Task
<1>6. t.call > covered[c] /\ t.call <= calls[c]
  <2>1. queue[w] \in Seq(Task)
    BY DEF PoolInv, TypeInv, TypeOK
  <2>2. 1 \in DOMAIN queue[w] /\ t = queue[w][1]
    BY <1>3, <2>1, HeadTailProperties, LenProperties, EmptySeq
  <2>3. t.call > covered[c]
    BY <2>2 DEF PoolInv, WaitInv, NoTaskOutlivesItsWait
  <2>40. PICK v \in Workers : t \in Range(given[v])
    BY <1>4 DEF AbsSubmitted
  <2>4. PICK i \in DOMAIN given[v] : given[v][i] = t
    BY <2>40 DEF Range
  <2>5. t.call <= calls[c]
    BY <2>4 DEF PoolInv, GivenI
  <2> QED BY <2>3, <2>5
<1>7. calls[c] \in Nat /\ covered[c] \in Nat
  BY <1>5, PoolAssumption DEF PoolInv, TypeInv, TypeOK
<1> HIDE DEF t, c
<1>8. InCall(c) /\ stage[c] = "running" /\ Divided(work[c]) /\ t = SubTask(c, w)
  <2>1. InCall(c)
    BY <1>5, <1>6, <1>7 DEF RInv, CallI
  <2>2. stage[c] = "running" /\ Divided(work[c]) /\ calls[c] = covered[c] + 1
    BY <1>5, <2>1 DEF RInv, CallI
  <2>3. t.call = calls[c]
    BY <1>5, <1>6, <1>7, <2>2
  <2> QED BY <1>5, <2>1, <2>2, <2>3 DEF SubTask
<1>9. partial[c][w] = Nothing
  BY <1>4, <1>5, <1>8 DEF RInv, PartialI
<1>10. /\ partial'[c][w] = Ones(Share(work[c], w))
       /\ \A d \in Clients, v \in Workers : d # c \/ v # w => partial'[d][v] = partial[d][v]
       /\ partial' \in [Clients -> [Workers -> [Elements -> Nat]]]
  <2>1. partial \in [Clients -> [Workers -> [Elements -> Nat]]]
    BY DEF RInv, RTypeOK
  <2>2. Met(partial[c][w], PartOf(work[c], w)) = Ones(PartOf(work[c], w))
    BY <1>9, MetOnce
  <2>3. Ones(PartOf(work[c], w)) \in [Elements -> Nat]
    BY DEF Ones
  <2>4. Share(work[c], w) = PartOf(work[c], w)
    BY <1>8 DEF Share
  <2>5. partial' = [partial EXCEPT ![c] = [partial[c] EXCEPT ![w] = Ones(PartOf(work[c], w))]]
    BY <1>1, <1>5, <2>1, <2>2
  <2> QED BY <1>5, <2>1, <2>3, <2>4, <2>5
<1>11. /\ RTypeOK' /\ ElementsReducedOnce'
  BY <1>1, <1>10 DEF RInv, RTypeOK, ElementsReducedOnce
<1>12. MergeI'
  BY <1>1, <1>2 DEF RInv, MergeI, InCall
<1>13. \A d \in Clients, v \in Workers : SubTask(d, v)' = SubTask(d, v)
  BY <1>2 DEF SubTask
<1>14. \A d \in Clients, v \in Workers : SubTask(d, v) = t => d = c /\ v = w
  BY <1>5 DEF SubTask
<1>15. CallI'
  BY <1>1, <1>2, <1>4, <1>13 DEF RInv, CallI, InCall
<1>16. PartialI'
  <2> SUFFICES ASSUME NEW d \in Clients, stage[d] = "running", NEW v \in Workers
               PROVE  partial'[d][v] = IF ~Divided(work[d]) \/ SubTask(d, v) \in AbsExecuted'
                                       THEN Ones(Share(work[d], v)) ELSE Nothing
    BY <1>1, <1>13 DEF PartialI
  <2>1. CASE d = c /\ v = w
    BY <1>4, <1>8, <1>10, <2>1
  <2>2. CASE d # c \/ v # w
    <3>1. SubTask(d, v) \in AbsExecuted' <=> SubTask(d, v) \in AbsExecuted
      BY <1>4, <1>14, <2>2
    <3> QED BY <1>10, <2>2, <3>1 DEF RInv, PartialI
  <2> QED BY <2>1, <2>2
<1> QED BY <1>11, <1>12, <1>15, <1>16 DEF RInv

\* ExecuteTasks adds the tasks of its threads one after the other.
LEMMA AddNextKeeps ==
    ASSUME PoolInv, RInv, NEW c \in Clients, AddNext(c), UNCHANGED reductionVars
    PROVE  RInv'
<1> DEFINE next == IF idx[c] = NumThreads - 1 THEN "waiting" ELSE "adding"
           t == SubTask(c, idx[c])
<1>1. /\ calls[c] \in 1 .. MaxCalls /\ idx[c] \in Workers /\ cpc[c] = "adding"
      /\ Push(c, idx[c], calls[c], next) /\ UNCHANGED <<log, covered, calls>>
      /\ \A d \in Clients \ {c} : idx'[d] = idx[d]
      /\ next = "adding" => idx'[c] = idx[c] + 1
  BY DEF AddNext, CallsNumbered, PoolInv, TypeInv, TypeOK
<1>2. /\ cpc'[c] = next /\ next \in {"waiting", "adding"}
      /\ next = "waiting" => idx[c] = NumThreads - 1
      /\ \A d \in Clients \ {c} : \/ cpc'[d] = cpc[d]
                                  \/ cpc[d] \in {"waiting", "asleep"} /\ cpc'[d] \in {"waiting", "asleep"}
  BY <1>1 DEF Push, SleepersOn
<1> HIDE DEF next
<1>3. \A i \in DOMAIN given[idx[c]] : ~(given[idx[c]][i].client = c /\ given[idx[c]][i].call = calls[c])
  BY <1>1 DEF PoolInv, GivenI, Workers
<1>4. Service!Submit(t)
  BY <1>1, <1>3, PushIsSubmit DEF PoolInv, SubTask
<1>5. AbsSubmitted' = AbsSubmitted \cup {t} /\ AbsExecuted' = AbsExecuted
  BY <1>4 DEF Service!Submit, AbsSubmitted, AbsExecuted
<1>6. /\ \A d \in Clients, v \in Workers : SubTask(d, v)' = SubTask(d, v)
      /\ \A d \in Clients : InCall(d)' <=> InCall(d)
      /\ UNCHANGED <<stage, work, partial, merged, result>>
  BY <1>1, <1>2 DEF SubTask, InCall, reductionVars
<1>7. RTypeOK' /\ ElementsReducedOnce' /\ PartialI' /\ MergeI'
  <2>1. RTypeOK' /\ ElementsReducedOnce'
    BY <1>6 DEF RInv, RTypeOK, ElementsReducedOnce
  <2>2. PartialI'
    BY <1>5, <1>6 DEF RInv, PartialI
  <2>3. MergeI'
    BY <1>6 DEF RInv, MergeI
  <2> QED BY <2>1, <2>2, <2>3
<1>8. CallI'
  <2> SUFFICES ASSUME NEW d \in Clients
               PROVE  /\ cpc'[d] = "adding" => \A w \in Workers : w < idx'[d] => SubTask(d, w) \in AbsSubmitted'
                      /\ cpc'[d] \in {"waiting", "asleep"} => \A w \in Workers : SubTask(d, w) \in AbsSubmitted'
                      /\ stage[d] = "running" /\ ~InCall(d) => cpc'[d] = "idle"
    BY <1>1, <1>5, <1>6 DEF RInv, CallI
  <2>1. CASE d # c
    BY <1>1, <1>2, <1>5, <2>1 DEF RInv, CallI, InCall
  <2>2. CASE d = c
    <3>1. \A w \in Workers : w < idx[c] \/ w = idx[c] => SubTask(c, w) \in AbsSubmitted'
      BY <1>1, <1>5 DEF RInv, CallI
    <3>2. InCall(c)
      BY <1>1 DEF InCall
    <3>3. CASE next = "adding"
      <4>1. \A w \in Workers : w < idx'[c] => w < idx[c] \/ w = idx[c]
        BY <1>1, <3>3 DEF Workers
      <4> QED BY <1>2, <2>2, <3>1, <3>2, <3>3, <4>1
    <3>4. CASE next = "waiting"
      <4>1. \A w \in Workers : w < idx[c] \/ w = idx[c]
        BY <1>1, <1>2, <3>4, PoolAssumption DEF Workers
      <4> QED BY <1>2, <2>2, <3>1, <3>2, <3>4, <4>1
    <3> QED BY <1>2, <3>3, <3>4
  <2> QED BY <2>1, <2>2
<1> QED BY <1>7, <1>8 DEF RInv

\* When the wait of ExecuteTasks returns, the shares of all threads were met.
LEMMA WaitNextKeeps ==
    ASSUME PoolInv, RInv, NEW c \in Clients, WaitNext(c), UNCHANGED reductionVars
    PROVE  RInv'
<1>1. /\ UNCHANGED <<given, log, calls>> /\ cpc[c] = "waiting"
      /\ \A d \in Clients \ {c} : cpc'[d] = cpc[d] /\ idx'[d] = idx[d]
  BY DEF WaitNext, workerVars, PoolInv, TypeInv, TypeOK
<1>2. CASE idx[c] # NumThreads - 1
  <2>1. cpc'[c] = cpc[c] /\ UNCHANGED covered
    BY <1>2 DEF WaitNext
  <2> QED BY <1>1, <2>1, QuietLoopStep
<1>3. CASE idx[c] = NumThreads - 1
  <2>1. Service!Return(c, calls[c])
    BY <1>3, WaitIsReturn DEF PoolInv
  <2>2. /\ \A t \in AbsSubmitted : t.client = c => t \in AbsExecuted
        /\ AbsSubmitted' = AbsSubmitted /\ AbsExecuted' = AbsExecuted
        /\ covered' = [covered EXCEPT ![c] = calls[c]]
    BY <2>1 DEF Service!Return, AbsSubmitted, AbsExecuted
  <2>3. cpc'[c] = "idle" /\ ~InCall(c)' /\ InCall(c)
    BY <1>1, <1>3 DEF WaitNext, InCall, PoolInv, TypeInv, TypeOK
  <2>4. /\ covered'[c] = calls[c] /\ \A d \in Clients \ {c} : covered'[d] = covered[d]
    BY <2>2 DEF PoolInv, TypeInv, TypeOK
  <2>5. \A w \in Workers : SubTask(c, w) \in AbsExecuted
    BY <1>1, <2>2 DEF RInv, CallI, SubTask
  <2>6. /\ \A d \in Clients, v \in Workers : SubTask(d, v)' = SubTask(d, v)
        /\ UNCHANGED <<stage, work, partial, merged, result>>
        /\ \A d \in Clients \ {c} : InCall(d)' <=> InCall(d)
    BY <1>1 DEF SubTask, InCall, reductionVars
  <2>7. RTypeOK' /\ ElementsReducedOnce' /\ PartialI'
    BY <2>2, <2>6 DEF RInv, RTypeOK, ElementsReducedOnce, PartialI
  <2>8. MergeI'
    BY <2>3, <2>6 DEF RInv, MergeI
  <2>9. CallI'
    <3> SUFFICES ASSUME NEW d \in Clients
                 PROVE  /\ InCall(d)' => stage[d] = "running" /\ Divided(work[d]) /\ calls[d] = covered'[d] + 1
                        /\ ~InCall(d)' => calls[d] = covered'[d]
                        /\ cpc'[d] = "adding" => \A w \in Workers : w < idx'[d] => SubTask(d, w) \in AbsSubmitted
                        /\ cpc'[d] \in {"waiting", "asleep"} => \A w \in Workers : SubTask(d, w) \in AbsSubmitted
                        /\ stage[d] = "running" /\ ~InCall(d)' =>
                               cpc'[d] = "idle" /\ (Divided(work[d]) => \A w \in Workers : SubTask(d, w) \in AbsExecuted)
      BY <1>1, <2>2, <2>6 DEF CallI
    <3>1. CASE d = c
      BY <2>3, <2>4, <2>5, <3>1
    <3>2. CASE d # c
      BY <1>1, <2>4, <2>6, <3>2 DEF RInv, CallI
    <3> QED BY <3>1, <3>2
  <2> QED BY <2>7, <2>8, <2>9 DEF RInv
<1> QED BY <1>2, <1>3

\* A task begins with nothing met, or, if it is small, with all of it met by the caller.
LEMMA ParallelRunKeeps ==
    ASSUME PoolInv, RInv, NEW c \in Clients, NEW t \in Tasks, ParallelRun(c, t)
    PROVE  RInv'
<1>1. /\ cpc[c] = "idle" /\ ~InCall(c) /\ stage[c] # "running" /\ calls[c] = covered[c]
      /\ work' = [work EXCEPT ![c] = t] /\ stage' = [stage EXCEPT ![c] = "running"]
      /\ merged' = [merged EXCEPT ![c] = 0] /\ result' = [result EXCEPT ![c] = Nothing]
  BY DEF ParallelRun, RInv, CallI, InCall
<1>2. /\ UNCHANGED <<given, log, covered>>
      /\ \A d \in Clients \ {c} : cpc'[d] = cpc[d] /\ idx'[d] = idx[d] /\ calls'[d] = calls[d]
                                  /\ partial'[d] = partial[d]
  BY DEF ParallelRun, BeginExecuteTasks, Begin, workerVars, vars, PoolInv, TypeInv, TypeOK, RInv, RTypeOK
<1>3. /\ Nothing \in [Elements -> Nat] /\ \A S : Ones(S) \in [Elements -> Nat]
      /\ Ones({}) = Nothing /\ 0 \in Workers
  BY WorkerIndexes DEF Nothing, Ones
<1>4. /\ \A w \in Workers : partial'[c][w] = IF Divided(t) THEN Nothing ELSE Ones(Share(t, w))
      /\ partial' \in [Clients -> [Workers -> [Elements -> Nat]]]
  <2>1. CASE Divided(t)
    <3>1. partial' = [partial EXCEPT ![c] = [w \in Workers |-> Nothing]]
      BY <2>1 DEF ParallelRun
    <3> QED BY <1>3, <2>1, <3>1 DEF RInv, RTypeOK
  <2>2. CASE ~Divided(t)
    <3>1. partial' = [partial EXCEPT ![c] = [w \in Workers |->
                         IF w = 0 THEN Ones(Whole(t)) ELSE Nothing]]
      BY <2>2, MetOnce DEF ParallelRun
    <3>2. \A w \in Workers : Ones(Share(t, w)) = IF w = 0 THEN Ones(Whole(t)) ELSE Nothing
      BY <1>3, <2>2 DEF Share
    <3>3. \A w \in Workers : (IF w = 0 THEN Ones(Whole(t)) ELSE Nothing) \in [Elements -> Nat]
      BY <1>3
    <3> QED BY <2>2, <3>1, <3>2, <3>3 DEF RInv, RTypeOK
  <2> QED BY <2>1, <2>2
<1>5. /\ work'[c] = t /\ stage'[c] = "running" /\ merged'[c] = 0 /\ result'[c] = Nothing
      /\ \A d \in Clients \ {c} : work'[d] = work[d] /\ stage'[d] = stage[d] /\ merged'[d] = merged[d]
                                  /\ result'[d] = result[d]
  BY <1>1 DEF RInv, RTypeOK
<1>6. RTypeOK'
  <2>1. 0 \in 0 .. NumThreads
    BY PoolAssumption
  <2> QED BY <1>1, <1>3, <1>4, <2>1 DEF RInv, RTypeOK
<1>7. ElementsReducedOnce'
  BY <1>5 DEF RInv, ElementsReducedOnce
<1>8. /\ AbsSubmitted' = AbsSubmitted /\ AbsExecuted' = AbsExecuted
      /\ \A d \in Clients \ {c}, v \in Workers : SubTask(d, v)' = SubTask(d, v)
      /\ \A d \in Clients \ {c} : InCall(d)' <=> InCall(d)
  BY <1>2 DEF SubTask, InCall, AbsSubmitted, AbsExecuted
<1>9. MergeI'
  <2> SUFFICES ASSUME NEW d \in Clients, stage'[d] = "running"
               PROVE  /\ merged'[d] \in Workers
                      /\ InCall(d)' => merged'[d] = 0
                      /\ result'[d] = Ones(UNION {Share(work'[d], w) : w \in 0 .. merged'[d] - 1})
    BY DEF MergeI
  <2>1. CASE d = c
    <3>1. 0 .. merged'[d] - 1 = {}
      BY <1>5, <2>1
    <3>2. UNION {Share(work'[d], w) : w \in 0 .. merged'[d] - 1} = {}
      BY <3>1
    <3>3. result'[d] = Ones({}) /\ merged'[d] = 0 /\ 0 \in Workers
      BY <1>3, <1>5, <2>1
    <3> QED BY <3>2, <3>3
  <2>2. CASE d # c
    <3>1. /\ work'[d] = work[d] /\ stage[d] = "running" /\ merged'[d] = merged[d]
          /\ result'[d] = result[d] /\ (InCall(d)' <=> InCall(d))
      BY <1>5, <1>8, <2>2
    <3>2. /\ merged[d] \in Workers
          /\ InCall(d) => merged[d] = 0
          /\ result[d] = Ones(UNION {Share(work[d], w) : w \in 0 .. merged[d] - 1})
      BY <3>1 DEF RInv, MergeI
    <3> QED BY <3>1, <3>2
  <2> QED BY <2>1, <2>2
<1>10. CASE Divided(t)
  <2>1. calls'[c] = calls[c] + 1 /\ cpc'[c] = "adding" /\ idx'[c] = 0 /\ calls[c] \in Nat
    BY <1>10, PoolAssumption DEF ParallelRun, BeginExecuteTasks, Begin, PoolInv, TypeInv, TypeOK
  <2>2. InCall(c)' /\ \A w \in Workers : ~(w < idx'[c])
    BY <2>1 DEF InCall, Workers
  <2>3. \A w \in Workers : SubTask(c, w)' \notin AbsExecuted'
    <3> SUFFICES ASSUME NEW w \in Workers, SubTask(c, w)' \in AbsExecuted PROVE FALSE
      BY <1>8
    <3>1. SubTask(c, w)'.call = calls[c] + 1 /\ SubTask(c, w)'.client = c
      BY <2>1 DEF SubTask
    <3>2. SubTask(c, w)'.call <= calls[c]
      BY <3>1, ExecutedWasSubmitted
    <3> QED BY <2>1, <3>1, <3>2
  <2>4. PartialI'
    <3> SUFFICES ASSUME NEW d \in Clients, stage'[d] = "running", NEW w \in Workers
                 PROVE  partial'[d][w] = IF ~Divided(work'[d]) \/ SubTask(d, w)' \in AbsExecuted'
                                         THEN Ones(Share(work'[d], w)) ELSE Nothing
      BY DEF PartialI
    <3>1. CASE d = c
      BY <1>4, <1>5, <1>10, <2>3, <3>1
    <3>2. CASE d # c
      BY <1>2, <1>5, <1>8, <3>2 DEF RInv, PartialI
    <3> QED BY <3>1, <3>2
  <2>5. CallI'
    <3> SUFFICES ASSUME NEW d \in Clients
                 PROVE  /\ InCall(d)' => stage'[d] = "running" /\ Divided(work'[d]) /\ calls'[d] = covered[d] + 1
                        /\ ~InCall(d)' => calls'[d] = covered[d]
                        /\ cpc'[d] = "adding" => \A w \in Workers : w < idx'[d] => SubTask(d, w)' \in AbsSubmitted
                        /\ cpc'[d] \in {"waiting", "asleep"} => \A w \in Workers : SubTask(d, w)' \in AbsSubmitted
                        /\ stage'[d] = "running" /\ ~InCall(d)' =>
                               cpc'[d] = "idle" /\ (Divided(work'[d]) => \A w \in Workers : SubTask(d, w)' \in AbsExecuted)
      BY <1>2, <1>8 DEF CallI
    <3>1. CASE d = c
      BY <1>1, <1>5, <1>10, <2>1, <2>2, <3>1
    <3>2. CASE d # c
      BY <1>2, <1>5, <1>8, <3>2 DEF RInv, CallI
    <3> QED BY <3>1, <3>2
  <2> QED BY <1>6, <1>7, <1>9, <2>4, <2>5 DEF RInv
<1>11. CASE ~Divided(t)
  <2>1. calls' = calls /\ cpc' = cpc /\ idx' = idx
    BY <1>11 DEF ParallelRun, vars
  <2>2. ~InCall(c)' /\ cpc'[c] = "idle"
    BY <1>1, <2>1 DEF InCall
  <2>3. PartialI'
    <3> SUFFICES ASSUME NEW d \in Clients, stage'[d] = "running", NEW w \in Workers
                 PROVE  partial'[d][w] = IF ~Divided(work'[d]) \/ SubTask(d, w)' \in AbsExecuted'
                                         THEN Ones(Share(work'[d], w)) ELSE Nothing
      BY DEF PartialI
    <3>1. CASE d = c
      BY <1>4, <1>5, <1>11, <3>1
    <3>2. CASE d # c
      BY <1>2, <1>5, <1>8, <3>2 DEF RInv, PartialI
    <3> QED BY <3>1, <3>2
  <2>4. CallI'
    <3> SUFFICES ASSUME NEW d \in Clients
                 PROVE  /\ InCall(d)' => stage'[d] = "running" /\ Divided(work'[d]) /\ calls'[d] = covered[d] + 1
                        /\ ~InCall(d)' => calls'[d] = covered[d]
                        /\ cpc'[d] = "adding" => \A w \in Workers : w < idx'[d] => SubTask(d, w)' \in AbsSubmitted
                        /\ cpc'[d] \in {"waiting", "asleep"} => \A w \in Workers : SubTask(d, w)' \in AbsSubmitted
                        /\ stage'[d] = "running" /\ ~InCall(d)' =>
                               cpc'[d] = "idle" /\ (Divided(work'[d]) => \A w \in Workers : SubTask(d, w)' \in AbsExecuted)
      BY <1>2, <1>8 DEF CallI
    <3>1. CASE d = c
      BY <1>1, <1>5, <1>11, <2>1, <2>2, <3>1
    <3>2. CASE d # c
      BY <1>2, <1>5, <1>8, <3>2 DEF RInv, CallI
    <3> QED BY <3>1, <3>2
  <2> QED BY <1>6, <1>7, <1>9, <2>3, <2>4 DEF RInv
<1> QED BY <1>10, <1>11

\* The reduction adds one more share; the last one completes the task.
LEMMA ReduceKeeps ==
    ASSUME PoolInv, RInv, NEW c \in Clients, Reduce(c)
    PROVE  RInv'
<1> DEFINE m == merged[c]
           t == work[c]
           Below(k) == UNION {Share(t, w) : w \in 0 .. k - 1}
<1>1. /\ stage[c] = "running" /\ cpc[c] = "idle" /\ ~InCall(c)
      /\ result' = [result EXCEPT ![c] = [i \in Elements |-> result[c][i] + partial[c][m][i]]]
      /\ merged' = [merged EXCEPT ![c] = m + 1]
      /\ stage' = [stage EXCEPT ![c] = IF merged'[c] = NumThreads THEN "reduced" ELSE stage[c]]
      /\ UNCHANGED <<vars, work, partial>>
  BY DEF Reduce, InCall, RInv, RTypeOK
<1>2. m \in Workers /\ t \in Tasks /\ result[c] = Ones(Below(m))
  BY <1>1 DEF RInv, MergeI, RTypeOK
<1>3. m \in Nat /\ m < NumThreads /\ NumThreads \in Nat
  BY <1>2, PoolAssumption DEF Workers
<1>4. partial[c][m] = Ones(Share(t, m))
  BY <1>1, <1>2 DEF RInv, PartialI, CallI
<1>5. Below(m) \cap Share(t, m) = {} /\ Below(m) \cup Share(t, m) = Below(m + 1)
  <2>1. \A w \in 0 .. m - 1 : w \in Workers /\ w # m
    BY <1>3 DEF Workers
  <2>2. 0 .. (m + 1) - 1 = (0 .. m - 1) \cup {m}
    BY <1>3
  <2>3. \A w \in 0 .. m - 1 : Share(t, w) \cap Share(t, m) = {}
    BY <1>2, <2>1, ShareFacts
  <2> HIDE DEF t, m
  <2> QED BY <2>2, <2>3
<1>6. merged'[c] = m + 1 /\ merged' \in [Clients -> 0 .. NumThreads]
      /\ \A d \in Clients \ {c} : merged'[d] = merged[d]
  BY <1>1, <1>3 DEF RInv, RTypeOK
<1>7. result'[c] = Ones(Below(m + 1)) /\ \A d \in Clients \ {c} : result'[d] = result[d]
  <2>1. result'[c] = [i \in Elements |-> Ones(Below(m))[i] + Ones(Share(t, m))[i]]
    BY <1>1, <1>2, <1>4 DEF RInv, RTypeOK
  <2>2. \A d \in Clients \ {c} : result'[d] = result[d]
    BY <1>1 DEF RInv, RTypeOK
  <2> HIDE DEF Below, t, m
  <2> QED BY <1>5, <2>1, <2>2, SumOfParts
<1>8. result' \in [Clients -> [Elements -> Nat]]
  <2>1. result'[c] \in [Elements -> Nat]
    BY <1>7 DEF Ones
  <2> QED BY <1>1, <2>1 DEF RInv, RTypeOK
<1>9. stage'[c] = (IF m + 1 = NumThreads THEN "reduced" ELSE "running")
      /\ \A d \in Clients \ {c} : stage'[d] = stage[d]
      /\ stage' \in [Clients -> {"none", "running", "reduced"}]
  BY <1>1, <1>6 DEF RInv, RTypeOK
<1>10. RTypeOK'
  BY <1>1, <1>6, <1>8, <1>9 DEF RInv, RTypeOK
<1>11. /\ AbsSubmitted' = AbsSubmitted /\ AbsExecuted' = AbsExecuted
       /\ \A d \in Clients, v \in Workers : SubTask(d, v)' = SubTask(d, v)
       /\ \A d \in Clients : InCall(d)' <=> InCall(d)
       /\ UNCHANGED <<cpc, idx, calls, covered, work, partial>>
  BY <1>1 DEF SubTask, InCall, AbsSubmitted, AbsExecuted, vars
<1>12. \A d \in Clients : stage'[d] = "running" => stage[d] = "running"
  BY <1>1, <1>9
<1>13. PartialI'
  BY <1>11, <1>12 DEF RInv, PartialI
<1>14. CallI'
  BY <1>1, <1>9, <1>11, <1>12 DEF RInv, CallI
<1>15. MergeI'
  <2> SUFFICES ASSUME NEW d \in Clients, stage'[d] = "running"
               PROVE  /\ merged'[d] \in Workers
                      /\ InCall(d) => merged'[d] = 0
                      /\ result'[d] = Ones(UNION {Share(work[d], w) : w \in 0 .. merged'[d] - 1})
    BY <1>11 DEF MergeI
  <2>1. CASE d = c
    <3>1. m + 1 # NumThreads
      BY <1>9, <2>1
    <3>2. m + 1 \in Workers
      BY <1>3, <3>1 DEF Workers
    <3> QED BY <1>1, <1>6, <1>7, <2>1, <3>2
  <2>2. CASE d # c
    BY <1>6, <1>7, <1>12, <2>2 DEF RInv, MergeI
  <2> QED BY <2>1, <2>2
<1>16. ElementsReducedOnce'
  <2> SUFFICES ASSUME NEW d \in Clients, stage'[d] = "reduced", NEW i \in Elements
               PROVE  result'[d][i] = IF i \in Whole(work[d]) THEN 1 ELSE 0
    BY <1>11 DEF ElementsReducedOnce, Elements
  <2>1. CASE d = c
    <3>1. m + 1 = NumThreads
      BY <1>9, <2>1
    <3>2. Below(m + 1) = Whole(t)
      <4>1. UNION {Share(t, w) : w \in Workers} = Whole(t)
        BY <1>2, ShareFacts
      <4> QED BY <3>1, <4>1 DEF Workers
    <3> QED BY <1>7, <2>1, <3>2 DEF Ones
  <2>2. CASE d # c
    BY <1>7, <1>9, <2>2 DEF RInv, ElementsReducedOnce
  <2> QED BY <2>1, <2>2
<1> QED BY <1>10, <1>13, <1>14, <1>15, <1>16 DEF RInv

LEMMA LoopStep == PoolInv /\ RInv /\ [RNext]_<<vars, reductionVars>> => RInv'
<1> SUFFICES ASSUME PoolInv, RInv, [RNext]_<<vars, reductionVars>> PROVE RInv'
  OBVIOUS
<1>1. ASSUME NEW w \in Workers,
             LeaveLoop(w) \/ TakeTask(w) \/ FinishTask(w) \/ GoToSleep(w) \/ SpuriousWorkerWakeup(w),
             UNCHANGED reductionVars
      PROVE  RInv'
  <2>1. /\ UNCHANGED <<given, log, calls, covered, idx>>
        /\ \A c \in Clients : \/ cpc'[c] = cpc[c]
                              \/ cpc[c] \in {"waiting", "asleep"} /\ cpc'[c] \in {"waiting", "asleep"}
    BY <1>1 DEF LeaveLoop, TakeTask, FinishTask, GoToSleep, SpuriousWorkerWakeup, WakeClients, SleepersOn,
                clientVars
  <2> QED BY <1>1, <2>1, QuietLoopStep
<1>2. ASSUME NEW c \in Clients, WaitSleep(c) \/ SpuriousClientWakeup(c), UNCHANGED reductionVars PROVE RInv'
  <2>1. /\ UNCHANGED <<given, log, calls, covered, idx>>
        /\ \A d \in Clients : \/ cpc'[d] = cpc[d]
                              \/ cpc[d] \in {"waiting", "asleep"} /\ cpc'[d] \in {"waiting", "asleep"}
    BY <1>2 DEF WaitSleep, SpuriousClientWakeup, workerVars, clientVars, PoolInv, TypeInv, TypeOK
  <2> QED BY <1>2, <2>1, QuietLoopStep
<1>3. ASSUME \A c \in Clients : stage[c] # "running", BeginDelete, UNCHANGED reductionVars PROVE RInv'
  <2>1. /\ UNCHANGED <<given, log, calls, covered>>
        /\ \A c \in Clients : ~InCall(c) /\ ~InCall(c)'
    BY <1>3 DEF BeginDelete, InCall, workerVars, PoolInv, TypeInv, TypeOK
  <2> QED BY <1>3, <2>1, QuietLoopStep
<1>4. ASSUME DeleteStep, UNCHANGED reductionVars PROVE RInv'
  <2>1. /\ UNCHANGED <<given, log, calls, covered>> /\ Owner \in Clients
        /\ cpc[Owner] \in {"stop", "notify", "join"} /\ cpc'[Owner] \in {"stop", "notify", "join", "deleted"}
        /\ \A c \in Clients \ {Owner} : cpc'[c] = cpc[c] /\ idx'[c] = idx[c]
    BY <1>4, PoolAssumption DEF DeleteStep, SetStopped, NotifyStopped, Join, workerVars, clientVars,
                                PoolInv, TypeInv, TypeOK
  <2>2. ~InCall(Owner) /\ ~InCall(Owner)' /\ stage[Owner] # "running"
    BY <2>1 DEF InCall, RInv, CallI
  <2> QED BY <1>4, <2>1, <2>2, QuietLoopStep
<1>5. ASSUME UNCHANGED <<vars, reductionVars>> PROVE RInv'
  <2>1. UNCHANGED <<given, log, calls, covered, cpc, idx>> /\ UNCHANGED reductionVars
    BY <1>5 DEF vars
  <2> QED BY <2>1, QuietLoopStep
<1>6. ASSUME NEW w \in Workers, RWorkerStep(w) \/ (SpuriousWorkerWakeup(w) /\ UNCHANGED reductionVars)
      PROVE  RInv'
  BY <1>1, <1>6, RunPartKeeps DEF RWorkerStep
<1>7. ASSUME NEW c \in Clients,
             \/ \E t \in Tasks : ParallelRun(c, t)
             \/ RClientStep(c)
             \/ SpuriousClientWakeup(c) /\ UNCHANGED reductionVars
      PROVE  RInv'
  BY <1>2, <1>7, ParallelRunKeeps, ReduceKeeps, AddNextKeeps, WaitNextKeeps DEF RClientStep, ClientStep
<1> QED BY <1>3, <1>4, <1>5, <1>6, <1>7 DEF RNext

LEMMA LoopInit == RInit => RInv
<1> SUFFICES ASSUME RInit PROVE RInv
  OBVIOUS
<1>1. Nothing \in [Elements -> Nat] /\ 0 \in 0 .. NumThreads /\ (CHOOSE t \in Tasks : TRUE) \in Tasks
  BY ReductionAssumption, PoolAssumption DEF Nothing
<1>2. RTypeOK
  BY <1>1 DEF RInit, RTypeOK
<1>3. \A c \in Clients : ~InCall(c) /\ stage[c] = "none" /\ calls[c] = covered[c]
  BY DEF RInit, Init, InCall
<1>4. CallI /\ PartialI /\ MergeI /\ ElementsReducedOnce
  BY <1>3 DEF CallI, PartialI, MergeI, ElementsReducedOnce, InCall
<1> QED BY <1>2, <1>4 DEF RInv

\* A parallel loop (ParallelRun of GradientBoostThreadTask.cpp and its like) adds up every
\* element once, whatever the number of threads, the sizes, the alignments and the number
\* of callers, and whoever is scheduled or woken when.
THEOREM ReductionCorrect == RSpec => []ElementsReducedOnce
<1>1. RInit => PoolInv /\ RInv
  BY PoolInit, LoopInit DEF RInit
<1>2. PoolInv /\ RInv /\ [RNext]_<<vars, reductionVars>> => PoolInv' /\ RInv'
  <2>1. [RNext]_<<vars, reductionVars>> => [Next]_vars
    BY LoopStepIsPoolStep
  <2> QED BY <2>1, PoolStep, LoopStep
<1> QED BY <1>1, <1>2, PTL DEF RSpec, RInv
=============================================================================
