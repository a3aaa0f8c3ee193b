---------------------------- MODULE Communicator ----------------------------
(***************************************************************************)
(* CMultiThreadDistributedCommunicator                                     *)
(* (NeoMathEngine/src/CPU/CpuMathEngineDnnDistributed.cpp): AllReduce and  *)
(* Broadcast between the threads that train copies of one network.         *)
(*                                                                         *)
(* The threads run the same code, so they make the same calls: `Program'.  *)
(* A thread may fail in the code between its calls; it then calls Abort,   *)
(* and so does a thread that a barrier threw out                           *)
(* (CDistributedTraining's catch blocks).  Finished threads may be run     *)
(* again by the next call of CDistributedTraining: a run.  The calls are   *)
(* counted over all the runs.  Nothing in the communicator is reset after  *)
(* an abort: the runs that come after are spoilt.                          *)
(***************************************************************************)
EXTENDS Barrier, Sequences

CONSTANTS Program,    \* the collective calls of one run
          Root,       \* the root of every Broadcast
          MayFail,    \* may the code between the calls fail?
          MaxRuns     \* bound: runs on one communicator

ASSUME CommunicatorAssumption ==
    /\ Program \in Seq({"AllReduce", "Broadcast"})
    /\ Root \in Threads
    /\ MayFail \in BOOLEAN
    /\ MaxRuns \in Nat \ {0}
    /\ Reuse <=> MaxRuns > 1
    /\ MaxBarriers = 2 * Len(Program) * MaxRuns

VARIABLES
    pc,         \* where thread t is in its program
    run,        \* the run thread t is in
    call,       \* the calls thread t has begun, those an aborted run left out included
    returned,   \* the calls it has returned from
    handles,    \* the common array: handles[t] is the call whose buffer it is
    buf,        \* buf[t][s]: whose contributions slice s of the buffer of t holds
    result,     \* history: the buffer of t when its last call returned
    spoilt      \* history: has a run begun after an aborted one?

userVars == <<pc, run, call, returned, handles, buf, result, spoilt>>
vars == <<barrierVars, userVars>>

NoHandle == 0

\* The calls of the runs up to r.
CallsUpTo(r) == r * Len(Program)

\* What the k-th call is.
CallOf(k) == Program[((k - 1) % Len(Program)) + 1]

Own(t, k) == [s \in Threads |-> {<<t, k>>}]

Init ==
    /\ BarrierInit
    /\ pc = [t \in Threads |-> "user"]
    /\ run = [t \in Threads |-> 1]
    /\ call = [t \in Threads |-> 0]
    /\ returned = [t \in Threads |-> 0]
    /\ handles = [t \in Threads |-> NoHandle]
    /\ buf = [t \in Threads |-> Own(t, 0)]
    /\ result = [t \in Threads |-> Own(t, 0)]
    /\ spoilt = FALSE

\* The beginning of a call: collectHandles puts the address of the buffer, which
\* holds the contribution of t, into the common array.
Collect(t) ==
    /\ pc[t] = "user"
    /\ call[t] < CallsUpTo(run[t])
    /\ call' = [call EXCEPT ![t] = @ + 1]
    /\ handles' = [handles EXCEPT ![t] = call[t] + 1]
    /\ buf' = [buf EXCEPT ![t] = Own(t, call[t] + 1)]
    /\ pc' = [pc EXCEPT ![t] = "gathering"]
    /\ UNCHANGED <<barrierVars, run, returned, result, spoilt>>

\* A step of t inside the first or the second barrier of its call.
InBarrier(t, where, next) ==
    /\ pc[t] = where
    /\ Enter(t) \/ Inside(t)
    /\ pc' = [pc EXCEPT ![t] = IF departed'[t] # departed[t] THEN next
                               ELSE IF bpc'[t] = "thrown" THEN "failed"
                               ELSE @]

Gather(t) ==
    /\ InBarrier(t, "gathering", "working")
    /\ UNCHANGED <<run, call, returned, handles, buf, result, spoilt>>

\* Mutant of Settle: the second barrier is left out.
SettleAtOnce(t) ==
    /\ pc[t] = "settling"
    /\ pc' = [pc EXCEPT ![t] = "user"]
    /\ returned' = [returned EXCEPT ![t] = @ + 1]
    /\ result' = [result EXCEPT ![t] = buf[t]]
    /\ UNCHANGED <<barrierVars, run, call, handles, buf, spoilt>>

\* The call returns when its second barrier is passed.
Settle(t) ==
    /\ InBarrier(t, "settling", "user")
    /\ IF departed'[t] # departed[t]
       THEN /\ returned' = [returned EXCEPT ![t] = @ + 1]
            /\ result' = [result EXCEPT ![t] = buf[t]]
       ELSE UNCHANGED <<returned, result>>
    /\ UNCHANGED <<run, call, handles, buf, spoilt>>

\* Mutant of Reduce: a thread writes the average to its own buffer only.
ReduceOwnBuffer(t) ==
    /\ pc[t] = "working"
    /\ CallOf(call[t]) = "AllReduce"
    /\ buf' = [buf EXCEPT ![t][t] = UNION {buf[u][t] : u \in Threads}]
    /\ pc' = [pc EXCEPT ![t] = "settling"]
    /\ UNCHANGED <<barrierVars, run, call, returned, handles, result, spoilt>>

\* AllReduce: thread t averages its own slice of all the buffers and writes the
\* average to all of them.
Reduce(t) ==
    /\ pc[t] = "working"
    /\ CallOf(call[t]) = "AllReduce"
    /\ LET average == UNION {buf[u][t] : u \in Threads} IN
       buf' = [u \in Threads |-> [buf[u] EXCEPT ![t] = average]]
    /\ pc' = [pc EXCEPT ![t] = "settling"]
    /\ UNCHANGED <<barrierVars, run, call, returned, handles, result, spoilt>>

\* Broadcast: every other thread copies the buffer of the root.
CopyRoot(t) ==
    /\ pc[t] = "working"
    /\ CallOf(call[t]) = "Broadcast"
    /\ buf' = [buf EXCEPT ![t] = buf[Root]]
    /\ pc' = [pc EXCEPT ![t] = "settling"]
    /\ UNCHANGED <<barrierVars, run, call, returned, handles, result, spoilt>>

\* The others have begun the next run.
RunOver(t) == \E u \in Threads : run[u] > run[t]

\* Mutant of Fail: the handler does not call Abort.
FailSilently(t) ==
    /\ MayFail
    /\ pc[t] = "user" /\ ~RunOver(t)
    /\ pc' = [pc EXCEPT ![t] = "failed"]
    /\ UNCHANGED <<barrierVars, run, call, returned, handles, buf, result, spoilt>>

\* An exception in the code between two calls, and the Abort of its handler.
Fail(t) ==
    /\ MayFail
    /\ pc[t] = "user" /\ ~RunOver(t)
    /\ pc' = [pc EXCEPT ![t] = "failed"]
    /\ Abort
    /\ UNCHANGED <<run, call, returned, handles, buf, result, spoilt>>

Finished(t) == pc[t] = "failed" \/ (pc[t] = "user" /\ call[t] = CallsUpTo(run[t]))

\* The next run of t: all threads have finished this one, the caller was told.
Restart(t) ==
    /\ run[t] < MaxRuns
    /\ \A u \in Threads : run[u] > run[t] \/ Finished(u)
    /\ run' = [run EXCEPT ![t] = @ + 1]
    /\ pc' = [pc EXCEPT ![t] = "user"]
    /\ call' = [call EXCEPT ![t] = CallsUpTo(run[t])]
    /\ returned' = [returned EXCEPT ![t] = CallsUpTo(run[t])]
    /\ spoilt' = (spoilt \/ \E u \in Threads : pc[u] = "failed")
    /\ IF bpc[t] = "thrown" THEN ComeBack(t) ELSE UNCHANGED barrierVars
    /\ UNCHANGED <<handles, buf, result>>

ThreadStep(t) == Collect(t) \/ Gather(t) \/ Settle(t) \/ Reduce(t) \/ CopyRoot(t)

Next == \E t \in Threads : ThreadStep(t) \/ Fail(t) \/ Restart(t)

Spec == Init /\ [][Next]_vars

\* A run, once begun by one thread, is begun by all.
Follow(t) == Restart(t) /\ RunOver(t)

\* Every thread is scheduled, and the code between two calls ends.
FairSpec == Spec /\ \A t \in Threads : WF_vars(ThreadStep(t)) /\ WF_vars(Follow(t))

-----------------------------------------------------------------------------
(* Properties.                                                             *)

AllCalls == CallsUpTo(MaxRuns)

\* The type invariant of the communicator, which holds, like what follows, as long as no run
\* begins after an aborted one.
TypeOK ==
    /\ BarrierTypeOK
    /\ pc \in [Threads -> {"user", "gathering", "working", "settling", "failed"}]
    /\ run \in [Threads -> 1 .. MaxRuns]
    /\ call \in [Threads -> 0 .. AllCalls]
    /\ returned \in [Threads -> 0 .. AllCalls]
    /\ handles \in [Threads -> 0 .. AllCalls]
    /\ buf \in [Threads -> [Threads -> SUBSET (Threads \X (0 .. AllCalls))]]
    /\ result \in [Threads -> [Threads -> SUBSET (Threads \X (0 .. AllCalls))]]

\* collectHandles "collects handles from all threads into the common array":
\* when a thread reads the array, every entry is the buffer of the same call.
HandlesCollected ==
    \A t \in Threads : pc[t] = "working" /\ ~spoilt =>
        \A u \in Threads : handles[u] = call[t]

\* While a thread works on the buffers, every thread is inside the same call:
\* none has gone back to code that may touch or free its buffer, with a return
\* or with an exception.
BuffersHeld ==
    \A t, u \in Threads : pc[t] = "working" /\ ~spoilt =>
        /\ call[u] = call[t]
        /\ \/ pc[u] \in {"working", "settling"}
           \/ pc[u] = "gathering" /\ arrived[u] > departed[u]

\* The communicator implements the collective calls in every run that no aborted one precedes:
\* all the threads begin a call before one returns from it, and it returns the right data.
Calls == INSTANCE Collective WITH begun <- call, Program <- [k \in 1 .. AllCalls |-> CallOf(k)]

ImplementsCollective ==
    Calls!CollectiveInit /\ [][~spoilt' => Calls!CollectiveNext]_<<call, returned, result>>

\* Every run ends: a thread that fails takes the others out of their barriers.
RunsEnd == <>[](\A t \in Threads : Finished(t))
=============================================================================
