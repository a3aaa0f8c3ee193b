------------------------------ MODULE Barrier ------------------------------
(***************************************************************************)
(* CMultiThreadDistributedCommunicator::barrier                            *)
(* (NeoMathEngine/src/CPU/CpuMathEngineDnnDistributed.cpp): a spinning,    *)
(* sense-reversing barrier on an atomic counter and an atomic flag, which  *)
(* a waiting thread leaves with an exception once Abort was called.        *)
(*                                                                         *)
(* Each access to an atomic is a step of its own.                          *)
(***************************************************************************)
EXTENDS Integers, FiniteSets

CONSTANTS Threads,      \* the threads of the communicator, one per engine
          MaxBarriers,  \* bound: barriers a thread enters
          Reuse         \* may a thread use the barrier again after it threw?

ASSUME BarrierAssumption ==
    /\ IsFiniteSet(Threads) /\ Threads # {}
    /\ MaxBarriers \in Nat
    /\ Reuse \in BOOLEAN

n_threads == Cardinality(Threads)

VARIABLES
    counter,        \* threads that are still to arrive
    waiting_flag,   \* the sense of the current barrier
    isAbort,
    bpc,            \* where thread t is in barrier()
    wait,           \* the local `wait' of barrier()
    arrived,        \* history: barriers thread t has arrived at
    departed,       \* history: barriers thread t has passed
    rounds          \* history: how many times the flag was flipped

barrierVars ==
    <<counter, waiting_flag, isAbort, bpc, wait, arrived, departed, rounds>>

BarrierInit ==
    /\ counter = n_threads
    /\ waiting_flag = TRUE
    /\ isAbort = FALSE
    /\ bpc = [t \in Threads |-> "out"]
    /\ wait = [t \in Threads |-> FALSE]
    /\ arrived = [t \in Threads |-> 0]
    /\ departed = [t \in Threads |-> 0]
    /\ rounds = 0

\* const bool wait = waiting_flag.load()
Enter(t) ==
    /\ bpc[t] = "out"
    /\ arrived[t] < MaxBarriers
    /\ wait' = [wait EXCEPT ![t] = waiting_flag]
    /\ bpc' = [bpc EXCEPT ![t] = "arriving"]
    /\ UNCHANGED <<counter, waiting_flag, isAbort, arrived, departed, rounds>>

\* Mutant of Arrive: the first thread takes itself for the last one.
ArriveFirst(t) ==
    /\ bpc[t] = "arriving"
    /\ counter' = counter - 1
    /\ arrived' = [arrived EXCEPT ![t] = @ + 1]
    /\ bpc' = [bpc EXCEPT ![t] = IF counter' <= 1 THEN "last" ELSE "spinning"]
    /\ UNCHANGED <<waiting_flag, isAbort, wait, departed, rounds>>

\* if( !--counter )
Arrive(t) ==
    /\ bpc[t] = "arriving"
    /\ counter' = counter - 1
    /\ arrived' = [arrived EXCEPT ![t] = @ + 1]
    /\ bpc' = [bpc EXCEPT ![t] = IF counter' = 0 THEN "last" ELSE "spinning"]
    /\ UNCHANGED <<waiting_flag, isAbort, wait, departed, rounds>>

\* counter = n_threads
ResetCounter(t) ==
    /\ bpc[t] = "last"
    /\ counter' = n_threads
    /\ bpc' = [bpc EXCEPT ![t] = "releasing"]
    /\ UNCHANGED <<waiting_flag, isAbort, wait, arrived, departed, rounds>>

\* waiting_flag.store( !wait )
FlipFlag(t) ==
    /\ bpc[t] = "releasing"
    /\ waiting_flag' = ~wait[t]
    /\ rounds' = rounds + 1
    /\ departed' = [departed EXCEPT ![t] = @ + 1]
    /\ bpc' = [bpc EXCEPT ![t] = "out"]
    /\ UNCHANGED <<counter, isAbort, wait, arrived>>

\* while( waiting_flag.load() == wait ), the load that ends the loop.
SpinEnd(t) ==
    /\ bpc[t] = "spinning"
    /\ waiting_flag # wait[t]
    /\ departed' = [departed EXCEPT ![t] = @ + 1]
    /\ bpc' = [bpc EXCEPT ![t] = "out"]
    /\ UNCHANGED <<counter, waiting_flag, isAbort, wait, arrived, rounds>>

\* The load that does not.
SpinOn(t) ==
    /\ bpc[t] = "spinning"
    /\ waiting_flag = wait[t]
    /\ bpc' = [bpc EXCEPT ![t] = "checking"]
    /\ UNCHANGED <<counter, waiting_flag, isAbort, wait, arrived, departed, rounds>>

\* if( isAbort.load() ) throw: the counter keeps the arrival.
Throw(t) ==
    /\ bpc[t] = "checking"
    /\ isAbort
    /\ bpc' = [bpc EXCEPT ![t] = "thrown"]
    /\ UNCHANGED <<counter, waiting_flag, isAbort, wait, arrived, departed, rounds>>

\* Mutant of Yield: the loop does not look at isAbort.
YieldRegardless(t) ==
    /\ bpc[t] = "checking"
    /\ bpc' = [bpc EXCEPT ![t] = "spinning"]
    /\ UNCHANGED <<counter, waiting_flag, isAbort, wait, arrived, departed, rounds>>

\* std::this_thread::yield()
Yield(t) ==
    /\ bpc[t] = "checking"
    /\ ~isAbort
    /\ bpc' = [bpc EXCEPT ![t] = "spinning"]
    /\ UNCHANGED <<counter, waiting_flag, isAbort, wait, arrived, departed, rounds>>

\* Abort(), called by any thread outside the barrier.
Abort ==
    /\ isAbort' = TRUE
    /\ UNCHANGED <<counter, waiting_flag, bpc, wait, arrived, departed, rounds>>

\* A thread whose exception was caught may come back: nothing was reset.
ComeBack(t) ==
    /\ Reuse
    /\ bpc[t] = "thrown"
    /\ bpc' = [bpc EXCEPT ![t] = "out"]
    /\ UNCHANGED <<counter, waiting_flag, isAbort, wait, arrived, departed, rounds>>

Inside(t) ==
    \/ Arrive(t) \/ ResetCounter(t) \/ FlipFlag(t)
    \/ SpinEnd(t) \/ SpinOn(t) \/ Throw(t) \/ Yield(t)

BarrierNext ==
    \/ \E t \in Threads : Enter(t) \/ Inside(t) \/ ComeBack(t)
    \/ Abort

BarrierSpec == BarrierInit /\ [][BarrierNext]_barrierVars

-----------------------------------------------------------------------------
BarrierPC == {"out", "arriving", "last", "releasing", "spinning", "checking", "thrown"}

\* The type invariant of the barrier; in particular the counter never leaves
\* 0 .. n_threads.
BarrierTypeOK ==
    /\ counter \in 0 .. n_threads
    /\ waiting_flag \in BOOLEAN
    /\ isAbort \in BOOLEAN
    /\ bpc \in [Threads -> BarrierPC]
    /\ wait \in [Threads -> BOOLEAN]
    /\ arrived \in [Threads -> 0 .. MaxBarriers]
    /\ departed \in [Threads -> 0 .. MaxBarriers]
    /\ rounds \in Nat

\* The barrier: nobody passes its k-th barrier before everybody has arrived at
\* theirs, with aborts and exceptions at any time.
BarrierSafe == \A t, u \in Threads : departed[t] <= arrived[u]

\* Abort takes every thread out of the barrier, or lets it pass; also a thread
\* that comes back after an abort, when the counter no longer counts.
AbortFrees == \A t \in Threads : isAbort ~> bpc[t] \in {"out", "thrown"}
=============================================================================
