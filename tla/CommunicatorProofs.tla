------------------------- MODULE CommunicatorProofs -------------------------
(***************************************************************************)
(* The barrier is safe for every number of threads and of barriers, as     *)
(* long as a thread that was thrown out does not come back.  On this rests *)
(* that the communicator is safe for every number of threads, of runs and  *)
(* every sequence of collective calls, whichever threads fail and whenever *)
(* they do, until a run begins after an aborted one.                       *)
(***************************************************************************)
EXTENDS Communicator, FiniteSetTheorems, TLAPS

-----------------------------------------------------------------------------
(* The barrier.                                                            *)
(*                                                                         *)
(* The argument: at any time every thread is at one of two places in the   *)
(* history.  It has yet to arrive at the current barrier, or it waits in   *)
(* it (its `wait' is the flag); or it has not noticed that the previous    *)
(* barrier was released (its `wait' is the negation of the flag).  The     *)
(* counter counts those that are to arrive.                                *)

Waiting(t) == bpc[t] \in {"spinning", "checking", "thrown"}
Completing(t) == bpc[t] \in {"last", "releasing"}

\* The threads that have arrived at the barrier that comes after `rounds' ones.
ArrivedNow == {t \in Threads : arrived[t] = rounds + 1}

\* The types, without the bounds.
TypeI ==
    /\ counter \in Int
    /\ waiting_flag \in BOOLEAN
    /\ isAbort \in BOOLEAN
    /\ bpc \in [Threads -> BarrierPC]
    /\ wait \in [Threads -> BOOLEAN]
    /\ arrived \in [Threads -> Nat]
    /\ departed \in [Threads -> Nat]
    /\ rounds \in Nat

\* Where thread t is in the history.
Place(t) ==
    /\ bpc[t] \in {"out", "arriving"} => arrived[t] = rounds /\ departed[t] = rounds
    /\ bpc[t] = "arriving" => wait[t] = waiting_flag /\ arrived[t] < MaxBarriers
    /\ Waiting(t) =>
        /\ arrived[t] = departed[t] + 1
        /\ \/ departed[t] = rounds /\ wait[t] = waiting_flag
           \/ departed[t] + 1 = rounds /\ wait[t] # waiting_flag
    /\ Completing(t) =>
        /\ departed[t] = rounds
        /\ wait[t] = waiting_flag
        /\ \A u \in Threads : arrived[u] = rounds + 1
        /\ \A u \in Threads : Completing(u) => u = t
    /\ arrived[t] <= MaxBarriers

\* What the counter counts.
Count ==
    counter = IF \E t \in Threads : bpc[t] = "releasing" THEN n_threads
              ELSE n_threads - Cardinality(ArrivedNow)

Inv == TypeI /\ (\A t \in Threads : Place(t)) /\ Count

-----------------------------------------------------------------------------

\* The arrival of one more thread is counted once.
LEMMA OneMoreArrives ==
    ASSUME NEW A \in SUBSET Threads, NEW t \in Threads, t \notin A
    PROVE  /\ IsFiniteSet(A)
           /\ Cardinality(A) \in Nat
           /\ n_threads \in Nat
           /\ Cardinality(A \cup {t}) = Cardinality(A) + 1
           /\ Cardinality(A \cup {t}) <= n_threads
           /\ Cardinality(A \cup {t}) = n_threads => A \cup {t} = Threads
<1>1. IsFiniteSet(Threads)
    BY BarrierAssumption
<1>2. IsFiniteSet(A) /\ IsFiniteSet(A \cup {t})
    BY <1>1, FS_Subset
<1>3. Cardinality(A \cup {t}) = Cardinality(A) + 1
    BY <1>2, FS_AddElement
<1>4. A \cup {t} \subseteq Threads
    OBVIOUS
<1> QED
    BY <1>1, <1>2, <1>3, <1>4, FS_CardinalityType, FS_Subset DEF n_threads

LEMMA CountOfArrived ==
    ASSUME NEW A \in SUBSET Threads
    PROVE  n_threads \in Nat /\ Cardinality(A) \in 0 .. n_threads
    BY BarrierAssumption, FS_CardinalityType, FS_Subset DEF n_threads

LEMMA InitInv == BarrierInit => Inv
<1> SUFFICES ASSUME BarrierInit PROVE Inv
    OBVIOUS
<1>1. TypeI
    <2>1. n_threads \in Nat
        BY CountOfArrived, {} \in SUBSET Threads
    <2>2. counter \in Int /\ rounds \in Nat
        BY <2>1 DEF BarrierInit
    <2>3. waiting_flag \in BOOLEAN /\ isAbort \in BOOLEAN /\ wait \in [Threads -> BOOLEAN]
        BY Zenon DEF BarrierInit
    <2>4. /\ bpc \in [Threads -> BarrierPC]
          /\ arrived \in [Threads -> Nat]
          /\ departed \in [Threads -> Nat]
        BY DEF BarrierInit, BarrierPC
    <2> QED
        BY <2>2, <2>3, <2>4 DEF TypeI
<1>2. \A t \in Threads : Place(t)
    BY BarrierAssumption DEF BarrierInit, Place, Waiting, Completing
<1>3. ArrivedNow = {}
    BY DEF BarrierInit, ArrivedNow
<1>4. Count
    BY <1>3, FS_EmptySet, CountOfArrived DEF BarrierInit, Count
<1> QED
    BY <1>1, <1>2, <1>4 DEF Inv

\* A step that moves thread t and no counter, flag or arrival.
LEMMA QuietStep ==
    ASSUME Inv, NEW t \in Threads, TypeI',
           UNCHANGED <<counter, waiting_flag, arrived, rounds>>,
           bpc[t] # "releasing", bpc'[t] # "releasing",
           ~Completing(t)', ~Completing(t),
           \A u \in Threads \ {t} :
               bpc'[u] = bpc[u] /\ wait'[u] = wait[u] /\ departed'[u] = departed[u],
           Place(t)'
    PROVE  Inv'
<1>1. ASSUME NEW u \in Threads \ {t} PROVE Place(u)'
    BY DEF Inv, Place, Waiting, Completing
<1>2. ArrivedNow' = ArrivedNow
    BY DEF ArrivedNow
<1>3. Count'
    BY <1>2 DEF Inv, Count
<1> QED
    BY <1>1, <1>3 DEF Inv

\* A step of the barrier in which nobody comes back.
BarrierStep == (\E t \in Threads : Enter(t) \/ Inside(t)) \/ Abort \/ UNCHANGED barrierVars

LEMMA StepInv == Inv /\ BarrierStep => Inv'
<1> SUFFICES ASSUME Inv, BarrierStep PROVE Inv'
    OBVIOUS
<1>1. ASSUME NEW t \in Threads, Enter(t) PROVE Inv'
    <2>1. TypeI'
        BY <1>1 DEF Inv, TypeI, Enter, BarrierPC
    <2>2. Place(t)'
        BY <1>1, BarrierAssumption DEF Inv, TypeI, Place, Enter, Waiting, Completing
    <2> QED
        BY <1>1, <2>1, <2>2, QuietStep DEF Inv, TypeI, Enter, Completing
<1>2. ASSUME NEW t \in Threads, Arrive(t) PROVE Inv'
    <2>1. TypeI'
        BY <1>2 DEF Inv, TypeI, Arrive, BarrierPC
    <2>2. arrived[t] = rounds /\ t \notin ArrivedNow /\ \A u \in Threads : ~Completing(u)
        BY <1>2 DEF Inv, TypeI, Place, Arrive, ArrivedNow
    <2>3. ArrivedNow' = ArrivedNow \cup {t}
        BY <1>2, <2>2 DEF Inv, TypeI, Arrive, ArrivedNow
    <2>4. /\ counter = n_threads - Cardinality(ArrivedNow)
          /\ \A u \in Threads : bpc'[u] # "releasing"
        BY <1>2, <2>2 DEF Inv, TypeI, Count, Completing, Arrive
    <2>5. ArrivedNow \in SUBSET Threads
        BY DEF ArrivedNow
    <2>6. counter' = n_threads - Cardinality(ArrivedNow')
        BY <1>2, <2>2, <2>3, <2>4, <2>5, OneMoreArrives DEF Arrive
    <2>7. counter' = 0 => \A u \in Threads : arrived'[u] = rounds' + 1
        <3>1. counter' = 0 => ArrivedNow' = Threads
            <4>1. /\ n_threads \in Nat
                  /\ Cardinality(ArrivedNow \cup {t}) = Cardinality(ArrivedNow) + 1
                  /\ Cardinality(ArrivedNow) \in Nat
                  /\ Cardinality(ArrivedNow \cup {t}) = n_threads => ArrivedNow \cup {t} = Threads
                BY <2>2, <2>5, OneMoreArrives
            <4>2. counter' = n_threads - Cardinality(ArrivedNow \cup {t})
                BY <2>3, <2>6
            <4>3. counter' = 0 => Cardinality(ArrivedNow \cup {t}) = n_threads
                BY <4>1, <4>2
            <4> QED
                BY <2>3, <4>1, <4>3
        <3> QED
            BY <3>1 DEF ArrivedNow
    <2>8. ASSUME NEW u \in Threads PROVE Place(u)'
        <3>1. CASE u = t
            BY <1>2, <2>2, <2>7, <3>1, BarrierAssumption
            DEF Inv, TypeI, Place, Arrive, Waiting, Completing
        <3>2. CASE u # t
            BY <1>2, <2>2, <3>2 DEF Inv, TypeI, Place, Arrive, Waiting, Completing
        <3> QED
            BY <3>1, <3>2
    <2> QED
        BY <2>1, <2>4, <2>6, <2>8 DEF Inv, Count
<1>3. ASSUME NEW t \in Threads, ResetCounter(t) PROVE Inv'
    <2>1. TypeI'
        BY <1>3, CountOfArrived DEF Inv, TypeI, ResetCounter, BarrierPC
    <2>2. ASSUME NEW u \in Threads PROVE Place(u)'
        BY <1>3 DEF Inv, TypeI, Place, ResetCounter, Waiting, Completing
    <2>3. Count'
        BY <1>3 DEF Inv, TypeI, Count, ResetCounter
    <2> QED
        BY <2>1, <2>2, <2>3 DEF Inv
<1>4. ASSUME NEW t \in Threads, FlipFlag(t) PROVE Inv'
    <2>1. TypeI'
        BY <1>4 DEF Inv, TypeI, FlipFlag, BarrierPC
    <2>2. /\ departed[t] = rounds
          /\ wait[t] = waiting_flag
          /\ \A u \in Threads : arrived[u] = rounds + 1
          /\ \A u \in Threads : Completing(u) => u = t
        BY <1>4 DEF Inv, Place, FlipFlag, Completing
    <2>3. \A u \in Threads \ {t} : Waiting(u)
        BY <2>2 DEF Inv, TypeI, Place, Waiting, Completing, BarrierPC
    <2>4. ASSUME NEW u \in Threads PROVE Place(u)'
        <3>1. CASE u = t
            BY <1>4, <2>2, <3>1 DEF Inv, TypeI, Place, FlipFlag, Waiting, Completing
        <3>2. CASE u # t
            BY <1>4, <2>2, <2>3, <3>2 DEF Inv, TypeI, Place, FlipFlag, Waiting, Completing
        <3> QED
            BY <3>1, <3>2
    <2>5. ArrivedNow' = {}
        BY <1>4, <2>2 DEF Inv, TypeI, FlipFlag, ArrivedNow
    <2>6. counter' = n_threads /\ \A u \in Threads : bpc'[u] # "releasing"
        BY <1>4, <2>2 DEF Inv, TypeI, Count, FlipFlag, Completing
    <2>7. Count'
        BY <2>5, <2>6, FS_EmptySet, CountOfArrived DEF Count
    <2> QED
        BY <2>1, <2>4, <2>7 DEF Inv
<1>5. ASSUME NEW t \in Threads, SpinEnd(t) PROVE Inv'
    <2>1. TypeI'
        BY <1>5 DEF Inv, TypeI, SpinEnd, BarrierPC
    <2>2. Place(t)'
        BY <1>5 DEF Inv, TypeI, Place, SpinEnd, Waiting, Completing
    <2> QED
        BY <1>5, <2>1, <2>2, QuietStep DEF Inv, TypeI, SpinEnd, Completing
<1>6. ASSUME NEW t \in Threads, SpinOn(t) \/ Throw(t) \/ Yield(t) PROVE Inv'
    <2>1. TypeI'
        BY <1>6 DEF Inv, TypeI, SpinOn, Throw, Yield, BarrierPC
    <2>2. Place(t)'
        BY <1>6 DEF Inv, TypeI, Place, SpinOn, Throw, Yield, Waiting, Completing
    <2> QED
        BY <1>6, <2>1, <2>2, QuietStep DEF Inv, TypeI, SpinOn, Throw, Yield, Completing
<1>7. CASE Abort \/ UNCHANGED barrierVars
    <2>1. UNCHANGED <<counter, waiting_flag, bpc, wait, arrived, departed, rounds>>
          /\ isAbort' \in BOOLEAN
        BY <1>7 DEF Abort, barrierVars, Inv, TypeI
    <2>2. ArrivedNow' = ArrivedNow
        BY <2>1 DEF ArrivedNow
    <2> QED
        BY <2>1, <2>2 DEF Inv, TypeI, Place, Count, Waiting, Completing
<1> QED
    BY <1>1, <1>2, <1>3, <1>4, <1>5, <1>6, <1>7 DEF BarrierStep, Inside

LEMMA NextInv == ASSUME ~Reuse PROVE Inv /\ [BarrierNext]_barrierVars => Inv'
    BY StepInv DEF BarrierNext, BarrierStep, ComeBack

\* What the invariant says of the counter and of two threads.
LEMMA InvImplies == Inv => BarrierTypeOK /\ BarrierSafe
<1> SUFFICES ASSUME Inv PROVE BarrierTypeOK /\ BarrierSafe
    OBVIOUS
<1>1. counter \in 0 .. n_threads
    <2>1. ArrivedNow \in SUBSET Threads
        BY DEF ArrivedNow
    <2> QED
        BY <2>1, CountOfArrived DEF Inv, Count
<1>2. ASSUME NEW t \in Threads
      PROVE  /\ departed[t] <= rounds /\ rounds <= arrived[t]
             /\ departed[t] <= arrived[t] /\ arrived[t] <= MaxBarriers
    BY DEF Inv, TypeI, Place, Waiting, Completing, BarrierPC
<1>3. BarrierTypeOK
    <2>1. ASSUME NEW t \in Threads
          PROVE  arrived[t] \in 0 .. MaxBarriers /\ departed[t] \in 0 .. MaxBarriers
        BY <1>2, BarrierAssumption DEF Inv, TypeI
    <2> QED
        BY <1>1, <2>1 DEF Inv, TypeI, BarrierTypeOK
<1>4. BarrierSafe
    <2> SUFFICES ASSUME NEW t \in Threads, NEW u \in Threads PROVE departed[t] <= arrived[u]
        BY DEF BarrierSafe
    <2> QED
        BY <1>2 DEF Inv, TypeI
<1> QED
    BY <1>3, <1>4

-----------------------------------------------------------------------------

\* The barrier keeps its types: the counter stays in 0 .. n_threads, for every
\* number of threads, with aborts at any time.
THEOREM BarrierTypeCorrect == ASSUME ~Reuse PROVE BarrierSpec => []BarrierTypeOK
<1>1. BarrierSpec => []Inv
    BY InitInv, NextInv, PTL DEF BarrierSpec
<1> QED
    BY <1>1, InvImplies, PTL

\* Nobody passes its k-th barrier before everybody has arrived at theirs, for
\* every number of threads, with aborts and exceptions at any time.
THEOREM BarrierCorrect == ASSUME ~Reuse PROVE BarrierSpec => []BarrierSafe
<1>1. BarrierSpec => []Inv
    BY InitInv, NextInv, PTL DEF BarrierSpec
<1> QED
    BY <1>1, InvImplies, PTL

-----------------------------------------------------------------------------
(* The collective calls.                                                   *)
(*                                                                         *)
(* The argument: a thread works on the buffers between the two barriers of *)
(* its call, that is when the number of completed barriers is odd; every   *)
(* other thread has arrived at the first of them.  A thread that fails     *)
(* does so outside a call, where the number of barriers it has passed is   *)
(* even: it stays there, so no barrier is completed any more and nobody    *)
(* works on the buffers once a thread was thrown out.                      *)

CommPC == {"user", "gathering", "working", "settling", "failed"}

\* What a slice of a buffer may hold.
Slices == SUBSET (Threads \X (0 .. AllCalls))

UserTypeI ==
    /\ pc \in [Threads -> CommPC]
    /\ call \in [Threads -> 0 .. AllCalls]
    /\ returned \in [Threads -> 0 .. AllCalls]
    /\ handles \in [Threads -> 0 .. AllCalls]

DataTypeI ==
    /\ buf \in [Threads -> [Threads -> Slices]]
    /\ result \in [Threads -> [Threads -> Slices]]

\* Where thread t is in its program, counted in barriers.
Phase(t) ==
    /\ pc[t] = "user" =>
        bpc[t] = "out" /\ departed[t] = 2 * call[t] /\ returned[t] = call[t]
    /\ pc[t] = "gathering" =>
        bpc[t] # "thrown" /\ departed[t] + 2 = 2 * call[t] /\ returned[t] + 1 = call[t]
    /\ pc[t] = "working" =>
        bpc[t] = "out" /\ departed[t] + 1 = 2 * call[t] /\ returned[t] + 1 = call[t]
    /\ pc[t] = "settling" =>
        bpc[t] # "thrown" /\ departed[t] + 1 = 2 * call[t] /\ returned[t] + 1 = call[t]
    /\ pc[t] = "failed" =>
        \/ bpc[t] = "out" /\ departed[t] = 2 * call[t]
        \/ /\ bpc[t] = "thrown" /\ isAbort
           /\ departed[t] + 2 = 2 * call[t] \/ departed[t] + 1 = 2 * call[t]
    /\ handles[t] = call[t]

\* Somebody who failed outside a call set isAbort, and stays where it is.
AbortI ==
    isAbort => \E a \in Threads : pc[a] = "failed" /\ bpc[a] = "out"

CommInv == Inv /\ UserTypeI /\ DataTypeI /\ (\A t \in Threads : Phase(t)) /\ AbortI

-----------------------------------------------------------------------------

\* The runs that are begun, which go on after an abort, too.
RunI == run \in [Threads -> 1 .. MaxRuns] /\ spoilt \in BOOLEAN

LEMMA Numbers0 ==
    /\ MaxRuns \in Nat \ {0} /\ Len(Program) \in Nat /\ AllCalls \in Nat /\ Root \in Threads
    /\ \A r \in 1 .. MaxRuns : CallsUpTo(r) \in 0 .. AllCalls
<1>1. MaxRuns \in Nat \ {0} /\ Len(Program) \in Nat /\ Root \in Threads
    BY CommunicatorAssumption
<1>2. \A r, m, n \in Nat : r <= m => r * n \in Nat /\ m * n \in Nat /\ r * n <= m * n
    OBVIOUS
<1>3. \A r \in 1 .. MaxRuns :
          r * Len(Program) \in Nat /\ MaxRuns * Len(Program) \in Nat /\ r * Len(Program) <= MaxRuns * Len(Program)
    BY <1>1, <1>2
<1> QED
    BY <1>1, <1>3, 1 \in 1 .. MaxRuns DEF AllCalls, CallsUpTo

\* The calls of every run are those of the program.
LEMMA CallsMade ==
    ASSUME NEW k \in 1 .. AllCalls
    PROVE  CallOf(k) \in {"AllReduce", "Broadcast"}
<1> PICK n \in Nat : n = Len(Program)
    BY Numbers0
<1>1. n # 0
    <2>1. \A m \in Nat : m * 0 = 0
        OBVIOUS
    <2> QED
        BY <2>1, Numbers0 DEF AllCalls, CallsUpTo
<1>2. ((k - 1) % n) + 1 \in 1 .. n
    BY <1>1, Numbers0
<1> QED
    BY <1>2, CommunicatorAssumption DEF CallOf

LEMMA OwnType ==
    ASSUME NEW t \in Threads, NEW k \in 0 .. AllCalls
    PROVE  Own(t, k) \in [Threads -> Slices]
    BY DEF Own, Slices

\* While t works on the buffers, an odd number of barriers is completed and
\* nobody has failed.
LEMMA Working ==
    ASSUME Inv, UserTypeI, \A t \in Threads : Phase(t), AbortI,
           NEW t \in Threads, pc[t] = "working"
    PROVE  /\ rounds + 1 = 2 * call[t]
           /\ ~isAbort
           /\ \A u \in Threads : call[u] = call[t] /\ call[u] > 0
           /\ \A u \in Threads :
                 \/ pc[u] \in {"working", "settling"}
                 \/ pc[u] = "gathering" /\ arrived[u] > departed[u]
                 \/ pc[u] = "failed" /\ bpc[u] = "thrown"
<1>1. /\ call \in [Threads -> Nat]
      /\ departed \in [Threads -> Nat]
      /\ arrived \in [Threads -> Nat]
      /\ rounds \in Nat
    BY Numbers0, CommunicatorAssumption, SMTT(30) DEF Inv, TypeI, UserTypeI
<1>2. /\ bpc[t] = "out" /\ departed[t] + 1 = 2 * call[t]
      /\ departed[t] = rounds
    BY DEF Inv, Place, Phase
<1>3. rounds + 1 = 2 * call[t]
    BY <1>1, <1>2
<1>4. ASSUME NEW u \in Threads
      PROVE  /\ departed[u] = rounds \/ departed[u] + 1 = rounds
             /\ bpc[u] \in {"out", "arriving"} => arrived[u] = rounds /\ departed[u] = rounds
             /\ arrived[u] >= rounds
    BY <1>1 DEF Inv, TypeI, Place, Waiting, Completing, BarrierPC
<1>5. ASSUME NEW u \in Threads, bpc[u] = "out"
      PROVE  departed[u] # 2 * call[u]
    BY <1>1, <1>3, <1>4, <1>5
<1>6. ASSUME NEW u \in Threads
      PROVE  /\ pc[u] # "user"
             /\ pc[u] = "failed" => bpc[u] = "thrown"
    BY <1>5 DEF Phase
<1>7. ~isAbort
    BY <1>6 DEF AbortI
<1>8. ASSUME NEW u \in Threads
      PROVE  departed[u] + 2 = 2 * call[u] \/ departed[u] + 1 = 2 * call[u]
    BY <1>6 DEF Phase, UserTypeI, CommPC
<1>9. ASSUME NEW u \in Threads PROVE call[u] = call[t] /\ call[u] > 0
    BY <1>1, <1>3, <1>4, <1>8
<1>10. ASSUME NEW u \in Threads, pc[u] = "gathering" PROVE arrived[u] > departed[u]
    <2>1. departed[u] + 2 = 2 * call[u]
        BY <1>10 DEF Phase
    <2> QED
        BY <2>1, <1>1, <1>3, <1>4, <1>9
<1> QED
    BY <1>3, <1>6, <1>7, <1>9, <1>10 DEF UserTypeI, CommPC

LEMMA InitCommInv == Init => CommInv
<1> SUFFICES ASSUME Init PROVE CommInv
    OBVIOUS
<1>1. Inv
    BY InitInv DEF Init
<1>2. UserTypeI
    BY Numbers0 DEF Init, UserTypeI, CommPC, NoHandle
<1>3. DataTypeI
    BY OwnType, Numbers0 DEF Init, DataTypeI
<1>4. \A t \in Threads : Phase(t)
    BY Numbers0 DEF Init, BarrierInit, Phase, NoHandle
<1>5. AbortI
    BY DEF Init, BarrierInit, AbortI
<1> QED
    BY <1>1, <1>2, <1>3, <1>4, <1>5 DEF CommInv

\* A thread that begins a run which no abort precedes changes nothing else.
LEMMA RestartIdle ==
    ASSUME RunI, CommInv, NEW t \in Threads, Restart(t), ~spoilt'
    PROVE  UNCHANGED <<barrierVars, pc, call, returned, handles, buf, result>>
<1>1. pc[t] # "failed"
    BY DEF Restart
<1>2. run[t] \in 1 .. MaxRuns /\ ~(run[t] > run[t])
    BY Numbers0 DEF RunI
<1>3. pc[t] = "user" /\ call[t] = CallsUpTo(run[t])
    BY <1>1, <1>2 DEF Restart, Finished
<1>4. bpc[t] = "out" /\ returned[t] = call[t]
    BY <1>3 DEF CommInv, Phase
<1> QED
    BY <1>3, <1>4 DEF Restart, CommInv, UserTypeI

\* Every step that does not spoil is a step of the barrier, or leaves it alone.
LEMMA CommBarrierStep ==
    ASSUME RunI, CommInv, [Next]_vars, ~spoilt'
    PROVE  BarrierStep
<1>1. ASSUME NEW t \in Threads, ThreadStep(t) PROVE BarrierStep
    BY <1>1 DEF ThreadStep, Collect, Gather, Settle, InBarrier, Reduce, CopyRoot, BarrierStep
<1>2. ASSUME NEW t \in Threads, Fail(t) PROVE BarrierStep
    BY <1>2 DEF Fail, BarrierStep
<1>3. ASSUME NEW t \in Threads, Restart(t) PROVE BarrierStep
    BY <1>3, RestartIdle DEF BarrierStep
<1>4. CASE UNCHANGED vars
    BY <1>4 DEF vars, BarrierStep
<1> QED
    BY <1>1, <1>2, <1>3, <1>4 DEF Next

\* What a step of thread t in the barrier does to the barrier's state.
LEMMA InsideEffect ==
    ASSUME Inv, NEW t \in Threads, Enter(t) \/ Inside(t)
    PROVE  /\ isAbort' = isAbort
           /\ bpc[t] # "thrown"
           /\ \A u \in Threads \ {t} : bpc'[u] = bpc[u] /\ departed'[u] = departed[u]
           /\ \/ departed'[t] = departed[t] + 1 /\ bpc'[t] = "out"
              \/ departed'[t] = departed[t] /\ bpc'[t] = "thrown" /\ isAbort
              \/ departed'[t] = departed[t] /\ bpc'[t] # "thrown"
    BY DEF Inv, TypeI, Enter, Inside, Arrive, ResetCounter, FlipFlag, SpinEnd, SpinOn, Throw, Yield

\* A step inside a barrier that changes the data of no thread but t keeps the
\* places of all threads in their programs.
LEMMA BarrierPhase ==
    ASSUME CommInv, UserTypeI', NEW t \in Threads,
           \/ InBarrier(t, "gathering", "working") /\ UNCHANGED returned
           \/ /\ InBarrier(t, "settling", "user")
              /\ returned' = IF departed'[t] # departed[t]
                             THEN [returned EXCEPT ![t] = @ + 1] ELSE returned,
           UNCHANGED <<call, handles>>
    PROVE  (\A u \in Threads : Phase(u)') /\ AbortI'
<1>1. Inv /\ UserTypeI /\ Phase(t)
    BY DEF CommInv
<1>2. Enter(t) \/ Inside(t)
    BY DEF InBarrier
<1>3. /\ call[t] \in Nat /\ returned[t] \in Nat /\ departed[t] \in Nat
      /\ pc \in [Threads -> CommPC] /\ returned \in [Threads -> 0 .. AllCalls]
    BY <1>1, Numbers0 DEF Inv, TypeI, UserTypeI
<1>4. Phase(t)'
    BY <1>1, <1>2, <1>3, InsideEffect DEF InBarrier, Phase, CommPC
<1>5. ASSUME NEW u \in Threads \ {t}
      PROVE  /\ bpc'[u] = bpc[u] /\ departed'[u] = departed[u] /\ isAbort' = isAbort
             /\ pc'[u] = pc[u] /\ returned'[u] = returned[u]
    BY <1>1, <1>2, <1>3, InsideEffect DEF InBarrier
<1>6. ASSUME NEW u \in Threads \ {t} PROVE Phase(u)'
    BY <1>5 DEF CommInv, Phase
<1>7. AbortI'
    <2>1. isAbort' = isAbort /\ pc[t] # "failed"
        BY <1>1, <1>2, InsideEffect DEF InBarrier
    <2> QED
        BY <2>1, <1>5 DEF CommInv, AbortI
<1> QED
    BY <1>4, <1>6, <1>7

LEMMA NextCommInv ==
    ASSUME RunI, CommInv, [Next]_vars, ~spoilt'
    PROVE  CommInv'
<1> USE Numbers0
<1>1. Inv'
    BY CommBarrierStep, StepInv DEF CommInv
<1>2. ASSUME NEW t \in Threads, Collect(t)
      PROVE  UserTypeI' /\ DataTypeI' /\ (\A u \in Threads : Phase(u)') /\ AbortI'
    <2>0. UNCHANGED <<bpc, departed, isAbort>> /\ call[t] + 1 \in 0 .. AllCalls
        BY <1>2 DEF Collect, barrierVars, CommInv, UserTypeI, RunI
    <2>1. UserTypeI'
        BY <1>2, <2>0 DEF CommInv, UserTypeI, Collect, CommPC
    <2>2. DataTypeI'
        BY <1>2, <2>0, OwnType DEF CommInv, DataTypeI, Collect
    <2>3. ASSUME NEW u \in Threads PROVE Phase(u)'
        <3>1. Phase(u) /\ Phase(t)
            BY DEF CommInv, UserTypeI
        <3>2. CASE u = t
            <4>1. handles'[t] = call[t] + 1 /\ call'[t] = call[t] + 1
                BY <1>2, <3>1 DEF CommInv, UserTypeI, Collect
            <4>2. pc'[t] = "gathering" /\ pc[t] = "user" /\ returned'[t] = returned[t]
                BY <1>2 DEF CommInv, UserTypeI, Collect
            <4>3. call[t] \in Nat /\ departed[t] \in Nat
                BY DEF CommInv, UserTypeI, Inv, TypeI
            <4>4. bpc'[t] = "out" /\ departed'[t] = 2 * call[t] /\ returned'[t] = call[t]
                BY <2>0, <3>1, <4>2 DEF Phase
            <4>5. Phase(t)'
                BY <4>1, <4>2, <4>3, <4>4 DEF Phase
            <4> QED
                BY <3>2, <4>5
        <3>3. CASE u # t
            BY <1>2, <2>0, <3>1, <3>3 DEF CommInv, UserTypeI, Phase, Collect
        <3> QED
            BY <3>2, <3>3
    <2>4. AbortI'
        BY <1>2, <2>0 DEF CommInv, UserTypeI, AbortI, Collect
    <2> QED
        BY <2>1, <2>2, <2>3, <2>4
<1>3. ASSUME NEW t \in Threads, Gather(t)
      PROVE  UserTypeI' /\ DataTypeI' /\ (\A u \in Threads : Phase(u)') /\ AbortI'
    <2>1. UserTypeI'
        BY <1>3 DEF CommInv, UserTypeI, Gather, InBarrier, CommPC
    <2>2. DataTypeI'
        BY <1>3 DEF CommInv, DataTypeI, Gather
    <2> QED
        BY <1>3, <2>1, <2>2, BarrierPhase DEF Gather
<1>4. ASSUME NEW t \in Threads, Settle(t)
      PROVE  UserTypeI' /\ DataTypeI' /\ (\A u \in Threads : Phase(u)') /\ AbortI'
    <2>1. returned[t] + 1 = call[t] /\ call[t] \in 0 .. AllCalls
        BY <1>4 DEF CommInv, UserTypeI, Phase, Settle, InBarrier
    <2>2. UserTypeI'
        BY <1>4, <2>1 DEF CommInv, UserTypeI, Settle, InBarrier, CommPC
    <2>3. DataTypeI'
        BY <1>4 DEF CommInv, DataTypeI, Settle
    <2> QED
        BY <1>4, <2>2, <2>3, BarrierPhase DEF Settle
<1>5. ASSUME NEW t \in Threads, Reduce(t) \/ CopyRoot(t)
      PROVE  UserTypeI' /\ DataTypeI' /\ (\A u \in Threads : Phase(u)') /\ AbortI'
    <2>0. UNCHANGED <<bpc, departed, isAbort, call, returned, handles, result>>
          /\ pc[t] = "working" /\ pc' = [pc EXCEPT ![t] = "settling"]
        BY <1>5 DEF Reduce, CopyRoot, barrierVars
    <2>1. UserTypeI'
        BY <2>0 DEF CommInv, UserTypeI, CommPC
    <2>2. DataTypeI'
        <3>1. CASE Reduce(t)
            <4> DEFINE average == UNION {buf[u][t] : u \in Threads}
            <4>1. average \in Slices
                BY DEF CommInv, DataTypeI, Slices
            <4>2. buf' = [u \in Threads |-> [buf[u] EXCEPT ![t] = average]]
                BY <3>1 DEF Reduce
            <4> QED
                BY <2>0, <4>1, <4>2 DEF CommInv, DataTypeI
        <3>2. CASE CopyRoot(t)
            BY <2>0, <3>2 DEF CommInv, DataTypeI, CopyRoot
        <3> QED
            BY <1>5, <3>1, <3>2
    <2>3. ASSUME NEW u \in Threads PROVE Phase(u)'
        BY <2>0 DEF CommInv, UserTypeI, Phase
    <2>4. AbortI'
        BY <2>0 DEF CommInv, UserTypeI, AbortI
    <2> QED
        BY <2>1, <2>2, <2>3, <2>4
<1>6. ASSUME NEW t \in Threads, Fail(t)
      PROVE  UserTypeI' /\ DataTypeI' /\ (\A u \in Threads : Phase(u)') /\ AbortI'
    <2>0. UNCHANGED <<bpc, departed, call, returned, handles, buf, result>>
          /\ isAbort' /\ pc[t] = "user" /\ pc' = [pc EXCEPT ![t] = "failed"]
        BY <1>6 DEF Fail, Abort
    <2>1. UserTypeI'
        BY <2>0 DEF CommInv, UserTypeI, CommPC
    <2>2. DataTypeI'
        BY <2>0 DEF CommInv, DataTypeI
    <2>3. ASSUME NEW u \in Threads PROVE Phase(u)'
        BY <2>0 DEF CommInv, UserTypeI, Phase
    <2>4. pc'[t] = "failed" /\ bpc'[t] = "out"
        BY <2>0 DEF CommInv, UserTypeI, Phase
    <2> QED
        BY <2>1, <2>2, <2>3, <2>4 DEF AbortI
<1>7. ASSUME NEW t \in Threads, Restart(t)
      PROVE  UNCHANGED <<barrierVars, pc, call, returned, handles, buf, result>>
    BY <1>7, RestartIdle
<1>8. CASE UNCHANGED <<barrierVars, pc, call, returned, handles, buf, result>>
    BY <1>1, <1>8 DEF CommInv, UserTypeI, DataTypeI, Phase, AbortI, barrierVars
<1>9. CASE UNCHANGED vars
    BY <1>8, <1>9 DEF vars, userVars
<1> QED
    BY <1>1, <1>2, <1>3, <1>4, <1>5, <1>6, <1>7, <1>8, <1>9 DEF Next, ThreadStep, CommInv

LEMMA CommInvImplies ==
    ASSUME RunI, CommInv
    PROVE  TypeOK /\ BarrierSafe /\ HandlesCollected /\ BuffersHeld
<1>1. TypeOK /\ BarrierSafe
    BY InvImplies DEF RunI, CommInv, UserTypeI, DataTypeI, Slices, CommPC, TypeOK
<1>2. HandlesCollected
    BY Working DEF CommInv, HandlesCollected, Phase, UserTypeI
<1>3. BuffersHeld
    <2> SUFFICES ASSUME NEW t \in Threads, NEW u \in Threads, pc[t] = "working"
                 PROVE  /\ call[u] = call[t]
                        /\ \/ pc[u] \in {"working", "settling"}
                           \/ pc[u] = "gathering" /\ arrived[u] > departed[u]
        BY DEF BuffersHeld
    <2>1. ~isAbort /\ Phase(u)
        BY Working DEF CommInv
    <2>2. ~(pc[u] = "failed" /\ bpc[u] = "thrown")
        BY <2>1 DEF Phase
    <2> QED
        BY <2>2, Working DEF CommInv
<1> QED
    BY <1>1, <1>2, <1>3

-----------------------------------------------------------------------------

\* Once a run began after an aborted one, one always has.
LEMMA RunsNext ==
    ASSUME RunI, [Next]_vars
    PROVE  RunI' /\ (~spoilt' => ~spoilt)
<1>1. ASSUME NEW t \in Threads, ThreadStep(t) PROVE UNCHANGED <<run, spoilt>>
    BY <1>1 DEF ThreadStep, Collect, Gather, Settle, Reduce, CopyRoot
<1>2. ASSUME NEW t \in Threads, Fail(t) PROVE UNCHANGED <<run, spoilt>>
    BY <1>2 DEF Fail
<1>3. ASSUME NEW t \in Threads, Restart(t)
      PROVE  RunI' /\ (~spoilt' => ~spoilt)
    <2>1. run[t] + 1 \in 1 .. MaxRuns /\ spoilt' \in BOOLEAN
        BY <1>3, Numbers0 DEF RunI, Restart
    <2> QED
        BY <1>3, <2>1 DEF RunI, Restart
<1>4. CASE UNCHANGED vars
    BY <1>4 DEF vars, userVars, RunI
<1> QED
    BY <1>1, <1>2, <1>3, <1>4 DEF Next, RunI

LEMMA InitRunI == Init => RunI
<1>1. 1 \in 1 .. MaxRuns
    BY Numbers0
<1> QED
    BY <1>1 DEF Init, RunI

CommAlways == RunI /\ (~spoilt => CommInv)

LEMMA CommInvHolds == Spec => []CommAlways
<1>1. Init => CommAlways
    BY InitCommInv, InitRunI DEF CommAlways
<1>2. CommAlways /\ [Next]_vars => CommAlways'
    BY NextCommInv, RunsNext DEF CommAlways
<1> QED
    BY <1>1, <1>2, PTL DEF Spec

\* As long as no run begins after an aborted one, the communicator keeps its types, for every
\* number of threads, of runs and of calls.
THEOREM CommTypeCorrect == Spec => [](~spoilt => TypeOK)
<1>1. CommAlways => (~spoilt => TypeOK)
    BY CommInvImplies DEF CommAlways
<1> QED
    BY <1>1, CommInvHolds, PTL

\* The barrier of the communicator lets nobody pass its k-th barrier before all have arrived at
\* theirs, in any run that no aborted one precedes.
THEOREM CommBarrierCorrect == Spec => [](~spoilt => BarrierSafe)
<1>1. CommAlways => (~spoilt => BarrierSafe)
    BY CommInvImplies DEF CommAlways
<1> QED
    BY <1>1, CommInvHolds, PTL

\* A thread that passed the first barrier of a call reads the buffers of that
\* very call from the common array, for every number of threads, of runs and of calls.
THEOREM HandlesCorrect == Spec => []HandlesCollected
<1>1. CommAlways => HandlesCollected
    BY CommInvImplies DEF CommAlways, HandlesCollected
<1> QED
    BY <1>1, CommInvHolds, PTL

\* No thread leaves a call, with a return or with an exception, while another
\* works on the buffers, for every number of threads, of runs and of calls.
THEOREM BuffersCorrect == Spec => []BuffersHeld
<1>1. CommAlways => BuffersHeld
    BY CommInvImplies DEF CommAlways, BuffersHeld
<1> QED
    BY <1>1, CommInvHolds, PTL

-----------------------------------------------------------------------------
(* The communicator implements the collective calls.                       *)

\* Thread s has done its part of the work of call k.
Done(s, k) ==
    \/ departed[s] + 1 > 2 * k
    \/ departed[s] + 1 = 2 * k /\ pc[s] # "working"

\* What the buffer of t, which is in call k, holds.
BufferI(t) ==
    LET k == call[t] IN
    k > 0 =>
        /\ CallOf(k) = "AllReduce" =>
            \A s \in Threads : buf[t][s] = IF Done(s, k) THEN Threads \X {k} ELSE {<<t, k>>}
        /\ CallOf(k) = "Broadcast" =>
            buf[t] = IF Done(t, k) THEN Own(Root, k) ELSE Own(t, k)

RefInv == CommInv /\ \A t \in Threads : BufferI(t)

LEMMA Numbers ==
    ASSUME CommInv, NEW t \in Threads
    PROVE  /\ departed[t] \in Nat /\ arrived[t] \in Nat /\ rounds \in Nat
           /\ call[t] \in Nat /\ returned[t] \in Nat
           /\ departed[t] <= rounds /\ rounds <= arrived[t] /\ arrived[t] <= departed[t] + 1
           /\ departed[t] <= 2 * call[t]
           /\ bpc[t] = "out" => departed[t] = rounds /\ arrived[t] = rounds
<1>1. /\ departed[t] \in Nat /\ arrived[t] \in Nat /\ rounds \in Nat
      /\ call[t] \in Nat /\ returned[t] \in Nat
    BY Numbers0 DEF CommInv, UserTypeI, Inv, TypeI
<1>2. Place(t) /\ Phase(t) /\ bpc[t] \in BarrierPC /\ pc[t] \in CommPC
    BY DEF CommInv, UserTypeI, Inv, TypeI
<1>3. /\ departed[t] <= rounds /\ rounds <= arrived[t] /\ arrived[t] <= departed[t] + 1
      /\ bpc[t] = "out" => departed[t] = rounds /\ arrived[t] = rounds
    BY <1>1, <1>2 DEF Place, Waiting, Completing, BarrierPC
<1>4. departed[t] <= 2 * call[t]
    BY <1>1, <1>2 DEF Phase, CommPC
<1> QED
    BY <1>1, <1>3, <1>4

\* A step of thread t in a barrier does no work.
LEMMA BarrierDone ==
    ASSUME CommInv, NEW t \in Threads,
           InBarrier(t, "gathering", "working") \/ InBarrier(t, "settling", "user"),
           NEW s \in Threads, NEW k \in Nat
    PROVE  Done(s, k)' <=> Done(s, k)
<1>1. Enter(t) \/ Inside(t)
    BY DEF InBarrier
<1>2. Inv /\ pc \in [Threads -> CommPC] /\ Phase(t)
    BY DEF CommInv, UserTypeI
<1>3. CASE s # t
    <2>1. departed'[s] = departed[s] /\ pc'[s] = pc[s]
        BY <1>1, <1>2, <1>3, InsideEffect DEF InBarrier
    <2> QED
        BY <2>1 DEF Done
<1>4. CASE s = t
    <2> USE Numbers
    <2>1. CASE InBarrier(t, "gathering", "working")
        <3>1. departed[t] + 2 = 2 * call[t] /\ pc[t] = "gathering"
            BY <1>2, <2>1 DEF Phase, InBarrier
        <3>2. \/ departed'[t] = departed[t] /\ pc'[t] \in {"gathering", "failed"}
              \/ departed'[t] = departed[t] + 1 /\ pc'[t] = "working"
            BY <1>1, <1>2, <2>1, <3>1, InsideEffect DEF InBarrier
        <3> QED
            BY <1>4, <3>1, <3>2 DEF Done
    <2>2. CASE InBarrier(t, "settling", "user")
        <3>1. departed[t] + 1 = 2 * call[t] /\ pc[t] = "settling"
            BY <1>2, <2>2 DEF Phase, InBarrier
        <3>2. \/ departed'[t] = departed[t] /\ pc'[t] \in {"settling", "failed"}
              \/ departed'[t] = departed[t] + 1 /\ pc'[t] = "user"
            BY <1>1, <1>2, <2>2, <3>1, InsideEffect DEF InBarrier
        <3> QED
            BY <1>4, <3>1, <3>2 DEF Done
    <2> QED
        BY <2>1, <2>2
<1> QED
    BY <1>3, <1>4

LEMMA NextRefInv ==
    ASSUME RunI, RefInv, [Next]_vars, ~spoilt'
    PROVE  RefInv'
<1> SUFFICES \A t \in Threads : BufferI(t)'
    BY NextCommInv DEF RefInv
<1>0. CommInv /\ \A t \in Threads : BufferI(t)
    BY DEF RefInv
<1>1. ASSUME NEW t \in Threads, Collect(t) PROVE \A u \in Threads : BufferI(u)'
    <2> PICK k \in Nat : k = call[t] + 1
        BY <1>0, Numbers
    <2>1. /\ pc[t] = "user" /\ bpc[t] = "out" /\ departed[t] = 2 * call[t]
          /\ departed' = departed /\ pc' = [pc EXCEPT ![t] = "gathering"]
          /\ call' = [call EXCEPT ![t] = k] /\ buf' = [buf EXCEPT ![t] = Own(t, k)]
        BY <1>0, <1>1 DEF Collect, barrierVars, CommInv, Phase
    <2>2. \A s \in Threads : departed[s] + 1 < 2 * k
        BY <1>0, <2>1, Numbers
    <2>3. ASSUME NEW s \in Threads, NEW j \in Nat PROVE Done(s, j)' <=> Done(s, j)
        BY <1>0, <2>1 DEF Done, CommInv, UserTypeI
    <2>4. \A s \in Threads : ~Done(s, k)'
        BY <1>0, <2>1, <2>2, Numbers DEF Done
    <2>5. BufferI(t)'
        <3>1. call'[t] = k /\ buf'[t] = Own(t, k)
            BY <1>0, <2>1 DEF CommInv, UserTypeI, DataTypeI
        <3>2. \A s \in Threads : Own(t, k)[s] = {<<t, k>>}
            BY DEF Own
        <3> QED
            BY <2>4, <3>1, <3>2 DEF BufferI
    <2>6. ASSUME NEW u \in Threads \ {t} PROVE BufferI(u)'
        <3>1. call'[u] = call[u] /\ buf'[u] = buf[u] /\ call[u] \in Nat /\ BufferI(u)
            BY <1>0, <2>1, Numbers DEF CommInv, UserTypeI, DataTypeI
        <3> QED
            BY <2>3, <3>1 DEF BufferI
    <2> QED
        BY <2>5, <2>6
<1>2. ASSUME NEW t \in Threads, Gather(t) \/ Settle(t) PROVE \A u \in Threads : BufferI(u)'
    <2>1. /\ UNCHANGED <<call, buf>>
          /\ InBarrier(t, "gathering", "working") \/ InBarrier(t, "settling", "user")
        BY <1>2 DEF Gather, Settle
    <2>2. ASSUME NEW s \in Threads, NEW u \in Threads
          PROVE  Done(s, call[u])' <=> Done(s, call[u])
        BY <1>0, <2>1, BarrierDone, Numbers DEF Done
    <2> QED
        BY <1>0, <2>1, <2>2 DEF BufferI, Done
<1>3. ASSUME NEW t \in Threads, Reduce(t) PROVE \A u \in Threads : BufferI(u)'
    <2> DEFINE k == call[t]
               average == UNION {buf[u][t] : u \in Threads}
    <2>1. /\ pc[t] = "working" /\ departed' = departed /\ call' = call
          /\ pc' = [pc EXCEPT ![t] = "settling"] /\ CallOf(k) = "AllReduce"
          /\ buf' = [u \in Threads |-> [buf[u] EXCEPT ![t] = average]]
          /\ departed[t] + 1 = 2 * k
        BY <1>0, <1>3 DEF Reduce, barrierVars, CommInv, Phase
    <2>2. \A u \in Threads : call[u] = k /\ k > 0
        BY <1>0, <2>1, Working DEF CommInv
    <2>3. ~Done(t, k) /\ Done(t, k)' /\ \A s \in Threads \ {t} : Done(s, k)' <=> Done(s, k)
        BY <1>0, <2>1, Numbers DEF Done, CommInv, UserTypeI
    <2>4. \A u \in Threads : buf[u][t] = {<<u, k>>}
        BY <1>0, <2>1, <2>2, <2>3 DEF BufferI
    <2>5. average = Threads \X {k}
        BY <2>4
    <2> HIDE DEF average
    <2>6. ASSUME NEW u \in Threads PROVE BufferI(u)'
        <3>1. \A s \in Threads : buf'[u][s] = IF s = t THEN average ELSE buf[u][s]
            BY <1>0, <2>1 DEF CommInv, DataTypeI
        <3>2. BufferI(u) /\ call[u] = k /\ call'[u] = k /\ k > 0
            BY <1>0, <2>1, <2>2
        <3> QED
            BY <2>1, <2>3, <2>5, <3>1, <3>2, ZenonT(30) DEF BufferI
    <2> QED
        BY <2>6
<1>4. ASSUME NEW t \in Threads, CopyRoot(t) PROVE \A u \in Threads : BufferI(u)'
    <2> DEFINE k == call[t]
    <2>1. /\ pc[t] = "working" /\ departed' = departed /\ call' = call
          /\ pc' = [pc EXCEPT ![t] = "settling"] /\ CallOf(k) = "Broadcast"
          /\ buf' = [buf EXCEPT ![t] = buf[Root]]
          /\ departed[t] + 1 = 2 * k
        BY <1>0, <1>4 DEF CopyRoot, barrierVars, CommInv, Phase
    <2>2. \A u \in Threads : call[u] = k /\ k > 0
        BY <1>0, <2>1, Working DEF CommInv
    <2>3. Done(t, k)' /\ \A s \in Threads \ {t} : Done(s, k)' <=> Done(s, k)
        BY <1>0, <2>1, Numbers DEF Done, CommInv, UserTypeI
    <2>4. buf[Root] = Own(Root, k)
        BY <1>0, <2>1, <2>2, Numbers0 DEF BufferI
    <2>5. ASSUME NEW u \in Threads PROVE BufferI(u)'
        <3>1. buf'[u] = IF u = t THEN buf[Root] ELSE buf[u]
            BY <1>0, <2>1 DEF CommInv, DataTypeI
        <3>2. BufferI(u) /\ call[u] = k /\ call'[u] = k /\ k > 0
            BY <1>0, <2>1, <2>2
        <3> QED
            BY <2>1, <2>3, <2>4, <3>1, <3>2 DEF BufferI
    <2> QED
        BY <2>5
<1>5. ASSUME NEW t \in Threads, Fail(t) PROVE \A u \in Threads : BufferI(u)'
    <2>1. /\ UNCHANGED <<call, buf, departed>> /\ pc[t] = "user"
          /\ pc' = [pc EXCEPT ![t] = "failed"]
        BY <1>5 DEF Fail, Abort
    <2>2. ASSUME NEW s \in Threads, NEW u \in Threads
          PROVE  Done(s, call[u])' <=> Done(s, call[u])
        BY <1>0, <2>1 DEF Done, CommInv, UserTypeI
    <2> QED
        BY <1>0, <2>1, <2>2, ZenonT(30) DEF BufferI, Done
<1>6. ASSUME NEW t \in Threads, Restart(t)
      PROVE  UNCHANGED <<barrierVars, pc, call, returned, handles, buf, result>>
    BY <1>0, <1>6, RestartIdle
<1>7. CASE UNCHANGED <<barrierVars, pc, call, returned, handles, buf, result>>
    BY <1>0, <1>7 DEF BufferI, Done, barrierVars
<1>8. CASE UNCHANGED vars
    BY <1>7, <1>8 DEF vars, userVars
<1> QED
    BY <1>1, <1>2, <1>3, <1>4, <1>5, <1>6, <1>7, <1>8 DEF Next, ThreadStep

LEMMA InitRefInv == Init => RefInv
    BY InitCommInv DEF Init, RefInv, BufferI

\* The initial states of the communicator are initial states of the calls.
LEMMA InitRefines == Init => Calls!CollectiveInit
    BY DEF Init, Calls!CollectiveInit, Own, Calls!Own

\* The lemma Numbers, of all threads and of the next state.
AllNumbers ==
    \A t \in Threads :
        /\ departed[t] \in Nat /\ arrived[t] \in Nat /\ rounds \in Nat /\ call[t] \in Nat
        /\ departed[t] <= rounds /\ rounds <= arrived[t] /\ arrived[t] <= departed[t] + 1
        /\ departed[t] <= 2 * call[t]
        /\ bpc[t] = "out" => departed[t] = rounds

LEMMA NumbersNext == CommInv' => AllNumbers'
<1>1. CommInv => AllNumbers
    BY Numbers DEF AllNumbers
<1> QED
    BY <1>1, PTL

\* The return from a call, with the buffer that the whole call left.
LEMMA ReturnRefines ==
    ASSUME RefInv, RefInv', NEW t \in Threads, Settle(t), departed'[t] # departed[t]
    PROVE  Calls!ReturnCall(t)
<1> PICK k \in Nat : k = call[t]
    BY Numbers DEF RefInv
<1>0. CommInv /\ CommInv'
    BY DEF RefInv
<1>1. /\ InBarrier(t, "settling", "user")
      /\ returned' = [returned EXCEPT ![t] = @ + 1]
      /\ result' = [result EXCEPT ![t] = buf[t]]
      /\ UNCHANGED <<call, buf>>
    BY DEF Settle
<1>2. /\ departed[t] + 1 = 2 * k /\ returned[t] + 1 = k /\ k > 0
      /\ departed'[t] = 2 * k /\ k \in 1 .. AllCalls /\ CallOf(k) \in {"AllReduce", "Broadcast"}
    <2>1. pc[t] = "settling" /\ (Enter(t) \/ Inside(t)) /\ Phase(t)
        BY <1>0, <1>1 DEF InBarrier, CommInv
    <2>2. departed'[t] = departed[t] + 1
        BY <1>0, <2>1, InsideEffect DEF CommInv
    <2>3. departed[t] + 1 = 2 * k /\ returned[t] + 1 = k /\ k > 0
        BY <1>0, <2>1, Numbers DEF Phase
    <2>4. k \in 1 .. AllCalls
        BY <1>0, <2>3, Numbers0 DEF CommInv, UserTypeI
    <2>5. CallOf(k) \in {"AllReduce", "Broadcast"}
        BY <2>4, CallsMade
    <2> QED
        BY <1>0, <2>2, <2>3, <2>4, <2>5, Numbers
<1>3. ASSUME NEW u \in Threads
      PROVE  /\ call[u] >= k
             /\ (departed[u]' + 1 > 2 * k) \/ (departed[u]' + 1 = 2 * k /\ pc'[u] # "working")
    <2>1. /\ departed'[u] \in Nat /\ arrived'[u] \in Nat /\ rounds' \in Nat
          /\ departed'[t] <= rounds' /\ rounds' <= arrived'[u]
          /\ arrived'[u] <= departed'[u] + 1 /\ departed'[u] <= 2 * call'[u]
          /\ call'[u] \in Nat
          /\ bpc'[u] = "out" => departed'[u] = rounds'
        <3>1. AllNumbers'
            BY <1>0, NumbersNext
        <3> QED
            BY <3>1 DEF AllNumbers
    <2>2. departed'[u] + 1 >= 2 * k
        BY <1>2, <2>1
    <2>3. pc'[u] = "working" => bpc'[u] = "out"
        BY <1>0 DEF CommInv, Phase
    <2>4. pc'[u] = "working" => departed'[u] >= 2 * k
        BY <1>2, <2>1, <2>3
    <2>5. call'[u] = call[u]
        BY <1>1
    <2> QED
        BY <1>2, <2>1, <2>2, <2>4, <2>5
<1>4. buf[t] = Calls!Outcome(k)
    <2>1. \A s \in Threads : Done(s, k)'
        BY <1>3 DEF Done
    <2>2. call'[t] = k /\ buf'[t] = buf[t] /\ BufferI(t)'
        BY <1>1 DEF RefInv
    <2>3. CASE CallOf(k) = "AllReduce"
        <3>1. \A s \in Threads : buf[t][s] = Threads \X {k}
            BY <1>2, <2>1, <2>2, <2>3 DEF BufferI
        <3>2. buf[t] \in [Threads -> Slices]
            BY <1>0 DEF CommInv, DataTypeI
        <3> QED
            BY <1>2, <2>3, <3>1, <3>2 DEF Calls!Outcome
    <2>4. CASE CallOf(k) = "Broadcast"
        BY <1>2, <2>1, <2>2, <2>4 DEF BufferI, Calls!Outcome, Own, Calls!Own
    <2> QED
        BY <1>2, <2>3, <2>4
<1> QED
    BY <1>0, <1>1, <1>2, <1>3, <1>4, Numbers DEF Calls!ReturnCall

LEMMA StepRefines ==
    ASSUME RunI, RefInv, RefInv', [Next]_vars, ~spoilt'
    PROVE  Calls!CollectiveNext \/ UNCHANGED Calls!collectiveVars
<1>0. CommInv
    BY DEF RefInv
<1>1. ASSUME NEW t \in Threads, Collect(t) PROVE Calls!BeginCall(t)
    <2>1. pc[t] = "user" /\ call[t] < CallsUpTo(run[t]) /\ call[t] \in 0 .. AllCalls
        BY <1>0, <1>1 DEF Collect, CommInv, UserTypeI
    <2>2. call[t] + 1 \in 1 .. AllCalls
        BY <2>1, Numbers0 DEF RunI
    <2> QED
        BY <1>0, <1>1, <2>2 DEF Collect, Calls!BeginCall, CommInv, Phase
<1>2. ASSUME NEW t \in Threads, Settle(t)
      PROVE  Calls!ReturnCall(t) \/ UNCHANGED Calls!collectiveVars
    <2>1. CASE departed'[t] # departed[t]
        BY <1>2, <2>1, ReturnRefines
    <2>2. CASE departed'[t] = departed[t]
        BY <1>2, <2>2 DEF Settle, Calls!collectiveVars
    <2> QED
        BY <2>1, <2>2
<1>3. ASSUME NEW t \in Threads, Gather(t) \/ Reduce(t) \/ CopyRoot(t) \/ Fail(t)
      PROVE  UNCHANGED Calls!collectiveVars
    BY <1>3 DEF Gather, Reduce, CopyRoot, Fail, Calls!collectiveVars
<1>4. ASSUME NEW t \in Threads, Restart(t) PROVE UNCHANGED Calls!collectiveVars
    BY <1>0, <1>4, RestartIdle DEF Calls!collectiveVars
<1>5. CASE UNCHANGED vars
    BY <1>5 DEF vars, userVars, Calls!collectiveVars
<1> QED
    BY <1>1, <1>2, <1>3, <1>4, <1>5 DEF Next, ThreadStep, Calls!CollectiveNext

RefAlways == RunI /\ (~spoilt => RefInv)

\* The communicator implements the collective calls, for every number of threads and of runs
\* and every sequence of calls: in a run that no aborted one precedes, every call returns the
\* result of the whole call.
THEOREM Refinement == Spec => ImplementsCollective
<1>1. Init => RefAlways
    BY InitRefInv, InitRunI DEF RefAlways
<1>2. RefAlways /\ [Next]_vars => RefAlways'
    BY NextRefInv, RunsNext DEF RefAlways
<1>3. RefAlways /\ RefAlways' /\ [Next]_vars
      => [~spoilt' => Calls!CollectiveNext]_<<call, returned, result>>
    BY StepRefines, RunsNext DEF RefAlways, Calls!collectiveVars
<1> QED
    BY <1>1, <1>2, <1>3, InitRefines, PTL DEF Spec, ImplementsCollective
=============================================================================
