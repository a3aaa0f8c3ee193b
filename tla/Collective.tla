----------------------------- MODULE Collective -----------------------------
(***************************************************************************)
(* What AllReduce and Broadcast promise to the threads of one communicator *)
(* that make the same sequence of calls: a call returns after every thread *)
(* has begun its own, and its buffer then holds the result of the call     *)
(* over the contributions all the threads made to that very call.          *)
(***************************************************************************)
EXTENDS Naturals

CONSTANTS Threads,
          Root,        \* the thread whose data Broadcast copies
          Program      \* the calls every thread makes: "AllReduce", "Broadcast"

VARIABLES begun,       \* calls thread t has begun
          returned,    \* calls thread t has returned from
          result       \* what the last of them left in its buffer

collectiveVars == <<begun, returned, result>>

\* A buffer is cut into one slice per thread; a slice holds the average of a
\* set of contributions <<thread, call>>.
Own(t, k) == [s \in Threads |-> {<<t, k>>}]

Outcome(k) ==
    IF Program[k] = "AllReduce"
    THEN [s \in Threads |-> Threads \X {k}]
    ELSE Own(Root, k)

CollectiveInit ==
    /\ begun = [t \in Threads |-> 0]
    /\ returned = [t \in Threads |-> 0]
    /\ result = [t \in Threads |-> Own(t, 0)]

BeginCall(t) ==
    /\ begun[t] = returned[t]
    /\ begun[t] + 1 \in DOMAIN Program
    /\ begun' = [begun EXCEPT ![t] = @ + 1]
    /\ UNCHANGED <<returned, result>>

ReturnCall(t) ==
    /\ returned[t] < begun[t]
    /\ \A u \in Threads : begun[u] > returned[t]
    /\ returned' = [returned EXCEPT ![t] = @ + 1]
    /\ result' = [result EXCEPT ![t] = Outcome(begun[t])]
    /\ UNCHANGED begun

CollectiveNext == \E t \in Threads : BeginCall(t) \/ ReturnCall(t)

CollectiveSpec == CollectiveInit /\ [][CollectiveNext]_collectiveVars
=============================================================================
