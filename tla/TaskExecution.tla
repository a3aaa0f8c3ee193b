--------------------------- MODULE TaskExecution ---------------------------
(***************************************************************************)
(* What IThreadPool promises its callers, with no queue, no lock and no    *)
(* condition variable.                                                     *)
(*                                                                         *)
(* A client submits tasks, each task is executed once, and a client's wait *)
(* returns only when every task it has submitted was executed.             *)
(***************************************************************************)
EXTENDS Naturals

CONSTANTS Clients,    \* the threads that call the pool
          MaxCalls,   \* bound on the calls of a client
          Task        \* the tasks, [client, call, worker] records

VARIABLES submitted,  \* the tasks given to the pool
          executed,   \* the tasks whose function was called
          covered     \* covered[c]: the calls of c its last finished wait covers

absVars == <<submitted, executed, covered>>

AbsInit ==
    /\ submitted = {}
    /\ executed = {}
    /\ covered = [c \in Clients |-> 0]

Submit(t) ==
    /\ t \notin submitted
    /\ submitted' = submitted \cup {t}
    /\ UNCHANGED <<executed, covered>>

Execute(t) ==
    /\ t \in submitted \ executed
    /\ executed' = executed \cup {t}
    /\ UNCHANGED <<submitted, covered>>

\* A wait of c covers its calls 1..k: all the tasks of c are executed by now.
Return(c, k) ==
    /\ \A t \in submitted : t.client = c => t \in executed /\ t.call <= k
    /\ covered' = [covered EXCEPT ![c] = k]
    /\ UNCHANGED <<submitted, executed>>

AbsNext ==
    \/ \E t \in Task : Submit(t) \/ Execute(t)
    \/ \E c \in Clients, k \in 0 .. MaxCalls : Return(c, k)

AbsSpec == AbsInit /\ [][AbsNext]_absVars
=============================================================================
