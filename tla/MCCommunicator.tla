--------------------------- MODULE MCCommunicator ---------------------------
(* A small instance of Communicator for TLC. *)
EXTENDS Communicator

CONSTANTS t1, t2

TwoThreads == {t1, t2}
BroadcastThenReduce == <<"Broadcast", "AllReduce">>
=============================================================================
