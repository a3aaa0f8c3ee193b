------------------------ MODULE MCDistributedTraining ------------------------
(* Small instances of DistributedTraining for TLC. *)
EXTENDS DistributedTraining

CONSTANTS t1, t2, t3

TwoThreads == {t1, t2}
ThreeThreads == {t1, t2, t3}
EmptyOrNot == {0, 1}
=============================================================================
