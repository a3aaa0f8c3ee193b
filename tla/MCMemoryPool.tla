---------------------------- MODULE MCMemoryPool ----------------------------
(* Small instances of MemoryPool for TLC. *)
EXTENDS MemoryPool, TLC

CONSTANTS t1, t2, a1, a2, a3

TwoThreads == {t1, t2}
ThreeAddresses == {a1, a2, a3}
TwoSizes == {2, 4}
ThreeRequests == {1, 3, 5}
Symmetry == Permutations(Threads) \cup Permutations(Addresses)
=============================================================================
