-------------------------- MODULE MCStackAllocator --------------------------
(* Small instances of StackAllocator for TLC. *)
EXTENDS StackAllocator, TLC

CONSTANTS a1, a2, a3, a4

FourAddresses == {a1, a2, a3, a4}
Sizes == {1, 3, 8}
Symmetry == Permutations(Addresses)
=============================================================================
