------------------------- MODULE MCCudaDeviceSlots -------------------------
(* A small instance of CudaDeviceSlots for TLC. *)
EXTENDS CudaDeviceSlots

CONSTANTS a, b

\* Two threads of one process, and one of another.
ThreeCallers == {<<1, a>>, <<1, b>>, <<2, a>>}
=============================================================================
