------------------------ MODULE MCParallelReduction ------------------------
(* A small instance of ParallelReduction for TLC. *)
EXTENDS ParallelReduction

CONSTANTS c1

OneClient == {c1}
LibraryUses == {"ExecuteTasks", "Delete"}

\* Work that four threads divide evenly, with a remainder, with parts to spare and not at all.
Intervals == [form : {"interval"}, full : {<<n, 1, 1>> : n \in {1, 6}}, align : {<<1, 1, 1>>, <<2, 1, 1>>}]
Boxes == [form : {"box"}, full : {<<1, 3, 5>>, <<2, 4, 2>>, <<3, 5, 1>>}, align : {<<1, 1, 1>>, <<1, 2, 3>>}]
IntervalsAndBoxes == Intervals \cup Boxes
=============================================================================
