--------------------------- MODULE TaskPartition ---------------------------
(***************************************************************************)
(* How the work of ExecuteTasks is divided among the threads of a pool     *)
(* (NeoMathEngine/include/NeoMathEngine/ThreadPool.h): an interval, or a   *)
(* box of three dimensions, to each thread, cut at multiples of an         *)
(* alignment.  Integers are those of mathematics; FitsInt of the proofs    *)
(* says for which arguments int is wide enough.                            *)
(***************************************************************************)
EXTENDS Integers

AtLeastZero(n) == IF n > 0 THEN n ELSE 0
AtMost(n, m) == IF n < m THEN n ELSE m
DivideUp(n, m) == (n + m - 1) \div m
AlignUp(n, align) == DivideUp(n, align) * align

CountPerThread(threadCount, fullCount, align) ==
    AlignUp(DivideUp(fullCount, threadCount), align)

\* The interval that starts at index and ends with the work.
Part(index, count, fullCount) ==
    [index |-> index, count |-> AtLeastZero(AtMost(count, fullCount - index))]

\* GetTaskIndexAndCount
TaskIndexAndCount(threadCount, threadIndex, fullCount, align) ==
    LET countPerThread == CountPerThread(threadCount, fullCount, align) IN
    IF threadCount > 1
    THEN Part(countPerThread * threadIndex, countPerThread, fullCount)
    ELSE [index |-> 0, count |-> fullCount]

Items(part) == part.index .. part.index + part.count - 1

-----------------------------------------------------------------------------
(* Boxes. *)

Dims == 1 .. 3

\* The Euclidean algorithm, on a pair <<m, n>>.
GreatestCommonFactor[p \in Nat \X (Nat \ {0})] ==
    IF p[1] % p[2] = 0 THEN p[2] ELSE GreatestCommonFactor[<<p[2], p[1] % p[2]>>]

\* A size that is aligned stays so.
FactorWithAlign(m, align, n) ==
    GreatestCommonFactor[<<IF m % align = 0 THEN m \div align ELSE m, n>>]

\* The numbers of parts along each dimension that divide it without a remainder, and
\* what is left of the threads.
EvenSplit(full, align, threadCount) ==
    LET mulX == FactorWithAlign(full[1], align[1], threadCount)
        restX == threadCount \div mulX
        mulY == FactorWithAlign(full[2], align[2], restX)
        restY == restX \div mulY
        mulZ == FactorWithAlign(full[3], align[3], restY)
    IN  [mul |-> <<mulX, mulY, mulZ>>, rest |-> restY \div mulZ]

\* The dimension with the longest parts, counted in alignments.
Longest(count, align) ==
    LET units == [d \in Dims |-> count[d] \div align[d]]
    IN  CHOOSE d \in Dims : \A e \in Dims : units[d] > units[e] \/ (units[d] = units[e] /\ d <= e)

\* The rest of the threads divide the longest dimension, with a remainder.
Split(full, align, threadCount) ==
    LET even == EvenSplit(full, align, threadCount)
        count == [d \in Dims |-> full[d] \div even.mul[d]]
        long == Longest(count, align)
        sizes == [count EXCEPT ![long] = DivideUp(@, even.rest)]
    IN  [mul |-> [even.mul EXCEPT ![long] = @ * even.rest],
         count |-> [d \in Dims |-> AlignUp(sizes[d], align[d])]]

\* GetTaskIndexAndCount3D: the part along each dimension.  GetTaskIndexAndCount2D is the
\* same for a box of one layer.
TaskIndexAndCount3D(full, align, threadCount, threadIndex) ==
    LET split == Split(full, align, threadCount)
        position == <<threadIndex % split.mul[1],
                      (threadIndex \div split.mul[1]) % split.mul[2],
                      (threadIndex \div split.mul[1]) \div split.mul[2]>>
    IN  IF threadCount = 1
        THEN [d \in Dims |-> [index |-> 0, count |-> full[d]]]
        ELSE [d \in Dims |-> Part(split.count[d] * position[d], split.count[d], full[d])]

Cells(box) == Items(box[1]) \X Items(box[2]) \X Items(box[3])
=============================================================================
