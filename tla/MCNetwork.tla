----------------------------- MODULE MCNetwork -----------------------------
(***************************************************************************)
(* Small networks for TLC.  Layer 1 is a source layer, 5 and 6 are sinks,  *)
(* 2 learns, 3 and 4 compute in place if they may.  Below, an arrow is a   *)
(* connection and 2' the second output of layer 2.                         *)
(***************************************************************************)
EXTENDS Network, TLC

From(l) == <<l, 1>>

\* 1 -> 2 -> 3 -> 4 -> 5: layers that compute in place follow one another.
Chain == 1 :> <<>> @@ 2 :> <<From(1)>> @@ 3 :> <<From(2)>> @@ 4 :> <<From(3)>> @@ 5 :> <<From(4)>>

\* The chain with a second sink, on the output of 3.
TwoSinks == Chain @@ 6 :> <<From(3)>>

\* 2' -> 4, which also reads 2 and, twice, 3, after a sink on 2'; 6 reads 4 and the source.
Diamond == 1 :> <<>> @@ 2 :> <<From(1)>> @@ 3 :> <<From(2)>>
           @@ 4 :> <<<<2, 2>>, From(3), From(3), From(2)>>
           @@ 5 :> <<<<2, 2>>>> @@ 6 :> <<From(4), From(1)>>

\* CEltwiseMulLayer: 3 multiplies 2 and 2' in place of 2.
Product == 1 :> <<>> @@ 2 :> <<From(1)>> @@ 3 :> <<From(2), <<2, 2>>>> @@ 5 :> <<From(3)>>

OneProduct == {Product}
AllNetworks == {Chain, TwoSinks, Diamond}

\* A fully connected layer, activations that compute in place, a loss and sinks.
BackwardBlobs == [l \in 1 .. 6 |-> CASE l = 3 -> {"out"} [] l \in {5, 6} -> {"in"} [] OTHER -> {}]
ProductBlobs == [BackwardBlobs EXCEPT ![3] = {"in"}]
LearnBlobs == [l \in 1 .. 6 |-> IF l = 2 THEN {"in"} ELSE {}]

NoFailures == [reshape |-> {}, forward |-> {}, backward |-> {}]
Failures == [reshape |-> {3}, forward |-> {4}, backward |-> {3}]

=============================================================================
