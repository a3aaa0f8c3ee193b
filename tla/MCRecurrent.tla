---------------------------- MODULE MCRecurrent ----------------------------
(***************************************************************************)
(* Small inner networks for TLC.  Layers 1 and 2 are sources, 2 of one     *)
(* item; 3 and 4 are back links; 5 to 8 compute, 6 and 8 in place if they  *)
(* may; 9 and 10 are the capture sinks of 3 and 4; 11 and 12 are the       *)
(* outputs.  5 and 7 are fully connected layers, 6 and 8 activations.      *)
(***************************************************************************)
EXTENDS Recurrent, SequencesExt

RECURSIVE Ordered(_, _, _)
\* The layers of `done', then those of `list', each after its inputs.
Ordered(n, list, done) ==
    IF list = <<>> THEN done
    ELSE IF Contains(done, Head(list)) THEN Ordered(n, Tail(list), done)
    ELSE Ordered(n, Tail(list), Append(Ordered(n, n[Head(list)], done), Head(list)))

\* runOnce() of the sinks, one after the other.
RunOrder(n) == Ordered(n, SetToSortSeq({l \in DOMAIN n : IsSink(n, l)}, <), <<>>)

\* 3 -> 5 -> 6 -> 3: the cell of an Elman network, with input 1.
Cell == 1 :> <<>> @@ 3 :> <<>> @@ 5 :> <<1, 3>> @@ 6 :> <<5>>
        @@ 9 :> <<6>> @@ 11 :> <<6>>

\* The cell with an initial state, and two outputs, one computed from the other.
Decoder == 1 :> <<>> @@ 2 :> <<>> @@ 3 :> <<2>> @@ 5 :> <<1, 3>> @@ 6 :> <<5>>
           @@ 7 :> <<6>> @@ 8 :> <<7>>
           @@ 9 :> <<6>> @@ 11 :> <<7>> @@ 12 :> <<8>>

\* Two states, as in an LSTM: 7 reads both and 3 twice, 8 is captured by 3 and 5 by 4.
Gated == 1 :> <<>> @@ 3 :> <<>> @@ 4 :> <<>>
         @@ 5 :> <<1, 3, 4>> @@ 6 :> <<5>>
         @@ 7 :> <<6, 3, 3, 4>> @@ 8 :> <<7>>
         @@ 9 :> <<8>> @@ 10 :> <<5>> @@ 11 :> <<8>>

\* Teacher forcing: 3 reads the input in every position.
Forced == 1 :> <<>> @@ 3 :> <<1>> @@ 5 :> <<3>> @@ 6 :> <<5>> @@ 7 :> <<5>>
          @@ 9 :> <<6>> @@ 11 :> <<6>> @@ 12 :> <<7>>

\* Two layers read 5, and the last one that does needs its own output only.
Shared == 1 :> <<>> @@ 3 :> <<>> @@ 5 :> <<1, 3>> @@ 7 :> <<5>> @@ 8 :> <<5>>
          @@ 9 :> <<7>> @@ 11 :> <<8>>

AllNets == {Cell, Decoder, Gated, Forced, Shared}
RunOrders == Cell :> <<1, 3, 5, 6, 9, 11>> @@ Decoder :> <<1, 2, 3, 5, 6, 9, 7, 11, 8, 12>>
             @@ Gated :> <<1, 3, 4, 5, 6, 7, 8, 9, 10, 11>> @@ Forced :> <<1, 3, 5, 6, 9, 11, 7, 12>>
             @@ Shared :> <<1, 3, 5, 7, 9, 8, 11>>
ASSUME OrdersAreRunOrders == \A n \in AllNets : RunOrders[n] = RunOrder(n)
CaptureSinks == 3 :> 9 @@ 4 :> 10

BackwardBlobs == [l \in 1 .. 12 |-> IF l \in {6, 8} THEN {"out"} ELSE {}]
LearnBlobs == [l \in 1 .. 12 |-> IF l \in {5, 7} THEN {"in"} ELSE {}]
=============================================================================
