------------------------------ MODULE Dataflow ------------------------------
(***************************************************************************)
(* What CDnn promises of a run, without a word on recursion, run numbers,  *)
(* blobs or counts of diffs.  A pass computes every layer of the network   *)
(* once, after the layers it reads.  A training pass then goes back:       *)
(* every layer with something to pass back or to learn is trained once,    *)
(* after all the layers that read its outputs.  A pass ends when all of    *)
(* that was done, or is abandoned by an exception.                         *)
(***************************************************************************)
EXTENDS Naturals, Sequences

CONSTANT Networks       \* networks; n[l] is the sequence of the inputs of layer l

VARIABLE pass           \* the pass, a record; only its mode while there is none

Reads(n, l) == {n[l][i][1] : i \in DOMAIN n[l]}
Readers(n, l) == {m \in DOMAIN n : l \in Reads(n, m)}

Rest == [mode : {"idle", "failed"}]

Init == pass = [mode |-> "idle"]

\* A pass over network n in which the layers todo are to be trained.
Begin ==
    /\ pass \in Rest
    /\ \E n \in Networks : \E todo \in SUBSET DOMAIN n :
          pass' = [mode |-> "forward", network |-> n, todo |-> todo,
                   computed |-> {}, trained |-> {}]

Compute ==
    /\ pass.mode = "forward"
    /\ \E l \in DOMAIN pass.network \ pass.computed :
          /\ Reads(pass.network, l) \subseteq pass.computed
          /\ pass' = [pass EXCEPT !.computed = @ \cup {l}]

Turn ==
    /\ pass.mode = "forward" /\ pass.computed = DOMAIN pass.network
    /\ pass' = [pass EXCEPT !.mode = "backward"]

Train ==
    /\ pass.mode = "backward"
    /\ \E l \in pass.todo \ pass.trained :
          /\ Readers(pass.network, l) \subseteq pass.trained
          /\ pass' = [pass EXCEPT !.trained = @ \cup {l}]

Finish ==
    /\ pass.mode \in {"forward", "backward"}
    /\ pass.computed = DOMAIN pass.network
    /\ pass.trained = pass.todo
    /\ pass' = [mode |-> "idle"]

Abandon == pass' = [mode |-> "failed"]

\* The next call starts with what does not belong to a pass.
Prepare == pass.mode = "failed" /\ pass' = [mode |-> "idle"]

Next == Begin \/ Compute \/ Turn \/ Train \/ Finish \/ Abandon \/ Prepare

Spec == Init /\ [][Next]_pass
=============================================================================
