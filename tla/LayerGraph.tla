----------------------------- MODULE LayerGraph -----------------------------
(***************************************************************************)
(* The graph of a network, as CBaseLayer::link and CDnn::rebuild leave it. *)
(* net[l] is the sequence of the inputs of layer l; an input is connected  *)
(* to a port <<m, o>>, output o of layer m.  Outputs are numbered from 1.  *)
(* Layers are numbered in the order of CDnn::layers.                       *)
(***************************************************************************)
EXTENDS Naturals, Sequences, FiniteSets

\* The connections: <<c, i>> is input i of layer c.
Links(net) == UNION {{<<c, i>> : i \in DOMAIN net[c]} : c \in DOMAIN net}

\* outputs[p[2]] of layer p[1] is the number of these.
Consumers(net, p) == {k \in Links(net) : net[k[1]][k[2]] = p}

\* The size of the array outputs: the largest connected output (addOutput).
OutputCount(net, l) ==
    LET used == {net[k[1]][k[2]][2] : k \in {j \in Links(net) : net[j[1]][j[2]][1] = l}}
    IN  IF used = {} THEN 0 ELSE CHOOSE o \in used : \A u \in used : u <= o

Outputs(net, l) == 1 .. OutputCount(net, l)

IsSource(net, l) == net[l] = <<>>
IsSink(net, l) == OutputCount(net, l) = 0

\* A network that can be built: inputs are connected to its own layers and the
\* connections have no cycle (buildOrder would never return from one).
IsNetwork(net) ==
    /\ \A k \in Links(net) : /\ net[k[1]][k[2]][1] \in DOMAIN net
                             /\ net[k[1]][k[2]][2] \in Nat \ {0}
    /\ \E rank \in [DOMAIN net -> 1 .. Cardinality(DOMAIN net)] :
          \A k \in Links(net) : rank[net[k[1]][k[2]][1]] < rank[k[1]]
=============================================================================
