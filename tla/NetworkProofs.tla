--------------------------- MODULE NetworkProofs ---------------------------
(***************************************************************************)
(* Every run of a network is a pass of Dataflow, goes with the shapes of   *)
(* now, and trains every layer with the complete sum of its diffs, for     *)
(* every set of networks without cycles, of any size, and every use of     *)
(* them by careful users.                                                  *)
(*                                                                         *)
(* The argument.  The calls in progress are a path in the graph, so that   *)
(* no layer is called by itself.  Forward, a layer bears the number of the *)
(* run if and only if it has computed or is being called, and it computes  *)
(* when all its inputs have.  Backward, what a layer has counted are the   *)
(* inputs connected to it of the layers that were trained, and a layer     *)
(* that has all of them is trained or will be called by one of the calls   *)
(* in progress.  Between the runs all counts are zero and there are no     *)
(* diffs, which is why an exception that leaves some must be followed by a *)
(* rebuild (Careful).  The shapes: a layer that is not forced fits the     *)
(* sizes it last saw; outside reshape() all layers are stale or all have   *)
(* seen the sizes of now, and within it those that have returned have.     *)
(*                                                                         *)
(* The blobs.  The recursion goes through a network in the same order when *)
(* it builds it and when it runs it, so that the last user of an output,   *)
(* found in the build, is the last to run: what it drops, or computes in   *)
(* place of, nobody reads later.  A blob bears the name of the port it was *)
(* created for and is passed on along a chain of ports, each computed in   *)
(* place of the one before.  Such chains do not fork, so that two layers   *)
(* that have the same blob are in one chain, and a layer that writes it    *)
(* spoils only what is before it in the chain.                             *)
(***************************************************************************)
EXTENDS Network, FiniteSetTheorems, SequenceTheorems, WellFoundedInduction, TLAPS

\* A numbering of the layers in which inputs come first.
Rank(n) ==
    CHOOSE rank \in [DOMAIN n -> 1 .. Cardinality(DOMAIN n)] :
        \A k \in Links(n) : rank[n[k[1]][k[2]][1]] < rank[k[1]]

\* The layer that input i of layer c is connected to.
Input(c, i) == net[c][i][1]

OnStack(l) == \E k \in DOMAIN stack : stack[k].layer = l

\* The inputs connected to output o of layer l that have sent their diffs.
Sent(l, o) == {k \in Consumers(net, <<l, o>>) : k[1] \in trained}
DiffsOf(S) == {<<k[1], k[2], runNumber>> : k \in S}

\* Trains(l) in a training run.
Trainable(l) == l \in backwardNeeded \/ LearningNeeded(l)

\* Nothing was counted for the outputs of layer l.
AtZero(l) == ready[l] = <<>> \/ ready[l] = [o \in Outputs(net, l) |-> 0]

\* The counts and diffs are those between two passes.
Settled == ~rebuildNeeded /\ phase \notin {"broken", "backward"}

TypeI ==
    /\ net \in Networks /\ phase \in Phases
    /\ rebuildNeeded \in BOOLEAN /\ backward \in BOOLEAN
    /\ rebuildNeeded => AtRest
    /\ runNumber \in Nat /\ lastRun \in [Layers -> Nat]
    /\ DOMAIN ready = Layers /\ DOMAIN outDiffs = Layers
    /\ inDiffs \subseteq Layers
    /\ \A l \in Layers : lastRun[l] <= runNumber

\* The calls in progress are a path in the network that begins at a sink.
CallI ==
    /\ stack \in Seq([layer : DOMAIN net, next : Nat \ {0}])
    /\ sink \in Nat
    /\ \A k \in 1 .. Len(stack) - 1 :
          /\ stack[k].next \in DOMAIN net[stack[k].layer]
          /\ Input(stack[k].layer, stack[k].next) = stack[k + 1].layer
    /\ \A j, k \in DOMAIN stack :
          j < k => Rank(net)[stack[k].layer] < Rank(net)[stack[j].layer]
    /\ stack # <<>> => stack[1].layer = sink /\ IsSink(net, sink)
    /\ AtRest \/ phase = "recheck" => stack = <<>>

\* The forward pass: lastRunNumber marks what has computed or is being called.
ForwardI == phase = "forward" =>
    /\ ran \subseteq DOMAIN net /\ trained = {}
    /\ \A l \in DOMAIN net : lastRun[l] = runNumber <=> l \in ran \/ OnStack(l)
    /\ \A k \in DOMAIN stack :
          /\ stack[k].layer \notin ran
          /\ \A i \in DOMAIN net[stack[k].layer] :
                i < stack[k].next => Input(stack[k].layer, i) \in ran
    /\ \A l \in ran : \A i \in DOMAIN net[l] : Input(l, i) \in ran
    /\ \A l \in DOMAIN net : IsSink(net, l) /\ l <= sink => l \in ran \/ OnStack(l)

\* A consumer of a layer that trains passes diffs to it (recheckBackwardNeeded).
NeedI == phase \in {"reshape", "forward", "backward"} =>
    \A c \in DOMAIN net : \A i \in DOMAIN net[c] : Trainable(Input(c, i)) => c \in backwardNeeded

SettledI == Settled =>
    /\ \A l \in DOMAIN net : AtZero(l) /\ outDiffs[l] = <<>>
    /\ phase \in {"reshape", "forward"} =>
          \A l \in DOMAIN net : Trainable(l) => ready[l] = [o \in Outputs(net, l) |-> 0]

InDiffsI == ~rebuildNeeded /\ phase # "broken" => inDiffs \cap DOMAIN net = {}

\* The backward pass: consumers first, sinks in order.
TrainedI == phase = "backward" =>
    /\ backward /\ ran = DOMAIN net
    /\ trained \subseteq {l \in DOMAIN net : Trainable(l)}
    /\ \A c \in DOMAIN net : \A i \in DOMAIN net[c] : Input(c, i) \in trained => c \in trained
    /\ \A k \in DOMAIN stack : Trainable(stack[k].layer) => stack[k].layer \in trained
    /\ \A l \in DOMAIN net : IsSink(net, l) /\ Trainable(l) => (l \in trained <=> l <= sink)

\* readyOutputDiffs counts what was sent.
CountI == phase = "backward" => \A l \in DOMAIN net :
    /\ ~Trainable(l) => AtZero(l)
    /\ Trainable(l) => ready[l] \in [Outputs(net, l) -> Nat]
    /\ Trainable(l) /\ l \notin trained =>
          \A o \in Outputs(net, l) : ready[l][o] = Cardinality(Sent(l, o))
    /\ l \in trained /\ ~OnStack(l) => \A o \in Outputs(net, l) : ready[l][o] = 0

\* outputDiffBlobs has what was sent.
DiffsI == phase = "backward" => \A l \in DOMAIN net :
    IF Trainable(l) /\ l \notin trained
    THEN \A o \in Outputs(net, l) :
            (IF outDiffs[l] = <<>> THEN {} ELSE outDiffs[l][o]) = DiffsOf(Sent(l, o))
    ELSE outDiffs[l] = <<>>

\* A layer whose consumers have all sent is still to be called by one of them.
PendingI == phase = "backward" => \A l \in DOMAIN net :
    /\ Trainable(l) /\ l \notin trained /\ ~IsSink(net, l)
    /\ \A c \in DOMAIN net : \A i \in DOMAIN net[c] : Input(c, i) = l => c \in trained
    => \E k \in DOMAIN stack : \E i \in DOMAIN net[stack[k].layer] :
          stack[k].next <= i /\ Input(stack[k].layer, i) = l

-----------------------------------------------------------------------------
(* Numbers and graphs. *)

\* A set of numbers that is not empty has a least one.
LEMMA LeastNumber ==
    ASSUME NEW T, T \subseteq Nat, T # {}
    PROVE  \E x \in T : \A y \in T : x <= y
<1> DEFINE R == {p \in Nat \X Nat : p[1] < p[2]}
<1>1. IsWellFoundedOn(R, Nat)
  BY NatLessThanWellFounded DEF OpToRel
<1>2. PICK x \in T : \A y \in T : ~(<<y, x>> \in R)
  <2> HIDE DEF R
  <2> QED BY <1>1, WFMin
<1>3. ASSUME NEW y \in T PROVE x <= y
  <2>1. ~(<<y, x>> \in R)
    BY <1>2
  <2> QED BY <2>1
<1> QED BY <1>2, <1>3

\* A finite set of numbers that is not empty has a greatest one: a smallest counterexample
\* would still be one without one of its numbers.
LEMMA GreatestNumber ==
    ASSUME NEW T, T \subseteq Nat, T # {}, IsFiniteSet(T)
    PROVE  \E x \in T : \A y \in T : y <= x
<1> DEFINE HasGreatest(S) == \E x \in S : \A y \in S : y <= x
           Bad == {n \in Nat : \E S : /\ S \subseteq Nat /\ S # {} /\ IsFiniteSet(S)
                                      /\ Cardinality(S) = n /\ ~HasGreatest(S)}
<1>1. SUFFICES ASSUME ~HasGreatest(T) PROVE FALSE
  OBVIOUS
<1>2. Cardinality(T) \in Bad
  BY <1>1, FS_CardinalityType
<1>3. PICK n \in Bad : \A m \in Bad : n <= m
  <2>1. Bad \subseteq Nat /\ Bad # {}
    BY <1>2
  <2> HIDE DEF Bad
  <2> QED BY <2>1, LeastNumber
<1>4. PICK S : /\ S \subseteq Nat /\ S # {} /\ IsFiniteSet(S)
               /\ Cardinality(S) = n /\ ~HasGreatest(S)
  BY <1>3
<1>5. PICK x \in S : TRUE
  BY <1>4
<1> DEFINE R == S \ {x}
<1>6. IsFiniteSet(R) /\ Cardinality(R) = n - 1 /\ n \in Nat /\ n - 1 \in Nat
  <2>1. IsFiniteSet(R) /\ Cardinality(R) = Cardinality(S) - 1
    BY <1>4, <1>5, FS_RemoveElement
  <2>2. Cardinality(R) \in Nat
    BY <2>1, FS_CardinalityType
  <2> QED BY <1>4, <2>1, <2>2, FS_CardinalityType
<1>7. R # {}
  <2> SUFFICES ASSUME R = {} PROVE FALSE
    OBVIOUS
  <2>1. S = {x} /\ x \in Nat
    BY <1>4, <1>5
  <2> QED BY <1>4, <2>1
<1>8. R \subseteq Nat /\ n - 1 \notin Bad
  <2>1. ~(n <= n - 1)
    BY <1>6
  <2> HIDE DEF Bad
  <2> QED BY <1>3, <1>4, <2>1
<1>9. HasGreatest(R)
  BY <1>6, <1>7, <1>8
<1>10. PICK y \in R : \A z \in R : z <= y
  BY <1>9
<1>11. x \in Nat /\ y \in S /\ y \in Nat
  BY <1>4, <1>5, <1>10
<1>12. CASE x <= y
  <2>1. \A z \in S : z <= y
    BY <1>10, <1>12
  <2> QED BY <2>1, <1>4, <1>11
<1>13. CASE ~(x <= y)
  <2>1. \A z \in S : z <= x
    <3> SUFFICES ASSUME NEW z \in S PROVE z <= x
      OBVIOUS
    <3>1. z \in Nat
      BY <1>4
    <3>2. CASE z = x
      BY <3>2, <1>11
    <3>3. CASE z # x
      BY <3>3, <3>1, <1>10, <1>11, <1>13
    <3> QED BY <3>2, <3>3
  <2> QED BY <2>1, <1>4, <1>5
<1> QED BY <1>12, <1>13

\* What NetworkAssumption says of a network.
LEMMA NetworkFacts ==
    ASSUME NEW n \in Networks
    PROVE  /\ DOMAIN n \subseteq Layers /\ IsFiniteSet(DOMAIN n) /\ DOMAIN n \subseteq Nat \ {0}
           /\ \A c \in DOMAIN n : /\ n[c] \in Seq(Layers \X (Nat \ {0}))
                                  /\ Len(n[c]) \in Nat /\ DOMAIN n[c] = 1 .. Len(n[c])
           /\ \A c \in DOMAIN n : \A i \in DOMAIN n[c] :
                 /\ n[c][i][1] \in DOMAIN n /\ n[c][i][2] \in Nat \ {0}
                 /\ n[c][i] = <<n[c][i][1], n[c][i][2]>>
<1>1. /\ Layers \subseteq Nat \ {0} /\ IsFiniteSet(Layers)
      /\ DOMAIN n \subseteq Layers /\ IsNetwork(n)
      /\ \A c \in DOMAIN n : n[c] \in Seq(Layers \X (Nat \ {0}))
  BY NetworkAssumption
<1>2. IsFiniteSet(DOMAIN n)
  BY <1>1, FS_Subset
<1>3. ASSUME NEW c \in DOMAIN n
      PROVE  Len(n[c]) \in Nat /\ DOMAIN n[c] = 1 .. Len(n[c])
  BY <1>1
<1>4. ASSUME NEW c \in DOMAIN n, NEW i \in DOMAIN n[c]
      PROVE  /\ n[c][i][1] \in DOMAIN n /\ n[c][i][2] \in Nat \ {0}
             /\ n[c][i] = <<n[c][i][1], n[c][i][2]>>
  <2>1. <<c, i>> \in Links(n)
    BY DEF Links
  <2>2. n[c][i][1] \in DOMAIN n /\ n[c][i][2] \in Nat \ {0}
    BY <1>1, <2>1 DEF IsNetwork
  <2>3. n[c][i] \in Layers \X (Nat \ {0})
    BY <1>1
  <2> QED BY <2>2, <2>3
<1> QED BY <1>1, <1>2, <1>3, <1>4

\* Inputs come first.
LEMMA RankFacts ==
    ASSUME NEW n \in Networks
    PROVE  /\ \A l \in DOMAIN n : Rank(n)[l] \in Nat /\ Rank(n)[l] <= Cardinality(DOMAIN n)
           /\ Cardinality(DOMAIN n) \in Nat
           /\ \A c \in DOMAIN n : \A i \in DOMAIN n[c] : Rank(n)[n[c][i][1]] < Rank(n)[c]
<1>1. Cardinality(DOMAIN n) \in Nat
  BY NetworkFacts, FS_CardinalityType
<1>2. \E rank \in [DOMAIN n -> 1 .. Cardinality(DOMAIN n)] :
          \A k \in Links(n) : rank[n[k[1]][k[2]][1]] < rank[k[1]]
  BY NetworkAssumption DEF IsNetwork
<1>3. /\ Rank(n) \in [DOMAIN n -> 1 .. Cardinality(DOMAIN n)]
      /\ \A k \in Links(n) : Rank(n)[n[k[1]][k[2]][1]] < Rank(n)[k[1]]
  BY <1>2 DEF Rank
<1>4. ASSUME NEW c \in DOMAIN n, NEW i \in DOMAIN n[c]
      PROVE  Rank(n)[n[c][i][1]] < Rank(n)[c]
  <2>1. <<c, i>> \in Links(n)
    BY DEF Links
  <2> QED BY <1>3, <2>1
<1>5. \A l \in DOMAIN n : Rank(n)[l] \in 1 .. Cardinality(DOMAIN n)
  BY <1>3
<1> QED BY <1>1, <1>4, <1>5

\* Among some layers there is one that none of the others reads.
LEMMA TopLayer ==
    ASSUME NEW n \in Networks, NEW S, S \subseteq DOMAIN n, S # {}
    PROVE  \E l \in S : \A m \in S : Rank(n)[m] <= Rank(n)[l]
<1> DEFINE C == Cardinality(DOMAIN n)
           T == {C - Rank(n)[l] : l \in S}
<1>1. \A l \in S : Rank(n)[l] \in Nat /\ Rank(n)[l] <= C /\ C \in Nat
  BY RankFacts
<1> HIDE DEF C
<1>2. T \subseteq Nat /\ T # {}
  BY <1>1
<1>3. PICK x \in T : \A y \in T : x <= y
  <2> HIDE DEF T
  <2> QED BY <1>2, LeastNumber
<1>4. PICK l \in S : x = C - Rank(n)[l]
  BY <1>3
<1>5. ASSUME NEW m \in S PROVE Rank(n)[m] <= Rank(n)[l]
  <2>1. C - Rank(n)[l] <= C - Rank(n)[m]
    BY <1>3, <1>4
  <2> QED BY <2>1, <1>1
<1> QED BY <1>5

\* The inputs connected to a port are finitely many.
LEMMA ConsumerFacts ==
    ASSUME NEW n \in Networks, NEW p
    PROVE  /\ IsFiniteSet(Consumers(n, p))
           /\ Consumers(n, p) = {k \in Links(n) : n[k[1]][k[2]] = p}
           /\ IsFiniteSet(Links(n))
           /\ \A k : k \in Links(n) <=> \E c \in DOMAIN n : \E i \in DOMAIN n[c] : k = <<c, i>>
<1> DEFINE f == [c \in DOMAIN n |-> {<<c, i>> : i \in DOMAIN n[c]}]
           T == {{<<c, i>> : i \in DOMAIN n[c]} : c \in DOMAIN n}
<1>1. IsFiniteSet(T)
  <2>1. f \in Surjection(DOMAIN n, T)
    BY DEF Surjection
  <2>2. IsFiniteSet(DOMAIN n)
    BY NetworkFacts
  <2> HIDE DEF f, T
  <2> QED BY <2>1, <2>2, FS_Surjection
<1>2. ASSUME NEW c \in DOMAIN n PROVE IsFiniteSet({<<c, i>> : i \in DOMAIN n[c]})
  <2> DEFINE U == {<<c, i>> : i \in DOMAIN n[c]}
             g == [i \in DOMAIN n[c] |-> <<c, i>>]
  <2>1. g \in Surjection(DOMAIN n[c], U)
    BY DEF Surjection
  <2>2. IsFiniteSet(DOMAIN n[c])
    <3>1. Len(n[c]) \in Int /\ DOMAIN n[c] = 1 .. Len(n[c])
      BY NetworkFacts
    <3> QED BY <3>1, FS_Interval
  <2> HIDE DEF g, U
  <2>3. IsFiniteSet(U)
    BY <2>1, <2>2, FS_Surjection
  <2> QED BY <2>3 DEF U
<1>3. \A t \in T : IsFiniteSet(t)
  BY <1>2
<1>4. IsFiniteSet(UNION T)
  <2> HIDE DEF T
  <2> QED BY <1>1, <1>3, FS_UNION
<1>5. Links(n) = UNION T
  BY DEF Links
<1>6. IsFiniteSet(Links(n))
  BY <1>4, <1>5
<1>7. Consumers(n, p) \subseteq Links(n) /\ Consumers(n, p) = {k \in Links(n) : n[k[1]][k[2]] = p}
  BY DEF Consumers
<1>8. IsFiniteSet(Consumers(n, p))
  BY <1>6, <1>7, FS_Subset
<1>9. \A k : k \in Links(n) <=> \E c \in DOMAIN n : \E i \in DOMAIN n[c] : k = <<c, i>>
  BY DEF Links
<1> QED BY <1>6, <1>7, <1>8, <1>9

\* Outputs are numbered up to the largest that is connected; a sink has none.
LEMMA OutputFacts ==
    ASSUME NEW n \in Networks, NEW l
    PROVE  /\ OutputCount(n, l) \in Nat /\ Outputs(n, l) = 1 .. OutputCount(n, l)
           /\ \A c \in DOMAIN n : \A i \in DOMAIN n[c] : n[c][i][1] = l => n[c][i][2] \in Outputs(n, l)
           /\ IsSink(n, l) => \A c \in DOMAIN n : \A i \in DOMAIN n[c] : n[c][i][1] # l
           /\ ~IsSink(n, l) => /\ OutputCount(n, l) \in Outputs(n, l)
                               /\ \E c \in DOMAIN n : \E i \in DOMAIN n[c] :
                                     n[c][i] = <<l, OutputCount(n, l)>>
<1> DEFINE L == {j \in Links(n) : n[j[1]][j[2]][1] = l}
           used == {n[k[1]][k[2]][2] : k \in L}
           f == [k \in L |-> n[k[1]][k[2]][2]]
<1>1. OutputCount(n, l) = IF used = {} THEN 0 ELSE CHOOSE o \in used : \A u \in used : u <= o
  BY DEF OutputCount
<1>2. IsFiniteSet(used)
  <2>1. f \in Surjection(L, used)
    BY DEF Surjection
  <2>2. L \subseteq Links(n) /\ IsFiniteSet(Links(n))
    BY ConsumerFacts
  <2> HIDE DEF L, used, f
  <2>3. IsFiniteSet(L)
    BY <2>2, FS_Subset
  <2> QED BY <2>1, <2>3, FS_Surjection
<1>3. \A u : u \in used <=> \E c \in DOMAIN n : \E i \in DOMAIN n[c] : n[c][i][1] = l /\ u = n[c][i][2]
  <2>1. \A k : k \in Links(n) <=> \E c \in DOMAIN n : \E i \in DOMAIN n[c] : k = <<c, i>>
    BY ConsumerFacts
  <2>2. ASSUME NEW u \in used
        PROVE  \E c \in DOMAIN n : \E i \in DOMAIN n[c] : n[c][i][1] = l /\ u = n[c][i][2]
    <3>1. PICK k \in Links(n) : n[k[1]][k[2]][1] = l /\ u = n[k[1]][k[2]][2]
      OBVIOUS
    <3>2. PICK c \in DOMAIN n : \E i \in DOMAIN n[c] : k = <<c, i>>
      BY <2>1
    <3>3. PICK i \in DOMAIN n[c] : k = <<c, i>>
      BY <3>2
    <3>4. k[1] = c /\ k[2] = i
      BY <3>3
    <3> QED BY <3>1, <3>4
  <2>3. ASSUME NEW c \in DOMAIN n, NEW i \in DOMAIN n[c], n[c][i][1] = l
        PROVE  n[c][i][2] \in used
    <3>1. <<c, i>> \in L /\ <<c, i>>[1] = c /\ <<c, i>>[2] = i
      BY <2>1, <2>3
    <3> QED BY <3>1
  <2> QED BY <2>2, <2>3
<1> HIDE DEF used, L, f
<1>4. used \subseteq Nat \ {0}
  <2> SUFFICES ASSUME NEW u \in used PROVE u \in Nat \ {0}
    OBVIOUS
  <2>1. PICK c \in DOMAIN n : \E i \in DOMAIN n[c] : n[c][i][1] = l /\ u = n[c][i][2]
    BY <1>3
  <2>2. PICK i \in DOMAIN n[c] : n[c][i][1] = l /\ u = n[c][i][2]
    BY <2>1
  <2> QED BY <2>2, NetworkFacts
<1>5. CASE used = {}
  <2>1. OutputCount(n, l) = 0 /\ IsSink(n, l)
    BY <1>1, <1>5 DEF IsSink
  <2> QED BY <2>1, <1>3, <1>5 DEF Outputs
<1>6. CASE used # {}
  <2>1. \E o \in used : \A u \in used : u <= o
    BY <1>2, <1>4, <1>6, GreatestNumber
  <2>2. OutputCount(n, l) \in used /\ \A u \in used : u <= OutputCount(n, l)
    BY <1>1, <1>6, <2>1
  <2>a. PICK c \in DOMAIN n : \E i \in DOMAIN n[c] : n[c][i][1] = l /\ OutputCount(n, l) = n[c][i][2]
    BY <2>2, <1>3
  <2>3. PICK i \in DOMAIN n[c] : n[c][i][1] = l /\ OutputCount(n, l) = n[c][i][2]
    BY <2>a
  <2>4. n[c][i] = <<l, OutputCount(n, l)>>
    BY <2>3, NetworkFacts
  <2>5. OutputCount(n, l) \in Nat \ {0}
    BY <2>2, <1>4
  <2>6. ~IsSink(n, l)
    BY <2>5 DEF IsSink
  <2>7. \A u \in used : u \in Outputs(n, l)
    BY <2>2, <2>5, <1>4 DEF Outputs
  <2> QED BY <1>3, <2>2, <2>4, <2>5, <2>6, <2>7 DEF Outputs
<1> QED BY <1>5, <1>6

-----------------------------------------------------------------------------
(* The calls in progress. *)

Frames == [layer : DOMAIN net, next : Nat \ {0}]

Entered(l, i) == Calls(l) /\ EnterAt(l, i)
Skipped(l) == Calls(l) /\ Skip(l)
Left(l) == Returned(l) /\ Leave

\* What the moves on the stack are for the stack of calls.
LEMMA AdvanceFacts ==
    ASSUME NEW s \in Seq(Frames)
    PROVE  /\ Advance(s) \in Seq(Frames) /\ Len(Advance(s)) = Len(s) /\ Len(s) \in Nat
           /\ \A k \in 1 .. Len(s) : /\ Advance(s)[k].layer = s[k].layer
                                     /\ k < Len(s) => Advance(s)[k] = s[k]
                                     /\ k = Len(s) => Advance(s)[k].next = s[k].next + 1
<1>0. Len(s) \in Nat /\ \A k \in 1 .. Len(s) : s[k] \in Frames
  BY ElementOfSeq, LenProperties
<1>1. CASE s = <<>>
  BY <1>1 DEF Advance
<1>2. CASE s # <<>>
  <2> DEFINE n == Len(s)
             top == [s[n] EXCEPT !.next = @ + 1]
  <2>1. n \in Nat /\ n \in 1 .. Len(s) /\ \A k \in 1 .. n : s[k] \in Frames
    BY <1>0, <1>2, EmptySeq
  <2>2. top \in Frames /\ top.layer = s[n].layer /\ top.next = s[n].next + 1
    BY <2>1 DEF Frames
  <2>3. Advance(s) = [s EXCEPT ![n] = top]
    BY <1>2 DEF Advance
  <2> HIDE DEF top
  <2>4. /\ [s EXCEPT ![n] = top] \in Seq(Frames) /\ Len([s EXCEPT ![n] = top]) = Len(s)
        /\ \A j \in 1 .. Len(s) : [s EXCEPT ![n] = top][j] = IF j = n THEN top ELSE s[j]
    BY <2>1, <2>2, ExceptSeq
  <2> QED BY <2>1, <2>2, <2>3, <2>4
<1> QED BY <1>1, <1>2

LEMMA FrontFacts ==
    ASSUME NEW s \in Seq(Frames), s # <<>>
    PROVE  /\ SubSeq(s, 1, Len(s) - 1) \in Seq(Frames) /\ Len(SubSeq(s, 1, Len(s) - 1)) = Len(s) - 1
           /\ Len(s) \in Nat \ {0}
           /\ \A k \in 1 .. Len(s) - 1 : SubSeq(s, 1, Len(s) - 1)[k] = s[k]
<1>0. Len(s) \in Nat \ {0} /\ \A k \in 1 .. Len(s) : s[k] \in Frames
  BY ElementOfSeq, LenProperties, EmptySeq
<1>1. 1 \in Int /\ Len(s) - 1 \in Int /\ \A k \in 1 .. Len(s) - 1 : s[k] \in Frames
  BY <1>0
<1>2. /\ SubSeq(s, 1, Len(s) - 1) \in Seq(Frames)
      /\ Len(SubSeq(s, 1, Len(s) - 1)) = IF 1 <= Len(s) - 1 THEN Len(s) - 1 - 1 + 1 ELSE 0
      /\ \A i \in 1 .. Len(s) - 1 - 1 + 1 : SubSeq(s, 1, Len(s) - 1)[i] = s[1 + i - 1]
  BY <1>1, SubSeqProperties
<1> DEFINE front == SubSeq(s, 1, Len(s) - 1)
           size == Len(front)
<1>a. front \in Seq(Frames) /\ size = IF 1 <= Len(s) - 1 THEN Len(s) - 1 - 1 + 1 ELSE 0
  BY <1>2
<1> HIDE DEF front, size
<1>3. \A k \in 1 .. Len(s) - 1 : k \in 1 .. Len(s) - 1 - 1 + 1 /\ 1 + k - 1 = k
  BY <1>0
<1>4. front \in Seq(Frames) /\ Len(front) = Len(s) - 1
  <2> DEFINE n == Len(s)
  <2> HIDE DEF n
  <2>a. n \in Nat \ {0} /\ size = IF 1 <= n - 1 THEN n - 1 - 1 + 1 ELSE 0
    BY <1>0, <1>a DEF n
  <2>1. size = n - 1
    BY <2>a
  <2> QED BY <1>a, <2>1 DEF size, n
<1>5. \A k \in 1 .. Len(s) - 1 : front[k] = s[k]
  BY <1>2, <1>3 DEF front
<1> QED BY <1>0, <1>4, <1>5 DEF front

\* The stack as a function.
LEMMA StackFacts ==
    ASSUME TypeI, CallI
    PROVE  /\ Len(stack) \in Nat /\ DOMAIN stack = 1 .. Len(stack) /\ stack \in Seq(Frames)
           /\ \A k \in 1 .. Len(stack) :
                 /\ stack[k].layer \in DOMAIN net /\ stack[k].next \in Nat \ {0}
                 /\ Rank(net)[stack[k].layer] \in Nat
           /\ stack # <<>> <=> Len(stack) > 0
           /\ net \in Networks /\ DOMAIN net \subseteq Nat \ {0} /\ DOMAIN net \subseteq Layers
           /\ \A l \in Layers : OnStack(l) <=> \E k \in 1 .. Len(stack) : stack[k].layer = l
<1>1. stack \in Seq(Frames) /\ net \in Networks
  BY DEF CallI, TypeI, Frames
<1>2. Len(stack) \in Nat /\ DOMAIN stack = 1 .. Len(stack)
  BY <1>1, LenProperties
<1>3. ASSUME NEW k \in 1 .. Len(stack)
      PROVE  /\ stack[k].layer \in DOMAIN net /\ stack[k].next \in Nat \ {0}
             /\ Rank(net)[stack[k].layer] \in Nat
  <2>1. stack[k] \in Frames
    BY <1>1, ElementOfSeq
  <2> QED BY <1>1, <2>1, RankFacts DEF Frames
<1>4. stack # <<>> <=> Len(stack) > 0
  BY <1>1, <1>2, EmptySeq
<1>5. DOMAIN net \subseteq Nat \ {0} /\ DOMAIN net \subseteq Layers
  BY <1>1, NetworkFacts
<1>6. \A l \in Layers : OnStack(l) <=> \E k \in 1 .. Len(stack) : stack[k].layer = l
  BY <1>2 DEF OnStack
<1> QED BY <1>1, <1>2, <1>3, <1>4, <1>5, <1>6

\* A layer that is called is not being called already, and is the next sink or the next
\* input of the call on top.
LEMMA CallFacts ==
    ASSUME TypeI, CallI, NEW l \in Layers, Calls(l)
    PROVE  /\ l \in DOMAIN net /\ ~OnStack(l)
           /\ \A k \in 1 .. Len(stack) : Rank(net)[l] < Rank(net)[stack[k].layer]
           /\ stack = <<>> =>
                 /\ IsSink(net, l) /\ l > sink
                 /\ \A m \in DOMAIN net : IsSink(net, m) /\ m <= l => m = l \/ m <= sink
           /\ stack # <<>> =>
                 /\ Len(stack) \in 1 .. Len(stack) /\ Top = stack[Len(stack)]
                 /\ Top.layer \in DOMAIN net /\ Top.next \in DOMAIN net[Top.layer]
                 /\ Input(Top.layer, Top.next) = l /\ ~IsSink(net, l)
<1>1. /\ Len(stack) \in Nat /\ DOMAIN stack = 1 .. Len(stack) /\ net \in Networks
      /\ DOMAIN net \subseteq Nat \ {0}
      /\ \A k \in 1 .. Len(stack) : stack[k].layer \in DOMAIN net /\ Rank(net)[stack[k].layer] \in Nat
      /\ stack # <<>> <=> Len(stack) > 0
      /\ OnStack(l) <=> \E k \in 1 .. Len(stack) : stack[k].layer = l
  BY StackFacts
<1>2. sink \in Nat
  BY DEF CallI
<1>3. CASE stack = <<>>
  <2>1. l \in SinksLeft /\ \A m \in SinksLeft : l <= m
    BY <1>3 DEF Calls
  <2>2. l \in DOMAIN net /\ IsSink(net, l) /\ l > sink
    BY <2>1 DEF SinksLeft
  <2>3. ASSUME NEW m \in DOMAIN net, IsSink(net, m), m <= l PROVE m = l \/ m <= sink
    <3>1. CASE m \in SinksLeft
      <4>1. l <= m
        BY <2>1, <3>1
      <4> QED BY <4>1, <2>2, <2>3, <1>1
    <3>2. CASE m \notin SinksLeft
      <4>1. ~(m > sink)
        BY <2>3, <3>2 DEF SinksLeft
      <4> QED BY <4>1, <1>1, <1>2
    <3> QED BY <3>1, <3>2
  <2>4. Len(stack) = 0
    BY <1>1, <1>3
  <2> QED BY <1>1, <1>3, <2>2, <2>3, <2>4
<1>4. CASE stack # <<>>
  <2> DEFINE n == Len(stack)
             c == stack[n].layer
             i == stack[n].next
  <2>1. n \in 1 .. n /\ Top = stack[n] /\ n \in Nat
    BY <1>1, <1>4 DEF Top
  <2>2. c \in DOMAIN net /\ i \in DOMAIN net[c] /\ Input(c, i) = l
    BY <1>1, <1>4, <2>1 DEF Calls, Input
  <2>3. l \in DOMAIN net /\ Rank(net)[l] < Rank(net)[c] /\ Rank(net)[l] \in Nat
    BY <1>1, <2>2, NetworkFacts, RankFacts DEF Input
  <2>4. ASSUME NEW k \in 1 .. n PROVE Rank(net)[l] < Rank(net)[stack[k].layer]
    <3>1. CASE k = n
      BY <2>3, <3>1
    <3>2. CASE k # n
      <4>0. k < n
        BY <2>1, <3>2
      <4>1. k \in DOMAIN stack /\ n \in DOMAIN stack /\ k < n
        BY <1>1, <2>1, <4>0
      <4>2. Rank(net)[c] < Rank(net)[stack[k].layer]
        BY <4>1 DEF CallI
      <4>3. Rank(net)[stack[k].layer] \in Nat /\ Rank(net)[c] \in Nat
        BY <1>1, <2>1
      <4> QED BY <2>3, <4>2, <4>3
    <3> QED BY <3>1, <3>2
  <2>5. ~OnStack(l)
    <3> SUFFICES ASSUME NEW k \in 1 .. n, stack[k].layer = l PROVE FALSE
      BY <1>1
    <3> QED BY <2>3, <2>4
  <2>6. ~IsSink(net, l)
    BY <1>1, <2>2, OutputFacts DEF Input
  <2> QED BY <1>4, <2>1, <2>2, <2>3, <2>4, <2>5, <2>6
<1> QED BY <1>3, <1>4

\* A call begins.
LEMMA EnterKeeps ==
    ASSUME TypeI, CallI, NEW l \in Layers, NEW i \in Nat \ {0}, Entered(l, i), net' = net,
           ~AtRest, phase # "recheck"
    PROVE  /\ CallI' /\ phase' = phase /\ sink' = CalledSink(l)
           /\ Len(stack') = Len(stack) + 1 /\ DOMAIN stack' = 1 .. Len(stack) + 1
           /\ stack'[Len(stack) + 1] = [layer |-> l, next |-> i]
           /\ \A k \in 1 .. Len(stack) : stack'[k] = stack[k]
           /\ \A m \in Layers : OnStack(m)' <=> OnStack(m) \/ m = l
<1> DEFINE n == Len(stack)
           new == [layer |-> l, next |-> i]
<1>1. /\ n \in Nat /\ DOMAIN stack = 1 .. n /\ stack \in Seq(Frames)
      /\ \A k \in 1 .. n : stack[k].layer \in DOMAIN net /\ Rank(net)[stack[k].layer] \in Nat
      /\ stack # <<>> <=> n > 0
      /\ DOMAIN net \subseteq Nat \ {0}
      /\ \A m \in Layers : OnStack(m) <=> \E k \in 1 .. n : stack[k].layer = m
  BY StackFacts
<1>2. /\ l \in DOMAIN net
      /\ \A k \in 1 .. n : Rank(net)[l] < Rank(net)[stack[k].layer]
      /\ stack = <<>> => IsSink(net, l)
      /\ stack # <<>> => /\ n \in 1 .. n /\ Top = stack[n] /\ Top.next \in DOMAIN net[Top.layer]
                         /\ Input(Top.layer, Top.next) = l
  BY CallFacts DEF Entered
<1>3. stack' = Append(stack, new) /\ sink' = CalledSink(l) /\ phase' = phase
  BY DEF Entered, EnterAt
<1>4. new \in Frames /\ new.layer = l /\ new.next = i
  BY <1>2 DEF Frames
<1> HIDE DEF new
<1>5. /\ stack' \in Seq(Frames) /\ Len(stack') = n + 1 /\ stack' # <<>>
      /\ \A k \in 1 .. n : stack'[k] = stack[k]
      /\ stack'[n + 1] = new
  BY <1>1, <1>3, <1>4, AppendProperties
<1>6. DOMAIN stack' = 1 .. n + 1
  BY <1>5, LenProperties
<1> HIDE DEF n
<1>7. ASSUME NEW k \in 1 .. n
      PROVE  stack'[k].next \in DOMAIN net[stack'[k].layer] /\ Input(stack'[k].layer, stack'[k].next) = stack'[k + 1].layer
  <2>1. CASE k = n
    BY <1>1, <1>2, <1>4, <1>5, <2>1
  <2>2. CASE k # n
    <3>1. k \in 1 .. n - 1 /\ k + 1 \in 1 .. n
      BY <1>1, <2>2
    <3>2. stack[k].next \in DOMAIN net[stack[k].layer] /\ Input(stack[k].layer, stack[k].next) = stack[k + 1].layer
      BY <3>1 DEF CallI, n
    <3> QED BY <1>5, <3>1, <3>2
  <2> QED BY <2>1, <2>2
<1>8. ASSUME NEW j \in 1 .. n + 1, NEW k \in 1 .. n + 1, j < k
      PROVE  Rank(net)[stack'[k].layer] < Rank(net)[stack'[j].layer]
  <2>1. j \in 1 .. n
    BY <1>1, <1>8
  <2>2. CASE k = n + 1
    BY <1>2, <1>4, <1>5, <2>1, <2>2
  <2>3. CASE k # n + 1
    <3>1. k \in 1 .. n
      BY <1>1, <2>3
    <3> QED BY <1>1, <1>5, <1>8, <2>1, <3>1 DEF CallI
  <2> QED BY <2>2, <2>3
<1>9. stack'[1].layer = sink' /\ IsSink(net, sink') /\ sink' \in Nat
  <2>1. CASE stack = <<>>
    <3>1. n = 0
      BY <1>1, <2>1
    <3> QED BY <1>1, <1>2, <1>3, <1>4, <1>5, <2>1, <3>1 DEF CalledSink
  <2>2. CASE stack # <<>>
    <3>1. 1 \in 1 .. n
      BY <1>1, <2>2
    <3> QED BY <1>3, <1>5, <2>2, <3>1 DEF CalledSink, CallI
  <2> QED BY <2>1, <2>2
<1>10. \A m \in Layers : OnStack(m)' <=> OnStack(m) \/ m = l
  <2>1. \A m \in Layers : OnStack(m)' <=> \E k \in 1 .. n + 1 : stack'[k].layer = m
    BY <1>6 DEF OnStack
  <2> QED BY <1>1, <1>4, <1>5, <2>1
<1>11. ~AtRest' /\ phase' # "recheck"
  BY <1>3 DEF AtRest
<1>12. CallI'
  <2>1. stack' \in Seq(Frames)' /\ sink' \in Nat
    BY <1>5, <1>9 DEF Frames
  <2>2. \A k \in 1 .. Len(stack') - 1 :
            /\ stack'[k].next \in DOMAIN net'[stack'[k].layer]
            /\ net'[stack'[k].layer][stack'[k].next][1] = stack'[k + 1].layer
    <3>1. Len(stack') - 1 = n
      BY <1>1, <1>5
    <3> QED BY <1>7, <3>1 DEF Input
  <2>3. \A j, k \in DOMAIN stack' : j < k => Rank(net')[stack'[k].layer] < Rank(net')[stack'[j].layer]
    BY <1>6, <1>8
  <2>4. stack' # <<>> => stack'[1].layer = sink' /\ IsSink(net', sink')
    BY <1>9
  <2>5. AtRest' \/ phase' = "recheck" => stack' = <<>>
    BY <1>11
  <2> QED BY <2>1, <2>2, <2>3, <2>4, <2>5 DEF CallI, Frames, Input
<1> QED BY <1>3, <1>5, <1>6, <1>10, <1>12 DEF n, new

\* The calls that go on are still a path when the one on top has moved to its next input.
LEMMA PathKept ==
    ASSUME TypeI, CallI, net' = net, NEW n \in Nat, n <= Len(stack),
           stack' \in Seq(Frames), Len(stack') = n,
           \A k \in 1 .. n : stack'[k].layer = stack[k].layer /\ (k < n => stack'[k] = stack[k]),
           sink' \in Nat, n > 0 => sink' = sink, ~AtRest', phase' # "recheck"
    PROVE  /\ CallI' /\ DOMAIN stack' = 1 .. n
           /\ \A m \in Layers : OnStack(m)' <=> \E k \in 1 .. n : stack[k].layer = m
<1>1. /\ Len(stack) \in Nat /\ DOMAIN stack = 1 .. Len(stack)
      /\ stack # <<>> <=> Len(stack) > 0
  BY StackFacts
<1>2. /\ DOMAIN stack' = 1 .. n /\ (stack' # <<>> => n > 0)
  BY LenProperties, EmptySeq
<1>3. \A m \in Layers : OnStack(m)' <=> \E k \in 1 .. n : stack[k].layer = m
  <2>1. \A m \in Layers : OnStack(m)' <=> \E k \in 1 .. n : stack'[k].layer = m
    BY <1>2 DEF OnStack
  <2> QED BY <2>1
<1>4. ASSUME NEW k \in 1 .. n - 1
      PROVE  /\ stack'[k].next \in DOMAIN net[stack'[k].layer]
             /\ net[stack'[k].layer][stack'[k].next][1] = stack'[k + 1].layer
  <2>1. k \in 1 .. n /\ k < n /\ k + 1 \in 1 .. n /\ k \in 1 .. Len(stack) - 1
    BY <1>1
  <2>2. stack'[k] = stack[k] /\ stack'[k + 1].layer = stack[k + 1].layer
    BY <2>1
  <2> QED BY <2>1, <2>2 DEF CallI, Input
<1>5. ASSUME NEW j \in 1 .. n, NEW k \in 1 .. n, j < k
      PROVE  Rank(net)[stack'[k].layer] < Rank(net)[stack'[j].layer]
  <2>1. j \in DOMAIN stack /\ k \in DOMAIN stack
    BY <1>1
  <2>2. Rank(net)[stack[k].layer] < Rank(net)[stack[j].layer]
    BY <1>5, <2>1 DEF CallI
  <2> QED BY <2>2
<1>6. n > 0 => stack'[1].layer = sink' /\ IsSink(net, sink')
  <2> SUFFICES ASSUME n > 0 PROVE stack'[1].layer = sink' /\ IsSink(net, sink')
    OBVIOUS
  <2>1. 1 \in 1 .. n /\ stack # <<>>
    BY <1>1
  <2> QED BY <2>1 DEF CallI
<1>7. CallI'
  <2>1. \A k \in 1 .. Len(stack') - 1 :
            /\ stack'[k].next \in DOMAIN net'[stack'[k].layer]
            /\ net'[stack'[k].layer][stack'[k].next][1] = stack'[k + 1].layer
    BY <1>4
  <2>2. \A j, k \in DOMAIN stack' : j < k => Rank(net')[stack'[k].layer] < Rank(net')[stack'[j].layer]
    BY <1>2, <1>5
  <2>3. stack' # <<>> => stack'[1].layer = sink' /\ IsSink(net', sink')
    BY <1>2, <1>6
  <2>4. stack' \in Seq(Frames)' /\ (AtRest' \/ phase' = "recheck" => stack' = <<>>)
    BY DEF Frames
  <2> QED BY <2>1, <2>2, <2>3, <2>4 DEF CallI, Frames, Input
<1> QED BY <1>2, <1>3, <1>7

\* A call that has nothing to do: the one on top goes on with its next input.
LEMMA SkipKeeps ==
    ASSUME TypeI, CallI, NEW l \in Layers, Skipped(l), net' = net, ~AtRest, phase # "recheck"
    PROVE  /\ CallI' /\ phase' = phase /\ sink' = CalledSink(l)
           /\ Len(stack') = Len(stack) /\ DOMAIN stack' = 1 .. Len(stack)
           /\ \A k \in 1 .. Len(stack) :
                 /\ stack'[k].layer = stack[k].layer
                 /\ k < Len(stack) => stack'[k] = stack[k]
                 /\ k = Len(stack) => stack'[k].next = stack[k].next + 1
           /\ \A m \in Layers : OnStack(m)' <=> OnStack(m)
<1>1. /\ Len(stack) \in Nat /\ stack \in Seq(Frames)
      /\ stack # <<>> <=> Len(stack) > 0
      /\ \A m \in Layers : OnStack(m) <=> \E k \in 1 .. Len(stack) : stack[k].layer = m
      /\ DOMAIN net \subseteq Nat \ {0}
  BY StackFacts
<1>2. stack' = Advance(stack) /\ sink' = CalledSink(l) /\ phase' = phase
  BY DEF Skipped, Skip
<1>3. /\ stack' \in Seq(Frames) /\ Len(stack') = Len(stack)
      /\ \A k \in 1 .. Len(stack) :
            /\ stack'[k].layer = stack[k].layer
            /\ k < Len(stack) => stack'[k] = stack[k]
            /\ k = Len(stack) => stack'[k].next = stack[k].next + 1
  BY <1>1, <1>2, AdvanceFacts
<1>4. sink' \in Nat /\ (Len(stack) > 0 => sink' = sink)
  <2>1. l \in DOMAIN net
    BY CallFacts DEF Skipped
  <2>2. sink \in Nat
    BY DEF CallI
  <2> QED BY <1>1, <1>2, <2>1, <2>2 DEF CalledSink
<1>5. ~AtRest' /\ phase' # "recheck" /\ Len(stack) <= Len(stack)
  BY <1>1, <1>2 DEF AtRest
<1>6. /\ CallI' /\ DOMAIN stack' = 1 .. Len(stack)
      /\ \A m \in Layers : OnStack(m)' <=> \E k \in 1 .. Len(stack) : stack[k].layer = m
  BY <1>1, <1>3, <1>4, <1>5, PathKept
<1> QED BY <1>1, <1>2, <1>3, <1>6

\* The call on top returns.
LEMMA LeaveKeeps ==
    ASSUME TypeI, CallI, NEW l \in Layers, Left(l), net' = net, ~AtRest, phase # "recheck"
    PROVE  /\ CallI' /\ phase' = phase /\ sink' = sink
           /\ l \in DOMAIN net /\ OnStack(l)
           /\ Len(stack) \in 1 .. Len(stack) /\ stack[Len(stack)].layer = l
           /\ \A i \in DOMAIN net[l] : i < stack[Len(stack)].next
           /\ Len(stack') = Len(stack) - 1 /\ DOMAIN stack' = 1 .. Len(stack) - 1
           /\ \A k \in 1 .. Len(stack) - 1 :
                 /\ stack[k].layer # l
                 /\ stack'[k].layer = stack[k].layer
                 /\ k < Len(stack) - 1 => stack'[k] = stack[k]
                 /\ k = Len(stack) - 1 => /\ stack'[k].next = stack[k].next + 1
                                          /\ stack[k].next \in DOMAIN net[stack[k].layer]
                                          /\ Input(stack[k].layer, stack[k].next) = l
           /\ \A m \in Layers : OnStack(m)' <=> OnStack(m) /\ m # l
<1> DEFINE front == SubSeq(stack, 1, Len(stack) - 1)
<1>1. /\ Len(stack) \in Nat /\ stack \in Seq(Frames) /\ DOMAIN stack = 1 .. Len(stack)
      /\ stack # <<>> <=> Len(stack) > 0
      /\ \A k \in 1 .. Len(stack) : /\ stack[k].layer \in DOMAIN net /\ stack[k].next \in Nat \ {0}
                                    /\ Rank(net)[stack[k].layer] \in Nat
      /\ \A m \in Layers : OnStack(m) <=> \E k \in 1 .. Len(stack) : stack[k].layer = m
      /\ net \in Networks
  BY StackFacts
<1>2. /\ stack # <<>> /\ stack[Len(stack)].layer = l /\ stack[Len(stack)].next > Len(net[l])
  BY DEF Left, Returned, Top
<1>3. /\ Len(stack) \in 1 .. Len(stack) /\ l \in DOMAIN net /\ OnStack(l)
      /\ \A i \in DOMAIN net[l] : i < stack[Len(stack)].next
  <2>1. Len(stack) \in 1 .. Len(stack) /\ l \in DOMAIN net
    BY <1>1, <1>2
  <2>2. Len(net[l]) \in Nat /\ DOMAIN net[l] = 1 .. Len(net[l]) /\ stack[Len(stack)].next \in Nat
    BY <1>1, <2>1, NetworkFacts
  <2>3. \A i \in DOMAIN net[l] : i < stack[Len(stack)].next
    BY <1>2, <2>2
  <2> QED BY <1>1, <1>2, <2>1, <2>3
<1>4. stack' = Advance(front) /\ sink' = sink /\ phase' = phase
  BY DEF Left, Leave
<1>5. /\ front \in Seq(Frames) /\ Len(front) = Len(stack) - 1
      /\ \A k \in 1 .. Len(stack) - 1 : front[k] = stack[k]
  BY <1>1, <1>2, FrontFacts
<1> HIDE DEF front
<1>6. /\ stack' \in Seq(Frames) /\ Len(stack') = Len(front)
      /\ \A k \in 1 .. Len(front) : /\ stack'[k].layer = front[k].layer
                                    /\ k < Len(front) => stack'[k] = front[k]
                                    /\ k = Len(front) => stack'[k].next = front[k].next + 1
  BY <1>4, <1>5, AdvanceFacts
<1>7. /\ Len(stack') = Len(stack) - 1
      /\ \A k \in 1 .. Len(stack) - 1 : /\ stack'[k].layer = stack[k].layer
                                        /\ k < Len(stack) - 1 => stack'[k] = stack[k]
                                        /\ k = Len(stack) - 1 => stack'[k].next = stack[k].next + 1
  BY <1>5, <1>6
<1>8. ASSUME NEW k \in 1 .. Len(stack) - 1
      PROVE  /\ stack[k].layer # l
             /\ k = Len(stack) - 1 => /\ stack[k].next \in DOMAIN net[stack[k].layer]
                                      /\ Input(stack[k].layer, stack[k].next) = l
  <2>1. k \in 1 .. Len(stack) /\ k \in DOMAIN stack /\ Len(stack) \in DOMAIN stack /\ k < Len(stack)
    BY <1>1, <1>3
  <2>2. Rank(net)[l] < Rank(net)[stack[k].layer]
    BY <1>2, <2>1 DEF CallI
  <2>3. stack[k].layer # l
    BY <1>1, <1>2, <1>3, <2>1, <2>2
  <2>4. ASSUME k = Len(stack) - 1 PROVE k + 1 = Len(stack)
    BY <1>1, <2>4
  <2>5. stack[k].next \in DOMAIN net[stack[k].layer] /\ Input(stack[k].layer, stack[k].next) = stack[k + 1].layer
    BY DEF CallI
  <2> QED BY <1>2, <2>3, <2>4, <2>5
<1>9. sink' \in Nat /\ ~AtRest' /\ phase' # "recheck" /\ Len(stack) - 1 \in Nat /\ Len(stack) - 1 <= Len(stack)
  BY <1>1, <1>3, <1>4 DEF AtRest, CallI
<1>10. /\ CallI' /\ DOMAIN stack' = 1 .. Len(stack) - 1
       /\ \A m \in Layers : OnStack(m)' <=> \E k \in 1 .. Len(stack) - 1 : stack[k].layer = m
  BY <1>4, <1>6, <1>7, <1>9, PathKept
<1>11. \A m \in Layers : OnStack(m)' <=> OnStack(m) /\ m # l
  <2> SUFFICES ASSUME NEW m \in Layers PROVE OnStack(m)' <=> OnStack(m) /\ m # l
    OBVIOUS
  <2>1. ASSUME NEW k \in 1 .. Len(stack) - 1, stack[k].layer = m PROVE OnStack(m) /\ m # l
    <3>1. k \in 1 .. Len(stack)
      BY <1>1
    <3> QED BY <1>1, <1>8, <2>1, <3>1
  <2>2. ASSUME NEW k \in 1 .. Len(stack), stack[k].layer = m, m # l PROVE k \in 1 .. Len(stack) - 1
    <3>1. k # Len(stack)
      BY <1>2, <2>2
    <3>2. Len(stack) \in Nat
      BY <1>1
    <3> QED BY <3>1, <3>2
  <2> QED BY <1>1, <1>10, <2>1, <2>2
<1> QED BY <1>3, <1>2, <1>4, <1>7, <1>8, <1>10, <1>11

-----------------------------------------------------------------------------
(* The inductive invariant. *)

PassI == /\ ForwardI /\ NeedI /\ SettledI /\ InDiffsI
         /\ TrainedI /\ CountI /\ DiffsI /\ PendingI

NetworkI == TypeI /\ CallI /\ PassI

\* Nothing is being called when a phase begins.
LEMMA EmptyStack ==
    ASSUME stack' = <<>>, sink' \in Nat
    PROVE  CallI' /\ DOMAIN stack' = {} /\ \A m \in Layers : ~OnStack(m)'
<1>1. DOMAIN stack' = {} /\ Len(stack') = 0 /\ stack' \in Seq([layer : DOMAIN net', next : Nat \ {0}])
  BY EmptySeq
<1>2. \A k \in 1 .. Len(stack') - 1 : FALSE
  <2>1. Len(stack') - 1 = -1
    BY <1>1
  <2> QED BY <2>1
<1>3. \A m \in Layers : ~OnStack(m)'
  BY <1>1 DEF OnStack
<1>4. CallI'
  BY <1>1, <1>2 DEF CallI
<1> QED BY <1>1, <1>3, <1>4

LEMMA InitKeeps == ASSUME Init PROVE NetworkI
<1>1. TypeI
  <2>1. /\ net \in Networks /\ phase = "idle" /\ rebuildNeeded = TRUE /\ backward = FALSE
        /\ inDiffs = {} /\ ready = [l \in Layers |-> <<>>] /\ outDiffs = [l \in Layers |-> <<>>]
    BY DEF Init
  <2>2. /\ runNumber \in Nat /\ lastRun \in [Layers -> Nat]
        /\ \A l \in Layers : lastRun[l] <= runNumber
    <3>1. runNumber = 0 /\ lastRun = [l \in Layers |-> 0]
      BY DEF Init
    <3> QED BY <3>1
  <2> QED BY <2>1, <2>2 DEF TypeI, Phases, AtRest
<1>2. CallI
  <2>1. /\ stack = <<>> /\ sink = 0 /\ DOMAIN stack = {} /\ Len(stack) = 0
        /\ stack \in Seq([layer : DOMAIN net, next : Nat \ {0}])
    BY EmptySeq DEF Init
  <2>2. \A k \in 1 .. Len(stack) - 1 : FALSE
    <3>1. Len(stack) - 1 = -1
      BY <2>1
    <3> QED BY <3>1
  <2> QED BY <2>1, <2>2 DEF CallI
<1>3. PassI
  <2>1. phase = "idle" /\ rebuildNeeded
    BY DEF Init
  <2> QED BY <2>1 DEF PassI, ForwardI, NeedI, SettledI, Settled, InDiffsI, TrainedI, CountI, DiffsI, PendingI
<1> QED BY <1>1, <1>2, <1>3 DEF NetworkI

\* Before the shapes are known all that is asked is that nothing was counted.
LEMMA EarlyPhases ==
    ASSUME TypeI', CallI', phase' \notin {"reshape", "forward", "backward"},
           ~rebuildNeeded' /\ phase' # "broken" =>
               /\ \A l \in DOMAIN net' : AtZero(l)' /\ outDiffs'[l] = <<>>
               /\ inDiffs' \cap DOMAIN net' = {}
    PROVE  NetworkI'
<1>1. /\ ForwardI' /\ NeedI' /\ TrainedI' /\ CountI' /\ DiffsI' /\ PendingI'
  BY DEF ForwardI, NeedI, TrainedI, CountI, DiffsI, PendingI
<1>2. SettledI' /\ InDiffsI'
  BY DEF SettledI, Settled, InDiffsI
<1> QED BY <1>1, <1>2 DEF NetworkI, PassI

\* What the early phases ask, from a state in which no backward pass is under way.
LEMMA StillEarly ==
    ASSUME NetworkI, phase # "backward", UNCHANGED <<net, rebuildNeeded, ready, outDiffs, inDiffs>>,
           phase = "broken" => phase' = "broken" \/ rebuildNeeded,
           TypeI', CallI', phase' \notin {"reshape", "forward", "backward"}
    PROVE  NetworkI'
<1>1. ASSUME ~rebuildNeeded', phase' # "broken"
      PROVE  /\ \A l \in DOMAIN net' : AtZero(l)' /\ outDiffs'[l] = <<>>
             /\ inDiffs' \cap DOMAIN net' = {}
  <2>1. Settled /\ ~rebuildNeeded /\ phase # "broken"
    BY <1>1 DEF Settled
  <2>2. \A l \in DOMAIN net : AtZero(l) /\ outDiffs[l] = <<>>
    BY <2>1 DEF NetworkI, PassI, SettledI
  <2>3. inDiffs \cap DOMAIN net = {}
    BY <2>1 DEF NetworkI, PassI, InDiffsI
  <2> QED BY <2>2, <2>3 DEF AtZero
<1> QED BY <1>1, EarlyPhases

LEMMA EditKeeps == ASSUME NetworkI, NEW new \in Networks, Edit(new) PROVE NetworkI'
<1>1. /\ AtRest /\ net' = new /\ rebuildNeeded' = TRUE
      /\ UNCHANGED <<phase, sink, stack, backward, runNumber>>
  BY DEF Edit, May, netVars, callVars
<1>2. TypeI /\ CallI /\ stack = <<>> /\ sink \in Nat
  BY <1>1 DEF NetworkI, CallI
<1>3. TypeI'
  <2>1. DOMAIN ready' = Layers /\ DOMAIN outDiffs' = Layers /\ inDiffs' \subseteq Layers
    BY <1>2 DEF Edit, Cleared, TypeI
  <2>2. /\ runNumber' \in Nat /\ lastRun' \in [Layers -> Nat]
        /\ \A l \in Layers : lastRun'[l] <= runNumber'
    <3>1. lastRun' = [l \in Layers |-> IF l \in DOMAIN new \ DOMAIN net THEN runNumber ELSE lastRun[l]]
      BY DEF Edit
    <3>2. runNumber' = runNumber /\ runNumber \in Nat /\ lastRun \in [Layers -> Nat]
          /\ \A l \in Layers : lastRun[l] <= runNumber
      BY <1>1, <1>2 DEF TypeI
    <3>3. runNumber <= runNumber
      BY <3>2
    <3> QED BY <3>1, <3>2, <3>3
  <2>3. net' \in Networks /\ phase' \in Phases /\ rebuildNeeded' \in BOOLEAN /\ backward' \in BOOLEAN /\ AtRest'
    BY <1>1, <1>2 DEF TypeI, AtRest
  <2> QED BY <2>1, <2>2, <2>3 DEF TypeI
<1>4. CallI'
  BY <1>1, <1>2, EmptyStack
<1>5. phase' \notin {"reshape", "forward", "backward"}
  BY <1>1 DEF AtRest
<1> QED BY <1>1, <1>3, <1>4, <1>5, EarlyPhases

LEMMA BeginKeeps == ASSUME NetworkI, Careful, NEW train \in BOOLEAN, Begin(train) PROVE NetworkI'
<1>1. /\ AtRest /\ UNCHANGED <<net, runNumber, lastRun>> /\ rebuildNeeded' = FALSE
      /\ backward' = train /\ sink' = 0 /\ stack' = <<>>
      /\ phase = "broken" => rebuildNeeded
      /\ TypeI
  BY DEF Begin, NetworkI
<1>2. CallI'
  BY <1>1, EmptyStack
<1>3. CASE rebuildNeeded
  <2>1. /\ phase' = "build" /\ ready' = Cleared(ready, DOMAIN net)
        /\ outDiffs' = Cleared(outDiffs, DOMAIN net) /\ inDiffs' = inDiffs \ DOMAIN net
    BY <1>3 DEF Begin
  <2>2. DOMAIN net \subseteq Layers
    BY <1>1, NetworkFacts DEF TypeI
  <2>3. /\ \A l \in DOMAIN net : ready'[l] = <<>> /\ outDiffs'[l] = <<>>
        /\ DOMAIN ready' = Layers /\ DOMAIN outDiffs' = Layers
        /\ inDiffs' \cap DOMAIN net = {} /\ inDiffs' \subseteq Layers
    BY <1>1, <2>1, <2>2 DEF Cleared, TypeI
  <2>4. TypeI'
    BY <1>1, <2>1, <2>3 DEF TypeI, Phases
  <2>5. \A l \in DOMAIN net' : AtZero(l)' /\ outDiffs'[l] = <<>>
    BY <1>1, <2>3 DEF AtZero
  <2> QED BY <1>1, <1>2, <2>1, <2>3, <2>4, <2>5, EarlyPhases
<1>4. CASE ~rebuildNeeded
  <2>1. phase' = "recheck" /\ UNCHANGED <<ready, outDiffs, inDiffs, rebuildNeeded>>
    BY <1>1, <1>4 DEF Begin, TypeI
  <2>2. TypeI'
    BY <1>1, <2>1 DEF TypeI, Phases
  <2>3. phase # "backward" /\ (phase = "broken" => rebuildNeeded)
    BY <1>1 DEF AtRest
  <2> QED BY <1>1, <1>2, <2>1, <2>2, <2>3, StillEarly
<1> QED BY <1>3, <1>4

LEMMA UserKeeps == ASSUME NetworkI, Careful, User PROVE NetworkI'
<1>1. ASSUME /\ AtRest
             /\ UNCHANGED <<net, rebuildNeeded, runNumber, lastRun, backward, phase, sink, stack,
                            ready, outDiffs, inDiffs>>
      PROVE  NetworkI'
  <2>1. TypeI'
    BY <1>1 DEF NetworkI, TypeI, AtRest
  <2>2. stack' = <<>> /\ sink' \in Nat
    BY <1>1 DEF NetworkI, CallI
  <2>3. CallI'
    BY <2>2, EmptyStack
  <2>4. phase # "backward" /\ phase' \notin {"reshape", "forward", "backward"}
    BY <1>1 DEF AtRest
  <2> QED BY <1>1, <2>1, <2>3, <2>4, StillEarly
<1>2. ASSUME NEW l \in DOMAIN net, NEW size \in Sizes, SetBlob(l, size) PROVE NetworkI'
  BY <1>1, <1>2 DEF SetBlob, May, netVars, callVars, diffVars
<1>3. ASSUME NEW l \in DOMAIN net, ToggleLearning(l) PROVE NetworkI'
  BY <1>1, <1>3 DEF ToggleLearning, May, netVars, callVars, blobVars, diffVars
<1>4. CASE ToggleNetLearning
  BY <1>1, <1>4 DEF ToggleNetLearning, May, netVars, callVars, blobVars, diffVars
<1>5. CASE CleanUp
  BY <1>1, <1>5 DEF CleanUp, May, userVars, netVars, callVars, blobVars, diffVars
<1>6. ASSUME NEW new \in Networks, Edit(new) PROVE NetworkI'
  BY <1>6, EditKeeps
<1>7. ASSUME NEW train \in BOOLEAN, Begin(train) PROVE NetworkI'
  BY <1>7, BeginKeeps
<1> QED BY <1>2, <1>3, <1>4, <1>5, <1>6, <1>7 DEF User

\* A move on the stack, whatever the phase.
LEMMA MoveKeeps ==
    ASSUME TypeI, CallI, NEW l \in Layers, Entered(l, 1) \/ Skipped(l) \/ Left(l), net' = net,
           ~AtRest, phase # "recheck"
    PROVE  CallI' /\ phase' = phase
<1>1. 1 \in Nat \ {0}
  OBVIOUS
<1> QED BY <1>1, EnterKeeps, SkipKeeps, LeaveKeeps

LEMMA BuildKeeps == ASSUME NetworkI, BuildStep PROVE NetworkI'
<1>0. TypeI /\ CallI
  BY DEF NetworkI
<1> DEFINE Same == UNCHANGED <<net, rebuildNeeded, runNumber, lastRun, backward, ready, outDiffs, inDiffs>>
<1>1. ASSUME Same, phase = "build", CallI', phase' \in {"build", "recheck"}
      PROVE  NetworkI'
  <2>1. TypeI'
    BY <1>0, <1>1 DEF TypeI, Phases, AtRest
  <2> QED BY <1>1, <2>1, StillEarly
<1>2. CASE EndBuild
  <2>1. Same /\ phase = "build" /\ phase' = "recheck" /\ stack' = <<>> /\ sink' = 0
    BY <1>2 DEF EndBuild, StartPhase, userVars, dnnVars, blobVars, diffVars
  <2>2. CallI'
    BY <2>1, EmptyStack
  <2> QED BY <1>1, <2>1, <2>2
<1>3. ASSUME NEW l \in Layers, BuildEnter(l) \/ BuildSkip(l) \/ BuildLayer(l) PROVE NetworkI'
  <2>1. phase = "build" /\ (Entered(l, 1) \/ Skipped(l) \/ Left(l))
    BY <1>3 DEF BuildEnter, BuildSkip, BuildLayer, Entered, Enter, Skipped, Left
  <2>2. Same
    BY <1>3 DEF BuildEnter, BuildSkip, BuildLayer, userVars, dnnVars, blobVars, diffVars
  <2>3. CallI' /\ phase' = phase
    BY <1>0, <2>1, <2>2, MoveKeeps DEF AtRest
  <2> QED BY <1>1, <2>1, <2>2, <2>3
<1> QED BY <1>2, <1>3 DEF BuildStep

\* While the shapes are checked nothing is counted and diffs are only dropped.
LEMMA StillReshaping ==
    ASSUME NetworkI, phase = "reshape", phase' = "reshape", CallI',
           UNCHANGED <<net, rebuildNeeded, runNumber, lastRun, backward, ready, learningOn,
                       netLearning, backwardNeeded>>,
           DOMAIN outDiffs' = Layers,
           \A l \in DOMAIN net : outDiffs[l] = <<>> => outDiffs'[l] = <<>>,
           inDiffs' \subseteq inDiffs
    PROVE  NetworkI'
<1>1. TypeI'
  BY DEF NetworkI, TypeI, Phases, AtRest
<1>2. NeedI'
  BY DEF NetworkI, PassI, NeedI, Trainable, LearningNeeded, Input
<1>3. SettledI' /\ InDiffsI'
  BY DEF NetworkI, PassI, SettledI, Settled, InDiffsI, AtZero, Trainable, LearningNeeded
<1>4. /\ ForwardI' /\ TrainedI' /\ CountI' /\ DiffsI' /\ PendingI'
  BY DEF ForwardI, TrainedI, CountI, DiffsI, PendingI
<1> QED BY <1>1, <1>2, <1>3, <1>4 DEF NetworkI, PassI

\* The smallest set that recheckBackwardNeeded computes.
LEMMA RecheckKeeps == ASSUME NetworkI, Recheck PROVE NetworkI'
<1>1. /\ phase = "recheck" /\ phase' = "reshape" /\ sink' = 0 /\ stack' = <<>>
      /\ UNCHANGED <<net, rebuildNeeded, learningOn, netLearning, runNumber, backward, lastRun,
                     outDiffs, inDiffs>>
      /\ TypeI /\ net \in Networks
  BY DEF Recheck, StartPhase, userVars, dnnVars, blobVars, NetworkI, TypeI
<1>2. DOMAIN net \subseteq Layers
  BY <1>1, NetworkFacts
<1>3. /\ backwardNeeded' = {l \in DOMAIN net :
            \A S \in SUBSET DOMAIN net : NeedsBackward(S) \subseteq S => l \in S}
      /\ ready' = [l \in Layers |->
            IF l \in DOMAIN net /\ ready[l] = <<>> /\ (l \in backwardNeeded' \/ LearningNeeded(l))
            THEN [o \in Outputs(net, l) |-> 0]
            ELSE ready[l]]
  BY DEF Recheck
<1>4. CallI'
  BY <1>1, EmptyStack
<1>5. TypeI'
  BY <1>1, <1>3 DEF TypeI, Phases, AtRest
<1>6. \A l \in Layers : Trainable(l)' <=> l \in backwardNeeded' \/ LearningNeeded(l)
  BY <1>1 DEF Trainable, LearningNeeded
<1>7. NeedI'
  <2> SUFFICES ASSUME NEW c \in DOMAIN net, NEW i \in DOMAIN net[c],
                      net[c][i][1] \in backwardNeeded' \/ LearningNeeded(net[c][i][1])
               PROVE  c \in backwardNeeded'
    <3>1. \A c \in DOMAIN net : \A i \in DOMAIN net[c] : net[c][i][1] \in Layers
      BY <1>1, <1>2, NetworkFacts
    <3> QED BY <1>1, <1>6, <3>1 DEF NeedI, Input
  <2>1. ASSUME NEW S \in SUBSET DOMAIN net, NeedsBackward(S) \subseteq S PROVE c \in S
    <3>1. net[c][i][1] \in S \/ LearningNeeded(net[c][i][1])
      BY <1>3, <2>1
    <3>2. c \in NeedsBackward(S)
      BY <3>1 DEF NeedsBackward
    <3> QED BY <2>1, <3>2
  <2> QED BY <1>3, <2>1
<1>8. Settled /\ ~rebuildNeeded /\ Settled'
  BY <1>1 DEF Settled, TypeI, AtRest
<1>9. \A l \in DOMAIN net : AtZero(l) /\ outDiffs[l] = <<>>
  BY <1>8 DEF NetworkI, PassI, SettledI
<1>10. inDiffs \cap DOMAIN net = {}
  BY <1>1, <1>8 DEF NetworkI, PassI, InDiffsI
<1>11. ASSUME NEW l \in DOMAIN net
       PROVE  /\ AtZero(l)' /\ outDiffs'[l] = <<>>
              /\ Trainable(l)' => ready'[l] = [o \in Outputs(net, l) |-> 0]
  <2>1. /\ l \in Layers
        /\ ready'[l] = IF ready[l] = <<>> /\ (l \in backwardNeeded' \/ LearningNeeded(l))
                       THEN [o \in Outputs(net, l) |-> 0] ELSE ready[l]
    BY <1>2, <1>3
  <2>2. ready[l] = <<>> \/ ready[l] = [o \in Outputs(net, l) |-> 0]
    BY <1>9 DEF AtZero
  <2>3. AtZero(l)' <=> ready'[l] = <<>> \/ ready'[l] = [o \in Outputs(net, l) |-> 0]
    BY <1>1 DEF AtZero
  <2> QED BY <1>1, <1>6, <1>9, <2>1, <2>2, <2>3
<1>12. SettledI' /\ InDiffsI'
  BY <1>1, <1>8, <1>10, <1>11 DEF SettledI, InDiffsI
<1>13. ForwardI' /\ TrainedI' /\ CountI' /\ DiffsI' /\ PendingI'
  BY <1>1 DEF ForwardI, TrainedI, CountI, DiffsI, PendingI
<1> QED BY <1>4, <1>5, <1>7, <1>12, <1>13 DEF NetworkI, PassI

\* runOnce begins with a new number, which no layer bears.
LEMMA EndReshapeKeeps == ASSUME NetworkI, EndReshape PROVE NetworkI'
<1>1. /\ phase = "reshape" /\ phase' = "forward" /\ sink' = 0 /\ stack' = <<>>
      /\ UNCHANGED <<net, rebuildNeeded, learningOn, netLearning, backward, backwardNeeded, lastRun,
                     ready, outDiffs, inDiffs>>
      /\ runNumber' = runNumber + 1 /\ ran' = {} /\ trained' = {}
      /\ TypeI /\ net \in Networks
  BY DEF EndReshape, StartPhase, userVars, shapeVars, NetworkI, TypeI
<1>2. CallI' /\ DOMAIN stack' = {} /\ \A m \in Layers : ~OnStack(m)'
  BY <1>1, EmptyStack
<1>3. /\ runNumber \in Nat /\ lastRun \in [Layers -> Nat]
      /\ \A l \in Layers : lastRun[l] <= runNumber
  BY <1>1 DEF TypeI
<1>4. \A l \in Layers : lastRun[l] # runNumber + 1 /\ lastRun[l] <= runNumber + 1
  BY <1>3
<1>5. TypeI'
  BY <1>1, <1>3, <1>4 DEF TypeI, Phases, AtRest
<1>6. DOMAIN net \subseteq Nat \ {0} /\ DOMAIN net \subseteq Layers
  BY <1>1, NetworkFacts
<1>7. ForwardI'
  <2>1. \A l \in DOMAIN net : ~(lastRun'[l] = runNumber') /\ ~OnStack(l)'
    BY <1>1, <1>2, <1>4, <1>6
  <2>2. \A l \in DOMAIN net : ~(l <= sink')
    BY <1>1, <1>6
  <2> QED BY <1>1, <1>2, <2>1, <2>2 DEF ForwardI
<1>8. NeedI'
  BY <1>1 DEF NetworkI, PassI, NeedI, Trainable, LearningNeeded, Input
<1>9. SettledI' /\ InDiffsI'
  BY <1>1 DEF NetworkI, PassI, SettledI, Settled, InDiffsI, AtZero, Trainable, LearningNeeded
<1>10. TrainedI' /\ CountI' /\ DiffsI' /\ PendingI'
  BY <1>1 DEF TrainedI, CountI, DiffsI, PendingI
<1> QED BY <1>2, <1>5, <1>7, <1>8, <1>9, <1>10 DEF NetworkI, PassI

LEMMA ReshapeKeeps == ASSUME NetworkI, ReshapeStep PROVE NetworkI'
<1>0. TypeI /\ CallI
  BY DEF NetworkI
<1> DEFINE Same == UNCHANGED <<net, rebuildNeeded, runNumber, lastRun, backward, ready, learningOn,
                               netLearning, backwardNeeded>>
<1>1. CASE Recheck
  BY <1>1, RecheckKeeps
<1>2. CASE EndReshape
  BY <1>2, EndReshapeKeeps
<1>3. ASSUME NEW l \in Layers, ReshapeEnter(l) \/ ReshapeSkip(l) \/ KeepShape(l) PROVE NetworkI'
  <2>1. phase = "reshape" /\ (Entered(l, 1) \/ Skipped(l) \/ Left(l))
    BY <1>3 DEF ReshapeEnter, ReshapeSkip, KeepShape, Entered, Enter, Skipped, Left
  <2>2. Same /\ UNCHANGED <<outDiffs, inDiffs>>
    BY <1>3 DEF ReshapeEnter, ReshapeSkip, KeepShape, userVars, dnnVars, shapeVars, blobVars, diffVars
  <2>3. CallI' /\ phase' = phase
    BY <1>0, <2>1, <2>2, MoveKeeps DEF AtRest
  <2>4. DOMAIN outDiffs' = Layers
    BY <1>0, <2>2 DEF TypeI
  <2> QED BY <2>1, <2>2, <2>3, <2>4, StillReshaping
<1>4. ASSUME NEW l \in Layers, ReshapeLayer(l) PROVE NetworkI'
  <2>1. phase = "reshape" /\ Left(l)
    BY <1>4 DEF ReshapeLayer, Left
  <2>2. Same /\ outDiffs' = [outDiffs EXCEPT ![l] = <<>>] /\ inDiffs' = inDiffs \ {l}
    BY <1>4 DEF ReshapeLayer, userVars, dnnVars
  <2>3. CallI' /\ phase' = phase
    BY <1>0, <2>1, <2>2, MoveKeeps DEF AtRest
  <2>4. /\ DOMAIN outDiffs' = Layers /\ inDiffs' \subseteq inDiffs
        /\ \A m \in DOMAIN net : outDiffs[m] = <<>> => outDiffs'[m] = <<>>
    <3>1. DOMAIN outDiffs = Layers /\ DOMAIN net \subseteq Layers
      BY <1>0, StackFacts DEF TypeI
    <3> QED BY <2>2, <3>1
  <2> QED BY <2>1, <2>2, <2>3, <2>4, StillReshaping
<1>5. ASSUME NEW l \in Layers, ReshapeThrows(l) PROVE NetworkI'
  <2>1. /\ phase' = "broken" /\ stack' = <<>> /\ sink' = 0
        /\ Same /\ outDiffs' = [outDiffs EXCEPT ![l] = <<>>] /\ inDiffs' = inDiffs \ {l}
    BY <1>5 DEF ReshapeThrows, StartPhase, userVars, dnnVars
  <2>2. CallI'
    BY <2>1, EmptyStack
  <2>3. TypeI'
    BY <1>0, <2>1 DEF TypeI, Phases, AtRest
  <2> QED BY <2>1, <2>2, <2>3, EarlyPhases
<1> QED BY <1>1, <1>2, <1>3, <1>4, <1>5 DEF ReshapeStep

-----------------------------------------------------------------------------
(* The forward pass. *)

\* What a step of the recursion in the forward pass leaves to be shown.
LEMMA StillForward ==
    ASSUME NetworkI, phase = "forward", phase' = "forward", CallI', ForwardI',
           UNCHANGED <<net, rebuildNeeded, runNumber, backward, ready, outDiffs, inDiffs, learningOn,
                       netLearning, backwardNeeded>>,
           lastRun' \in [Layers -> Nat], \A l \in Layers : lastRun'[l] <= runNumber
    PROVE  NetworkI'
<1>1. TypeI'
  BY DEF NetworkI, TypeI, Phases, AtRest
<1>2. NeedI'
  BY DEF NetworkI, PassI, NeedI, Trainable, LearningNeeded, Input
<1>3. SettledI' /\ InDiffsI'
  BY DEF NetworkI, PassI, SettledI, Settled, InDiffsI, AtZero, Trainable, LearningNeeded
<1>4. TrainedI' /\ CountI' /\ DiffsI' /\ PendingI'
  BY DEF TrainedI, CountI, DiffsI, PendingI
<1> QED BY <1>1, <1>2, <1>3, <1>4 DEF NetworkI, PassI

LEMMA RunEnterKeeps == ASSUME NetworkI, NEW l \in Layers, RunEnter(l) PROVE NetworkI'
<1>1. TypeI /\ CallI /\ ForwardI
  BY DEF NetworkI, PassI
<1>2. /\ phase = "forward" /\ Calls(l) /\ Entered(l, 1) /\ lastRun[l] # runNumber
      /\ lastRun' = [lastRun EXCEPT ![l] = runNumber]
      /\ UNCHANGED <<net, rebuildNeeded, runNumber, backward, ready, outDiffs, inDiffs, learningOn,
                     netLearning, backwardNeeded, ran, trained>>
  BY DEF RunEnter, Entered, Enter, userVars, dnnVars, shapeVars, diffVars
<1>3. /\ ~AtRest /\ phase # "recheck" /\ 1 \in Nat \ {0}
  BY <1>2 DEF AtRest
<1>4. /\ CallI' /\ phase' = phase /\ sink' = CalledSink(l)
      /\ DOMAIN stack' = 1 .. Len(stack) + 1
      /\ stack'[Len(stack) + 1] = [layer |-> l, next |-> 1]
      /\ \A k \in 1 .. Len(stack) : stack'[k] = stack[k]
      /\ \A m \in Layers : OnStack(m)' <=> OnStack(m) \/ m = l
  BY <1>1, <1>2, <1>3, EnterKeeps
<1>5. /\ Len(stack) \in Nat /\ DOMAIN stack = 1 .. Len(stack) /\ net \in Networks
      /\ DOMAIN net \subseteq Layers /\ DOMAIN net \subseteq Nat \ {0}
  BY <1>1, StackFacts
<1>6. /\ l \in DOMAIN net
      /\ stack = <<>> =>
            \A m \in DOMAIN net : IsSink(net, m) /\ m <= l => m = l \/ m <= sink
  BY <1>1, <1>2, CallFacts
<1>7. /\ runNumber \in Nat /\ lastRun \in [Layers -> Nat]
      /\ \A m \in Layers : lastRun[m] <= runNumber
  BY <1>1 DEF TypeI
<1>8. lastRun' \in [Layers -> Nat] /\ \A m \in Layers : lastRun'[m] <= runNumber
  <2>1. runNumber <= runNumber
    BY <1>7
  <2> QED BY <1>2, <1>7, <2>1
<1>9. l \notin ran /\ ran \subseteq DOMAIN net /\ trained = {}
  BY <1>1, <1>2, <1>6 DEF ForwardI
<1>10. ForwardI'
  <2>1. \A m \in DOMAIN net : lastRun'[m] = runNumber <=> m \in ran \/ OnStack(m)'
    <3>1. \A m \in DOMAIN net : lastRun[m] = runNumber <=> m \in ran \/ OnStack(m)
      BY <1>1, <1>2 DEF ForwardI
    <3>2. \A m \in Layers : lastRun'[m] = IF m = l THEN runNumber ELSE lastRun[m]
      BY <1>2, <1>7
    <3> QED BY <1>4, <1>5, <3>1, <3>2
  <2>2. ASSUME NEW k \in DOMAIN stack'
        PROVE  /\ stack'[k].layer \notin ran
               /\ \A i \in DOMAIN net[stack'[k].layer] :
                     i < stack'[k].next => net[stack'[k].layer][i][1] \in ran
    <3>1. CASE k = Len(stack) + 1
      <4>1. stack'[k].layer = l /\ stack'[k].next = 1
        BY <1>4, <3>1
      <4>2. \A i \in DOMAIN net[l] : ~(i < 1)
        BY <1>5, <1>6, NetworkFacts
      <4> QED BY <1>9, <4>1, <4>2
    <3>2. CASE k # Len(stack) + 1
      <4>1. k \in DOMAIN stack /\ k \in 1 .. Len(stack)
        BY <1>4, <1>5, <3>2
      <4> QED BY <1>1, <1>2, <1>4, <4>1 DEF ForwardI, Input
    <3> QED BY <3>1, <3>2
  <2>3. \A m \in ran : \A i \in DOMAIN net[m] : net[m][i][1] \in ran
    BY <1>1, <1>2 DEF ForwardI, Input
  <2>4. ASSUME NEW m \in DOMAIN net, IsSink(net, m), m <= sink' PROVE m \in ran \/ OnStack(m)'
    <3>1. m = l \/ m <= sink
      BY <1>4, <1>6, <2>4 DEF CalledSink
    <3> QED BY <1>1, <1>2, <1>4, <1>5, <2>4, <3>1 DEF ForwardI
  <2> QED BY <1>2, <1>9, <2>1, <2>2, <2>3, <2>4 DEF ForwardI, Input
<1> QED BY <1>2, <1>4, <1>8, <1>10, StillForward

LEMMA RunSkipKeeps == ASSUME NetworkI, NEW l \in Layers, RunSkip(l) PROVE NetworkI'
<1>1. TypeI /\ CallI /\ ForwardI
  BY DEF NetworkI, PassI
<1>2. /\ phase = "forward" /\ Calls(l) /\ Skipped(l) /\ lastRun[l] = runNumber
      /\ UNCHANGED <<net, rebuildNeeded, runNumber, backward, ready, outDiffs, inDiffs, learningOn,
                     netLearning, backwardNeeded, ran, trained, lastRun>>
  BY DEF RunSkip, Skipped, userVars, dnnVars, shapeVars, blobVars, diffVars
<1>3. /\ ~AtRest /\ phase # "recheck"
  BY <1>2 DEF AtRest
<1>4. /\ CallI' /\ phase' = phase /\ sink' = CalledSink(l)
      /\ DOMAIN stack' = 1 .. Len(stack)
      /\ \A k \in 1 .. Len(stack) :
            /\ stack'[k].layer = stack[k].layer
            /\ k < Len(stack) => stack'[k] = stack[k]
            /\ k = Len(stack) => stack'[k].next = stack[k].next + 1
      /\ \A m \in Layers : OnStack(m)' <=> OnStack(m)
  BY <1>1, <1>2, <1>3, SkipKeeps
<1>5. /\ Len(stack) \in Nat /\ DOMAIN stack = 1 .. Len(stack) /\ net \in Networks
      /\ DOMAIN net \subseteq Layers /\ DOMAIN net \subseteq Nat \ {0}
      /\ \A k \in 1 .. Len(stack) : stack[k].next \in Nat /\ stack[k].layer \in DOMAIN net
      /\ stack # <<>> <=> Len(stack) > 0
  BY <1>1, StackFacts
<1>6. /\ l \in DOMAIN net /\ ~OnStack(l)
      /\ stack = <<>> =>
            \A m \in DOMAIN net : IsSink(net, m) /\ m <= l => m = l \/ m <= sink
      /\ stack # <<>> => /\ Top = stack[Len(stack)]
                         /\ Input(Top.layer, Top.next) = l
  BY <1>1, <1>2, CallFacts
<1>7. l \in ran
  BY <1>1, <1>2, <1>6 DEF ForwardI
<1>8. lastRun' \in [Layers -> Nat] /\ \A m \in Layers : lastRun'[m] <= runNumber
  BY <1>1, <1>2 DEF TypeI
<1>9. ForwardI'
  <2>1. \A m \in DOMAIN net : lastRun[m] = runNumber <=> m \in ran \/ OnStack(m)'
    BY <1>1, <1>2, <1>4, <1>5 DEF ForwardI
  <2>2. ASSUME NEW k \in 1 .. Len(stack)
        PROVE  /\ stack'[k].layer \notin ran
               /\ \A i \in DOMAIN net[stack'[k].layer] :
                     i < stack'[k].next => net[stack'[k].layer][i][1] \in ran
    <3>1. /\ stack[k].layer \notin ran
          /\ \A i \in DOMAIN net[stack[k].layer] :
                i < stack[k].next => net[stack[k].layer][i][1] \in ran
      BY <1>1, <1>2, <1>5 DEF ForwardI, Input
    <3>2. CASE k < Len(stack)
      BY <1>4, <3>1, <3>2
    <3>3. CASE ~(k < Len(stack))
      <4>a. Len(stack) \in Nat /\ k \in 1 .. Len(stack)
        BY <1>5
      <4>b. k = Len(stack) /\ Len(stack) > 0
        BY <3>3, <4>a
      <4>1. k = Len(stack) /\ stack # <<>>
        BY <1>5, <4>b
      <4>2. stack'[k].layer = stack[k].layer /\ stack'[k].next = stack[k].next + 1
            /\ net[stack[k].layer][stack[k].next][1] = l
        BY <1>4, <1>6, <4>1 DEF Input
      <4>3. ASSUME NEW i \in DOMAIN net[stack[k].layer], i < stack[k].next + 1
            PROVE  i < stack[k].next \/ i = stack[k].next
        <5>1. stack[k].next \in Nat /\ i \in Nat
          BY <1>5, NetworkFacts
        <5> QED BY <4>3, <5>1
      <4> QED BY <1>7, <3>1, <4>2, <4>3
    <3> QED BY <3>2, <3>3
  <2>3. \A m \in ran : \A i \in DOMAIN net[m] : net[m][i][1] \in ran
    BY <1>1, <1>2 DEF ForwardI, Input
  <2>4. ASSUME NEW m \in DOMAIN net, IsSink(net, m), m <= sink' PROVE m \in ran \/ OnStack(m)'
    <3>1. m = l \/ m <= sink
      BY <1>4, <1>6, <2>4 DEF CalledSink
    <3> QED BY <1>1, <1>2, <1>4, <1>5, <1>7, <2>4, <3>1 DEF ForwardI
  <2>5. ran \subseteq DOMAIN net /\ trained = {}
    BY <1>1, <1>2 DEF ForwardI
  <2> QED BY <1>2, <1>4, <2>1, <2>2, <2>3, <2>4, <2>5 DEF ForwardI, Input
<1> QED BY <1>2, <1>4, <1>8, <1>9, StillForward

LEMMA RunLayerKeeps == ASSUME NetworkI, NEW l \in Layers, RunLayer(l) PROVE NetworkI'
<1>1. TypeI /\ CallI /\ ForwardI
  BY DEF NetworkI, PassI
<1>2. /\ phase = "forward" /\ Left(l) /\ ran' = ran \cup {l}
      /\ UNCHANGED <<net, rebuildNeeded, runNumber, backward, ready, outDiffs, inDiffs, learningOn,
                     netLearning, backwardNeeded, trained, lastRun>>
  BY DEF RunLayer, Left, userVars, dnnVars, shapeVars, diffVars
<1>3. /\ ~AtRest /\ phase # "recheck"
  BY <1>2 DEF AtRest
<1>4. /\ CallI' /\ phase' = phase /\ sink' = sink
      /\ l \in DOMAIN net /\ OnStack(l)
      /\ Len(stack) \in 1 .. Len(stack) /\ stack[Len(stack)].layer = l
      /\ \A i \in DOMAIN net[l] : i < stack[Len(stack)].next
      /\ DOMAIN stack' = 1 .. Len(stack) - 1
      /\ \A k \in 1 .. Len(stack) - 1 :
            /\ stack[k].layer # l
            /\ stack'[k].layer = stack[k].layer
            /\ k < Len(stack) - 1 => stack'[k] = stack[k]
            /\ k = Len(stack) - 1 => /\ stack'[k].next = stack[k].next + 1
                                     /\ Input(stack[k].layer, stack[k].next) = l
      /\ \A m \in Layers : OnStack(m)' <=> OnStack(m) /\ m # l
  BY <1>1, <1>2, <1>3, LeaveKeeps
<1>5. /\ Len(stack) \in Nat /\ DOMAIN stack = 1 .. Len(stack) /\ net \in Networks
      /\ DOMAIN net \subseteq Layers /\ DOMAIN net \subseteq Nat \ {0}
      /\ \A k \in 1 .. Len(stack) : stack[k].next \in Nat /\ stack[k].layer \in DOMAIN net
  BY <1>1, StackFacts
<1>6. lastRun' \in [Layers -> Nat] /\ \A m \in Layers : lastRun'[m] <= runNumber
  BY <1>1, <1>2 DEF TypeI
<1>7. ForwardI'
  <2>1. \A m \in DOMAIN net : lastRun[m] = runNumber <=> m \in ran \cup {l} \/ OnStack(m)'
    BY <1>1, <1>2, <1>4, <1>5 DEF ForwardI
  <2>2. ASSUME NEW k \in 1 .. Len(stack) - 1
        PROVE  /\ stack'[k].layer \notin ran \cup {l}
               /\ \A i \in DOMAIN net[stack'[k].layer] :
                     i < stack'[k].next => net[stack'[k].layer][i][1] \in ran \cup {l}
    <3>0. k \in 1 .. Len(stack)
      BY <1>5
    <3>1. /\ stack[k].layer \notin ran
          /\ \A i \in DOMAIN net[stack[k].layer] :
                i < stack[k].next => net[stack[k].layer][i][1] \in ran
      BY <1>1, <1>2, <1>5, <3>0 DEF ForwardI, Input
    <3>2. CASE k < Len(stack) - 1
      BY <1>4, <3>1, <3>2
    <3>3. CASE ~(k < Len(stack) - 1)
      <4>a. Len(stack) \in Nat
        BY <1>5
      <4>1. k = Len(stack) - 1
        BY <3>3, <4>a
      <4>2. stack'[k].layer = stack[k].layer /\ stack'[k].next = stack[k].next + 1
            /\ net[stack[k].layer][stack[k].next][1] = l /\ stack[k].layer # l
        BY <1>4, <4>1 DEF Input
      <4>3. ASSUME NEW i \in DOMAIN net[stack[k].layer], i < stack[k].next + 1
            PROVE  i < stack[k].next \/ i = stack[k].next
        <5>a. stack[k].next \in Nat /\ stack[k].layer \in DOMAIN net
          BY <1>5, <3>0
        <5>b. DOMAIN net[stack[k].layer] = 1 .. Len(net[stack[k].layer])
          BY <1>5, <5>a, NetworkFacts
        <5>1. stack[k].next \in Nat /\ i \in Nat
          BY <5>a, <5>b
        <5> QED BY <4>3, <5>1
      <4> QED BY <3>1, <4>2, <4>3
    <3> QED BY <3>2, <3>3
  <2>3. \A m \in ran \cup {l} : \A i \in DOMAIN net[m] : net[m][i][1] \in ran \cup {l}
    <3>1. \A i \in DOMAIN net[l] : net[l][i][1] \in ran
      <4>1. Len(stack) \in DOMAIN stack
        BY <1>4, <1>5
      <4> QED BY <1>1, <1>2, <1>4, <4>1 DEF ForwardI, Input
    <3> QED BY <1>1, <1>2, <3>1 DEF ForwardI, Input
  <2>4. \A m \in DOMAIN net : IsSink(net, m) /\ m <= sink => m \in ran \cup {l} \/ OnStack(m)'
    BY <1>1, <1>2, <1>4, <1>5 DEF ForwardI
  <2>5. ran \cup {l} \subseteq DOMAIN net /\ trained = {}
    BY <1>1, <1>2, <1>4 DEF ForwardI
  <2> QED BY <1>2, <1>4, <2>1, <2>2, <2>3, <2>4, <2>5 DEF ForwardI, Input
<1> QED BY <1>2, <1>4, <1>6, <1>7, StillForward

\* The pass is over when all the layers have computed: one that has not would be read by
\* one that has not.
LEMMA AllRan ==
    ASSUME TypeI, CallI, ForwardI, phase = "forward", PhaseOver
    PROVE  ran = DOMAIN net
<1> DEFINE S == DOMAIN net \ ran
<1>1. net \in Networks /\ DOMAIN net \subseteq Nat \ {0} /\ DOMAIN net \subseteq Layers
  BY StackFacts
<1>2. ran \subseteq DOMAIN net
  BY DEF ForwardI
<1>3. SUFFICES ASSUME S # {} PROVE FALSE
  BY <1>2
<1>4. PICK l \in S : \A m \in S : Rank(net)[m] <= Rank(net)[l]
  BY <1>1, <1>3, TopLayer
<1>5. \A m \in Layers : ~OnStack(m)
  BY EmptySeq DEF PhaseOver, OnStack
<1>6. CASE IsSink(net, l)
  <2>1. ~(l > sink)
    BY <1>6 DEF PhaseOver, SinksLeft
  <2>2. l <= sink
    BY <1>1, <2>1 DEF CallI
  <2> QED BY <1>1, <1>5, <1>6, <2>2 DEF ForwardI
<1>7. CASE ~IsSink(net, l)
  <2>1. PICK c \in DOMAIN net : \E i \in DOMAIN net[c] : net[c][i] = <<l, OutputCount(net, l)>>
    BY <1>1, <1>7, OutputFacts
  <2>2. PICK i \in DOMAIN net[c] : net[c][i] = <<l, OutputCount(net, l)>>
    BY <2>1
  <2>3. net[c][i][1] = l
    BY <2>2
  <2>4. Rank(net)[l] < Rank(net)[c] /\ Rank(net)[l] \in Nat /\ Rank(net)[c] \in Nat
    BY <1>1, <2>3, RankFacts
  <2>5. c \in ran
    BY <1>4, <2>4
  <2> QED BY <2>3, <2>5 DEF ForwardI, Input
<1> QED BY <1>6, <1>7

\* Nothing has been sent before the first layer is trained.
LEMMA NothingSent ==
    ASSUME trained' = {}, NEW l, NEW o
    PROVE  Sent(l, o)' = {} /\ Cardinality(Sent(l, o)') = 0 /\ DiffsOf(Sent(l, o))' = {}
<1>1. Sent(l, o)' = {}
  BY DEF Sent
<1> QED BY <1>1, FS_EmptySet DEF DiffsOf

LEMMA TurnKeeps == ASSUME NetworkI, EndForward, backward PROVE NetworkI'
<1>1. TypeI /\ CallI /\ ForwardI /\ SettledI /\ NeedI /\ InDiffsI
  BY DEF NetworkI, PassI
<1>2. /\ phase = "forward" /\ PhaseOver /\ phase' = "backward" /\ sink' = 0 /\ stack' = <<>>
      /\ UNCHANGED <<net, rebuildNeeded, runNumber, backward, ready, outDiffs, inDiffs, learningOn,
                     netLearning, backwardNeeded, ran, trained, lastRun>>
  BY DEF EndForward, StartPhase, userVars, dnnVars, shapeVars, blobVars, diffVars
<1>3. CallI' /\ \A m \in Layers : ~OnStack(m)'
  BY <1>2, EmptyStack
<1>4. TypeI'
  BY <1>1, <1>2 DEF TypeI, Phases, AtRest
<1>5. ran = DOMAIN net /\ trained = {}
  BY <1>1, <1>2, AllRan DEF ForwardI
<1>6. net \in Networks /\ DOMAIN net \subseteq Nat \ {0} /\ DOMAIN net \subseteq Layers
  BY <1>1, StackFacts
<1>7. Settled
  BY <1>1, <1>2 DEF Settled, TypeI, AtRest
<1>8. \A l \in DOMAIN net : /\ AtZero(l) /\ outDiffs[l] = <<>>
                            /\ Trainable(l) => ready[l] = [o \in Outputs(net, l) |-> 0]
  BY <1>1, <1>2, <1>7 DEF SettledI
<1>9. \A l \in Layers : (Trainable(l)' <=> Trainable(l)) /\ (AtZero(l)' <=> AtZero(l))
  BY <1>2 DEF Trainable, LearningNeeded, AtZero
<1>10. ForwardI' /\ SettledI' /\ InDiffsI' /\ NeedI'
  <2>1. InDiffsI'
    BY <1>1, <1>2 DEF InDiffsI
  <2>2. NeedI'
    BY <1>1, <1>2 DEF NeedI, Trainable, LearningNeeded, Input
  <2> QED BY <1>2, <2>1, <2>2 DEF ForwardI, SettledI, Settled
<1>11. TrainedI'
  <2>1. \A l \in DOMAIN net : ~(l <= sink')
    BY <1>2, <1>6
  <2>2. DOMAIN stack' = {}
    BY <1>2, EmptySeq
  <2> QED BY <1>2, <1>5, <2>1, <2>2 DEF TrainedI
<1>12. CountI'
  <2>1. ASSUME NEW l \in DOMAIN net
        PROVE  /\ ~Trainable(l) => AtZero(l)
               /\ Trainable(l) => ready[l] \in [Outputs(net, l) -> Nat]
               /\ Trainable(l) => \A o \in Outputs(net, l) : ready[l][o] = 0
               /\ \A o \in Outputs(net, l) : Cardinality(Sent(l, o)') = 0
    <3>1. /\ AtZero(l)
          /\ Trainable(l) => ready[l] = [o \in Outputs(net, l) |-> 0]
      BY <1>8
    <3>2. Trainable(l) => ready[l] \in [Outputs(net, l) -> Nat] /\ \A o \in Outputs(net, l) : ready[l][o] = 0
      BY <3>1
    <3>3. \A o \in Outputs(net, l) : Cardinality(Sent(l, o)') = 0
      BY <1>2, <1>5, NothingSent
    <3> QED BY <3>1, <3>2, <3>3
  <2> QED BY <1>2, <1>5, <1>6, <1>9, <2>1 DEF CountI
<1>13. DiffsI'
  BY <1>2, <1>5, <1>8, NothingSent DEF DiffsI
<1>14. PendingI'
  <2> SUFFICES ASSUME NEW l \in DOMAIN net, ~IsSink(net, l),
                      \A c \in DOMAIN net : \A i \in DOMAIN net[c] : net[c][i][1] = l => c \in trained'
               PROVE  FALSE
    BY <1>2 DEF PendingI, Input
  <2>1. PICK c \in DOMAIN net : \E i \in DOMAIN net[c] : net[c][i] = <<l, OutputCount(net, l)>>
    BY <1>6, OutputFacts
  <2>2. PICK i \in DOMAIN net[c] : net[c][i] = <<l, OutputCount(net, l)>>
    BY <2>1
  <2>3. net[c][i][1] = l
    BY <2>2
  <2> QED BY <1>2, <1>5, <2>3
<1> QED BY <1>3, <1>4, <1>10, <1>11, <1>12, <1>13, <1>14 DEF NetworkI, PassI

LEMMA ForwardKeeps == ASSUME NetworkI, ForwardStep PROVE NetworkI'
<1> DEFINE Same == UNCHANGED <<net, rebuildNeeded, runNumber, lastRun, backward, ready, outDiffs, inDiffs>>
<1>1. ASSUME Same, phase = "forward", phase' \in {"idle", "failed"}, stack' = <<>>, sink' = 0
      PROVE  NetworkI'
  <2>1. TypeI'
    BY <1>1 DEF NetworkI, TypeI, Phases, AtRest
  <2>2. CallI'
    BY <1>1, EmptyStack
  <2> QED BY <1>1, <2>1, <2>2, StillEarly
<1>2. CASE EndForward
  <2>1. CASE backward
    BY <1>2, <2>1, TurnKeeps
  <2>2. CASE ~backward
    <3>1. phase = "forward" /\ phase' = "idle" /\ sink' = 0 /\ stack' = <<>> /\ Same
      BY <1>2, <2>2 DEF EndForward, StartPhase, userVars, dnnVars, shapeVars, blobVars, diffVars
    <3> QED BY <1>1, <3>1
  <2> QED BY <2>1, <2>2
<1>3. ASSUME NEW l \in Layers, RunEnter(l) PROVE NetworkI'
  BY <1>3, RunEnterKeeps
<1>4. ASSUME NEW l \in Layers, RunSkip(l) PROVE NetworkI'
  BY <1>4, RunSkipKeeps
<1>5. ASSUME NEW l \in Layers, RunLayer(l) PROVE NetworkI'
  BY <1>5, RunLayerKeeps
<1>6. ASSUME NEW l \in Layers, RunThrows(l) PROVE NetworkI'
  <2>1. phase = "forward" /\ phase' = "failed" /\ sink' = 0 /\ stack' = <<>> /\ Same
    BY <1>6 DEF RunThrows, StartPhase, userVars, dnnVars, shapeVars, diffVars
  <2> QED BY <1>1, <2>1
<1> QED BY <1>2, <1>3, <1>4, <1>5, <1>6 DEF ForwardStep

-----------------------------------------------------------------------------
(* The backward pass. *)

LEMMA SentFacts ==
    ASSUME net \in Networks, NEW l, NEW o
    PROVE  /\ IsFiniteSet(Sent(l, o)) /\ Cardinality(Sent(l, o)) \in Nat
           /\ Cardinality(Consumers(net, <<l, o>>)) \in Nat
           /\ Sent(l, o) \subseteq Consumers(net, <<l, o>>)
           /\ Cardinality(Sent(l, o)) >= Cardinality(Consumers(net, <<l, o>>)) =>
                 Sent(l, o) = Consumers(net, <<l, o>>)
           /\ Cardinality(Sent(l, o)) = 0 <=> Sent(l, o) = {}
<1> DEFINE C == Consumers(net, <<l, o>>)
           S == Sent(l, o)
<1>1. IsFiniteSet(C) /\ S \subseteq C
  BY ConsumerFacts DEF Sent
<1> HIDE DEF C, S
<1>2. IsFiniteSet(S) /\ Cardinality(S) <= Cardinality(C) /\ (Cardinality(C) = Cardinality(S) => C = S)
  BY <1>1, FS_Subset
<1>3. Cardinality(S) \in Nat /\ Cardinality(C) \in Nat
  BY <1>1, <1>2, FS_CardinalityType
<1>4. Cardinality(S) >= Cardinality(C) => S = C
  <2>1. Cardinality(S) >= Cardinality(C) => Cardinality(C) = Cardinality(S)
    BY <1>2, <1>3
  <2> QED BY <1>2, <2>1
<1>5. Cardinality(S) = 0 <=> S = {}
  BY <1>2, FS_EmptySet
<1> QED BY <1>1, <1>2, <1>3, <1>4, <1>5 DEF C, S

\* The inputs connected to an output, as pairs of a layer and a number.
LEMMA ConsumerPairs ==
    ASSUME NEW n \in Networks, NEW l, NEW o
    PROVE  /\ \A c \in DOMAIN n : \A i \in DOMAIN n[c] :
                 <<c, i>> \in Consumers(n, <<l, o>>) <=> n[c][i] = <<l, o>>
           /\ \A k \in Consumers(n, <<l, o>>) :
                 /\ k = <<k[1], k[2]>> /\ k[1] \in DOMAIN n /\ k[2] \in DOMAIN n[k[1]]
                 /\ n[k[1]][k[2]] = <<l, o>> /\ n[k[1]][k[2]][1] = l
<1>1. /\ Consumers(n, <<l, o>>) = {k \in Links(n) : n[k[1]][k[2]] = <<l, o>>}
      /\ \A k : k \in Links(n) <=> \E c \in DOMAIN n : \E i \in DOMAIN n[c] : k = <<c, i>>
  BY ConsumerFacts
<1>2. ASSUME NEW c \in DOMAIN n, NEW i \in DOMAIN n[c]
      PROVE  <<c, i>> \in Consumers(n, <<l, o>>) <=> n[c][i] = <<l, o>>
  <2>1. <<c, i>> \in Links(n) /\ <<c, i>>[1] = c /\ <<c, i>>[2] = i
    BY <1>1
  <2> QED BY <1>1, <2>1
<1>3. ASSUME NEW k \in Consumers(n, <<l, o>>)
      PROVE  /\ k = <<k[1], k[2]>> /\ k[1] \in DOMAIN n /\ k[2] \in DOMAIN n[k[1]]
             /\ n[k[1]][k[2]] = <<l, o>> /\ n[k[1]][k[2]][1] = l
  <2>1. PICK c \in DOMAIN n : \E i \in DOMAIN n[c] : k = <<c, i>>
    BY <1>1
  <2>2. PICK i \in DOMAIN n[c] : k = <<c, i>>
    BY <2>1
  <2>3. k[1] = c /\ k[2] = i
    BY <2>2
  <2>4. n[k[1]][k[2]] = <<l, o>>
    BY <1>1
  <2>5. <<l, o>>[1] = l
    OBVIOUS
  <2> QED BY <2>2, <2>3, <2>4, <2>5
<1> QED BY <1>2, <1>3

\* A layer that was called with all its diffs was not trained before, all the layers
\* that read it were, and all of them have sent.
LEMMA ReadyFacts ==
    ASSUME NetworkI, phase = "backward", NEW l \in Layers, Calls(l), DiffsReady(l), Trainable(l)
    PROVE  /\ l \notin trained
           /\ \A c \in DOMAIN net : \A i \in DOMAIN net[c] : Input(c, i) = l => c \in trained
           /\ \A o \in Outputs(net, l) : Sent(l, o) = Consumers(net, <<l, o>>)
<1>1. TypeI /\ CallI /\ TrainedI /\ CountI
  BY DEF NetworkI, PassI
<1>2. net \in Networks /\ DOMAIN net \subseteq Nat \ {0} /\ sink \in Nat
  BY <1>1, StackFacts DEF CallI
<1>3. /\ l \in DOMAIN net /\ ~OnStack(l)
      /\ stack = <<>> => IsSink(net, l) /\ l > sink
      /\ stack # <<>> => ~IsSink(net, l)
  BY <1>1, CallFacts
<1>4. ready[l] \in [Outputs(net, l) -> Nat]
  BY <1>1, <1>3 DEF CountI
<1>5. \A o \in Outputs(net, l) : ready[l][o] >= Cardinality(Consumers(net, <<l, o>>))
  BY <1>4 DEF DiffsReady
<1>6. l \notin trained
  <2>1. SUFFICES ASSUME l \in trained PROVE FALSE
    OBVIOUS
  <2>2. CASE IsSink(net, l)
    <3>1. l <= sink
      BY <1>1, <1>3, <2>1, <2>2 DEF TrainedI
    <3>2. l > sink /\ l \in Nat
      BY <1>2, <1>3, <2>2
    <3> QED BY <1>2, <3>1, <3>2
  <2>3. CASE ~IsSink(net, l)
    <3> DEFINE o == OutputCount(net, l)
               C == Consumers(net, <<l, o>>)
    <3>1. o \in Outputs(net, l) /\ \E c \in DOMAIN net : \E i \in DOMAIN net[c] : net[c][i] = <<l, o>>
      BY <1>2, <2>3, OutputFacts
    <3>a. PICK c \in DOMAIN net : \E i \in DOMAIN net[c] : net[c][i] = <<l, o>>
      BY <3>1
    <3>b. PICK i \in DOMAIN net[c] : net[c][i] = <<l, o>>
      BY <3>a
    <3>c. <<c, i>> \in C
      BY <1>2, <3>b, ConsumerPairs
    <3>d. IsFiniteSet(C)
      BY <1>2, ConsumerFacts
    <3>2. C # {} /\ IsFiniteSet(C)
      BY <3>c, <3>d
    <3>3. ready[l][o] = 0
      BY <1>1, <1>3, <2>1, <3>1 DEF CountI
    <3>4. ready[l][o] >= Cardinality(C)
      BY <1>5, <3>1
    <3> HIDE DEF C
    <3>5. Cardinality(C) # 0 /\ Cardinality(C) \in Nat
      BY <3>2, FS_EmptySet, FS_CardinalityType
    <3> QED BY <3>3, <3>4, <3>5
  <2> QED BY <2>2, <2>3
<1>7. ASSUME NEW o \in Outputs(net, l) PROVE Sent(l, o) = Consumers(net, <<l, o>>)
  <2>1. ready[l][o] = Cardinality(Sent(l, o))
    BY <1>1, <1>3, <1>6 DEF CountI
  <2>2. Cardinality(Sent(l, o)) >= Cardinality(Consumers(net, <<l, o>>))
    BY <1>5, <2>1
  <2> QED BY <1>2, <2>2, SentFacts
<1>8. ASSUME NEW c \in DOMAIN net, NEW i \in DOMAIN net[c], Input(c, i) = l PROVE c \in trained
  <2>1. net[c][i][2] \in Outputs(net, l) /\ net[c][i] = <<l, net[c][i][2]>>
    BY <1>2, <1>8, OutputFacts, NetworkFacts DEF Input
  <2>2. <<c, i>> \in Consumers(net, <<l, net[c][i][2]>>)
    BY <1>2, <2>1, ConsumerPairs
  <2>3. <<c, i>> \in Sent(l, net[c][i][2])
    BY <1>7, <2>1, <2>2
  <2> QED BY <2>3 DEF Sent
<1> QED BY <1>6, <1>7, <1>8

\* What every step of the recursion in the backward pass keeps.
LEMMA StillBackward ==
    ASSUME NetworkI, phase = "backward", phase' = "backward", CallI',
           UNCHANGED <<net, rebuildNeeded, runNumber, lastRun, backward, inDiffs, learningOn,
                       netLearning, backwardNeeded>>,
           DOMAIN ready' = Layers, DOMAIN outDiffs' = Layers,
           TrainedI', CountI', DiffsI', PendingI'
    PROVE  NetworkI'
<1>1. TypeI'
  BY DEF NetworkI, TypeI, Phases, AtRest
<1>2. NeedI'
  BY DEF NetworkI, PassI, NeedI, Trainable, LearningNeeded, Input
<1>3. InDiffsI' /\ SettledI' /\ ForwardI'
  BY DEF NetworkI, PassI, SettledI, Settled, InDiffsI, ForwardI
<1> QED BY <1>1, <1>2, <1>3 DEF NetworkI, PassI

\* A layer still to come is not lost when a call that has nothing to do returns.
LEMMA BackSkipKeeps == ASSUME NetworkI, NEW l \in Layers, BackSkip(l) PROVE NetworkI'
<1>1. TypeI /\ CallI /\ TrainedI /\ CountI /\ DiffsI /\ PendingI
  BY DEF NetworkI, PassI
<1>2. /\ phase = "backward" /\ Calls(l) /\ Skipped(l) /\ ~DiffsReady(l)
      /\ UNCHANGED <<net, rebuildNeeded, runNumber, backward, ready, outDiffs, inDiffs, learningOn,
                     netLearning, backwardNeeded, ran, trained, lastRun>>
  BY DEF BackSkip, Skipped, userVars, dnnVars, shapeVars, blobVars, diffVars
<1>3. /\ ~AtRest /\ phase # "recheck"
  BY <1>2 DEF AtRest
<1>4. /\ CallI' /\ phase' = phase /\ sink' = CalledSink(l)
      /\ DOMAIN stack' = 1 .. Len(stack)
      /\ \A k \in 1 .. Len(stack) :
            /\ stack'[k].layer = stack[k].layer
            /\ k < Len(stack) => stack'[k] = stack[k]
            /\ k = Len(stack) => stack'[k].next = stack[k].next + 1
      /\ \A m \in Layers : OnStack(m)' <=> OnStack(m)
  BY <1>1, <1>2, <1>3, SkipKeeps
<1>5. /\ Len(stack) \in Nat /\ DOMAIN stack = 1 .. Len(stack) /\ net \in Networks
      /\ DOMAIN net \subseteq Layers
      /\ \A k \in 1 .. Len(stack) : stack[k].next \in Nat /\ stack[k].layer \in DOMAIN net
  BY <1>1, StackFacts
<1>6. /\ l \in DOMAIN net
      /\ stack = <<>> => IsSink(net, l)
      /\ stack # <<>> => /\ Top = stack[Len(stack)]
                         /\ Input(Top.layer, Top.next) = l
  BY <1>1, <1>2, CallFacts
<1>7. PICK o \in DOMAIN ready[l] : ~(ready[l][o] >= Cardinality(Consumers(net, <<l, o>>)))
  BY <1>2 DEF DiffsReady
<1>8. DOMAIN ready[l] = {} \/ DOMAIN ready[l] = Outputs(net, l)
  <2>1. CASE Trainable(l)
    BY <1>1, <1>2, <1>6, <2>1 DEF CountI
  <2>2. CASE ~Trainable(l)
    <3>1. AtZero(l)
      BY <1>1, <1>2, <1>6, <2>2 DEF CountI
    <3> QED BY <3>1 DEF AtZero
  <2> QED BY <2>1, <2>2
<1>9. o \in Outputs(net, l)
  BY <1>7, <1>8
<1>10. stack # <<>> /\ sink' = sink
  <2>1. ~IsSink(net, l)
    <3>1. OutputCount(net, l) \in Nat /\ Outputs(net, l) = 1 .. OutputCount(net, l)
      BY <1>5, OutputFacts
    <3> QED BY <1>9, <3>1 DEF IsSink
  <2> QED BY <1>4, <1>6, <2>1 DEF CalledSink
<1>11. \A m \in Layers : /\ (Trainable(m)' <=> Trainable(m)) /\ (AtZero(m)' <=> AtZero(m))
                         /\ \A p : Sent(m, p)' = Sent(m, p) /\ DiffsOf(Sent(m, p))' = DiffsOf(Sent(m, p))
  BY <1>2 DEF Trainable, LearningNeeded, AtZero, Sent, DiffsOf
<1>12. TrainedI'
  <2>1. \A k \in DOMAIN stack' : /\ stack'[k].layer = stack[k].layer
                                 /\ Trainable(stack[k].layer) => stack[k].layer \in trained
    BY <1>1, <1>2, <1>4, <1>5 DEF TrainedI
  <2>2. \A k \in DOMAIN stack' :
            stack'[k].layer \in backwardNeeded' \/ LearningNeeded(stack[k].layer)
                => stack'[k].layer \in trained'
    BY <1>2, <2>1 DEF Trainable
  <2>3. /\ backward' /\ ran' = DOMAIN net'
        /\ trained' \subseteq {m \in DOMAIN net' : Trainable(m)'}
        /\ \A c \in DOMAIN net' : \A i \in DOMAIN net'[c] : net'[c][i][1] \in trained' => c \in trained'
        /\ \A m \in DOMAIN net' : IsSink(net', m) /\ Trainable(m)' => (m \in trained' <=> m <= sink')
    BY <1>1, <1>2, <1>5, <1>10, <1>11 DEF TrainedI, Input
  <2> QED BY <1>2, <2>1, <2>2, <2>3 DEF TrainedI, Input, Trainable, LearningNeeded
<1>13. CountI' /\ DiffsI'
  <2>1. CountI'
    BY <1>1, <1>2, <1>4, <1>5, <1>11 DEF CountI
  <2>2. DiffsI'
    BY <1>1, <1>2, <1>5, <1>11 DEF DiffsI
  <2> QED BY <2>1, <2>2
<1>14. PendingI'
  <2> SUFFICES ASSUME NEW m \in DOMAIN net, Trainable(m), m \notin trained, ~IsSink(net, m),
                      \A c \in DOMAIN net : \A i \in DOMAIN net[c] : Input(c, i) = m => c \in trained
               PROVE  \E k \in DOMAIN stack' : \E i \in DOMAIN net[stack'[k].layer] :
                          stack'[k].next <= i /\ net[stack'[k].layer][i][1] = m
    BY <1>2, <1>5, <1>11 DEF PendingI, Input
  <2>1. PICK k \in DOMAIN stack : \E i \in DOMAIN net[stack[k].layer] :
                stack[k].next <= i /\ Input(stack[k].layer, i) = m
    BY <1>1, <1>2 DEF PendingI
  <2>2. PICK i \in DOMAIN net[stack[k].layer] : stack[k].next <= i /\ Input(stack[k].layer, i) = m
    BY <2>1
  <2>3. m # l
    <3> SUFFICES ASSUME m = l PROVE FALSE
      OBVIOUS
    <3>1. ready[l][o] = Cardinality(Sent(l, o))
      BY <1>1, <1>2, <1>9 DEF CountI
    <3>2. Consumers(net, <<l, o>>) \subseteq Sent(l, o)
      BY <1>5, ConsumerPairs DEF Sent, Input
    <3>3. Sent(l, o) = Consumers(net, <<l, o>>) /\ Cardinality(Sent(l, o)) \in Nat
      BY <1>5, <3>2, SentFacts
    <3> QED BY <1>7, <3>1, <3>3
  <2>4. CASE k < Len(stack)
    BY <1>4, <1>5, <2>2, <2>4 DEF Input
  <2>5. CASE ~(k < Len(stack))
    <3>1. Len(stack) \in Nat /\ k \in 1 .. Len(stack)
      BY <1>5
    <3>2. k = Len(stack)
      BY <2>5, <3>1
    <3>3. /\ stack'[k].layer = stack[k].layer /\ stack'[k].next = stack[k].next + 1
          /\ Input(stack[k].layer, stack[k].next) = l
      BY <1>4, <1>6, <1>10, <3>1, <3>2
    <3>4. stack[k].next \in Nat /\ i \in Nat
      <4>1. stack[k].next \in Nat /\ stack[k].layer \in DOMAIN net
        BY <1>5
      <4>2. DOMAIN net[stack[k].layer] = 1 .. Len(net[stack[k].layer])
        BY <1>5, <4>1, NetworkFacts
      <4> QED BY <4>1, <4>2
    <3>5. i # stack[k].next
      BY <2>2, <2>3, <3>3
    <3>6. stack[k].next + 1 <= i
      BY <2>2, <3>4, <3>5
    <3> QED BY <1>4, <1>5, <2>2, <3>3, <3>6 DEF Input
  <2> QED BY <2>4, <2>5
<1>15. DOMAIN ready' = Layers /\ DOMAIN outDiffs' = Layers
  BY <1>1, <1>2 DEF TypeI
<1> QED BY <1>2, <1>4, <1>12, <1>13, <1>14, <1>15, StillBackward

\* The counts of a layer start again when its call returns; the layer it returns to goes on.
LEMMA BackResetKeeps == ASSUME NetworkI, NEW l \in Layers, BackReset(l) PROVE NetworkI'
<1>1. TypeI /\ CallI /\ TrainedI /\ CountI /\ DiffsI /\ PendingI
  BY DEF NetworkI, PassI
<1>2. /\ phase = "backward" /\ Left(l)
      /\ ready' = [ready EXCEPT ![l] = [o \in DOMAIN ready[l] |-> 0]]
      /\ UNCHANGED <<net, rebuildNeeded, runNumber, backward, outDiffs, inDiffs, learningOn,
                     netLearning, backwardNeeded, ran, trained, lastRun>>
  BY DEF BackReset, Left, userVars, dnnVars, shapeVars
<1>3. /\ ~AtRest /\ phase # "recheck"
  BY <1>2 DEF AtRest
<1>4. /\ CallI' /\ phase' = phase /\ sink' = sink
      /\ l \in DOMAIN net /\ OnStack(l)
      /\ Len(stack) \in 1 .. Len(stack) /\ stack[Len(stack)].layer = l
      /\ \A i \in DOMAIN net[l] : i < stack[Len(stack)].next
      /\ DOMAIN stack' = 1 .. Len(stack) - 1
      /\ \A k \in 1 .. Len(stack) - 1 :
            /\ stack[k].layer # l
            /\ stack'[k].layer = stack[k].layer
            /\ k < Len(stack) - 1 => stack'[k] = stack[k]
            /\ k = Len(stack) - 1 => /\ stack'[k].next = stack[k].next + 1
                                     /\ Input(stack[k].layer, stack[k].next) = l
      /\ \A m \in Layers : OnStack(m)' <=> OnStack(m) /\ m # l
  BY <1>1, <1>2, <1>3, LeaveKeeps
<1>5. /\ Len(stack) \in Nat /\ DOMAIN stack = 1 .. Len(stack) /\ net \in Networks
      /\ DOMAIN net \subseteq Layers
      /\ \A k \in 1 .. Len(stack) : stack[k].next \in Nat /\ stack[k].layer \in DOMAIN net
  BY <1>1, StackFacts
<1>6. \A k \in 1 .. Len(stack) - 1 : k \in DOMAIN stack
  BY <1>5
<1>7. /\ \A m \in Layers : Trainable(m)' <=> Trainable(m)
      /\ \A m, p : Sent(m, p)' = Sent(m, p) /\ DiffsOf(Sent(m, p))' = DiffsOf(Sent(m, p))
  BY <1>2 DEF Trainable, LearningNeeded, Sent, DiffsOf
<1>8. DOMAIN ready = Layers
  BY <1>1 DEF TypeI
<1>9. Trainable(l) => l \in trained
  <2>1. Len(stack) \in DOMAIN stack
    BY <1>4, <1>5
  <2> QED BY <1>1, <1>2, <1>4, <2>1 DEF TrainedI
<1>10. TrainedI'
  <2>1. \A k \in DOMAIN stack' : /\ stack'[k].layer = stack[k].layer
                                 /\ Trainable(stack[k].layer) => stack[k].layer \in trained
    BY <1>1, <1>2, <1>4, <1>6 DEF TrainedI
  <2>2. \A k \in DOMAIN stack' :
            stack'[k].layer \in backwardNeeded' \/ LearningNeeded(stack[k].layer)
                => stack'[k].layer \in trained'
    BY <1>2, <2>1 DEF Trainable
  <2>3. /\ backward' /\ ran' = DOMAIN net'
        /\ trained' \subseteq {m \in DOMAIN net' : Trainable(m)'}
        /\ \A c \in DOMAIN net' : \A i \in DOMAIN net'[c] : net'[c][i][1] \in trained' => c \in trained'
        /\ \A m \in DOMAIN net' : IsSink(net', m) /\ Trainable(m)' => (m \in trained' <=> m <= sink')
    BY <1>1, <1>2, <1>4, <1>5, <1>7 DEF TrainedI, Input
  <2> QED BY <1>2, <2>1, <2>2, <2>3 DEF TrainedI, Input, Trainable, LearningNeeded
<1>11. CountI'
  <2>1. ASSUME NEW m \in DOMAIN net
        PROVE  /\ ~Trainable(m) => AtZero(m)'
               /\ Trainable(m) => ready'[m] \in [Outputs(net, m) -> Nat]
               /\ Trainable(m) /\ m \notin trained =>
                     \A o \in Outputs(net, m) : ready'[m][o] = Cardinality(Sent(m, o))
               /\ m \in trained /\ ~OnStack(m)' => \A o \in Outputs(net, m) : ready'[m][o] = 0
    <3>1. /\ ~Trainable(m) => AtZero(m)
          /\ Trainable(m) => ready[m] \in [Outputs(net, m) -> Nat]
          /\ Trainable(m) /\ m \notin trained =>
                \A o \in Outputs(net, m) : ready[m][o] = Cardinality(Sent(m, o))
          /\ m \in trained /\ ~OnStack(m) => \A o \in Outputs(net, m) : ready[m][o] = 0
      BY <1>1, <1>2 DEF CountI
    <3>2. CASE m # l
      <4>1. ready'[m] = ready[m] /\ (OnStack(m)' <=> OnStack(m))
        BY <1>2, <1>4, <1>5, <1>8, <3>2
      <4>2. AtZero(m)' <=> AtZero(m)
        BY <1>2, <4>1 DEF AtZero
      <4> QED BY <3>1, <4>1, <4>2
    <3>3. CASE m = l
      <4>1. ready'[l] = [o \in DOMAIN ready[l] |-> 0]
        BY <1>2, <1>8
      <4>2. CASE Trainable(l)
        <5>1. ready'[l] = [o \in Outputs(net, l) |-> 0]
          BY <3>1, <3>3, <4>1, <4>2
        <5> QED BY <1>9, <3>3, <4>2, <5>1
      <4>3. CASE ~Trainable(l)
        <5>1. ready[l] = <<>> \/ ready[l] = [o \in Outputs(net, l) |-> 0]
          BY <3>1, <3>3, <4>3 DEF AtZero
        <5>2. ready'[l] = <<>> \/ ready'[l] = [o \in Outputs(net, l) |-> 0]
          <6>1. CASE ready[l] = <<>>
            <7>1. DOMAIN ready[l] = {}
              BY <6>1
            <7>2. ready'[l] = [o \in 1 .. 0 |-> 0]
              BY <4>1, <7>1
            <7>3. ready'[l] \in Seq(Nat) /\ Len(ready'[l]) = 0
              BY <7>2
            <7> QED BY <7>3, EmptySeq
          <6>2. CASE ready[l] = [o \in Outputs(net, l) |-> 0]
            BY <4>1, <6>2
          <6> QED BY <5>1, <6>1, <6>2
        <5>3. AtZero(l)'
          BY <1>2, <5>2 DEF AtZero
        <5>4. l \notin trained
          BY <1>1, <1>2, <4>3 DEF TrainedI
        <5> QED BY <3>3, <4>3, <5>3, <5>4
      <4> QED BY <4>2, <4>3
    <3> QED BY <3>2, <3>3
  <2> QED BY <1>2, <1>5, <1>7, <2>1 DEF CountI
<1>12. DiffsI'
  BY <1>1, <1>2, <1>4, <1>5, <1>7 DEF DiffsI
<1>13. PendingI'
  <2> SUFFICES ASSUME NEW m \in DOMAIN net, Trainable(m), m \notin trained, ~IsSink(net, m),
                      \A c \in DOMAIN net : \A i \in DOMAIN net[c] : Input(c, i) = m => c \in trained
               PROVE  \E k \in DOMAIN stack' : \E i \in DOMAIN net[stack'[k].layer] :
                          stack'[k].next <= i /\ net[stack'[k].layer][i][1] = m
    BY <1>2, <1>5, <1>7 DEF PendingI, Input
  <2>1. PICK k \in DOMAIN stack : \E i \in DOMAIN net[stack[k].layer] :
                stack[k].next <= i /\ Input(stack[k].layer, i) = m
    BY <1>1, <1>2 DEF PendingI
  <2>2. PICK i \in DOMAIN net[stack[k].layer] : stack[k].next <= i /\ Input(stack[k].layer, i) = m
    BY <2>1
  <2>3. m # l
    BY <1>9
  <2>4. stack[k].next \in Nat /\ i \in Nat
    <3>1. stack[k].next \in Nat /\ stack[k].layer \in DOMAIN net
      BY <1>5
    <3>2. DOMAIN net[stack[k].layer] = 1 .. Len(net[stack[k].layer])
      BY <1>5, <3>1, NetworkFacts
    <3> QED BY <3>1, <3>2
  <2>5. k # Len(stack)
    <3> SUFFICES ASSUME k = Len(stack) PROVE FALSE
      OBVIOUS
    <3>1. i < stack[k].next
      BY <1>4, <2>2
    <3> QED BY <2>2, <2>4, <3>1
  <2>6. Len(stack) \in Nat /\ k \in 1 .. Len(stack)
    BY <1>5
  <2>7. k \in 1 .. Len(stack) - 1
    BY <2>5, <2>6
  <2>8. CASE k < Len(stack) - 1
    BY <1>4, <2>2, <2>7, <2>8 DEF Input
  <2>9. CASE ~(k < Len(stack) - 1)
    <3>1. k = Len(stack) - 1
      BY <2>6, <2>7, <2>9
    <3>2. /\ stack'[k].layer = stack[k].layer /\ stack'[k].next = stack[k].next + 1
          /\ Input(stack[k].layer, stack[k].next) = l
      BY <1>4, <2>7, <3>1
    <3>3. i # stack[k].next
      BY <2>2, <2>3, <3>2
    <3>4. stack[k].next + 1 <= i
      BY <2>2, <2>4, <3>3
    <3> QED BY <1>4, <2>2, <2>7, <3>2, <3>4 DEF Input
  <2> QED BY <2>8, <2>9
<1>14. DOMAIN ready' = Layers /\ DOMAIN outDiffs' = Layers
  BY <1>1, <1>2 DEF TypeI
<1> QED BY <1>2, <1>4, <1>10, <1>11, <1>12, <1>13, <1>14, StillBackward

\* The pass is over when all the layers with something to do were trained: one that was
\* not would be read by one that was not, or called by nobody.
LEMMA AllTrained ==
    ASSUME NetworkI, phase = "backward", PhaseOver
    PROVE  trained = {l \in DOMAIN net : Trainable(l)}
<1> DEFINE S == {l \in DOMAIN net : Trainable(l)} \ trained
<1>1. TypeI /\ CallI /\ TrainedI /\ NeedI /\ PendingI
  BY DEF NetworkI, PassI
<1>2. net \in Networks /\ DOMAIN net \subseteq Nat \ {0} /\ sink \in Nat /\ stack = <<>>
  BY <1>1, StackFacts DEF CallI, PhaseOver
<1>3. trained \subseteq {l \in DOMAIN net : Trainable(l)}
  BY <1>1 DEF TrainedI
<1>4. SUFFICES ASSUME S # {} PROVE FALSE
  BY <1>3
<1>5. PICK l \in S : \A m \in S : Rank(net)[m] <= Rank(net)[l]
  <2>1. S \subseteq DOMAIN net
    OBVIOUS
  <2> HIDE DEF S
  <2> QED BY <1>2, <1>4, <2>1, TopLayer
<1>6. CASE IsSink(net, l)
  <2>1. ~(l > sink)
    BY <1>6 DEF PhaseOver, SinksLeft
  <2>2. l <= sink
    BY <1>2, <2>1
  <2> QED BY <1>1, <1>6, <2>2 DEF TrainedI
<1>7. CASE ~IsSink(net, l)
  <2>1. ASSUME NEW c \in DOMAIN net, NEW i \in DOMAIN net[c], Input(c, i) = l
        PROVE  c \in trained
    <3>1. Rank(net)[l] < Rank(net)[c] /\ Rank(net)[l] \in Nat /\ Rank(net)[c] \in Nat
      BY <1>2, <2>1, RankFacts DEF Input
    <3>2. c \notin S
      BY <1>5, <3>1
    <3>3. Trainable(c)
      BY <1>1, <2>1 DEF NeedI, Trainable
    <3> QED BY <3>2, <3>3
  <2>2. \E k \in DOMAIN stack : TRUE
    BY <1>1, <1>7, <2>1 DEF PendingI
  <2> QED BY <1>2, <2>2, EmptySeq
<1> QED BY <1>6, <1>7

LEMMA EndBackwardKeeps == ASSUME NetworkI, EndBackward PROVE NetworkI'
<1>1. TypeI /\ CountI /\ DiffsI /\ InDiffsI
  BY DEF NetworkI, PassI
<1>2. /\ phase = "backward" /\ PhaseOver /\ phase' = "idle" /\ sink' = 0 /\ stack' = <<>>
      /\ UNCHANGED <<net, rebuildNeeded, runNumber, lastRun, backward, ready, outDiffs, inDiffs>>
  BY DEF EndBackward, StartPhase, userVars, dnnVars, blobVars, diffVars
<1>3. TypeI' /\ CallI'
  BY <1>1, <1>2, EmptyStack DEF TypeI, Phases, AtRest
<1>4. ASSUME NEW l \in DOMAIN net PROVE AtZero(l) /\ outDiffs[l] = <<>>
  <2>1. l \in trained <=> Trainable(l)
    BY <1>2, AllTrained
  <2>2. outDiffs[l] = <<>>
    BY <1>1, <1>2, <2>1 DEF DiffsI
  <2>3. ~OnStack(l)
    BY <1>2, EmptySeq DEF OnStack, PhaseOver
  <2>4. AtZero(l)
    <3>1. CASE ~Trainable(l)
      BY <1>1, <1>2, <3>1 DEF CountI
    <3>2. CASE Trainable(l)
      <4>1. ready[l] \in [Outputs(net, l) -> Nat] /\ \A o \in Outputs(net, l) : ready[l][o] = 0
        BY <1>1, <1>2, <2>1, <2>3, <3>2 DEF CountI
      <4> QED BY <4>1 DEF AtZero
    <3> QED BY <3>1, <3>2
  <2> QED BY <2>2, <2>4
<1>5. inDiffs \cap DOMAIN net = {}
  BY <1>1, <1>2 DEF InDiffsI, TypeI, AtRest
<1>6. \A l \in DOMAIN net' : AtZero(l)' /\ outDiffs'[l] = <<>>
  BY <1>2, <1>4 DEF AtZero
<1> QED BY <1>2, <1>3, <1>5, <1>6, EarlyPhases

\* A layer that is trained sends to every output it reads, once for each of its inputs.
LEMMA SentAfter ==
    ASSUME net \in Networks, net' = net, runNumber' = runNumber, NEW l \in DOMAIN net, l \notin trained,
           trained' = trained \cup {l}, NEW m, NEW o
    PROVE  LET new == {<<l, i>> : i \in InputsFrom(l, m, o)}
           IN  /\ Sent(m, o)' = Sent(m, o) \cup new /\ Sent(m, o) \cap new = {}
               /\ new \subseteq Consumers(net, <<m, o>>)
               /\ Cardinality(InputsFrom(l, m, o)) \in Nat
               /\ Cardinality(Sent(m, o)') = Cardinality(Sent(m, o)) + Cardinality(InputsFrom(l, m, o))
               /\ DiffsOf(Sent(m, o))' =
                     DiffsOf(Sent(m, o)) \cup {<<l, i, runNumber>> : i \in InputsFrom(l, m, o)}
<1> DEFINE I == InputsFrom(l, m, o)
           new == {<<l, i>> : i \in I}
           C == Consumers(net, <<m, o>>)
           S == Sent(m, o)
           f == [i \in I |-> <<l, i>>]
<1>1. I \subseteq DOMAIN net[l] /\ \A i \in DOMAIN net[l] : i \in I <=> net[l][i] = <<m, o>>
  BY DEF InputsFrom
<1>2. /\ \A c \in DOMAIN net : \A i \in DOMAIN net[c] : <<c, i>> \in C <=> net[c][i] = <<m, o>>
      /\ \A k \in C : /\ k = <<k[1], k[2]>> /\ k[1] \in DOMAIN net /\ k[2] \in DOMAIN net[k[1]]
                      /\ net[k[1]][k[2]] = <<m, o>>
  BY ConsumerPairs
<1>3. S = {k \in C : k[1] \in trained} /\ Sent(m, o)' = {k \in C : k[1] \in trained \cup {l}}
  BY DEF Sent
<1>4. IsFiniteSet(I)
  <2>1. DOMAIN net[l] = 1 .. Len(net[l]) /\ Len(net[l]) \in Int
    BY NetworkFacts
  <2>2. IsFiniteSet(DOMAIN net[l])
    BY <2>1, FS_Interval
  <2> HIDE DEF I
  <2> QED BY <1>1, <2>2, FS_Subset
<1> HIDE DEF C, S, I
<1>5. \A k \in C : k[1] = l <=> k \in new
  <2>1. ASSUME NEW k \in C, k[1] = l PROVE k \in new
    <3>1. k = <<l, k[2]>> /\ k[2] \in DOMAIN net[l] /\ net[l][k[2]] = <<m, o>>
      BY <1>2, <2>1
    <3> QED BY <1>1, <3>1
  <2>2. ASSUME NEW k \in new PROVE k[1] = l
    BY <2>2
  <2> QED BY <2>1, <2>2
<1>6. new \subseteq C
  BY <1>1, <1>2
<1>7. IsFiniteSet(new) /\ Cardinality(new) = Cardinality(I)
  <2>a. f \in [I -> new] /\ \A x \in new : \E i \in I : f[i] = x
    OBVIOUS
  <2>b. ASSUME NEW i \in I, NEW j \in I, f[i] = f[j] PROVE i = j
    <3>1. <<l, i>> = <<l, j>>
      BY <2>b
    <3> QED BY <3>1
  <2>1. f \in Bijection(I, new)
    <3> HIDE DEF f, new
    <3> QED BY <2>a, <2>b DEF Bijection, Injection, Surjection, IsInjective
  <2> HIDE DEF f, new
  <2>2. ExistsBijection(I, new)
    BY <2>1 DEF ExistsBijection
  <2> QED BY <1>4, <2>2, FS_Bijection
<1> HIDE DEF new
<1>8. Sent(m, o)' = S \cup new /\ S \cap new = {}
  BY <1>3, <1>5, <1>6
<1>9. IsFiniteSet(S) /\ Cardinality(S) \in Nat
  BY SentFacts DEF S
<1>10. Cardinality(S \cup new) = Cardinality(S) + Cardinality(I) /\ Cardinality(I) \in Nat
  <2>1. Cardinality(S \cup new) = Cardinality(S) + Cardinality(new) - Cardinality(S \cap new)
    BY <1>7, <1>9, FS_Union
  <2>2. Cardinality(S \cap new) = 0
    BY <1>8, FS_EmptySet
  <2>3. Cardinality(I) \in Nat
    BY <1>4, FS_CardinalityType
  <2> QED BY <1>7, <1>9, <2>1, <2>2, <2>3
<1>11. DiffsOf(Sent(m, o))' = DiffsOf(S) \cup {<<l, i, runNumber>> : i \in I}
  <2>1. DiffsOf(Sent(m, o))' = {<<k[1], k[2], runNumber>> : k \in S \cup new}
    BY <1>8 DEF DiffsOf
  <2>2. {<<k[1], k[2], runNumber>> : k \in new} = {<<l, i, runNumber>> : i \in I}
    <3>1. ASSUME NEW k \in new
          PROVE  <<k[1], k[2], runNumber>> \in {<<l, i, runNumber>> : i \in I}
      <4>1. PICK i \in I : k = <<l, i>>
        BY DEF new
      <4> QED BY <4>1
    <3>2. ASSUME NEW i \in I
          PROVE  <<l, i, runNumber>> \in {<<k[1], k[2], runNumber>> : k \in new}
      <4>1. <<l, i>> \in new /\ <<l, i>>[1] = l /\ <<l, i>>[2] = i
        BY DEF new
      <4> QED BY <4>1
    <3> QED BY <3>1, <3>2
  <2>3. {<<k[1], k[2], runNumber>> : k \in S \cup new}
            = {<<k[1], k[2], runNumber>> : k \in S} \cup {<<k[1], k[2], runNumber>> : k \in new}
    OBVIOUS
  <2> QED BY <2>1, <2>2, <2>3 DEF DiffsOf
<1>12. Cardinality(Sent(m, o)') = Cardinality(S) + Cardinality(I)
  BY <1>8, <1>10
<1> QED BY <1>6, <1>8, <1>10, <1>11, <1>12 DEF new, C, S, I

\* The layers that layer l passes diffs to.
Passed(l) == {net[l][i][1] : i \in DOMAIN net[l]} \cap {m \in DOMAIN net : Trainable(m)}

\* A call in the backward pass, whether it passes diffs back or only learns or neither.
LEMMA BackLayerFacts ==
    ASSUME NetworkI, NEW l \in Layers, BackLayer(l)
    PROVE  /\ trained' = (IF Trainable(l) THEN trained \cup {l} ELSE trained)
           /\ \E i \in Nat \ {0} : Entered(l, i) /\ (l \in backwardNeeded => i = 1)
           /\ \A m \in Passed(l) : /\ m \in DOMAIN net /\ Trainable(m) /\ m \notin trained /\ m # l
                                   /\ l \in backwardNeeded /\ l \notin trained
           /\ DOMAIN ready' = Layers /\ DOMAIN outDiffs' = Layers
           /\ \A m \in Layers :
                 ready'[m] = IF m \in Passed(l)
                             THEN [o \in DOMAIN ready[m] |-> ready[m][o] + Cardinality(InputsFrom(l, m, o))]
                             ELSE ready[m]
           /\ \A m \in Layers :
                 outDiffs'[m] = IF m = l THEN <<>>
                                ELSE IF m \in Passed(l) THEN Transferred(l, m) ELSE outDiffs[m]
<1>1. TypeI /\ CallI /\ TrainedI /\ NeedI
  BY DEF NetworkI, PassI
<1>2. phase = "backward" /\ Calls(l) /\ DiffsReady(l)
  BY DEF BackLayer
<1>3. backward
  BY <1>1, <1>2 DEF TrainedI
<1>4. /\ net \in Networks /\ DOMAIN net \subseteq Layers /\ l \in DOMAIN net
  BY <1>1, <1>2, StackFacts, CallFacts
<1>5. /\ (BackwardPerformed(l) <=> l \in backwardNeeded)
      /\ \A m : Trains(m) <=> Trainable(m)
  BY <1>3 DEF BackwardPerformed, LearningPerformed, Trains, Trainable
<1>6. trained' = (IF Trainable(l) THEN trained \cup {l} ELSE trained)
  BY <1>5 DEF BackLayer
<1>7. ASSUME NEW m \in Passed(l)
      PROVE  /\ m \in DOMAIN net /\ Trainable(m) /\ m \notin trained /\ m # l
             /\ l \in backwardNeeded /\ l \notin trained
  <2>1. m \in DOMAIN net /\ Trainable(m)
    BY DEF Passed
  <2>2. PICK i \in DOMAIN net[l] : Input(l, i) = m
    BY DEF Passed, Input
  <2>3. l \in backwardNeeded
    BY <1>1, <1>2, <1>4, <2>1, <2>2 DEF NeedI
  <2>4. l \notin trained
    BY <1>2, <2>3, ReadyFacts DEF Trainable
  <2>5. m \notin trained
    BY <1>1, <1>2, <1>4, <2>2, <2>4 DEF TrainedI
  <2>6. m # l
    <3>1. Rank(net)[m] < Rank(net)[l] /\ Rank(net)[l] \in Nat
      BY <1>4, <2>2, RankFacts DEF Input
    <3> QED BY <3>1
  <2> QED BY <2>1, <2>3, <2>4, <2>5, <2>6
<1>8. DOMAIN ready = Layers /\ DOMAIN outDiffs = Layers
  BY <1>1 DEF TypeI
<1>9. Len(net[l]) + 1 \in Nat \ {0} /\ 1 \in Nat \ {0}
  BY <1>4, NetworkFacts
<1>10. CASE l \in backwardNeeded
  <2>1. {net[l][i][1] : i \in DOMAIN net[l]} \cap {m \in DOMAIN net : Trains(m)} = Passed(l)
    BY <1>5 DEF Passed
  <2>2. /\ EnterAt(l, 1)
        /\ outDiffs' = [m \in Layers |-> IF m = l THEN <<>>
                                         ELSE IF m \in Passed(l) THEN Transferred(l, m)
                                         ELSE outDiffs[m]]
        /\ ready' = [m \in Layers |->
              IF m \in Passed(l)
              THEN [o \in DOMAIN ready[m] |-> ready[m][o] + Cardinality(InputsFrom(l, m, o))]
              ELSE ready[m]]
    BY <1>5, <1>10, <2>1 DEF BackLayer
  <2>3. Entered(l, 1)
    BY <1>2, <2>2 DEF Entered
  <2> QED BY <1>6, <1>7, <1>9, <2>2, <2>3
<1>11. CASE l \notin backwardNeeded
  <2>1. Passed(l) = {}
    BY <1>7, <1>11
  <2>2. /\ EnterAt(l, Len(net[l]) + 1) /\ outDiffs' = [outDiffs EXCEPT ![l] = <<>>] /\ ready' = ready
    BY <1>5, <1>11 DEF BackLayer
  <2>3. Entered(l, Len(net[l]) + 1)
    BY <1>2, <2>2 DEF Entered
  <2>4. /\ DOMAIN outDiffs' = Layers
        /\ \A m \in Layers : outDiffs'[m] = IF m = l THEN <<>> ELSE outDiffs[m]
    BY <1>8, <2>2
  <2> QED BY <1>6, <1>8, <1>9, <1>11, <2>1, <2>2, <2>3, <2>4
<1> QED BY <1>10, <1>11

\* What was sent when a layer has been called with all its diffs.
LEMMA SentNow ==
    ASSUME NetworkI, NEW l \in Layers, BackLayer(l), NEW m \in DOMAIN net, Trainable(m),
           NEW o
    PROVE  /\ m \notin Passed(l) => Sent(m, o)' = Sent(m, o)
           /\ m \in Passed(l) =>
                 LET sent == {<<l, i, runNumber>> : i \in InputsFrom(l, m, o)}
                     all == Consumers(net, <<m, o>>)
                 IN  /\ Cardinality(InputsFrom(l, m, o)) \in Nat
                     /\ Cardinality(Sent(m, o)') = Cardinality(Sent(m, o)) + Cardinality(InputsFrom(l, m, o))
                     /\ DiffsOf(Sent(m, o))' = DiffsOf(Sent(m, o)) \cup sent
                     /\ sent # {} /\ Cardinality(all) = 1 => Sent(m, o) = {}
<1>1. TypeI /\ CallI /\ phase = "backward" /\ Calls(l) /\ DiffsReady(l)
  BY DEF NetworkI, BackLayer
<1>2. net \in Networks /\ l \in DOMAIN net /\ net' = net /\ runNumber' = runNumber
  BY <1>1, StackFacts, CallFacts DEF BackLayer, userVars, dnnVars
<1>3. /\ trained' = (IF Trainable(l) THEN trained \cup {l} ELSE trained)
      /\ \A p \in Passed(l) : l \in backwardNeeded /\ l \notin trained
  BY BackLayerFacts
<1>4. ASSUME l \notin trained, trained' = trained \cup {l}
      PROVE  LET new == {<<l, i>> : i \in InputsFrom(l, m, o)}
             IN  /\ Sent(m, o)' = Sent(m, o) \cup new /\ Sent(m, o) \cap new = {}
                 /\ new \subseteq Consumers(net, <<m, o>>)
                 /\ Cardinality(InputsFrom(l, m, o)) \in Nat
                 /\ Cardinality(Sent(m, o)') = Cardinality(Sent(m, o)) + Cardinality(InputsFrom(l, m, o))
                 /\ DiffsOf(Sent(m, o))' =
                       DiffsOf(Sent(m, o)) \cup {<<l, i, runNumber>> : i \in InputsFrom(l, m, o)}
  BY <1>2, <1>4, SentAfter
<1>5. ASSUME m \notin Passed(l) PROVE Sent(m, o)' = Sent(m, o)
  <2>1. CASE ~Trainable(l)
    BY <1>2, <1>3, <2>1 DEF Sent
  <2>2. CASE Trainable(l)
    <3>1. l \notin trained /\ trained' = trained \cup {l}
      BY <1>1, <1>3, <2>2, ReadyFacts
    <3>2. InputsFrom(l, m, o) = {}
      <4> SUFFICES ASSUME NEW i \in DOMAIN net[l], net[l][i] = <<m, o>> PROVE FALSE
        BY DEF InputsFrom
      <4>1. net[l][i][1] = m
        OBVIOUS
      <4> QED BY <1>5, <4>1 DEF Passed
    <3>3. Sent(m, o)' = Sent(m, o) \cup {<<l, i>> : i \in InputsFrom(l, m, o)}
      BY <1>4, <3>1
    <3> QED BY <3>2, <3>3
  <2> QED BY <2>1, <2>2
<1>6. ASSUME m \in Passed(l)
      PROVE  LET sent == {<<l, i, runNumber>> : i \in InputsFrom(l, m, o)}
                 all == Consumers(net, <<m, o>>)
             IN  /\ Cardinality(InputsFrom(l, m, o)) \in Nat
                 /\ Cardinality(Sent(m, o)') = Cardinality(Sent(m, o)) + Cardinality(InputsFrom(l, m, o))
                 /\ DiffsOf(Sent(m, o))' = DiffsOf(Sent(m, o)) \cup sent
                 /\ sent # {} /\ Cardinality(all) = 1 => Sent(m, o) = {}
  <2> DEFINE I == InputsFrom(l, m, o)
             new == {<<l, i>> : i \in I}
             all == Consumers(net, <<m, o>>)
  <2>1. l \notin trained /\ trained' = trained \cup {l}
    BY <1>3, <1>6 DEF Trainable
  <2>2. /\ Sent(m, o) \cap new = {} /\ new \subseteq all
        /\ Cardinality(I) \in Nat
        /\ Cardinality(Sent(m, o)') = Cardinality(Sent(m, o)) + Cardinality(I)
        /\ DiffsOf(Sent(m, o))' = DiffsOf(Sent(m, o)) \cup {<<l, i, runNumber>> : i \in I}
    BY <1>4, <2>1
  <2>3. ASSUME NEW i \in I, Cardinality(all) = 1 PROVE Sent(m, o) = {}
    <3>1. <<l, i>> \in new
      OBVIOUS
    <3>2. IsFiniteSet(all) /\ Sent(m, o) \subseteq all
      BY <1>2, ConsumerFacts, SentFacts
    <3> HIDE DEF all, new
    <3>3. PICK x : all = {x}
      BY <2>3, <3>2, FS_Singleton
    <3> QED BY <2>2, <3>1, <3>2, <3>3
  <2> QED BY <2>2, <2>3
<1> QED BY <1>5, <1>6

\* The diffs passed to a layer are added to those it has: a blob that is given or copied
\* is never in the place of others.
LEMMA TransferAdds ==
    ASSUME NetworkI, NEW l \in Layers, BackLayer(l), NEW m \in Passed(l), NEW o \in Outputs(net, m)
    PROVE  Transferred(l, m) # <<>> /\ Transferred(l, m)[o] = DiffsOf(Sent(m, o))'
<1>1. TypeI /\ CallI /\ CountI /\ DiffsI /\ phase = "backward" /\ Calls(l)
  BY DEF NetworkI, PassI, BackLayer
<1>2. net \in Networks /\ l \in DOMAIN net
  BY <1>1, StackFacts, CallFacts
<1>3. m \in DOMAIN net /\ Trainable(m) /\ m \notin trained
  BY BackLayerFacts
<1> DEFINE sent == {<<l, i, runNumber>> : i \in InputsFrom(l, m, o)}
           all == Consumers(net, <<m, o>>)
           old == IF outDiffs[m] = <<>> THEN {} ELSE outDiffs[m][o]
           S == Sent(m, o)
<1>4. /\ DiffsOf(Sent(m, o))' = DiffsOf(S) \cup sent
      /\ sent # {} /\ Cardinality(all) = 1 => S = {}
  BY <1>3, SentNow
<1>5. old = DiffsOf(S) /\ ready[m][o] = Cardinality(S)
  BY <1>1, <1>3 DEF CountI, DiffsI
<1>6. S = {} => DiffsOf(S) = {}
  BY DEF DiffsOf
<1>7. Cardinality(S) = 0 <=> S = {}
  BY <1>2, SentFacts
<1>8. /\ DOMAIN Transferred(l, m) = Outputs(net, m)
      /\ Transferred(l, m)[o] = IF sent = {} THEN old
                                ELSE IF Cardinality(all) = 1 \/ ready[m][o] = 0 THEN sent
                                ELSE old \cup sent
  BY DEF Transferred
<1>9. Transferred(l, m) # <<>>
  BY <1>8
<1> HIDE DEF sent, all, old, S
<1>10. Transferred(l, m)[o] = DiffsOf(S) \cup sent
  <2>1. CASE sent = {}
    BY <1>5, <1>8, <2>1
  <2>2. CASE sent # {} /\ (Cardinality(all) = 1 \/ ready[m][o] = 0)
    BY <1>4, <1>5, <1>6, <1>7, <1>8, <2>2
  <2>3. CASE sent # {} /\ ~(Cardinality(all) = 1 \/ ready[m][o] = 0)
    BY <1>5, <1>8, <2>3
  <2> QED BY <2>1, <2>2, <2>3
<1> QED BY <1>4, <1>9, <1>10

LEMMA BackLayerKeeps == ASSUME NetworkI, NEW l \in Layers, BackLayer(l) PROVE NetworkI'
<1>1. TypeI /\ CallI /\ TrainedI /\ CountI /\ DiffsI /\ PendingI /\ NeedI
  BY DEF NetworkI, PassI
<1>2. /\ phase = "backward" /\ Calls(l) /\ DiffsReady(l)
      /\ UNCHANGED <<net, rebuildNeeded, runNumber, backward, inDiffs, learningOn,
                     netLearning, backwardNeeded, ran, lastRun>>
  BY DEF BackLayer, userVars, dnnVars, shapeVars, blobVars
<1>3. /\ trained' = (IF Trainable(l) THEN trained \cup {l} ELSE trained)
      /\ \E i \in Nat \ {0} : Entered(l, i) /\ (l \in backwardNeeded => i = 1)
      /\ \A m \in Passed(l) : /\ m \in DOMAIN net /\ Trainable(m) /\ m \notin trained /\ m # l
                              /\ l \in backwardNeeded /\ l \notin trained
      /\ DOMAIN ready' = Layers /\ DOMAIN outDiffs' = Layers
  BY BackLayerFacts
<1>4. /\ \A m \in Layers :
            ready'[m] = IF m \in Passed(l)
                        THEN [o \in DOMAIN ready[m] |-> ready[m][o] + Cardinality(InputsFrom(l, m, o))]
                        ELSE ready[m]
      /\ \A m \in Layers :
            outDiffs'[m] = IF m = l THEN <<>>
                           ELSE IF m \in Passed(l) THEN Transferred(l, m) ELSE outDiffs[m]
  BY BackLayerFacts
<1>5. PICK start \in Nat \ {0} : Entered(l, start) /\ (l \in backwardNeeded => start = 1)
  BY <1>3
<1>6. /\ ~AtRest /\ phase # "recheck"
  BY <1>2 DEF AtRest
<1>7. /\ CallI' /\ phase' = phase /\ sink' = CalledSink(l)
      /\ DOMAIN stack' = 1 .. Len(stack) + 1
      /\ stack'[Len(stack) + 1] = [layer |-> l, next |-> start]
      /\ \A k \in 1 .. Len(stack) : stack'[k] = stack[k]
      /\ \A m \in Layers : OnStack(m)' <=> OnStack(m) \/ m = l
  BY <1>1, <1>2, <1>5, <1>6, EnterKeeps
<1>8. /\ Len(stack) \in Nat /\ DOMAIN stack = 1 .. Len(stack) /\ net \in Networks
      /\ DOMAIN net \subseteq Layers /\ DOMAIN net \subseteq Nat \ {0} /\ sink \in Nat
  BY <1>1, StackFacts DEF CallI
<1>9. /\ l \in DOMAIN net
      /\ stack = <<>> =>
            /\ l > sink
            /\ \A m \in DOMAIN net : IsSink(net, m) /\ m <= l => m = l \/ m <= sink
      /\ stack # <<>> => ~IsSink(net, l)
  BY <1>1, <1>2, CallFacts
<1>10. Trainable(l) =>
          /\ l \notin trained /\ l \in trained'
          /\ \A c \in DOMAIN net : \A i \in DOMAIN net[c] : Input(c, i) = l => c \in trained
  BY <1>2, <1>3, ReadyFacts
<1>11. \A m \in Layers : Trainable(m)' <=> Trainable(m)
  BY <1>2 DEF Trainable, LearningNeeded
<1>12. trained \subseteq trained' /\ trained' \subseteq trained \cup {l} /\ (l \in trained' => Trainable(l))
  <2>1. l \in trained => Trainable(l)
    BY <1>1, <1>2 DEF TrainedI
  <2> QED BY <1>3, <2>1
<1>13. TrainedI'
  <2>1. backward' /\ ran' = DOMAIN net'
    BY <1>1, <1>2 DEF TrainedI
  <2>2. trained' \subseteq {m \in DOMAIN net' : Trainable(m)'}
    <3>1. trained \subseteq {m \in DOMAIN net : Trainable(m)}
      BY <1>1, <1>2 DEF TrainedI
    <3> QED BY <1>2, <1>8, <1>9, <1>11, <1>12, <3>1
  <2>3. ASSUME NEW c \in DOMAIN net, NEW i \in DOMAIN net[c], net[c][i][1] \in trained'
        PROVE  c \in trained'
    BY <1>1, <1>2, <1>10, <1>12, <2>3 DEF TrainedI, Input
  <2>4. ASSUME NEW k \in DOMAIN stack',
               stack'[k].layer \in backwardNeeded' \/ LearningNeeded(stack'[k].layer)
        PROVE  stack'[k].layer \in trained'
    <3>1. CASE k = Len(stack) + 1
      <4>1. stack'[k].layer = l
        BY <1>7, <3>1
      <4> QED BY <1>2, <1>10, <2>4, <4>1 DEF Trainable
    <3>2. CASE k # Len(stack) + 1
      <4>1. k \in DOMAIN stack /\ k \in 1 .. Len(stack)
        BY <1>7, <1>8, <3>2
      <4>2. stack'[k].layer = stack[k].layer /\ (Trainable(stack[k].layer) => stack[k].layer \in trained)
        BY <1>1, <1>2, <1>7, <4>1 DEF TrainedI
      <4> QED BY <1>2, <1>12, <2>4, <4>2 DEF Trainable
    <3> QED BY <3>1, <3>2
  <2>5. ASSUME NEW m \in DOMAIN net, IsSink(net, m), Trainable(m)
        PROVE  m \in trained' <=> m <= sink'
    <3>1. m \in trained <=> m <= sink
      BY <1>1, <1>2, <2>5 DEF TrainedI
    <3>2. CASE stack = <<>>
      <4>1. sink' = l /\ l > sink /\ (m <= l => m = l \/ m <= sink)
        BY <1>7, <1>9, <2>5, <3>2 DEF CalledSink
      <4>2. m \in Nat /\ l \in Nat /\ sink \in Nat
        BY <1>8, <1>9
      <4>3. m <= sink' <=> m = l \/ m <= sink
        BY <4>1, <4>2
      <4> QED BY <1>10, <1>12, <2>5, <3>1, <4>3
    <3>3. CASE stack # <<>>
      <4>1. sink' = sink /\ m # l
        BY <1>7, <1>9, <2>5, <3>3 DEF CalledSink
      <4> QED BY <1>12, <3>1, <4>1
    <3> QED BY <3>2, <3>3
  <2> QED BY <1>2, <1>8, <1>11, <2>1, <2>2, <2>3, <2>4, <2>5 DEF TrainedI, Input, Trainable, LearningNeeded
<1>14. CountI'
  <2>1. ASSUME NEW m \in DOMAIN net
        PROVE  /\ ~Trainable(m) => AtZero(m)'
               /\ Trainable(m) => ready'[m] \in [Outputs(net, m) -> Nat]
               /\ Trainable(m) /\ m \notin trained' =>
                     \A o \in Outputs(net, m) : ready'[m][o] = Cardinality(Sent(m, o)')
               /\ m \in trained' /\ ~OnStack(m)' => \A o \in Outputs(net, m) : ready'[m][o] = 0
    <3>0. m \in Layers
      BY <1>8
    <3>1. /\ ~Trainable(m) => AtZero(m)
          /\ Trainable(m) => ready[m] \in [Outputs(net, m) -> Nat]
          /\ Trainable(m) /\ m \notin trained =>
                \A o \in Outputs(net, m) : ready[m][o] = Cardinality(Sent(m, o))
          /\ m \in trained /\ ~OnStack(m) => \A o \in Outputs(net, m) : ready[m][o] = 0
      BY <1>1, <1>2 DEF CountI
    <3>2. m \in trained' /\ ~OnStack(m)' => m \in trained /\ ~OnStack(m)
      BY <1>7, <1>12, <3>0
    <3>3. CASE m \notin Passed(l)
      <4>1. ready'[m] = ready[m]
        BY <1>4, <3>0, <3>3
      <4>2. AtZero(m)' <=> AtZero(m)
        BY <1>2, <4>1 DEF AtZero
      <4>3. Trainable(m) => \A o \in Outputs(net, m) : Sent(m, o)' = Sent(m, o)
        BY <3>3, SentNow
      <4> QED BY <1>12, <3>1, <3>2, <4>1, <4>2, <4>3
    <3>4. CASE m \in Passed(l)
      <4>1. Trainable(m) /\ m \notin trained /\ m # l
        BY <1>3, <3>4
      <4>2. ready'[m] = [o \in DOMAIN ready[m] |-> ready[m][o] + Cardinality(InputsFrom(l, m, o))]
        BY <1>4, <3>0, <3>4
      <4>3. \A o \in Outputs(net, m) :
                /\ Cardinality(InputsFrom(l, m, o)) \in Nat
                /\ Cardinality(Sent(m, o)') = Cardinality(Sent(m, o)) + Cardinality(InputsFrom(l, m, o))
        BY <3>4, <4>1, SentNow
      <4>4. ready[m] \in [Outputs(net, m) -> Nat]
        BY <3>1, <4>1
      <4>5. ready'[m] \in [Outputs(net, m) -> Nat]
        BY <4>2, <4>3, <4>4
      <4>6. \A o \in Outputs(net, m) : ready'[m][o] = Cardinality(Sent(m, o)')
        BY <3>1, <4>1, <4>2, <4>3, <4>4
      <4>7. m \notin trained'
        BY <1>12, <4>1
      <4> QED BY <4>1, <4>5, <4>6, <4>7
    <3> QED BY <3>3, <3>4
  <2> QED BY <1>2, <1>8, <1>11, <2>1 DEF CountI
<1>15. DiffsI'
  <2>1. ASSUME NEW m \in DOMAIN net
        PROVE  IF Trainable(m) /\ m \notin trained'
               THEN \A o \in Outputs(net, m) :
                       (IF outDiffs'[m] = <<>> THEN {} ELSE outDiffs'[m][o]) = DiffsOf(Sent(m, o))'
               ELSE outDiffs'[m] = <<>>
    <3>0. m \in Layers
      BY <1>8
    <3>1. IF Trainable(m) /\ m \notin trained
          THEN \A o \in Outputs(net, m) :
                  (IF outDiffs[m] = <<>> THEN {} ELSE outDiffs[m][o]) = DiffsOf(Sent(m, o))
          ELSE outDiffs[m] = <<>>
      BY <1>1, <1>2 DEF DiffsI
    <3>2. CASE m = l
      <4>1. outDiffs'[m] = <<>>
        BY <1>4, <3>0, <3>2
      <4> QED BY <1>10, <3>2, <4>1
    <3>3. CASE m # l /\ m \notin Passed(l)
      <4>1. outDiffs'[m] = outDiffs[m] /\ (m \in trained' <=> m \in trained)
        BY <1>4, <1>12, <3>0, <3>3
      <4>2. Trainable(m) => \A o \in Outputs(net, m) : DiffsOf(Sent(m, o))' = DiffsOf(Sent(m, o))
        <5>1. Trainable(m) => \A o \in Outputs(net, m) : Sent(m, o)' = Sent(m, o)
          BY <3>3, SentNow
        <5> QED BY <1>2, <5>1 DEF DiffsOf
      <4> QED BY <3>1, <4>1, <4>2
    <3>4. CASE m # l /\ m \in Passed(l)
      <4>1. outDiffs'[m] = Transferred(l, m) /\ Trainable(m) /\ m \notin trained'
        BY <1>3, <1>4, <1>12, <3>0, <3>4
      <4>2. \A o \in Outputs(net, m) : Transferred(l, m) # <<>> /\ Transferred(l, m)[o] = DiffsOf(Sent(m, o))'
        BY <3>4, TransferAdds
      <4> QED BY <4>1, <4>2
    <3> QED BY <3>2, <3>3, <3>4
  <2> QED BY <1>2, <1>8, <1>11, <2>1 DEF DiffsI
<1>16. PendingI'
  <2> SUFFICES ASSUME NEW m \in DOMAIN net, Trainable(m), m \notin trained', ~IsSink(net, m),
                      \A c \in DOMAIN net : \A i \in DOMAIN net[c] : Input(c, i) = m => c \in trained'
               PROVE  \E k \in DOMAIN stack' : \E i \in DOMAIN net[stack'[k].layer] :
                          stack'[k].next <= i /\ net[stack'[k].layer][i][1] = m
    BY <1>2, <1>8, <1>11 DEF PendingI, Input
  <2>1. CASE \E i \in DOMAIN net[l] : Input(l, i) = m
    <3>1. PICK i \in DOMAIN net[l] : Input(l, i) = m
      BY <2>1
    <3>2. l \in backwardNeeded
      BY <1>1, <1>2, <1>9, <3>1 DEF NeedI
    <3>3. Len(stack) + 1 \in DOMAIN stack'
      BY <1>7, <1>8
    <3>4. stack'[Len(stack) + 1].layer = l /\ stack'[Len(stack) + 1].next = 1
      BY <1>5, <1>7, <3>2
    <3>5. 1 <= i
      <4>1. DOMAIN net[l] = 1 .. Len(net[l])
        BY <1>8, <1>9, NetworkFacts
      <4> QED BY <4>1
    <3> QED BY <3>1, <3>3, <3>4, <3>5 DEF Input
  <2>2. CASE ~(\E i \in DOMAIN net[l] : Input(l, i) = m)
    <3>1. \A c \in DOMAIN net : \A i \in DOMAIN net[c] : Input(c, i) = m => c \in trained
      BY <1>12, <2>2
    <3>2. m \notin trained
      BY <1>12
    <3>3. PICK k \in DOMAIN stack : \E i \in DOMAIN net[stack[k].layer] :
                stack[k].next <= i /\ Input(stack[k].layer, i) = m
      BY <1>1, <1>2, <3>1, <3>2 DEF PendingI
    <3>4. k \in 1 .. Len(stack) /\ k \in 1 .. Len(stack) + 1
      BY <1>8
    <3>5. stack'[k] = stack[k] /\ k \in DOMAIN stack'
      BY <1>7, <3>4
    <3> QED BY <3>3, <3>5 DEF Input
  <2> QED BY <2>1, <2>2
<1> QED BY <1>2, <1>3, <1>7, <1>13, <1>14, <1>15, <1>16, StillBackward

LEMMA BackwardKeeps == ASSUME NetworkI, BackwardStep PROVE NetworkI'
<1>1. CASE EndBackward
  BY <1>1, EndBackwardKeeps
<1>2. ASSUME NEW l \in Layers, BackSkip(l) PROVE NetworkI'
  BY <1>2, BackSkipKeeps
<1>3. ASSUME NEW l \in Layers, BackLayer(l) PROVE NetworkI'
  BY <1>3, BackLayerKeeps
<1>4. ASSUME NEW l \in Layers, BackReset(l) PROVE NetworkI'
  BY <1>4, BackResetKeeps
<1>5. ASSUME NEW l \in Layers, BackThrows(l) PROVE NetworkI'
  <2>1. /\ phase' = "broken" /\ sink' = 0 /\ stack' = <<>>
        /\ UNCHANGED <<net, rebuildNeeded, runNumber, lastRun, backward, ready, outDiffs>>
        /\ TypeI /\ CallI /\ Calls(l)
    BY <1>5 DEF BackThrows, StartPhase, userVars, dnnVars, blobVars, NetworkI
  <2>2. CallI'
    BY <2>1, EmptyStack
  <2>3. inDiffs' \subseteq Layers
    BY <1>5, <2>1 DEF BackThrows, TypeI
  <2>4. TypeI'
    BY <2>1, <2>3 DEF TypeI, Phases, AtRest
  <2> QED BY <2>1, <2>2, <2>4, EarlyPhases
<1> QED BY <1>1, <1>2, <1>3, <1>4, <1>5 DEF BackwardStep

LEMMA StutterKeeps == ASSUME NetworkI, UNCHANGED vars PROVE NetworkI'
<1>1. UNCHANGED <<net, rebuildNeeded, learningOn, netLearning, runNumber, backward, phase, sink, stack,
                  backwardNeeded, lastRun, ran, ready, outDiffs, inDiffs, trained>>
  BY DEF vars, userVars, dnnVars, callVars, shapeVars, blobVars, diffVars
<1>2. TypeI' /\ CallI' /\ ForwardI' /\ NeedI' /\ InDiffsI'
  <2>1. TypeI'
    BY <1>1 DEF NetworkI, TypeI, AtRest
  <2>2. CallI'
    BY <1>1 DEF NetworkI, CallI, Input, AtRest
  <2>3. ForwardI'
    BY <1>1 DEF NetworkI, PassI, ForwardI, Input, OnStack
  <2>4. NeedI' /\ InDiffsI'
    BY <1>1 DEF NetworkI, PassI, NeedI, InDiffsI, Input, Trainable, LearningNeeded
  <2> QED BY <2>1, <2>2, <2>3, <2>4
<1>3. SettledI'
  BY <1>1 DEF NetworkI, PassI, SettledI, Settled, AtZero, Trainable, LearningNeeded
<1>4. TrainedI'
  BY <1>1 DEF NetworkI, PassI, TrainedI, Input, Trainable, LearningNeeded
<1>5. CountI' /\ DiffsI'
  BY <1>1 DEF NetworkI, PassI, CountI, DiffsI, Trainable, LearningNeeded, AtZero, OnStack, Sent, DiffsOf
<1>6. PendingI'
  BY <1>1 DEF NetworkI, PassI, PendingI, Input, Trainable, LearningNeeded
<1> QED BY <1>2, <1>3, <1>4, <1>5, <1>6 DEF NetworkI, PassI

\* The invariant holds throughout the use of a network by careful users.
THEOREM NetworkInvariant ==
    ASSUME Careful
    PROVE  Spec => []NetworkI
<1>1. Init => NetworkI
  BY InitKeeps
<1>2. NetworkI /\ [Next]_vars => NetworkI'
  <2> SUFFICES ASSUME NetworkI, [Next]_vars PROVE NetworkI'
    OBVIOUS
  <2>1. CASE User
    BY <2>1, UserKeeps
  <2>2. CASE BuildStep
    BY <2>2, BuildKeeps
  <2>3. CASE ReshapeStep
    BY <2>3, ReshapeKeeps
  <2>4. CASE ForwardStep
    BY <2>4, ForwardKeeps
  <2>5. CASE BackwardStep
    BY <2>5, BackwardKeeps
  <2>6. CASE UNCHANGED vars
    BY <2>6, StutterKeeps
  <2> QED BY <2>1, <2>2, <2>3, <2>4, <2>5, <2>6 DEF Next, Step
<1> QED BY <1>1, <1>2, PTL DEF Spec

\* A layer is trained once in a run, with the sum of the diffs of all the inputs its
\* outputs are connected to, each of them counted once and none from an earlier run
\* (backwardRunAndLearnOnce, transferDiffBlob).
THEOREM GradientsAreComplete ==
    ASSUME Careful
    PROVE  Spec => []GradientsComplete
<1>1. NetworkI => GradientsComplete
  <2> SUFFICES ASSUME NetworkI, NEW l \in Layers, AboutToTrain(l)
               PROVE  /\ l \notin trained /\ l \notin inDiffs
                      /\ \A o \in Outputs(net, l) :
                            outDiffs[l][o] = {<<k[1], k[2], runNumber>> : k \in Consumers(net, <<l, o>>)}
    BY DEF GradientsComplete
  <2>1. TypeI /\ CallI /\ TrainedI /\ DiffsI /\ InDiffsI
    BY DEF NetworkI, PassI
  <2>2. phase = "backward" /\ Calls(l) /\ DiffsReady(l) /\ Trains(l)
    BY DEF AboutToTrain
  <2>3. Trainable(l)
    BY <2>2 DEF Trains, BackwardPerformed, LearningPerformed, Trainable
  <2>4. l \in DOMAIN net /\ net \in Networks
    BY <2>1, <2>2, CallFacts, StackFacts
  <2>5. /\ l \notin trained
        /\ \A o \in Outputs(net, l) : Sent(l, o) = Consumers(net, <<l, o>>)
    BY <2>2, <2>3, ReadyFacts
  <2>6. l \notin inDiffs
    BY <2>1, <2>2, <2>4 DEF InDiffsI, TypeI, AtRest
  <2>7. ASSUME NEW o \in Outputs(net, l)
        PROVE  (IF outDiffs[l] = <<>> THEN {} ELSE outDiffs[l][o]) = DiffsOf(Consumers(net, <<l, o>>))
    BY <2>1, <2>2, <2>3, <2>4, <2>5 DEF DiffsI
  <2>8. ASSUME NEW o \in Outputs(net, l) PROVE outDiffs[l] # <<>>
    <3>1. ~IsSink(net, l)
      <4>1. OutputCount(net, l) \in Nat /\ Outputs(net, l) = 1 .. OutputCount(net, l)
        BY <2>4, OutputFacts
      <4> QED BY <4>1 DEF IsSink
    <3> DEFINE p == OutputCount(net, l)
    <3>2. p \in Outputs(net, l) /\ \E c \in DOMAIN net : \E i \in DOMAIN net[c] : net[c][i] = <<l, p>>
      BY <2>4, <3>1, OutputFacts
    <3>3. PICK c \in DOMAIN net : \E i \in DOMAIN net[c] : net[c][i] = <<l, p>>
      BY <3>2
    <3>4. PICK i \in DOMAIN net[c] : net[c][i] = <<l, p>>
      BY <3>3
    <3>5. <<c, i>> \in Consumers(net, <<l, p>>)
      BY <2>4, <3>4, ConsumerPairs
    <3>6. DiffsOf(Consumers(net, <<l, p>>)) # {}
      BY <3>5 DEF DiffsOf
    <3> QED BY <2>7, <3>2, <3>6
  <2>9. \A o \in Outputs(net, l) : outDiffs[l][o] = DiffsOf(Consumers(net, <<l, o>>))
    BY <2>7, <2>8
  <2> QED BY <2>5, <2>6, <2>9 DEF DiffsOf
<1> QED BY <1>1, NetworkInvariant, PTL

-----------------------------------------------------------------------------
(* A run is a pass of Dataflow. *)

InPass == phase \in {"forward", "backward"}

\* The pass that a run is, when there is one.
ThePass ==
    [mode |-> phase, network |-> net, todo |-> {l \in DOMAIN net : Trains(l)},
     computed |-> ran, trained |-> trained]

Resting == [mode |-> IF phase \in {"failed", "broken"} THEN "failed" ELSE "idle"]

LEMMA PassIs == /\ InPass => Pass = ThePass
                /\ ~InPass => Pass = Resting
                /\ InPass' => Pass' = ThePass'
                /\ ~InPass' => Pass' = Resting'
  BY DEF InPass, Pass, ThePass, Resting

\* Outside the passes a step leads from rest to rest.
LEMMA RestSteps ==
    ASSUME ~InPass, ~InPass', phase' \in {"failed", "broken"} => phase \in {"failed", "broken"} \/ phase' = "broken"
    PROVE  [Abstract!Next]_Pass
<1>1. Pass = Resting /\ Pass' = Resting'
  BY PassIs
<1>2. CASE phase' \in {"failed", "broken"}
  <2>1. Pass' = [mode |-> "failed"]
    BY <1>1, <1>2 DEF Resting
  <2> QED BY <2>1 DEF Abstract!Next, Abstract!Abandon
<1>3. CASE phase' \notin {"failed", "broken"}
  <2>1. Pass' = [mode |-> "idle"]
    BY <1>1, <1>3 DEF Resting
  <2>2. CASE phase \in {"failed", "broken"}
    <3>1. Pass.mode = "failed"
      BY <1>1, <2>2 DEF Resting
    <3> QED BY <2>1, <3>1 DEF Abstract!Next, Abstract!Prepare
  <2>3. CASE phase \notin {"failed", "broken"}
    <3>1. Pass = [mode |-> "idle"]
      BY <1>1, <2>3 DEF Resting
    <3> QED BY <2>1, <3>1
  <2> QED BY <2>2, <2>3
<1> QED BY <1>2, <1>3

LEMMA RestingSteps ==
    ASSUME User \/ BuildStep
    PROVE  [Abstract!Next]_Pass
<1>1. ASSUME AtRest, phase' = phase PROVE [Abstract!Next]_Pass
  <2>1. ~InPass /\ ~InPass'
    BY <1>1 DEF AtRest, InPass
  <2> QED BY <1>1, <2>1, RestSteps
<1>2. CASE User
  <2>1. ASSUME NEW l \in DOMAIN net, NEW size \in Sizes, SetBlob(l, size) PROVE [Abstract!Next]_Pass
    BY <1>1, <2>1 DEF SetBlob, May, callVars
  <2>2. ASSUME NEW l \in DOMAIN net, ToggleLearning(l) PROVE [Abstract!Next]_Pass
    BY <1>1, <2>2 DEF ToggleLearning, May, callVars
  <2>3. CASE ToggleNetLearning
    BY <1>1, <2>3 DEF ToggleNetLearning, May, callVars
  <2>4. CASE CleanUp
    BY <1>1, <2>4 DEF CleanUp, May, callVars
  <2>5. ASSUME NEW new \in Networks, Edit(new) PROVE [Abstract!Next]_Pass
    BY <1>1, <2>5 DEF Edit, May, callVars
  <2>6. ASSUME NEW train \in BOOLEAN, Begin(train) PROVE [Abstract!Next]_Pass
    <3>1. AtRest /\ phase' \in {"build", "recheck"}
      BY <2>6 DEF Begin
    <3>2. ~InPass /\ ~InPass' /\ phase' \notin {"failed", "broken"}
      BY <3>1 DEF AtRest, InPass
    <3> QED BY <3>2, RestSteps
  <2> QED BY <1>2, <2>1, <2>2, <2>3, <2>4, <2>5, <2>6 DEF User
<1>3. CASE BuildStep
  <2>1. phase = "build" /\ phase' \in {"build", "recheck"}
    BY <1>3 DEF BuildStep, EndBuild, BuildEnter, BuildSkip, BuildLayer, Enter, EnterAt, Skip, Leave, StartPhase
  <2>2. ~InPass /\ ~InPass' /\ phase' \notin {"failed", "broken"}
    BY <2>1 DEF InPass
  <2> QED BY <2>2, RestSteps
<1> QED BY <1>2, <1>3

LEMMA ReshapeSteps ==
    ASSUME NetworkI, ReshapeStep
    PROVE  [Abstract!Next]_Pass
<1>1. ASSUME phase \in {"recheck", "reshape"}, phase' \in {"reshape", "broken"} PROVE [Abstract!Next]_Pass
  <2>1. ~InPass /\ ~InPass'
    BY <1>1 DEF InPass
  <2> QED BY <1>1, <2>1, RestSteps
<1>2. CASE Recheck
  BY <1>1, <1>2 DEF Recheck, StartPhase
<1>3. ASSUME NEW l \in Layers,
             ReshapeEnter(l) \/ ReshapeSkip(l) \/ KeepShape(l) \/ ReshapeLayer(l) \/ ReshapeThrows(l)
      PROVE  [Abstract!Next]_Pass
  BY <1>1, <1>3 DEF ReshapeEnter, ReshapeSkip, KeepShape, ReshapeLayer, ReshapeThrows,
                    Enter, EnterAt, Skip, Leave, StartPhase
<1>4. CASE EndReshape
  <2>1. /\ phase = "reshape" /\ phase' = "forward" /\ ran' = {} /\ trained' = {} /\ net' = net
        /\ net \in Networks
    BY <1>4 DEF EndReshape, StartPhase, userVars, NetworkI, TypeI
  <2>2. Pass = [mode |-> "idle"]
    BY <2>1, PassIs DEF InPass, Resting
  <2>3. InPass'
    BY <2>1 DEF InPass
  <2> DEFINE todo == {l \in DOMAIN net : Trains(l)'}
  <2>4. Pass' = [mode |-> "forward", network |-> net, todo |-> todo, computed |-> {}, trained |-> {}]
    BY <2>1, <2>3, PassIs DEF ThePass
  <2>5. todo \in SUBSET DOMAIN net
    OBVIOUS
  <2> HIDE DEF todo
  <2>6. Pass \in Abstract!Rest
    BY <2>2 DEF Abstract!Rest
  <2> QED BY <2>1, <2>4, <2>5, <2>6 DEF Abstract!Next, Abstract!Begin
<1> QED BY <1>2, <1>3, <1>4 DEF ReshapeStep

LEMMA ForwardSteps ==
    ASSUME NetworkI, ForwardStep
    PROVE  [Abstract!Next]_Pass
<1>1. /\ phase = "forward" /\ InPass /\ Pass = ThePass
      /\ UNCHANGED <<net, backward, learningOn, netLearning, backwardNeeded, trained>>
  <2>1. phase = "forward"
    BY DEF ForwardStep, EndForward, RunEnter, RunSkip, RunLayer, RunThrows
  <2>2. UNCHANGED <<net, backward, learningOn, netLearning, backwardNeeded, trained>>
    BY DEF ForwardStep, EndForward, RunEnter, RunSkip, RunLayer, RunThrows, userVars, dnnVars,
           shapeVars, diffVars
  <2> QED BY <2>1, <2>2, PassIs DEF InPass
<1> DEFINE todo == {l \in DOMAIN net : Trains(l)}
<1>2. {l \in DOMAIN net' : Trains(l)'} = todo
  BY <1>1 DEF Trains, BackwardPerformed, LearningPerformed, LearningNeeded
<1>3. Pass = [mode |-> "forward", network |-> net, todo |-> todo, computed |-> ran, trained |-> trained]
  BY <1>1 DEF ThePass
<1>4. ASSUME InPass'
      PROVE  Pass' = [mode |-> phase', network |-> net, todo |-> todo, computed |-> ran', trained |-> trained]
  BY <1>1, <1>2, <1>4, PassIs DEF ThePass
<1>5. ~backward => todo = {}
  BY DEF Trains, BackwardPerformed, LearningPerformed
<1> HIDE DEF todo
<1>6. TypeI /\ CallI /\ ForwardI /\ trained = {}
  BY <1>1 DEF NetworkI, PassI, ForwardI
<1>7. CASE EndForward
  <2>1. ran = DOMAIN net /\ UNCHANGED ran /\ phase' = (IF backward THEN "backward" ELSE "idle")
    BY <1>1, <1>6, <1>7, AllRan DEF EndForward, StartPhase, blobVars
  <2>2. CASE backward
    <3>1. InPass' /\ phase' = "backward"
      BY <2>1, <2>2 DEF InPass
    <3>2. Pass' = [Pass EXCEPT !.mode = "backward"] /\ Pass.mode = "forward" /\ Pass.computed = DOMAIN Pass.network
      BY <1>3, <1>4, <2>1, <3>1
    <3> QED BY <3>2 DEF Abstract!Next, Abstract!Turn
  <2>3. CASE ~backward
    <3>1. phase' = "idle"
      BY <2>1, <2>3
    <3>2. Pass' = [mode |-> "idle"]
      BY <3>1, PassIs DEF InPass, Resting
    <3>3. Pass.mode = "forward" /\ Pass.computed = DOMAIN Pass.network /\ Pass.trained = Pass.todo
      BY <1>3, <1>5, <1>6, <2>1, <2>3
    <3> QED BY <3>2, <3>3 DEF Abstract!Next, Abstract!Finish
  <2> QED BY <2>2, <2>3
<1>8. ASSUME NEW l \in Layers, RunEnter(l) \/ RunSkip(l) PROVE [Abstract!Next]_Pass
  <2>1. phase' = "forward" /\ ran' = ran
    BY <1>1, <1>8 DEF RunEnter, RunSkip, Enter, EnterAt, Skip, blobVars
  <2>2. InPass'
    BY <2>1 DEF InPass
  <2>3. Pass' = Pass
    BY <1>3, <1>4, <2>1, <2>2
  <2> QED BY <2>3
<1>9. ASSUME NEW l \in Layers, RunLayer(l) PROVE [Abstract!Next]_Pass
  <2>1. phase' = "forward" /\ ran' = ran \cup {l} /\ Left(l) /\ net' = net
    BY <1>1, <1>9 DEF RunLayer, Left, Leave
  <2>2. InPass'
    BY <2>1 DEF InPass
  <2>3. /\ l \in DOMAIN net /\ Len(stack) \in 1 .. Len(stack) /\ stack[Len(stack)].layer = l
        /\ \A i \in DOMAIN net[l] : i < stack[Len(stack)].next
    BY <1>1, <1>6, <2>1, LeaveKeeps DEF AtRest
  <2>4. Len(stack) \in DOMAIN stack
    BY <1>6, <2>3, StackFacts
  <2>5. l \notin ran /\ \A i \in DOMAIN net[l] : net[l][i][1] \in ran
    BY <1>1, <1>6, <2>3, <2>4 DEF ForwardI, Input
  <2>6. /\ Pass.mode = "forward" /\ l \in DOMAIN Pass.network \ Pass.computed
        /\ Pass' = [Pass EXCEPT !.computed = @ \cup {l}]
    BY <1>3, <1>4, <2>1, <2>2, <2>3, <2>5
  <2>7. Abstract!Reads(Pass.network, l) \subseteq Pass.computed
    BY <1>3, <2>5 DEF Abstract!Reads
  <2> QED BY <2>6, <2>7 DEF Abstract!Next, Abstract!Compute
<1>10. ASSUME NEW l \in Layers, RunThrows(l) PROVE [Abstract!Next]_Pass
  <2>1. phase' = "failed"
    BY <1>10 DEF RunThrows, StartPhase
  <2>2. Pass' = [mode |-> "failed"]
    BY <2>1, PassIs DEF InPass, Resting
  <2> QED BY <2>2 DEF Abstract!Next, Abstract!Abandon
<1> QED BY <1>7, <1>8, <1>9, <1>10 DEF ForwardStep

LEMMA BackwardSteps ==
    ASSUME NetworkI, BackwardStep
    PROVE  [Abstract!Next]_Pass
<1>1. /\ phase = "backward" /\ InPass /\ Pass = ThePass
      /\ UNCHANGED <<net, backward, learningOn, netLearning, backwardNeeded, ran>>
  <2>1. phase = "backward"
    BY DEF BackwardStep, EndBackward, BackSkip, BackLayer, BackThrows, BackReset
  <2>2. UNCHANGED <<net, backward, learningOn, netLearning, backwardNeeded, ran>>
    BY DEF BackwardStep, EndBackward, BackSkip, BackLayer, BackThrows, BackReset, userVars, dnnVars,
           shapeVars, blobVars
  <2> QED BY <2>1, <2>2, PassIs DEF InPass
<1>2. TypeI /\ CallI /\ TrainedI /\ backward /\ ran = DOMAIN net
  BY <1>1 DEF NetworkI, PassI, TrainedI
<1> DEFINE todo == {l \in DOMAIN net : Trains(l)}
<1>3. \A l : Trains(l) <=> Trainable(l)
  BY <1>2 DEF Trains, BackwardPerformed, LearningPerformed, Trainable
<1>4. {l \in DOMAIN net' : Trains(l)'} = todo
  BY <1>1 DEF Trains, BackwardPerformed, LearningPerformed, LearningNeeded
<1>5. Pass = [mode |-> "backward", network |-> net, todo |-> todo, computed |-> ran, trained |-> trained]
  BY <1>1 DEF ThePass
<1>6. ASSUME InPass'
      PROVE  Pass' = [mode |-> phase', network |-> net, todo |-> todo, computed |-> ran, trained |-> trained']
  BY <1>1, <1>4, <1>6, PassIs DEF ThePass
<1>7. todo = {l \in DOMAIN net : Trainable(l)}
  BY <1>3
<1> HIDE DEF todo
<1>8. CASE EndBackward
  <2>1. PhaseOver /\ phase' = "idle"
    BY <1>8 DEF EndBackward, StartPhase
  <2>2. trained = todo
    BY <1>1, <1>7, <2>1, AllTrained
  <2>3. Pass' = [mode |-> "idle"]
    BY <2>1, PassIs DEF InPass, Resting
  <2>4. Pass.mode = "backward" /\ Pass.computed = DOMAIN Pass.network /\ Pass.trained = Pass.todo
    BY <1>2, <1>5, <2>2
  <2> QED BY <2>3, <2>4 DEF Abstract!Next, Abstract!Finish
<1>9. ASSUME NEW l \in Layers, BackSkip(l) \/ BackReset(l) PROVE [Abstract!Next]_Pass
  <2>1. phase' = "backward" /\ trained' = trained
    BY <1>1, <1>9 DEF BackSkip, BackReset, Skip, Leave, diffVars
  <2>2. InPass'
    BY <2>1 DEF InPass
  <2>3. Pass' = Pass
    BY <1>5, <1>6, <2>1, <2>2
  <2> QED BY <2>3
<1>10. ASSUME NEW l \in Layers, BackLayer(l) PROVE [Abstract!Next]_Pass
  <2>1. /\ Calls(l) /\ DiffsReady(l)
        /\ trained' = (IF Trainable(l) THEN trained \cup {l} ELSE trained)
    BY <1>10, BackLayerFacts DEF BackLayer
  <2>2. phase' = "backward"
    BY <1>1, <1>10 DEF BackLayer, EnterAt
  <2>3. InPass'
    BY <2>2 DEF InPass
  <2>4. CASE ~Trainable(l)
    <3>1. Pass' = Pass
      BY <1>5, <1>6, <2>1, <2>2, <2>3, <2>4
    <3> QED BY <3>1
  <2>5. CASE Trainable(l)
    <3>1. l \in DOMAIN net
      BY <1>2, <2>1, CallFacts
    <3>2. /\ l \notin trained
          /\ \A c \in DOMAIN net : \A i \in DOMAIN net[c] : net[c][i][1] = l => c \in trained
      BY <1>1, <2>1, <2>5, ReadyFacts DEF Input
    <3>3. /\ Pass.mode = "backward" /\ l \in Pass.todo \ Pass.trained
          /\ Pass' = [Pass EXCEPT !.trained = @ \cup {l}]
      BY <1>5, <1>6, <1>7, <2>1, <2>2, <2>3, <2>5, <3>1, <3>2
    <3>4. Abstract!Readers(net, l) \subseteq trained
      BY <3>2 DEF Abstract!Readers, Abstract!Reads
    <3>5. Abstract!Readers(Pass.network, l) \subseteq Pass.trained
      BY <1>5, <3>4
    <3> QED BY <3>3, <3>5 DEF Abstract!Next, Abstract!Train
  <2> QED BY <2>4, <2>5
<1>11. ASSUME NEW l \in Layers, BackThrows(l) PROVE [Abstract!Next]_Pass
  <2>1. phase' = "broken"
    BY <1>11 DEF BackThrows, StartPhase
  <2>2. Pass' = [mode |-> "failed"]
    BY <2>1, PassIs DEF InPass, Resting
  <2> QED BY <2>2 DEF Abstract!Next, Abstract!Abandon
<1> QED BY <1>8, <1>9, <1>10, <1>11 DEF BackwardStep

\* A run is a pass of Dataflow: the layers compute once after their inputs, and are
\* trained once after their consumers, whatever the order of the recursion
\* (runOnce, backwardRunAndLearnOnce).
THEOREM DataflowImplemented ==
    ASSUME Careful
    PROVE  Spec => ImplementsDataflow
<1>1. Init => Abstract!Init
  <2> SUFFICES ASSUME Init PROVE Abstract!Init
    OBVIOUS
  <2>1. phase = "idle"
    BY DEF Init
  <2>2. Pass = [mode |-> "idle"]
    BY <2>1, PassIs DEF InPass, Resting
  <2> QED BY <2>2 DEF Abstract!Init
<1>2. NetworkI /\ [Next]_vars => [Abstract!Next]_Pass
  <2> SUFFICES ASSUME NetworkI, [Next]_vars PROVE [Abstract!Next]_Pass
    OBVIOUS
  <2>1. CASE User \/ BuildStep
    BY <2>1, RestingSteps
  <2>2. CASE ReshapeStep
    BY <2>2, ReshapeSteps
  <2>3. CASE ForwardStep
    BY <2>3, ForwardSteps
  <2>4. CASE BackwardStep
    BY <2>4, BackwardSteps
  <2>5. CASE UNCHANGED vars
    <3>1. UNCHANGED <<net, learningOn, netLearning, backward, phase, backwardNeeded, ran, trained>>
      BY <2>5 DEF vars, userVars, dnnVars, callVars, shapeVars, blobVars, diffVars
    <3>2. Pass' = Pass
      BY <3>1 DEF Pass, Trains, BackwardPerformed, LearningPerformed, LearningNeeded
    <3> QED BY <3>2
  <2> QED BY <2>1, <2>2, <2>3, <2>4, <2>5 DEF Next, Step
<1> QED BY <1>1, <1>2, NetworkInvariant, PTL DEF Spec, ImplementsDataflow, Abstract!Spec

-----------------------------------------------------------------------------
(* The shapes.  A layer that is not forced has the shape that Reshape() would  *)
(* choose for the sizes it last saw; outside reshape() either every layer is   *)
(* stale or every layer has seen the sizes of now.                             *)

\* The set that recheckBackwardNeeded computes.
Least == {l \in DOMAIN net : \A S \in SUBSET DOMAIN net : NeedsBackward(S) \subseteq S => l \in S}

\* The shapes mean something: no rebuild has to come first.
Usable == ~rebuildNeeded /\ phase \notin {"broken", "build"}

\* The output size for the sizes that the layer last saw.
OutOf(l) == IF IsSource(net, l) THEN userSize[l]
            ELSE IF l \in FixedOutput THEN 1
            ELSE inSizes[l][1]

Fits(l) ==
    /\ DOMAIN inSizes[l] = DOMAIN net[l] /\ Len(inSizes[l]) = Len(net[l])
    /\ DOMAIN inBlobs[l] = DOMAIN net[l] /\ Len(inBlobs[l]) = Len(net[l])
    /\ outSizes[l] = OutOf(l)
    /\ needed[l] \subseteq BlobsForBackward[l] \cup BlobsForLearn[l]
    /\ relearned \/ needed[l] = NeededNow(l)

\* The layers for which the call of reshape() has returned in this phase.
DoneLayers == {l \in DOMAIN net : l \notin stale /\ ~OnStack(l)}

ShapeTypeI ==
    /\ userSize \in [Layers -> Sizes]
    /\ DOMAIN inSizes = Layers /\ DOMAIN outSizes = Layers
    /\ DOMAIN needed = Layers /\ DOMAIN inBlobs = Layers

FitI == Usable => \A l \in DOMAIN net : l \notin forced => Fits(l)

LeastI == Usable =>
    \/ backwardNeeded = Least
    \/ /\ relearned \/ DOMAIN net \subseteq forced
       /\ phase \notin {"reshape", "forward", "backward"}

Current(l) == l \notin forced /\ inSizes[l] = SizesOfInputs(l)

StaleI == Usable /\ phase # "reshape" =>
    \/ DOMAIN net \subseteq stale /\ phase \notin {"forward", "backward"}
    \/ \A l \in DOMAIN net : l \notin stale /\ Current(l)

ReshapeI == phase = "reshape" =>
    /\ \A l \in DoneLayers : Current(l) /\ \A i \in DOMAIN net[l] : Input(l, i) \in DoneLayers
    /\ \A k \in DOMAIN stack :
          /\ stack[k].layer \notin stale
          /\ \A i \in DOMAIN net[stack[k].layer] :
                i < stack[k].next => Input(stack[k].layer, i) \in DoneLayers
    /\ \A l \in DOMAIN net : IsSink(net, l) /\ l <= sink => l \in DoneLayers \/ OnStack(l)

ShapesI == ShapeTypeI /\ FitI /\ LeastI /\ StaleI /\ ReshapeI

\* A function on 1 .. n is a sequence of length n.
LEMMA SequenceLength ==
    ASSUME NEW n \in Nat, NEW T, NEW s \in [1 .. n -> T]
    PROVE  DOMAIN s = 1 .. n /\ Len(s) = n
<1>1. s \in Seq(T) /\ DOMAIN s = 1 .. n
  OBVIOUS
<1>2. Len(s) \in Nat /\ DOMAIN s = 1 .. Len(s)
  BY <1>1, LenProperties
<1>3. CASE n < Len(s)
  <2>1. Len(s) \in 1 .. Len(s)
    BY <1>2, <1>3
  <2>2. Len(s) \in 1 .. n
    BY <1>1, <1>2, <2>1
  <2> QED BY <1>3, <2>2
<1>4. CASE Len(s) < n
  <2>1. n \in 1 .. n
    BY <1>2, <1>4
  <2>2. n \in 1 .. Len(s)
    BY <1>1, <1>2, <2>1
  <2> QED BY <1>2, <1>4, <2>2
<1> QED BY <1>1, <1>2, <1>3, <1>4

LEMMA NoBlobsFacts ==
    ASSUME NEW n \in Nat
    PROVE  DOMAIN NoBlobs(n) = 1 .. n /\ Len(NoBlobs(n)) = n
<1>1. NoBlobs(n) \in [1 .. n -> {NoBlob}]
  BY DEF NoBlobs
<1> QED BY <1>1, SequenceLength

LEMMA TakenFacts ==
    ASSUME NEW l, NEW n \in Nat, DOMAIN inBlobs[l] = 1 .. n
    PROVE  DOMAIN Taken(l) = 1 .. n /\ Len(Taken(l)) = n
<1> DEFINE T == {Taken(l)[i] : i \in 1 .. n}
<1>1. Taken(l) \in [1 .. n -> T]
  BY DEF Taken
<1> QED BY <1>1, SequenceLength

\* The sequence of the sizes of the inputs.
LEMMA SizesFacts ==
    ASSUME TypeI, NEW l \in DOMAIN net
    PROVE  /\ l \in Layers /\ Len(net[l]) \in Nat /\ DOMAIN net[l] = 1 .. Len(net[l])
           /\ DOMAIN SizesOfInputs(l) = DOMAIN net[l] /\ Len(SizesOfInputs(l)) = Len(net[l])
           /\ \A i \in DOMAIN net[l] : /\ SizesOfInputs(l)[i] = outSizes[Input(l, i)]
                                       /\ Input(l, i) \in DOMAIN net /\ Input(l, i) # l
           /\ ~IsSource(net, l) => 1 \in DOMAIN net[l]
<1>1. /\ l \in Layers /\ Len(net[l]) \in Nat /\ DOMAIN net[l] = 1 .. Len(net[l])
      /\ net \in Networks /\ net[l] \in Seq(Layers \X (Nat \ {0}))
  BY NetworkFacts DEF TypeI
<1>2. /\ DOMAIN SizesOfInputs(l) = DOMAIN net[l]
      /\ \A i \in DOMAIN net[l] : SizesOfInputs(l)[i] = outSizes[Input(l, i)]
  BY DEF SizesOfInputs, Input
<1>3. ASSUME NEW i \in DOMAIN net[l] PROVE Input(l, i) \in DOMAIN net /\ Input(l, i) # l
  <2>1. /\ Input(l, i) \in DOMAIN net /\ Rank(net)[Input(l, i)] < Rank(net)[l]
        /\ Rank(net)[l] \in Nat
    BY <1>1, NetworkFacts, RankFacts DEF Input
  <2> QED BY <2>1
<1>4. Len(SizesOfInputs(l)) = Len(net[l])
  <2> DEFINE T == {SizesOfInputs(l)[i] : i \in 1 .. Len(net[l])}
  <2>1. SizesOfInputs(l) \in [1 .. Len(net[l]) -> T]
    BY <1>1 DEF SizesOfInputs
  <2> QED BY <1>1, <2>1, SequenceLength
<1>5. ~IsSource(net, l) => 1 \in DOMAIN net[l]
  <2> SUFFICES ASSUME net[l] # <<>> PROVE 1 \in DOMAIN net[l]
    BY DEF IsSource
  <2>1. Len(net[l]) # 0
    BY <1>1, EmptySeq
  <2> QED BY <1>1, <2>1
<1> QED BY <1>1, <1>2, <1>3, <1>4, <1>5

\* The shape of a layer fits as long as nothing it depends on changes; what it needs
\* for the backward pass does not depend on anything once a layer is relearned.
LEMMA FitsKept ==
    ASSUME NEW l \in DOMAIN net, Fits(l), net' = net, userSize'[l] = userSize[l],
           inSizes'[l] = inSizes[l], outSizes'[l] = outSizes[l], needed'[l] = needed[l],
           relearned => relearned',
           relearned' \/ UNCHANGED <<backward, backwardNeeded, learningOn, netLearning>>,
           DOMAIN inBlobs'[l] = DOMAIN net[l], Len(inBlobs'[l]) = Len(net[l])
    PROVE  Fits(l)'
<1>1. OutOf(l)' = OutOf(l)
  BY DEF OutOf
<1>2. relearned' \/ NeededNow(l)' = NeededNow(l)
  BY DEF NeededNow, BackwardPerformed, LearningPerformed, LearningNeeded
<1> QED BY <1>1, <1>2 DEF Fits

\* All the layers fit while only blobs change, and keep their numbers.
LEMMA AllFit ==
    ASSUME TypeI, FitI,
           UNCHANGED <<net, rebuildNeeded, userSize, learningOn, relearned, netLearning, backward, shapeVars>>,
           Usable' => Usable,
           \A l \in DOMAIN net : DOMAIN inBlobs[l] = DOMAIN net[l] /\ Len(inBlobs[l]) = Len(net[l]) =>
               DOMAIN inBlobs'[l] = DOMAIN net[l] /\ Len(inBlobs'[l]) = Len(net[l])
    PROVE  FitI'
<1> SUFFICES ASSUME Usable, NEW l \in DOMAIN net, l \notin forced PROVE Fits(l)'
  BY DEF FitI, shapeVars
<1>1. Fits(l)
  BY DEF FitI
<1>2. DOMAIN inBlobs'[l] = DOMAIN net[l] /\ Len(inBlobs'[l]) = Len(net[l])
  BY <1>1 DEF Fits
<1> QED BY <1>1, <1>2, FitsKept DEF shapeVars

LEMMA LeastSame ==
    ASSUME UNCHANGED <<net, learningOn, netLearning>>
    PROVE  Least' = Least
<1>1. \A S : NeedsBackward(S)' = NeedsBackward(S)
  BY DEF NeedsBackward, LearningNeeded
<1> QED BY <1>1 DEF Least

LEMMA CurrentSame ==
    ASSUME UNCHANGED <<net, forced, inSizes, outSizes>>, NEW l
    PROVE  Current(l)' <=> Current(l)
  BY DEF Current, SizesOfInputs

\* Steps that change no shape, outside reshape().
LEMMA SameShapes ==
    ASSUME NetworkI, ShapesI, phase # "reshape", phase' # "reshape",
           UNCHANGED <<net, rebuildNeeded, userSize, learningOn, relearned, netLearning, backward, shapeVars>>,
           Usable' => Usable,
           phase' \in {"forward", "backward"} => phase \in {"forward", "backward"},
           DOMAIN inBlobs' = Layers,
           \A l \in DOMAIN net : DOMAIN inBlobs[l] = DOMAIN net[l] /\ Len(inBlobs[l]) = Len(net[l]) =>
               DOMAIN inBlobs'[l] = DOMAIN net[l] /\ Len(inBlobs'[l]) = Len(net[l])
    PROVE  ShapesI'
<1>1. UNCHANGED <<backwardNeeded, forced, stale, inSizes, outSizes, needed>>
  BY DEF shapeVars
<1>2. ShapeTypeI'
  BY <1>1 DEF ShapesI, ShapeTypeI
<1>3. FitI'
  BY AllFit DEF ShapesI, NetworkI
<1>4. LeastI'
  <2>1. Least' = Least
    BY LeastSame
  <2> QED BY <1>1, <2>1 DEF ShapesI, LeastI
<1>5. StaleI'
  BY <1>1, CurrentSame DEF ShapesI, StaleI
<1>6. ReshapeI'
  BY DEF ReshapeI
<1> QED BY <1>2, <1>3, <1>4, <1>5, <1>6 DEF ShapesI

LEMMA ShapesInit == ASSUME Init PROVE ShapesI
<1>1. rebuildNeeded /\ phase = "idle"
  BY DEF Init
<1>2. ShapeTypeI
  BY DEF Init, ShapeTypeI
<1> QED BY <1>1, <1>2 DEF ShapesI, FitI, LeastI, StaleI, ReshapeI, Usable

\* When the network has to be rebuilt first nothing is asked of the shapes.
LEMMA NothingAsked ==
    ASSUME ShapeTypeI', ~Usable', phase' # "reshape"
    PROVE  ShapesI'
  BY DEF ShapesI, FitI, LeastI, StaleI, ReshapeI

\* When every layer is forced and stale nothing is asked but that.
LEMMA AllForced ==
    ASSUME ShapeTypeI', DOMAIN net' \subseteq forced', DOMAIN net' \subseteq stale',
           phase' \notin {"reshape", "forward", "backward"}
    PROVE  ShapesI'
  BY DEF ShapesI, FitI, LeastI, StaleI, ReshapeI

LEMMA SetBlobShapes ==
    ASSUME NetworkI, ShapesI, NEW l \in DOMAIN net, NEW size \in Sizes, SetBlob(l, size)
    PROVE  ShapesI'
<1>1. /\ AtRest /\ IsSource(net, l)
      /\ userSize' = [userSize EXCEPT ![l] = size]
      /\ UNCHANGED <<net, rebuildNeeded, phase, learningOn, relearned, netLearning, backward,
                     backwardNeeded, inSizes, needed, inBlobs>>
      /\ TypeI /\ ShapeTypeI
  BY DEF SetBlob, May, netVars, callVars, NetworkI, ShapesI
<1>2. l \in Layers /\ phase \notin {"reshape", "forward", "backward"}
  BY <1>1, SizesFacts DEF AtRest
<1>3. Usable' <=> Usable
  BY <1>1 DEF Usable
<1>4. Least' = Least
  BY <1>1, LeastSame
<1>5. ASSUME Usable, l \notin forced PROVE outSizes[l] # 0
  <2>1. outSizes[l] = userSize[l]
    BY <1>1, <1>5 DEF ShapesI, FitI, Fits, OutOf
  <2> QED BY <1>1, <1>2, <2>1, NetworkAssumption DEF ShapeTypeI
<1>6. userSize' \in [Layers -> Sizes] /\ \A m \in Layers : m # l => userSize'[m] = userSize[m]
  BY <1>1 DEF ShapeTypeI
<1>7. CASE outSizes[l] = 0
  <2>1. UNCHANGED <<outSizes, forced, stale>>
    BY <1>7 DEF SetBlob
  <2>2. ShapeTypeI'
    BY <1>1, <1>6, <2>1 DEF ShapeTypeI
  <2>3. ASSUME Usable, NEW m \in DOMAIN net, m \notin forced PROVE Fits(m)'
    <3>1. m # l
      BY <1>5, <1>7, <2>3
    <3>2. Fits(m) /\ m \in Layers
      BY <1>1, <2>3, SizesFacts DEF ShapesI, FitI
    <3>3. DOMAIN inBlobs'[m] = DOMAIN net[m] /\ Len(inBlobs'[m]) = Len(net[m])
      BY <1>1, <3>2 DEF Fits
    <3> QED BY <1>1, <1>6, <2>1, <3>1, <3>2, <3>3, FitsKept
  <2>4. FitI'
    BY <1>1, <1>3, <2>1, <2>3 DEF FitI
  <2>5. LeastI' /\ StaleI' /\ ReshapeI'
    BY <1>1, <1>2, <1>3, <1>4, <2>1, CurrentSame DEF ShapesI, LeastI, StaleI, ReshapeI
  <2> QED BY <2>2, <2>4, <2>5 DEF ShapesI
<1>8. CASE outSizes[l] # 0
  <2>1. /\ outSizes' = [outSizes EXCEPT ![l] = size]
        /\ forced' = forced \cup {l} /\ stale' = stale \cup DOMAIN net
    BY <1>8 DEF SetBlob
  <2>2. ShapeTypeI' /\ \A m \in Layers : m # l => outSizes'[m] = outSizes[m]
    BY <1>1, <1>6, <2>1 DEF ShapeTypeI
  <2>3. ASSUME Usable, NEW m \in DOMAIN net, m \notin forced' PROVE Fits(m)'
    <3>1. m # l /\ m \notin forced
      BY <2>1, <2>3
    <3>2. Fits(m) /\ m \in Layers
      BY <1>1, <2>3, <3>1, SizesFacts DEF ShapesI, FitI
    <3>3. DOMAIN inBlobs'[m] = DOMAIN net[m] /\ Len(inBlobs'[m]) = Len(net[m])
      BY <1>1, <3>2 DEF Fits
    <3> QED BY <1>1, <1>6, <2>2, <3>1, <3>2, <3>3, FitsKept
  <2>4. FitI'
    BY <1>1, <1>3, <2>3 DEF FitI
  <2>5. LeastI' /\ StaleI' /\ ReshapeI'
    BY <1>1, <1>2, <1>3, <1>4, <2>1 DEF ShapesI, LeastI, StaleI, ReshapeI
  <2> QED BY <2>2, <2>4, <2>5 DEF ShapesI
<1> QED BY <1>7, <1>8

LEMMA CleanUpShapes == ASSUME NetworkI, ShapesI, CleanUp PROVE ShapesI'
<1>1. /\ AtRest /\ TypeI /\ ShapeTypeI
      /\ inBlobs' = [l \in Layers |-> IF l \in DOMAIN net THEN NoBlobs(Len(inSizes[l])) ELSE inBlobs[l]]
      /\ UNCHANGED <<net, rebuildNeeded, phase, userSize, learningOn, relearned, netLearning, backward, shapeVars>>
  BY DEF CleanUp, May, userVars, netVars, callVars, NetworkI, ShapesI
<1>2. DOMAIN inBlobs' = Layers /\ phase \notin {"reshape", "forward", "backward"} /\ Usable' = Usable
  BY <1>1 DEF AtRest, Usable
<1>3. UNCHANGED <<backwardNeeded, forced, stale, inSizes, outSizes, needed>>
  BY <1>1 DEF shapeVars
<1>4. ASSUME Usable, NEW l \in DOMAIN net, l \notin forced PROVE Fits(l)'
  <2>1. Fits(l) /\ l \in Layers /\ Len(net[l]) \in Nat /\ DOMAIN net[l] = 1 .. Len(net[l])
    BY <1>1, <1>4, SizesFacts DEF ShapesI, FitI
  <2>2. inBlobs'[l] = NoBlobs(Len(net[l]))
    BY <1>1, <2>1 DEF Fits
  <2>3. DOMAIN inBlobs'[l] = DOMAIN net[l] /\ Len(inBlobs'[l]) = Len(net[l])
    BY <2>1, <2>2, NoBlobsFacts
  <2> QED BY <1>1, <1>3, <2>1, <2>3, FitsKept
<1>5. FitI'
  BY <1>1, <1>2, <1>3, <1>4 DEF FitI
<1>6. Least' = Least
  BY <1>1, LeastSame
<1>7. ShapeTypeI'
  BY <1>1, <1>2, <1>3 DEF ShapeTypeI
<1>8. LeastI' /\ StaleI' /\ ReshapeI'
  BY <1>1, <1>2, <1>3, <1>6, CurrentSame DEF ShapesI, LeastI, StaleI, ReshapeI
<1> QED BY <1>5, <1>7, <1>8 DEF ShapesI

LEMMA BeginShapes ==
    ASSUME NetworkI, ShapesI, Careful, NEW train \in BOOLEAN, Begin(train)
    PROVE  ShapesI'
<1>1. /\ AtRest /\ TypeI /\ ShapeTypeI /\ backward' = train /\ ~rebuildNeeded'
      /\ phase = "broken" => rebuildNeeded
      /\ UNCHANGED <<net, userSize, learningOn, netLearning, backwardNeeded, inSizes, outSizes, needed>>
  BY DEF Begin, NetworkI, ShapesI
<1>2. CASE rebuildNeeded
  <2>1. phase' = "build" /\ inBlobs' = Cleared(inBlobs, DOMAIN net)
    BY <1>2 DEF Begin
  <2>2. ShapeTypeI'
    BY <1>1, <2>1 DEF ShapeTypeI, Cleared
  <2> QED BY <2>1, <2>2, NothingAsked DEF Usable
<1>3. CASE ~rebuildNeeded
  <2>1. phase' = "recheck" /\ UNCHANGED inBlobs
    BY <1>3 DEF Begin
  <2>2. ShapeTypeI'
    BY <1>1, <2>1 DEF ShapeTypeI
  <2>3. CASE train # backward
    <3>1. DOMAIN net' \subseteq forced' /\ DOMAIN net' \subseteq stale'
      BY <1>1, <2>3 DEF Begin
    <3> QED BY <2>1, <2>2, <3>1, AllForced
  <2>4. CASE train = backward
    <3>1. UNCHANGED <<backward, forced, stale>> /\ (relearned => relearned')
      BY <1>1, <1>3, <2>4 DEF Begin
    <3>2. Usable /\ phase \notin {"reshape", "forward", "backward"}
      BY <1>1, <1>3 DEF Usable, AtRest
    <3>3. ASSUME NEW l \in DOMAIN net, l \notin forced PROVE Fits(l)'
      <4>1. Fits(l)
        BY <3>2, <3>3 DEF ShapesI, FitI
      <4>2. DOMAIN inBlobs'[l] = DOMAIN net[l] /\ Len(inBlobs'[l]) = Len(net[l])
        BY <2>1, <4>1 DEF Fits
      <4> QED BY <1>1, <3>1, <4>1, <4>2, FitsKept
    <3>4. FitI'
      BY <1>1, <3>1, <3>3 DEF FitI
    <3>5. Least' = Least
      BY <1>1, LeastSame
    <3>6. LeastI' /\ StaleI' /\ ReshapeI'
      BY <1>1, <2>1, <3>1, <3>2, <3>5, CurrentSame DEF ShapesI, LeastI, StaleI, ReshapeI
    <3> QED BY <2>2, <3>4, <3>6 DEF ShapesI
  <2> QED BY <2>3, <2>4
<1> QED BY <1>2, <1>3

LEMMA UserShapes == ASSUME NetworkI, ShapesI, Careful, User PROVE ShapesI'
<1>1. ASSUME NEW l \in DOMAIN net, NEW size \in Sizes, SetBlob(l, size) PROVE ShapesI'
  BY <1>1, SetBlobShapes
<1>2. ASSUME NEW l \in DOMAIN net, ToggleLearning(l) PROVE ShapesI'
  <2>1. /\ AtRest /\ relearned' /\ UNCHANGED <<net, rebuildNeeded, phase>>
        /\ UNCHANGED <<userSize, inSizes, outSizes, needed, inBlobs>>
        /\ forced' = forced \cup {l} /\ stale' = stale \cup DOMAIN net
    BY <1>2 DEF ToggleLearning, May, callVars, blobVars
  <2>2. ShapeTypeI'
    BY <2>1 DEF ShapesI, ShapeTypeI
  <2>3. phase' \notin {"reshape", "forward", "backward"} /\ (Usable' => Usable)
    BY <2>1 DEF AtRest, Usable
  <2>4. ASSUME Usable, NEW m \in DOMAIN net, m \notin forced' PROVE Fits(m)'
    <3>1. Fits(m)
      BY <2>1, <2>4 DEF ShapesI, FitI
    <3>2. DOMAIN inBlobs'[m] = DOMAIN net[m] /\ Len(inBlobs'[m]) = Len(net[m])
      BY <2>1, <3>1 DEF Fits
    <3> QED BY <2>1, <3>1, <3>2, FitsKept
  <2>5. FitI' /\ LeastI' /\ StaleI' /\ ReshapeI'
    BY <2>1, <2>3, <2>4 DEF FitI, LeastI, StaleI, ReshapeI
  <2> QED BY <2>2, <2>5 DEF ShapesI
<1>3. CASE ToggleNetLearning
  <2>1. /\ AtRest /\ UNCHANGED <<net, phase, userSize, inSizes, outSizes, needed, inBlobs>>
        /\ forced' = forced \cup DOMAIN net /\ stale' = stale \cup DOMAIN net
    BY <1>3 DEF ToggleNetLearning, May, callVars, blobVars
  <2>2. ShapeTypeI'
    BY <2>1 DEF ShapesI, ShapeTypeI
  <2> QED BY <2>1, <2>2, AllForced DEF AtRest
<1>4. CASE CleanUp
  BY <1>4, CleanUpShapes
<1>5. ASSUME NEW new \in Networks, Edit(new) PROVE ShapesI'
  <2>1. /\ AtRest /\ rebuildNeeded' /\ UNCHANGED <<phase, userSize, inSizes, outSizes, needed>>
        /\ DOMAIN inBlobs' = Layers
    BY <1>5 DEF Edit, May, callVars, shapeVars, Cleared
  <2>2. ShapeTypeI'
    BY <2>1 DEF ShapesI, ShapeTypeI
  <2> QED BY <2>1, <2>2, NothingAsked DEF Usable, AtRest
<1>6. ASSUME NEW train \in BOOLEAN, Begin(train) PROVE ShapesI'
  BY <1>6, BeginShapes
<1> QED BY <1>1, <1>2, <1>3, <1>4, <1>5, <1>6 DEF User

LEMMA BuildShapes == ASSUME NetworkI, ShapesI, BuildStep PROVE ShapesI'
<1>1. CASE EndBuild
  <2>1. /\ phase' = "recheck" /\ UNCHANGED <<net, userSize, inSizes, outSizes, needed, inBlobs>>
        /\ forced' = forced \cup DOMAIN net /\ stale' = stale \cup DOMAIN net
    BY <1>1 DEF EndBuild, StartPhase, userVars, blobVars
  <2>2. ShapeTypeI'
    BY <2>1 DEF ShapesI, ShapeTypeI
  <2> QED BY <2>1, <2>2, AllForced
<1>2. ASSUME NEW l \in Layers, BuildEnter(l) \/ BuildSkip(l) \/ BuildLayer(l) PROVE ShapesI'
  <2>1. /\ phase = "build" /\ phase' = phase
        /\ UNCHANGED <<userSize, inSizes, outSizes, needed, inBlobs>>
    BY <1>2 DEF BuildEnter, BuildSkip, BuildLayer, Enter, EnterAt, Skip, Leave, userVars, shapeVars, blobVars
  <2>2. ShapeTypeI'
    BY <2>1 DEF ShapesI, ShapeTypeI
  <2> QED BY <2>1, <2>2, NothingAsked DEF Usable
<1> QED BY <1>1, <1>2 DEF BuildStep

LEMMA RecheckShapes == ASSUME NetworkI, ShapesI, Recheck PROVE ShapesI'
<1>1. /\ phase = "recheck" /\ phase' = "reshape" /\ sink' = 0 /\ stack' = <<>>
      /\ UNCHANGED <<net, rebuildNeeded, userSize, learningOn, relearned, netLearning, backward,
                     forced, stale, inSizes, outSizes, needed, inBlobs>>
      /\ TypeI /\ ShapeTypeI /\ net \in Networks /\ Usable
      /\ backwardNeeded' = Least
  <2>1. TypeI /\ ShapeTypeI /\ net \in Networks /\ phase = "recheck"
    BY DEF Recheck, NetworkI, ShapesI, TypeI
  <2>2. ~rebuildNeeded
    BY <2>1 DEF TypeI, AtRest
  <2> QED BY <2>1, <2>2 DEF Recheck, StartPhase, userVars, dnnVars, blobVars, Least, Usable
<1>2. Least' = Least
  BY <1>1, LeastSame
<1>3. ShapeTypeI'
  BY <1>1 DEF ShapeTypeI
<1>4. ASSUME NEW l \in DOMAIN net, l \notin forced PROVE Fits(l)'
  <2>1. Fits(l) /\ (relearned \/ backwardNeeded = Least)
    BY <1>1, <1>4 DEF ShapesI, FitI, LeastI
  <2>2. DOMAIN inBlobs'[l] = DOMAIN net[l] /\ Len(inBlobs'[l]) = Len(net[l])
    BY <1>1, <2>1 DEF Fits
  <2> QED BY <1>1, <2>1, <2>2, FitsKept
<1>5. FitI' /\ LeastI' /\ StaleI'
  BY <1>1, <1>2, <1>4 DEF FitI, LeastI, StaleI
<1>6. ReshapeI'
  <2>1. \A l \in Layers : ~OnStack(l)' /\ DOMAIN stack' = {}
    BY <1>1, EmptySeq DEF OnStack
  <2>2. \A l \in DOMAIN net : ~(l <= 0) /\ l \in Layers
    BY <1>1, NetworkFacts
  <2>3. DoneLayers' = {l \in DOMAIN net : l \notin stale}
    BY <1>1, <2>1, <2>2 DEF DoneLayers
  <2>4. ASSUME NEW l \in DoneLayers'
        PROVE  Current(l)' /\ \A i \in DOMAIN net[l] : net[l][i][1] \in DoneLayers'
    <3>0. l \in DOMAIN net /\ l \notin stale
      BY <2>3
    <3>1. \A m \in DOMAIN net : m \notin stale /\ Current(m)
      BY <1>1, <3>0 DEF ShapesI, StaleI
    <3>2. \A i \in DOMAIN net[l] : net[l][i][1] \in DOMAIN net
      BY <1>1, <3>0, SizesFacts DEF Input
    <3> QED BY <1>1, <2>3, <3>0, <3>1, <3>2, CurrentSame
  <2> QED BY <1>1, <2>1, <2>2, <2>4 DEF ReshapeI, Input
<1> QED BY <1>3, <1>5, <1>6 DEF ShapesI

\* The layer called by the frame on top is done: so are all its inputs so far.
LEMMA NextDone ==
    ASSUME TypeI, NEW c \in DOMAIN net, NEW n \in Nat \ {0}, NEW D, NEW l \in D,
           \A i \in DOMAIN net[c] : i < n => Input(c, i) \in D,
           n \in DOMAIN net[c], Input(c, n) = l
    PROVE  \A i \in DOMAIN net[c] : i < n + 1 => Input(c, i) \in D
<1> SUFFICES ASSUME NEW i \in DOMAIN net[c], i < n + 1 PROVE Input(c, i) \in D
  OBVIOUS
<1>1. i \in Nat
  BY SizesFacts
<1>2. i < n \/ i = n
  BY <1>1
<1> QED BY <1>2

\* The loop over the sinks.
LEMMA SinksDone ==
    ASSUME TypeI, CallI, ReshapeI, phase = "reshape", NEW l \in Layers, Calls(l),
           NEW m \in DOMAIN net, IsSink(net, m), m <= CalledSink(l), m # l
    PROVE  m \in DoneLayers \/ OnStack(m)
<1>1. m <= sink
  BY CallFacts DEF CalledSink
<1> QED BY <1>1 DEF ReshapeI

LEMMA ReshapeEnterShapes == ASSUME NetworkI, ShapesI, NEW l \in Layers, ReshapeEnter(l) PROVE ShapesI'
<1>1. /\ TypeI /\ CallI /\ ShapeTypeI /\ FitI /\ LeastI /\ ReshapeI
      /\ phase = "reshape" /\ Calls(l) /\ Entered(l, 1) /\ l \in forced \cup stale
      /\ stale' = stale \ {l}
      /\ UNCHANGED <<net, rebuildNeeded, userSize, learningOn, relearned, netLearning, backward, backwardNeeded,
                     forced, inSizes, outSizes, needed, inBlobs>>
  BY DEF ReshapeEnter, Entered, Enter, userVars, dnnVars, blobVars, NetworkI, ShapesI
<1>2. ~AtRest /\ phase # "recheck" /\ 1 \in Nat \ {0} /\ net' = net
  BY <1>1 DEF AtRest
<1>3. /\ phase' = phase /\ sink' = CalledSink(l)
      /\ DOMAIN stack' = 1 .. Len(stack) + 1
      /\ stack'[Len(stack) + 1] = [layer |-> l, next |-> 1]
      /\ \A k \in 1 .. Len(stack) : stack'[k] = stack[k]
      /\ \A m \in Layers : OnStack(m)' <=> OnStack(m) \/ m = l
  BY <1>1, <1>2, EnterKeeps
<1>4. /\ Len(stack) \in Nat /\ DOMAIN stack = 1 .. Len(stack)
      /\ \A k \in 1 .. Len(stack) : stack[k].layer \in DOMAIN net
      /\ DOMAIN net \subseteq Layers
  BY <1>1, StackFacts
<1>5. l \in DOMAIN net /\ ~OnStack(l)
  BY <1>1, CallFacts
<1>6. Usable' = Usable /\ Least' = Least
  BY <1>1, <1>3, LeastSame DEF Usable
<1>7. DoneLayers' = DoneLayers
  <2>1. l \notin DoneLayers
    BY <1>1 DEF ReshapeI, Current, DoneLayers
  <2> QED BY <1>1, <1>3, <1>4, <1>5, <2>1 DEF DoneLayers
<1>8. ShapeTypeI' /\ LeastI' /\ StaleI'
  BY <1>1, <1>3, <1>6 DEF ShapeTypeI, LeastI, StaleI
<1>9. FitI'
  <2>1. \A m \in DOMAIN net : Fits(m)' <=> Fits(m)
    BY <1>1 DEF Fits, OutOf, NeededNow, BackwardPerformed, LearningPerformed, LearningNeeded
  <2> QED BY <1>1, <1>6, <2>1 DEF FitI
<1>10. ReshapeI'
  <2>1. \A m \in DoneLayers : Current(m)' /\ \A i \in DOMAIN net[m] : net[m][i][1] \in DoneLayers
    BY <1>1, CurrentSame DEF ReshapeI, Input
  <2>2. ASSUME NEW k \in 1 .. Len(stack) + 1
        PROVE  /\ stack'[k].layer \notin stale'
               /\ \A i \in DOMAIN net[stack'[k].layer] :
                     i < stack'[k].next => net[stack'[k].layer][i][1] \in DoneLayers
    <3>1. CASE k = Len(stack) + 1
      <4>1. stack'[k].layer = l /\ stack'[k].next = 1
        BY <1>3, <3>1
      <4>2. \A i \in DOMAIN net[l] : ~(i < 1)
        BY <1>1, <1>5, SizesFacts
      <4> QED BY <1>1, <4>1, <4>2
    <3>2. CASE k # Len(stack) + 1
      <4>1. k \in 1 .. Len(stack)
        BY <1>4, <3>2
      <4> QED BY <1>1, <1>3, <1>4, <4>1 DEF ReshapeI, Input
    <3> QED BY <3>1, <3>2
  <2>3. ASSUME NEW m \in DOMAIN net, IsSink(net, m), m <= sink' PROVE m \in DoneLayers \/ OnStack(m)'
    BY <1>1, <1>3, <1>4, <2>3, SinksDone
  <2> QED BY <1>1, <1>3, <1>7, <2>1, <2>2, <2>3 DEF ReshapeI, Input
<1> QED BY <1>8, <1>9, <1>10 DEF ShapesI

LEMMA ReshapeSkipShapes == ASSUME NetworkI, ShapesI, NEW l \in Layers, ReshapeSkip(l) PROVE ShapesI'
<1>1. /\ TypeI /\ CallI /\ ShapeTypeI /\ FitI /\ LeastI /\ ReshapeI
      /\ phase = "reshape" /\ Calls(l) /\ Skipped(l) /\ l \notin forced \cup stale
      /\ UNCHANGED <<net, rebuildNeeded, userSize, learningOn, relearned, netLearning, backward, backwardNeeded,
                     forced, stale, inSizes, outSizes, needed, inBlobs>>
  BY DEF ReshapeSkip, Skipped, userVars, dnnVars, shapeVars, blobVars, NetworkI, ShapesI
<1>2. ~AtRest /\ phase # "recheck" /\ net' = net
  BY <1>1 DEF AtRest
<1>3. /\ phase' = phase /\ sink' = CalledSink(l)
      /\ DOMAIN stack' = 1 .. Len(stack)
      /\ \A k \in 1 .. Len(stack) :
            /\ stack'[k].layer = stack[k].layer
            /\ k < Len(stack) => stack'[k] = stack[k]
            /\ k = Len(stack) => stack'[k].next = stack[k].next + 1
      /\ \A m \in Layers : OnStack(m)' <=> OnStack(m)
  BY <1>1, <1>2, SkipKeeps
<1>4. /\ Len(stack) \in Nat /\ DOMAIN stack = 1 .. Len(stack)
      /\ \A k \in 1 .. Len(stack) : stack[k].layer \in DOMAIN net /\ stack[k].next \in Nat \ {0}
      /\ DOMAIN net \subseteq Layers /\ (stack # <<>> <=> Len(stack) > 0)
  BY <1>1, StackFacts
<1>5. /\ l \in DOMAIN net /\ ~OnStack(l)
      /\ stack # <<>> => /\ Top = stack[Len(stack)] /\ Top.next \in DOMAIN net[Top.layer]
                         /\ Input(Top.layer, Top.next) = l
  BY <1>1, CallFacts
<1>6. Usable' = Usable /\ Least' = Least
  BY <1>1, <1>3, LeastSame DEF Usable
<1>7. l \in DoneLayers /\ DoneLayers' = DoneLayers
  BY <1>1, <1>3, <1>4, <1>5 DEF DoneLayers
<1>8. ShapeTypeI' /\ LeastI' /\ StaleI'
  BY <1>1, <1>3, <1>6 DEF ShapeTypeI, LeastI, StaleI
<1>9. FitI'
  <2>1. \A m \in DOMAIN net : Fits(m)' <=> Fits(m)
    BY <1>1 DEF Fits, OutOf, NeededNow, BackwardPerformed, LearningPerformed, LearningNeeded
  <2> QED BY <1>1, <1>6, <2>1 DEF FitI
<1>10. ReshapeI'
  <2>1. \A m \in DoneLayers : Current(m)' /\ \A i \in DOMAIN net[m] : net[m][i][1] \in DoneLayers
    BY <1>1, CurrentSame DEF ReshapeI, Input
  <2>2. ASSUME NEW k \in 1 .. Len(stack)
        PROVE  /\ stack'[k].layer \notin stale
               /\ \A i \in DOMAIN net[stack'[k].layer] :
                     i < stack'[k].next => net[stack'[k].layer][i][1] \in DoneLayers
    <3> DEFINE c == stack[k].layer
               n == stack[k].next
    <3>1. c \notin stale /\ \A i \in DOMAIN net[c] : i < n => Input(c, i) \in DoneLayers
      BY <1>1, <1>4 DEF ReshapeI
    <3>2. c \in DOMAIN net /\ n \in Nat \ {0}
      BY <1>4
    <3>3. \A i \in DOMAIN net[c] : i < stack'[k].next => Input(c, i) \in DoneLayers
      <4>1. CASE k < Len(stack)
        BY <1>3, <3>1, <4>1
      <4>2. CASE ~(k < Len(stack))
        <5>0. Len(stack) \in Nat /\ k \in 1 .. Len(stack)
          BY <1>4
        <5>1. k = Len(stack) /\ Len(stack) > 0
          BY <4>2, <5>0
        <5>2. n \in DOMAIN net[c] /\ Input(c, n) = l /\ stack'[k].next = n + 1
          BY <1>3, <1>4, <1>5, <5>1
        <5> HIDE DEF c, n
        <5>3. \A i \in DOMAIN net[c] : i < n + 1 => Input(c, i) \in DoneLayers
          BY <1>1, <1>7, <3>1, <3>2, <5>2, NextDone
        <5> QED BY <5>2, <5>3
      <4> QED BY <4>1, <4>2
    <3> QED BY <1>3, <3>1, <3>3 DEF Input
  <2>3. ASSUME NEW m \in DOMAIN net, IsSink(net, m), m <= sink' PROVE m \in DoneLayers \/ OnStack(m)'
    BY <1>1, <1>3, <1>4, <1>7, <2>3, SinksDone
  <2> QED BY <1>1, <1>3, <1>7, <2>1, <2>2, <2>3 DEF ReshapeI, Input
<1> QED BY <1>8, <1>9, <1>10 DEF ShapesI

\* A call of reshape() ends with a layer that fits and has seen the sizes of now.
LEMMA ShapeFound ==
    ASSUME NetworkI, ShapesI, NEW l \in Layers, phase = "reshape", Left(l),
           UNCHANGED <<net, rebuildNeeded, userSize, learningOn, relearned, netLearning, backward,
                       backwardNeeded, stale>>,
           ShapeTypeI', forced' = forced \ {l}, Fits(l)', inSizes'[l] = SizesOfInputs(l),
           \A m \in Layers \ {l} : /\ inSizes'[m] = inSizes[m] /\ outSizes'[m] = outSizes[m]
                                   /\ needed'[m] = needed[m] /\ inBlobs'[m] = inBlobs[m]
    PROVE  ShapesI'
<1>1. TypeI /\ CallI /\ ShapeTypeI /\ FitI /\ LeastI /\ ReshapeI /\ ~AtRest /\ phase # "recheck"
  BY DEF NetworkI, ShapesI, AtRest
<1>2. /\ phase' = phase /\ sink' = sink
      /\ l \in DOMAIN net /\ OnStack(l)
      /\ Len(stack) \in 1 .. Len(stack) /\ stack[Len(stack)].layer = l
      /\ \A i \in DOMAIN net[l] : i < stack[Len(stack)].next
      /\ DOMAIN stack' = 1 .. Len(stack) - 1
      /\ \A k \in 1 .. Len(stack) - 1 :
            /\ stack'[k].layer = stack[k].layer
            /\ k < Len(stack) - 1 => stack'[k] = stack[k]
            /\ k = Len(stack) - 1 => /\ stack'[k].next = stack[k].next + 1
                                     /\ stack[k].next \in DOMAIN net[stack[k].layer]
                                     /\ Input(stack[k].layer, stack[k].next) = l
      /\ \A m \in Layers : OnStack(m)' <=> OnStack(m) /\ m # l
  BY <1>1, LeaveKeeps
<1>3. /\ Len(stack) \in Nat /\ DOMAIN stack = 1 .. Len(stack)
      /\ \A k \in 1 .. Len(stack) : stack[k].layer \in DOMAIN net /\ stack[k].next \in Nat \ {0}
      /\ DOMAIN net \subseteq Layers
  BY <1>1, StackFacts
<1>4. Usable' = Usable /\ Least' = Least
  BY <1>2, LeastSame DEF Usable
<1>5. l \notin stale /\ \A i \in DOMAIN net[l] : Input(l, i) \in DoneLayers
  <2>1. Len(stack) \in DOMAIN stack
    BY <1>2, <1>3
  <2> QED BY <1>1, <1>2, <2>1 DEF ReshapeI
<1>6. l \notin DoneLayers /\ DoneLayers' = DoneLayers \cup {l}
  BY <1>2, <1>3, <1>5 DEF DoneLayers
<1>7. LeastI' /\ StaleI'
  BY <1>1, <1>2, <1>4 DEF LeastI, StaleI
<1>8. FitI'
  <2> SUFFICES ASSUME Usable, NEW m \in DOMAIN net, m \notin forced \ {l} PROVE Fits(m)'
    BY <1>4 DEF FitI
  <2>1. CASE m = l
    BY <2>1
  <2>2. CASE m # l
    <3>1. Fits(m) /\ m \in Layers \ {l}
      BY <1>1, <1>3, <2>2 DEF FitI
    <3>2. DOMAIN inBlobs'[m] = DOMAIN net[m] /\ Len(inBlobs'[m]) = Len(net[m])
      BY <3>1 DEF Fits
    <3> QED BY <3>1, <3>2, FitsKept
  <2> QED BY <2>1, <2>2
<1>9. ASSUME NEW m \in DoneLayers'
      PROVE  Current(m)' /\ \A i \in DOMAIN net[m] : net[m][i][1] \in DoneLayers'
  <2>1. m \in DOMAIN net /\ m \in Layers /\ m \notin forced'
        /\ \A i \in DOMAIN net[m] : net[m][i][1] \in DoneLayers
    <3>1. m \in DoneLayers \/ m = l
      BY <1>6
    <3>2. CASE m \in DoneLayers
      <4>1. m \in DOMAIN net
        BY <3>2 DEF DoneLayers
      <4> QED BY <1>1, <1>3, <3>2, <4>1 DEF ReshapeI, Current, Input
    <3>3. CASE m = l
      BY <1>2, <1>3, <1>5, <3>3 DEF Input
    <3> QED BY <3>1, <3>2, <3>3
  <2>2. \A i \in DOMAIN net[m] : net[m][i][1] \in Layers \ {l}
    BY <1>3, <1>6, <2>1 DEF DoneLayers
  <2>3. SizesOfInputs(m)' = SizesOfInputs(m)
    BY <2>2 DEF SizesOfInputs
  <2>4. inSizes'[m] = SizesOfInputs(m)
    BY <1>1, <1>6, <2>1 DEF ReshapeI, Current
  <2> QED BY <1>6, <2>1, <2>3, <2>4 DEF Current
<1>10. ASSUME NEW k \in 1 .. Len(stack) - 1
       PROVE  /\ stack'[k].layer \notin stale
              /\ \A i \in DOMAIN net[stack'[k].layer] :
                    i < stack'[k].next => net[stack'[k].layer][i][1] \in DoneLayers'
  <2> DEFINE c == stack[k].layer
             n == stack[k].next
  <2>0. k \in 1 .. Len(stack)
    BY <1>3
  <2>1. c \notin stale /\ \A i \in DOMAIN net[c] : i < n => Input(c, i) \in DoneLayers \cup {l}
    BY <1>1, <1>3, <2>0 DEF ReshapeI
  <2>2. c \in DOMAIN net /\ n \in Nat \ {0}
    BY <1>3, <2>0
  <2>3. \A i \in DOMAIN net[c] : i < stack'[k].next => Input(c, i) \in DoneLayers \cup {l}
    <3>1. CASE k < Len(stack) - 1
      BY <1>2, <2>1, <3>1
    <3>2. CASE ~(k < Len(stack) - 1)
      <4>1. k = Len(stack) - 1
        <5>1. Len(stack) \in Nat
          BY <1>3
        <5> QED BY <3>2, <5>1
      <4>2. n \in DOMAIN net[c] /\ Input(c, n) = l /\ stack'[k].next = n + 1
        BY <1>2, <4>1
      <4> HIDE DEF c, n
      <4> DEFINE D == DoneLayers \cup {l}
      <4>3. l \in D /\ \A i \in DOMAIN net[c] : i < n => Input(c, i) \in D
        BY <2>1
      <4> HIDE DEF D
      <4>4. \A i \in DOMAIN net[c] : i < n + 1 => Input(c, i) \in D
        BY <1>1, <2>2, <4>2, <4>3, NextDone
      <4> QED BY <4>2, <4>4 DEF D
    <3> QED BY <3>1, <3>2
  <2> QED BY <1>2, <1>6, <2>1, <2>3 DEF Input
<1>11. ReshapeI'
  <2>1. ASSUME NEW m \in DOMAIN net, IsSink(net, m), m <= sink'
        PROVE  m \in DoneLayers' \/ OnStack(m)'
    BY <1>1, <1>2, <1>3, <1>6, <2>1 DEF ReshapeI
  <2> QED BY <1>2, <1>9, <1>10, <2>1 DEF ReshapeI, Input
<1> QED BY <1>7, <1>8, <1>11 DEF ShapesI

LEMMA KeepShapeShapes == ASSUME NetworkI, ShapesI, NEW l \in Layers, KeepShape(l) PROVE ShapesI'
<1>1. /\ TypeI /\ CallI /\ ShapeTypeI /\ FitI /\ net' = net
      /\ phase = "reshape" /\ Left(l) /\ ~MustReshape(l)
      /\ inSizes' = [inSizes EXCEPT ![l] = SizesOfInputs(l)]
      /\ UNCHANGED <<net, rebuildNeeded, userSize, learningOn, relearned, netLearning, backward, backwardNeeded,
                     stale, forced, outSizes, needed, inBlobs>>
  BY DEF KeepShape, Left, userVars, dnnVars, blobVars, NetworkI, ShapesI
<1>2. l \in DOMAIN net /\ l \notin forced /\ Usable
  <2>1. l \in DOMAIN net
    BY <1>1, LeaveKeeps DEF AtRest
  <2> QED BY <1>1, <2>1 DEF MustReshape, Usable, TypeI, AtRest
<1>3. Fits(l)
  BY <1>1, <1>2 DEF FitI
<1>4. \A i \in DOMAIN net[l] : inSizes[l][i] = SizesOfInputs(l)[i]
  BY <1>1, <1>3 DEF MustReshape, Fits
<1>5. inSizes'[l] = SizesOfInputs(l) /\ ShapeTypeI'
  BY <1>1 DEF ShapeTypeI
<1>6. Fits(l)'
  <2>1. /\ DOMAIN SizesOfInputs(l) = DOMAIN net[l] /\ Len(SizesOfInputs(l)) = Len(net[l])
        /\ ~IsSource(net, l) => 1 \in DOMAIN net[l]
    BY <1>1, <1>2, SizesFacts
  <2>2. OutOf(l)' = OutOf(l)
    BY <1>1, <1>4, <1>5, <2>1 DEF OutOf
  <2>3. NeededNow(l)' = NeededNow(l)
    BY <1>1 DEF NeededNow, BackwardPerformed, LearningPerformed, LearningNeeded
  <2> QED BY <1>1, <1>3, <1>5, <2>1, <2>2, <2>3 DEF Fits
<1>7. \A m \in Layers \ {l} : inSizes'[m] = inSizes[m]
  BY <1>1 DEF ShapeTypeI
<1>8. forced' = forced \ {l}
  BY <1>1, <1>2
<1> QED BY <1>1, <1>5, <1>6, <1>7, <1>8, ShapeFound

LEMMA ReshapeLayerShapes == ASSUME NetworkI, ShapesI, NEW l \in Layers, ReshapeLayer(l) PROVE ShapesI'
<1>1. /\ TypeI /\ CallI /\ ShapeTypeI /\ net' = net
      /\ phase = "reshape" /\ Left(l)
      /\ inSizes' = [inSizes EXCEPT ![l] = SizesOfInputs(l)]
      /\ outSizes' = [outSizes EXCEPT ![l] = OutSize(l)]
      /\ forced' = forced \ {l}
      /\ needed' = [needed EXCEPT ![l] = NeededNow(l)]
      /\ inBlobs' = [inBlobs EXCEPT ![l] = NoBlobs(Len(net[l]))]
      /\ UNCHANGED <<rebuildNeeded, userSize, learningOn, relearned, netLearning, backward, backwardNeeded, stale>>
  BY DEF ReshapeLayer, Left, userVars, dnnVars, NetworkI, ShapesI
<1>2. l \in DOMAIN net
  BY <1>1, LeaveKeeps DEF AtRest
<1>3. /\ DOMAIN SizesOfInputs(l) = DOMAIN net[l] /\ Len(SizesOfInputs(l)) = Len(net[l])
      /\ \A i \in DOMAIN net[l] : SizesOfInputs(l)[i] = outSizes[Input(l, i)]
      /\ ~IsSource(net, l) => 1 \in DOMAIN net[l]
      /\ Len(net[l]) \in Nat /\ DOMAIN net[l] = 1 .. Len(net[l])
  BY <1>1, <1>2, SizesFacts
<1>4. ShapeTypeI'
  BY <1>1 DEF ShapeTypeI
<1>5. /\ inSizes'[l] = SizesOfInputs(l) /\ outSizes'[l] = OutSize(l)
      /\ needed'[l] = NeededNow(l) /\ inBlobs'[l] = NoBlobs(Len(net[l]))
      /\ \A m \in Layers \ {l} : /\ inSizes'[m] = inSizes[m] /\ outSizes'[m] = outSizes[m]
                                 /\ needed'[m] = needed[m] /\ inBlobs'[m] = inBlobs[m]
  BY <1>1 DEF ShapeTypeI
<1>6. Fits(l)'
  <2>1. OutSize(l) = OutOf(l)'
    BY <1>1, <1>3, <1>5 DEF OutSize, OutOf, Input
  <2>2. NeededNow(l)' = NeededNow(l)
    BY <1>1 DEF NeededNow, BackwardPerformed, LearningPerformed, LearningNeeded
  <2>3. DOMAIN inBlobs'[l] = DOMAIN net[l] /\ Len(inBlobs'[l]) = Len(net[l])
    BY <1>3, <1>5, NoBlobsFacts
  <2>4. NeededNow(l) \subseteq BlobsForBackward[l] \cup BlobsForLearn[l]
    BY DEF NeededNow
  <2> QED BY <1>1, <1>3, <1>5, <2>1, <2>2, <2>3, <2>4 DEF Fits
<1> QED BY <1>1, <1>4, <1>5, <1>6, ShapeFound

\* When reshape() is over it has been called for all the layers: one that is not done would
\* be an input of one that is not done.
LEMMA AllDone ==
    ASSUME TypeI, CallI, ReshapeI, phase = "reshape", PhaseOver
    PROVE  DoneLayers = DOMAIN net
<1> DEFINE S == DOMAIN net \ DoneLayers
<1>1. net \in Networks /\ DOMAIN net \subseteq Nat \ {0} /\ DOMAIN net \subseteq Layers
  BY StackFacts
<1>2. SUFFICES ASSUME S # {} PROVE FALSE
  BY DEF DoneLayers
<1>3. PICK l \in S : \A m \in S : Rank(net)[m] <= Rank(net)[l]
  BY <1>1, <1>2, TopLayer
<1>4. \A m \in Layers : ~OnStack(m)
  BY EmptySeq DEF PhaseOver, OnStack
<1>5. CASE IsSink(net, l)
  <2>1. ~(l > sink)
    BY <1>5 DEF PhaseOver, SinksLeft
  <2>2. l <= sink
    BY <1>1, <2>1 DEF CallI
  <2> QED BY <1>1, <1>4, <1>5, <2>2 DEF ReshapeI
<1>6. CASE ~IsSink(net, l)
  <2>1. PICK c \in DOMAIN net : \E i \in DOMAIN net[c] : net[c][i] = <<l, OutputCount(net, l)>>
    BY <1>1, <1>6, OutputFacts
  <2>2. PICK i \in DOMAIN net[c] : net[c][i] = <<l, OutputCount(net, l)>>
    BY <2>1
  <2>3. net[c][i][1] = l
    BY <2>2
  <2>4. Rank(net)[l] < Rank(net)[c] /\ Rank(net)[l] \in Nat /\ Rank(net)[c] \in Nat
    BY <1>1, <2>3, RankFacts
  <2>5. c \in DoneLayers
    BY <1>3, <2>4
  <2> QED BY <2>3, <2>5 DEF ReshapeI, Input
<1> QED BY <1>5, <1>6

LEMMA EndReshapeShapes == ASSUME NetworkI, ShapesI, EndReshape PROVE ShapesI'
<1>1. /\ TypeI /\ CallI /\ ShapeTypeI /\ FitI /\ LeastI /\ ReshapeI
      /\ phase = "reshape" /\ PhaseOver /\ phase' = "forward"
      /\ UNCHANGED <<net, rebuildNeeded, userSize, learningOn, relearned, netLearning, backward, shapeVars, inBlobs>>
  BY DEF EndReshape, StartPhase, userVars, NetworkI, ShapesI
<1>2. UNCHANGED <<backwardNeeded, forced, stale, inSizes, outSizes, needed>>
  BY <1>1 DEF shapeVars
<1>3. Usable /\ Usable' /\ Least' = Least
  BY <1>1, LeastSame DEF Usable, TypeI, AtRest
<1>4. ShapeTypeI' /\ LeastI' /\ ReshapeI'
  BY <1>1, <1>2, <1>3 DEF ShapeTypeI, LeastI, ReshapeI
<1>5. FitI'
  BY <1>1, <1>3, AllFit
<1>6. StaleI'
  <2>1. \A l \in DOMAIN net : l \notin stale /\ Current(l)
    BY <1>1, AllDone DEF ReshapeI, DoneLayers
  <2> QED BY <1>1, <1>2, <2>1, CurrentSame DEF StaleI
<1> QED BY <1>4, <1>5, <1>6 DEF ShapesI

LEMMA ReshapeShapes == ASSUME NetworkI, ShapesI, ReshapeStep PROVE ShapesI'
<1>1. ASSUME NEW l \in Layers, ReshapeThrows(l) PROVE ShapesI'
  <2>1. /\ phase' = "broken" /\ UNCHANGED <<userSize, outSizes, needed>>
        /\ DOMAIN inSizes' = Layers /\ inBlobs' = [inBlobs EXCEPT ![l] = <<>>]
    BY <1>1 DEF ReshapeThrows, StartPhase, userVars
  <2>2. ShapeTypeI'
    BY <2>1 DEF ShapesI, ShapeTypeI
  <2> QED BY <2>1, <2>2, NothingAsked DEF Usable
<1> QED BY <1>1, RecheckShapes, EndReshapeShapes, ReshapeEnterShapes, ReshapeSkipShapes,
           KeepShapeShapes, ReshapeLayerShapes DEF ReshapeStep

LEMMA ForwardShapes == ASSUME NetworkI, ShapesI, ForwardStep PROVE ShapesI'
<1> DEFINE Same == UNCHANGED <<net, rebuildNeeded, userSize, learningOn, relearned, netLearning, backward, shapeVars>>
<1>0. ASSUME phase = "forward" PROVE phase # "reshape" /\ Usable /\ DOMAIN inBlobs = Layers
  BY <1>0 DEF NetworkI, TypeI, AtRest, Usable, ShapesI, ShapeTypeI
<1>1. CASE EndForward
  <2>1. Same /\ UNCHANGED inBlobs /\ phase = "forward" /\ phase' \in {"idle", "backward"}
    BY <1>1 DEF EndForward, StartPhase, userVars, dnnVars, blobVars
  <2> QED BY <1>0, <2>1, SameShapes
<1>2. ASSUME NEW l \in Layers, RunEnter(l) \/ RunSkip(l) PROVE ShapesI'
  <2>1. Same /\ UNCHANGED inBlobs /\ phase = "forward" /\ phase' = phase
    BY <1>2 DEF RunEnter, RunSkip, Enter, EnterAt, Skip, userVars, dnnVars, blobVars
  <2> QED BY <1>0, <2>1, SameShapes
<1>3. ASSUME NEW l \in Layers, NEW bs, inBlobs' = [inBlobs EXCEPT ![l] = bs],
             bs = NoBlobs(Len(inBlobs[l])) \/ bs = Taken(l),
             Same, phase = "forward", phase' \in {"forward", "failed"}
      PROVE  ShapesI'
  <2>1. ASSUME NEW m \in DOMAIN net, DOMAIN inBlobs[m] = DOMAIN net[m], Len(inBlobs[m]) = Len(net[m])
        PROVE  DOMAIN inBlobs'[m] = DOMAIN net[m] /\ Len(inBlobs'[m]) = Len(net[m])
    <3>1. m \in Layers /\ Len(net[m]) \in Nat /\ DOMAIN net[m] = 1 .. Len(net[m])
      BY SizesFacts DEF NetworkI
    <3>2. CASE m = l
      <4>1. inBlobs'[m] = bs
        BY <1>0, <1>3, <3>1, <3>2
      <4>2. DOMAIN bs = 1 .. Len(net[m]) /\ Len(bs) = Len(net[m])
        BY <1>3, <2>1, <3>1, <3>2, NoBlobsFacts, TakenFacts
      <4> QED BY <3>1, <4>1, <4>2
    <3>3. CASE m # l
      BY <1>0, <1>3, <2>1, <3>1, <3>3
    <3> QED BY <3>2, <3>3
  <2>2. DOMAIN inBlobs' = Layers
    BY <1>0, <1>3
  <2> QED BY <1>0, <1>3, <2>1, <2>2, SameShapes
<1>4. ASSUME NEW l \in Layers, RunLayer(l) PROVE ShapesI'
  <2>1. /\ Same /\ phase = "forward" /\ phase' = phase
        /\ inBlobs' = [inBlobs EXCEPT ![l] =
              IF reuse /\ "in" \notin needed[l] THEN NoBlobs(Len(inBlobs[l])) ELSE Taken(l)]
    BY <1>4 DEF RunLayer, Leave, userVars, dnnVars
  <2> QED BY <1>3, <2>1
<1>5. ASSUME NEW l \in Layers, RunThrows(l) PROVE ShapesI'
  <2>1. /\ Same /\ phase = "forward" /\ phase' = "failed"
        /\ inBlobs' = [inBlobs EXCEPT ![l] = Taken(l)]
    BY <1>5 DEF RunThrows, StartPhase, userVars, dnnVars
  <2> QED BY <1>3, <2>1
<1> QED BY <1>1, <1>2, <1>4, <1>5 DEF ForwardStep

LEMMA BackwardShapes == ASSUME NetworkI, ShapesI, BackwardStep PROVE ShapesI'
<1> DEFINE Same == UNCHANGED <<net, rebuildNeeded, userSize, learningOn, relearned, netLearning, backward, shapeVars>>
<1>0. ASSUME phase = "backward" PROVE phase # "reshape" /\ Usable /\ DOMAIN inBlobs = Layers
  BY <1>0 DEF NetworkI, TypeI, AtRest, Usable, ShapesI, ShapeTypeI
<1>1. ASSUME Same, UNCHANGED inBlobs, phase = "backward", phase' \in {"backward", "idle", "broken"}
      PROVE  ShapesI'
  BY <1>0, <1>1, SameShapes
<1>2. CASE EndBackward
  BY <1>1, <1>2 DEF EndBackward, StartPhase, userVars, dnnVars, blobVars
<1>3. ASSUME NEW l \in Layers, BackSkip(l) \/ BackLayer(l) \/ BackThrows(l) PROVE ShapesI'
  <2>1. Same /\ UNCHANGED inBlobs /\ phase = "backward"
    BY <1>3 DEF BackSkip, BackLayer, BackThrows, userVars, dnnVars, blobVars
  <2>2. phase' \in {"backward", "broken"}
    BY <1>3, <2>1 DEF BackSkip, BackLayer, BackThrows, StartPhase, EnterAt, Skip
  <2> QED BY <1>1, <2>1, <2>2
<1>4. ASSUME NEW l \in Layers, BackReset(l) PROVE ShapesI'
  <2>1. /\ Same /\ phase = "backward" /\ phase' = phase
        /\ \/ inBlobs' = [inBlobs EXCEPT ![l] = NoBlobs(Len(inBlobs[l]))]
           \/ UNCHANGED inBlobs
    BY <1>4 DEF BackReset, Leave, userVars, dnnVars
  <2>2. CASE UNCHANGED inBlobs
    BY <1>1, <2>1, <2>2
  <2>3. CASE inBlobs' = [inBlobs EXCEPT ![l] = NoBlobs(Len(inBlobs[l]))]
    <3>1. ASSUME NEW m \in DOMAIN net, DOMAIN inBlobs[m] = DOMAIN net[m], Len(inBlobs[m]) = Len(net[m])
          PROVE  DOMAIN inBlobs'[m] = DOMAIN net[m] /\ Len(inBlobs'[m]) = Len(net[m])
      <4>1. m \in Layers /\ Len(net[m]) \in Nat /\ DOMAIN net[m] = 1 .. Len(net[m])
        BY SizesFacts DEF NetworkI
      <4>2. CASE m = l
        <5>1. inBlobs'[m] = NoBlobs(Len(net[m]))
          BY <1>0, <2>1, <2>3, <3>1, <4>1, <4>2
        <5> QED BY <4>1, <5>1, NoBlobsFacts
      <4>3. CASE m # l
        BY <1>0, <2>1, <2>3, <3>1, <4>1, <4>3
      <4> QED BY <4>2, <4>3
    <3>2. DOMAIN inBlobs' = Layers
      BY <1>0, <2>1, <2>3
    <3> QED BY <1>0, <2>1, <3>1, <3>2, SameShapes
  <2> QED BY <2>1, <2>2, <2>3
<1> QED BY <1>2, <1>3, <1>4 DEF BackwardStep

LEMMA StutterShapes == ASSUME ShapesI, UNCHANGED vars PROVE ShapesI'
<1>1. UNCHANGED <<net, rebuildNeeded, userSize, learningOn, relearned, netLearning, backward, phase, sink, stack,
                  backwardNeeded, forced, stale, inSizes, outSizes, needed, inBlobs>>
  BY DEF vars, userVars, dnnVars, callVars, shapeVars, blobVars
<1>2. Usable' = Usable /\ Least' = Least
  BY <1>1, LeastSame DEF Usable
<1>3. ShapeTypeI' /\ LeastI'
  BY <1>1, <1>2 DEF ShapesI, ShapeTypeI, LeastI
<1>4. FitI'
  BY <1>1, <1>2 DEF ShapesI, FitI, Fits, OutOf, NeededNow, BackwardPerformed, LearningPerformed, LearningNeeded
<1>5. StaleI'
  BY <1>1, <1>2, CurrentSame DEF ShapesI, StaleI
<1>6. ReshapeI'
  <2>1. DoneLayers' = DoneLayers /\ \A l \in Layers : OnStack(l)' <=> OnStack(l)
    BY <1>1 DEF DoneLayers, OnStack
  <2>2. \A l : Current(l)' <=> Current(l)
    BY <1>1, CurrentSame
  <2> QED BY <1>1, <2>1, <2>2 DEF ShapesI, ReshapeI, Input, OnStack
<1> QED BY <1>3, <1>4, <1>5, <1>6 DEF ShapesI

LEMMA ShapesStep == ASSUME Careful, NetworkI, ShapesI, [Next]_vars PROVE ShapesI'
<1>1. CASE User
  BY <1>1, UserShapes
<1>2. CASE BuildStep
  BY <1>2, BuildShapes
<1>3. CASE ReshapeStep
  BY <1>3, ReshapeShapes
<1>4. CASE ForwardStep
  BY <1>4, ForwardShapes
<1>5. CASE BackwardStep
  BY <1>5, BackwardShapes
<1>6. CASE UNCHANGED vars
  BY <1>6, StutterShapes
<1> QED BY <1>1, <1>2, <1>3, <1>4, <1>5, <1>6 DEF Next, Step

\* The run goes with the shapes that Reshape() of every layer would choose now: the sizes,
\* and the blobs kept for the backward pass, though only what is forced or has inputs of
\* another size was reshaped; the blobs unless the learning of a single layer has been
\* switched since all layers were last forced (reshape, RequestReshape, ForceReshape).
THEOREM ShapesAreCurrent ==
    ASSUME Careful
    PROVE  Spec => []ShapesCurrent
<1>1. Init => ShapesI
  BY ShapesInit
<1>2. NetworkI /\ ShapesI /\ [Next]_vars => ShapesI'
  BY ShapesStep
<1>3. NetworkI /\ ShapesI => ShapesCurrent
  <2> SUFFICES ASSUME NetworkI, ShapesI, phase \in {"forward", "backward"}, NEW l \in DOMAIN net
               PROVE  /\ inSizes[l] = SizesOfInputs(l)
                      /\ outSizes[l] = OutSize(l)
                      /\ relearned \/ needed[l] = NeededNow(l)
    BY DEF ShapesCurrent
  <2>1. TypeI /\ Usable
    BY DEF NetworkI, TypeI, AtRest, Usable
  <2>2. l \notin forced /\ inSizes[l] = SizesOfInputs(l)
    BY <2>1 DEF ShapesI, StaleI, Current
  <2>3. outSizes[l] = OutOf(l) /\ (relearned \/ needed[l] = NeededNow(l))
    BY <2>1, <2>2 DEF ShapesI, FitI, Fits
  <2>4. OutOf(l) = OutSize(l)
    BY <2>1, <2>2, SizesFacts DEF OutOf, OutSize, Input
  <2> QED BY <2>2, <2>3, <2>4
<1> QED BY <1>1, <1>2, <1>3, NetworkInvariant, PTL DEF Spec

-----------------------------------------------------------------------------
(* The order of the calls.  The recursion goes through a network in the same order *)
(* in each phase that visits every layer, whatever it marks the visited layers with. *)

\* Layer l is called next, with the calls s in progress and k as the last sink.
CalledAt(n, s, k, l) ==
    IF s = <<>>
    THEN LET left == {m \in DOMAIN n : IsSink(n, m) /\ m > k}
         IN  l \in left /\ \A m \in left : l <= m
    ELSE /\ s[Len(s)].next \in DOMAIN n[s[Len(s)].layer]
         /\ n[s[Len(s)].layer][s[Len(s)].next][1] = l

\* A step of the recursion: the call of a layer, entered if it has not returned before,
\* or the return of one.
Moves(n, c, d) ==
    \/ \E l \in DOMAIN n :
          /\ CalledAt(n, c.stack, c.sink, l)
          /\ d = [stack |-> IF l \in c.done THEN Advance(c.stack)
                            ELSE Append(c.stack, [layer |-> l, next |-> 1]),
                  sink |-> IF c.stack = <<>> THEN l ELSE c.sink,
                  done |-> c.done]
    \/ \E l \in DOMAIN n :
          /\ c.stack # <<>> /\ c.stack[Len(c.stack)].layer = l
          /\ c.stack[Len(c.stack)].next > Len(n[l])
          /\ d = [stack |-> Advance(SubSeq(c.stack, 1, Len(c.stack) - 1)),
                  sink |-> c.sink,
                  done |-> c.done \cup {l}]

StartPlace == [stack |-> <<>>, sink |-> 0, done |-> {}]
IsWalk(n, w, k) == w[0] = StartPlace /\ \A i \in 0 .. k - 1 : Moves(n, w[i], w[i + 1])

\* The recursion through n is at c after some steps.
Reached(n, c) == \E k \in Nat : \E w : IsWalk(n, w, k) /\ w[k] = c

\* There is one next step.
LEMMA MovesOnce ==
    ASSUME NEW n \in Networks, NEW c, NEW d, NEW e, Moves(n, c, d), Moves(n, c, e)
    PROVE  d = e
<1> DEFINE top == c.stack[Len(c.stack)]
           CallMove(l, x) ==
               /\ CalledAt(n, c.stack, c.sink, l)
               /\ x = [stack |-> IF l \in c.done THEN Advance(c.stack)
                                 ELSE Append(c.stack, [layer |-> l, next |-> 1]),
                       sink |-> IF c.stack = <<>> THEN l ELSE c.sink,
                       done |-> c.done]
           ReturnMove(l, x) ==
               /\ c.stack # <<>> /\ top.layer = l /\ top.next > Len(n[l])
               /\ x = [stack |-> Advance(SubSeq(c.stack, 1, Len(c.stack) - 1)),
                       sink |-> c.sink, done |-> c.done \cup {l}]
<1>1. \A x : Moves(n, c, x) => \E l \in DOMAIN n : CallMove(l, x) \/ ReturnMove(l, x)
  BY DEF Moves
<1>2. PICK l \in DOMAIN n : CallMove(l, d) \/ ReturnMove(l, d)
  BY <1>1
<1>3. PICK m \in DOMAIN n : CallMove(m, e) \/ ReturnMove(m, e)
  BY <1>1
<1>4. DOMAIN n \subseteq Nat /\ \A x \in DOMAIN n : DOMAIN n[x] = 1 .. Len(n[x]) /\ Len(n[x]) \in Nat
  BY NetworkFacts
<1>5. CASE CallMove(l, d) /\ CallMove(m, e)
  <2>1. CASE c.stack = <<>>
    <3>1. l <= m /\ m <= l
      BY <1>5, <2>1 DEF CalledAt
    <3>2. l = m
      BY <3>1, <1>4
    <3> QED BY <3>2, <1>5
  <2>2. CASE c.stack # <<>>
    BY <1>5, <2>2 DEF CalledAt
  <2> QED BY <2>1, <2>2
<1>6. ASSUME NEW x \in DOMAIN n, NEW y \in DOMAIN n, NEW v, NEW u, CallMove(x, v), ReturnMove(y, u)
      PROVE  FALSE
  <2>1. top.next \in DOMAIN n[y] /\ top.next > Len(n[y])
    BY <1>6 DEF CalledAt
  <2> HIDE DEF top
  <2> QED BY <2>1, <1>4
<1>7. CASE ReturnMove(l, d) /\ ReturnMove(m, e)
  BY <1>7
<1> QED
  <2> HIDE DEF CallMove, ReturnMove
  <2> QED BY <1>2, <1>3, <1>5, <1>6, <1>7

LEMMA ReachedStart == ASSUME NEW n PROVE Reached(n, StartPlace)
<1> DEFINE w == [i \in {0} |-> StartPlace]
<1>1. \A i \in 0 .. 0 - 1 : FALSE
  OBVIOUS
<1>2. IsWalk(n, w, 0) /\ w[0] = StartPlace
  BY <1>1 DEF IsWalk
<1> QED BY <1>2 DEF Reached

LEMMA ReachedStep ==
    ASSUME NEW n, NEW c, NEW d, Reached(n, c), Moves(n, c, d)
    PROVE  Reached(n, d)
<1>1. PICK k \in Nat : \E w : IsWalk(n, w, k) /\ w[k] = c
  BY DEF Reached
<1>2. PICK w : IsWalk(n, w, k) /\ w[k] = c
  BY <1>1
<1> DEFINE v == [i \in 0 .. k + 1 |-> IF i = k + 1 THEN d ELSE w[i]]
<1>3. /\ v[0] = w[0] /\ v[k + 1] = d /\ k + 1 \in Nat
      /\ \A i \in 0 .. k : v[i] = w[i]
  OBVIOUS
<1>4. ASSUME NEW i \in 0 .. (k + 1) - 1 PROVE Moves(n, v[i], v[i + 1])
  <2> HIDE DEF v
  <2>1. i \in 0 .. k /\ v[i] = w[i]
    BY <1>3
  <2>2. CASE i = k
    BY <1>2, <1>3, <2>1, <2>2
  <2>3. CASE i # k
    <3>1. i \in 0 .. k - 1 /\ i + 1 \in 0 .. k
      BY <2>1, <2>3
    <3>2. Moves(n, w[i], w[i + 1])
      BY <1>2, <3>1 DEF IsWalk
    <3> QED BY <1>3, <2>1, <3>1, <3>2
  <2> QED BY <2>2, <2>3
<1>5. v[0] = StartPlace
  BY <1>2, <1>3 DEF IsWalk
<1>6. IsWalk(n, v, k + 1) /\ v[k + 1] = d
  <2> HIDE DEF v
  <2> QED BY <1>3, <1>4, <1>5 DEF IsWalk
<1> QED
  <2> HIDE DEF v
  <2> QED BY <1>3, <1>6 DEF Reached

\* Two walks go the same way, as far as both go.
LEMMA SameWalk ==
    ASSUME NEW n \in Networks, NEW w, NEW v, NEW k \in Nat, NEW j \in Nat, k <= j,
           IsWalk(n, w, k), IsWalk(n, v, j)
    PROVE  \A i \in 0 .. k : w[i] = v[i]
<1> DEFINE T == {i \in 0 .. k : w[i] # v[i]}
<1>1. SUFFICES ASSUME T # {} PROVE FALSE
  OBVIOUS
<1>2. PICK i \in T : \A x \in T : i <= x
  <2>1. T \subseteq Nat
    OBVIOUS
  <2> HIDE DEF T
  <2> QED BY <1>1, <2>1, LeastNumber
<1>3. i \in 0 .. k /\ w[i] # v[i] /\ \A x \in 0 .. k : x < i => w[x] = v[x]
  BY <1>2
<1>4. i # 0
  BY <1>3 DEF IsWalk
<1>5. i - 1 \in 0 .. k - 1 /\ i - 1 \in 0 .. j - 1 /\ i - 1 \in 0 .. k /\ i - 1 < i /\ (i - 1) + 1 = i
  BY <1>3, <1>4
<1>6. Moves(n, w[i - 1], w[(i - 1) + 1]) /\ Moves(n, v[i - 1], v[(i - 1) + 1])
  BY <1>5 DEF IsWalk
<1>7. Moves(n, w[i - 1], w[i]) /\ Moves(n, v[i - 1], v[i]) /\ w[i - 1] = v[i - 1]
  BY <1>3, <1>5, <1>6
<1> QED BY <1>3, <1>7, MovesOnce

\* What has returned stays so.
LEMMA DoneGrows ==
    ASSUME NEW n, NEW v, NEW j \in Nat, NEW k \in 0 .. j, IsWalk(n, v, j)
    PROVE  v[k].done \subseteq v[j].done
<1> DEFINE T == {i \in k .. j : ~(v[k].done \subseteq v[i].done)}
<1>1. SUFFICES ASSUME T # {} PROVE FALSE
  OBVIOUS
<1>2. PICK i \in T : \A x \in T : i <= x
  <2>1. T \subseteq Nat
    OBVIOUS
  <2> HIDE DEF T
  <2> QED BY <1>1, <2>1, LeastNumber
<1>3. i \in k .. j /\ ~(v[k].done \subseteq v[i].done) /\ \A x \in k .. j : x < i => v[k].done \subseteq v[x].done
  BY <1>2
<1>4. i # k
  BY <1>3
<1>5. i - 1 \in k .. j /\ i - 1 \in 0 .. j - 1 /\ i - 1 < i /\ (i - 1) + 1 = i
  BY <1>3, <1>4
<1>6. Moves(n, v[i - 1], v[i])
  <2>1. Moves(n, v[i - 1], v[(i - 1) + 1])
    BY <1>5 DEF IsWalk
  <2> QED BY <1>5, <2>1
<1>7. v[i - 1].done \subseteq v[i].done
  <2> DEFINE a == v[i - 1]
             b == v[i]
  <2>1. Moves(n, a, b)
    BY <1>6
  <2> HIDE DEF a, b
  <2>2. ASSUME NEW s, NEW t, NEW D, b = [stack |-> s, sink |-> t, done |-> D] PROVE b.done = D
    BY <2>2
  <2>3. b.done = a.done \/ \E l \in DOMAIN n : b.done = a.done \cup {l}
    BY <2>1, <2>2 DEF Moves
  <2>4. a.done \subseteq b.done
    BY <2>3
  <2> QED BY <2>4 DEF a, b
<1> QED BY <1>3, <1>5, <1>7

\* Of two places in the recursion one is before the other.
LEMMA OneBefore ==
    ASSUME NEW n \in Networks, NEW c, NEW d, Reached(n, c), Reached(n, d)
    PROVE  c.done \subseteq d.done \/ d.done \subseteq c.done
<1>1. ASSUME NEW k \in Nat, NEW j \in Nat, NEW w, NEW v, IsWalk(n, w, k), IsWalk(n, v, j), k <= j
      PROVE  w[k].done \subseteq v[j].done
  <2>1. k \in 0 .. k /\ k \in 0 .. j
    BY <1>1
  <2>2. w[k] = v[k]
    BY <1>1, <2>1, SameWalk
  <2> QED BY <1>1, <2>1, <2>2, DoneGrows
<1>2. PICK k \in Nat : \E w : IsWalk(n, w, k) /\ w[k] = c
  BY DEF Reached
<1>3. PICK w : IsWalk(n, w, k) /\ w[k] = c
  BY <1>2
<1>4. PICK j \in Nat : \E v : IsWalk(n, v, j) /\ v[j] = d
  BY DEF Reached
<1>5. PICK v : IsWalk(n, v, j) /\ v[j] = d
  BY <1>4
<1>6. k <= j \/ j <= k
  OBVIOUS
<1> QED BY <1>1, <1>3, <1>5, <1>6

-----------------------------------------------------------------------------
(* buildOrder. *)

\* The layers that buildOrder has returned from.
Built == {l \in DOMAIN net : IF IsSink(net, l) THEN l <= sink /\ ~OnStack(l) ELSE lastUser[l] # <<>>}

\* The layers in D have returned, with everything before them, and those being called have not.
Visited(n, s, k, D) ==
    /\ D \subseteq DOMAIN n
    /\ \A l \in D : \A i \in DOMAIN n[l] : n[l][i][1] \in D
    /\ \A j \in DOMAIN s : /\ s[j].layer \notin D
                           /\ \A i \in DOMAIN n[s[j].layer] : i < s[j].next => n[s[j].layer][i][1] \in D
    /\ \A l \in DOMAIN n : IsSink(n, l) /\ l <= k => l \in D \/ \E j \in DOMAIN s : s[j].layer = l

\* The last user of a port is the last of the layers S to return from a call in any phase.
LastUserIn(n, users, S) ==
    \A m \in DOMAIN n : \A o \in DOMAIN users[m] : users[m][o] \in DOMAIN n =>
        \A c : Reached(n, c) /\ users[m][o] \in c.done =>
            \A x \in S : \A i \in DOMAIN n[x] : n[x][i] = <<m, o>> => x \in c.done

\* The ports that the sinks in S read cannot be overwritten or dropped.
SinksDisable(n, users, S) ==
    \A s \in S : IsSink(n, s) =>
        \A i \in DOMAIN n[s] : /\ n[s][i][2] \in DOMAIN users[n[s][i][1]]
                               /\ users[n[s][i][1]][n[s][i][2]] = Disabled

LEMMA VisitEnter ==
    ASSUME TypeI, CallI, NEW l \in Layers, Entered(l, 1), net' = net, ~AtRest, phase # "recheck",
           NEW D, Visited(net, stack, sink, D), l \notin D
    PROVE  Visited(net, stack', sink', D)
<1>1. /\ sink' = CalledSink(l)
      /\ DOMAIN stack' = 1 .. Len(stack) + 1
      /\ stack'[Len(stack) + 1] = [layer |-> l, next |-> 1]
      /\ \A k \in 1 .. Len(stack) : stack'[k] = stack[k]
  <2>1. 1 \in Nat \ {0}
    OBVIOUS
  <2> QED BY <2>1, EnterKeeps
<1>2. /\ Len(stack) \in Nat /\ DOMAIN stack = 1 .. Len(stack) /\ (stack # <<>> <=> Len(stack) > 0)
      /\ \A k \in 1 .. Len(stack) : stack[k].layer \in DOMAIN net
  BY StackFacts
<1>3. /\ l \in DOMAIN net
      /\ stack = <<>> => \A m \in DOMAIN net : IsSink(net, m) /\ m <= l => m = l \/ m <= sink
  BY CallFacts DEF Entered
<1>4. /\ D \subseteq DOMAIN net
      /\ \A m \in D : \A i \in DOMAIN net[m] : net[m][i][1] \in D
      /\ \A j \in 1 .. Len(stack) :
            /\ stack[j].layer \notin D
            /\ \A i \in DOMAIN net[stack[j].layer] :
                  i < stack[j].next => net[stack[j].layer][i][1] \in D
      /\ \A m \in DOMAIN net : IsSink(net, m) /\ m <= sink => m \in D \/ \E j \in 1 .. Len(stack) : stack[j].layer = m
  BY <1>2 DEF Visited
<1>5. ASSUME NEW j \in 1 .. Len(stack) + 1
      PROVE  /\ stack'[j].layer \notin D
             /\ \A i \in DOMAIN net[stack'[j].layer] :
                   i < stack'[j].next => net[stack'[j].layer][i][1] \in D
  <2>1. CASE j = Len(stack) + 1
    <3>1. stack'[j].layer = l /\ stack'[j].next = 1
      BY <1>1, <2>1
    <3>2. \A i \in DOMAIN net[l] : ~(i < 1)
      BY <1>3, SizesFacts
    <3> QED BY <3>1, <3>2
  <2>2. CASE j # Len(stack) + 1
    <3>1. j \in 1 .. Len(stack)
      BY <1>2, <2>2
    <3>2. stack'[j] = stack[j]
      BY <1>1, <3>1
    <3> QED BY <1>4, <3>1, <3>2
  <2> QED BY <2>1, <2>2
<1>6. ASSUME NEW m \in DOMAIN net, IsSink(net, m), m <= sink'
      PROVE  m \in D \/ \E j \in 1 .. Len(stack) + 1 : stack'[j].layer = m
  <2>1. Len(stack) + 1 \in 1 .. Len(stack) + 1 /\ 1 .. Len(stack) \subseteq 1 .. Len(stack) + 1
    BY <1>2
  <2>2. CASE m = l
    BY <1>1, <2>1, <2>2
  <2>3. CASE m # l
    <3>1. m <= sink
      BY <1>1, <1>3, <1>6, <2>3 DEF CalledSink
    <3>2. m \in D \/ \E j \in 1 .. Len(stack) : stack[j].layer = m
      BY <1>4, <1>6, <3>1
    <3>3. ASSUME NEW j \in 1 .. Len(stack), stack[j].layer = m
          PROVE  j \in 1 .. Len(stack) + 1 /\ stack'[j].layer = m
      BY <1>1, <2>1, <3>3
    <3> QED BY <3>2, <3>3
  <2> QED BY <2>2, <2>3
<1> QED BY <1>1, <1>4, <1>5, <1>6 DEF Visited

LEMMA VisitSkip ==
    ASSUME TypeI, CallI, NEW l \in Layers, Skipped(l), net' = net, ~AtRest, phase # "recheck",
           NEW D, Visited(net, stack, sink, D), l \in D
    PROVE  Visited(net, stack', sink', D)
<1>1. /\ sink' = CalledSink(l)
      /\ DOMAIN stack' = 1 .. Len(stack)
      /\ \A k \in 1 .. Len(stack) :
            /\ stack'[k].layer = stack[k].layer
            /\ k < Len(stack) => stack'[k] = stack[k]
            /\ k = Len(stack) => stack'[k].next = stack[k].next + 1
  BY SkipKeeps
<1>2. /\ Len(stack) \in Nat /\ DOMAIN stack = 1 .. Len(stack) /\ (stack # <<>> <=> Len(stack) > 0)
      /\ \A k \in 1 .. Len(stack) : stack[k].layer \in DOMAIN net /\ stack[k].next \in Nat \ {0}
  BY StackFacts
<1>3. /\ l \in DOMAIN net
      /\ stack = <<>> => \A m \in DOMAIN net : IsSink(net, m) /\ m <= l => m = l \/ m <= sink
      /\ stack # <<>> => /\ Top = stack[Len(stack)] /\ Top.next \in DOMAIN net[Top.layer]
                         /\ Input(Top.layer, Top.next) = l
  BY CallFacts DEF Skipped
<1>4. /\ D \subseteq DOMAIN net
      /\ \A m \in D : \A i \in DOMAIN net[m] : net[m][i][1] \in D
      /\ \A j \in 1 .. Len(stack) :
            /\ stack[j].layer \notin D
            /\ \A i \in DOMAIN net[stack[j].layer] :
                  i < stack[j].next => Input(stack[j].layer, i) \in D
      /\ \A m \in DOMAIN net : IsSink(net, m) /\ m <= sink => m \in D \/ \E j \in 1 .. Len(stack) : stack[j].layer = m
  BY <1>2 DEF Visited, Input
<1>5. ASSUME NEW j \in 1 .. Len(stack)
      PROVE  /\ stack'[j].layer \notin D
             /\ \A i \in DOMAIN net[stack'[j].layer] :
                   i < stack'[j].next => Input(stack'[j].layer, i) \in D
  <2> DEFINE c == stack[j].layer
             n == stack[j].next
  <2>1. c \in DOMAIN net /\ n \in Nat \ {0} /\ \A i \in DOMAIN net[c] : i < n => Input(c, i) \in D
    BY <1>2, <1>4
  <2>2. \A i \in DOMAIN net[c] : i < stack'[j].next => Input(c, i) \in D
    <3>1. CASE j < Len(stack)
      BY <1>1, <2>1, <3>1
    <3>2. CASE ~(j < Len(stack))
      <4>0. Len(stack) \in Nat /\ j \in 1 .. Len(stack)
        BY <1>2
      <4>1. j = Len(stack) /\ Len(stack) > 0
        BY <3>2, <4>0
      <4>2. n \in DOMAIN net[c] /\ Input(c, n) = l /\ stack'[j].next = n + 1
        BY <1>1, <1>2, <1>3, <4>1
      <4> HIDE DEF c, n
      <4>3. \A i \in DOMAIN net[c] : i < n + 1 => Input(c, i) \in D
        BY <2>1, <4>2, NextDone
      <4> QED BY <4>2, <4>3
    <3> QED BY <3>1, <3>2
  <2> QED BY <1>1, <1>4, <2>2
<1>6. ASSUME NEW m \in DOMAIN net, IsSink(net, m), m <= sink'
      PROVE  m \in D \/ \E j \in 1 .. Len(stack) : stack'[j].layer = m
  <2>1. CASE m = l
    BY <2>1
  <2>2. CASE m # l
    <3>1. m <= sink
      BY <1>1, <1>3, <1>6, <2>2 DEF CalledSink
    <3> QED BY <1>1, <1>4, <1>6, <3>1
  <2> QED BY <2>1, <2>2
<1> QED BY <1>1, <1>4, <1>5, <1>6 DEF Visited, Input

LEMMA VisitLeave ==
    ASSUME TypeI, CallI, NEW l \in Layers, Left(l), net' = net, ~AtRest, phase # "recheck",
           NEW D, Visited(net, stack, sink, D)
    PROVE  /\ Visited(net, stack', sink', D \cup {l})
           /\ l \notin D /\ \A i \in DOMAIN net[l] : net[l][i][1] \in D
<1>1. /\ sink' = sink /\ l \in DOMAIN net
      /\ Len(stack) \in 1 .. Len(stack) /\ stack[Len(stack)].layer = l
      /\ \A i \in DOMAIN net[l] : i < stack[Len(stack)].next
      /\ DOMAIN stack' = 1 .. Len(stack) - 1
      /\ \A k \in 1 .. Len(stack) - 1 :
            /\ stack[k].layer # l
            /\ stack'[k].layer = stack[k].layer
            /\ k < Len(stack) - 1 => stack'[k] = stack[k]
            /\ k = Len(stack) - 1 => /\ stack'[k].next = stack[k].next + 1
                                     /\ stack[k].next \in DOMAIN net[stack[k].layer]
                                     /\ Input(stack[k].layer, stack[k].next) = l
  BY LeaveKeeps
<1>2. /\ Len(stack) \in Nat /\ DOMAIN stack = 1 .. Len(stack)
      /\ \A k \in 1 .. Len(stack) : stack[k].layer \in DOMAIN net /\ stack[k].next \in Nat \ {0}
  BY StackFacts
<1>3. /\ D \subseteq DOMAIN net
      /\ \A m \in D : \A i \in DOMAIN net[m] : Input(m, i) \in D
      /\ \A j \in 1 .. Len(stack) :
            /\ stack[j].layer \notin D
            /\ \A i \in DOMAIN net[stack[j].layer] :
                  i < stack[j].next => Input(stack[j].layer, i) \in D
      /\ \A m \in DOMAIN net : IsSink(net, m) /\ m <= sink => m \in D \/ \E j \in 1 .. Len(stack) : stack[j].layer = m
  BY <1>2 DEF Visited, Input
<1>4. l \notin D /\ \A i \in DOMAIN net[l] : Input(l, i) \in D
  BY <1>1, <1>3
<1> DEFINE E == D \cup {l}
<1>5. ASSUME NEW j \in 1 .. Len(stack) - 1
      PROVE  /\ stack'[j].layer \notin E
             /\ \A i \in DOMAIN net[stack'[j].layer] :
                   i < stack'[j].next => Input(stack'[j].layer, i) \in E
  <2> DEFINE c == stack[j].layer
             n == stack[j].next
  <2>0. j \in 1 .. Len(stack)
    BY <1>2
  <2>1. /\ c \in DOMAIN net /\ n \in Nat \ {0} /\ c \notin E
        /\ l \in E /\ \A i \in DOMAIN net[c] : i < n => Input(c, i) \in E
    BY <1>1, <1>2, <1>3, <2>0
  <2> HIDE DEF E
  <2>2. \A i \in DOMAIN net[c] : i < stack'[j].next => Input(c, i) \in E
    <3>1. CASE j < Len(stack) - 1
      BY <1>1, <2>1, <3>1
    <3>2. CASE ~(j < Len(stack) - 1)
      <4>1. j = Len(stack) - 1
        <5>1. Len(stack) \in Nat
          BY <1>2
        <5> QED BY <3>2, <5>1
      <4>2. n \in DOMAIN net[c] /\ Input(c, n) = l /\ stack'[j].next = n + 1
        BY <1>1, <4>1
      <4> HIDE DEF c, n
      <4>3. \A i \in DOMAIN net[c] : i < n + 1 => Input(c, i) \in E
        BY <2>1, <4>2, NextDone
      <4> QED BY <4>2, <4>3
    <3> QED BY <3>1, <3>2
  <2> QED BY <1>1, <2>1, <2>2
<1>6. ASSUME NEW m \in DOMAIN net, IsSink(net, m), m <= sink'
      PROVE  m \in E \/ \E j \in 1 .. Len(stack) - 1 : stack'[j].layer = m
  <2>1. m \in D \/ \E j \in 1 .. Len(stack) : stack[j].layer = m
    BY <1>1, <1>3, <1>6
  <2>2. ASSUME NEW j \in 1 .. Len(stack), stack[j].layer = m, m # l
        PROVE  j \in 1 .. Len(stack) - 1 /\ stack'[j].layer = m
    <3>1. j # Len(stack)
      BY <1>1, <2>2
    <3>2. j \in 1 .. Len(stack) - 1
      <4>1. Len(stack) \in Nat /\ j \in 1 .. Len(stack)
        BY <1>2
      <4> QED BY <3>1, <4>1
    <3> QED BY <1>1, <2>2, <3>2
  <2> QED BY <2>1, <2>2
<1>7. \A m \in E : m \in DOMAIN net /\ \A i \in DOMAIN net[m] : Input(m, i) \in E
  BY <1>1, <1>3, <1>4
<1>8. Visited(net, stack', sink', E)
  <2> HIDE DEF E
  <2> QED BY <1>1, <1>5, <1>6, <1>7 DEF Visited, Input
<1> QED BY <1>4, <1>8 DEF Input

\* When the loop over the sinks is over, everything has returned.
LEMMA VisitAll ==
    ASSUME TypeI, CallI, PhaseOver, NEW D, Visited(net, stack, sink, D)
    PROVE  D = DOMAIN net
<1> DEFINE S == DOMAIN net \ D
<1>1. net \in Networks /\ DOMAIN net \subseteq Nat \ {0}
  BY StackFacts
<1>2. D \subseteq DOMAIN net /\ (\A m \in D : \A i \in DOMAIN net[m] : net[m][i][1] \in D)
  BY DEF Visited
<1>3. SUFFICES ASSUME S # {} PROVE FALSE
  BY <1>2
<1>4. PICK l \in S : \A m \in S : Rank(net)[m] <= Rank(net)[l]
  BY <1>1, <1>3, TopLayer
<1>5. DOMAIN stack = {}
  BY EmptySeq DEF PhaseOver
<1>6. CASE IsSink(net, l)
  <2>1. ~(l > sink)
    BY <1>6 DEF PhaseOver, SinksLeft
  <2>2. l <= sink
    BY <1>1, <2>1 DEF CallI
  <2> QED BY <1>5, <1>6, <2>2 DEF Visited
<1>7. CASE ~IsSink(net, l)
  <2>1. PICK c \in DOMAIN net : \E i \in DOMAIN net[c] : net[c][i] = <<l, OutputCount(net, l)>>
    BY <1>1, <1>7, OutputFacts
  <2>2. PICK i \in DOMAIN net[c] : net[c][i] = <<l, OutputCount(net, l)>>
    BY <2>1
  <2>3. net[c][i][1] = l
    BY <2>2
  <2>4. Rank(net)[l] < Rank(net)[c] /\ Rank(net)[l] \in Nat /\ Rank(net)[c] \in Nat
    BY <1>1, <2>3, RankFacts
  <2>5. c \in D
    BY <1>4, <2>4
  <2> QED BY <1>2, <2>3, <2>5
<1> QED BY <1>6, <1>7

\* A sink that is being called is the last one that was called.
LEMMA SinkCalled ==
    ASSUME TypeI, CallI, NEW l \in DOMAIN net, IsSink(net, l), OnStack(l)
    PROVE  l <= sink
<1>1. /\ Len(stack) \in Nat /\ DOMAIN stack = 1 .. Len(stack) /\ (stack # <<>> <=> Len(stack) > 0)
      /\ net \in Networks /\ \A k \in 1 .. Len(stack) : stack[k].layer \in DOMAIN net
  BY StackFacts
<1>2. PICK k \in 1 .. Len(stack) : stack[k].layer = l
  BY <1>1 DEF OnStack
<1>3. CASE k = 1
  <2>1. sink = l /\ sink \in Nat
    BY <1>1, <1>2, <1>3 DEF CallI
  <2> QED BY <2>1
<1>4. CASE k # 1
  <2>1. k - 1 \in 1 .. Len(stack) - 1 /\ (k - 1) + 1 = k /\ k - 1 \in 1 .. Len(stack)
    <3>1. Len(stack) \in Nat /\ k \in 1 .. Len(stack)
      BY <1>1
    <3> QED BY <1>4, <3>1
  <2>2. /\ stack[k - 1].next \in DOMAIN net[stack[k - 1].layer]
        /\ Input(stack[k - 1].layer, stack[k - 1].next) = stack[(k - 1) + 1].layer
    BY <2>1 DEF CallI
  <2>3. Input(stack[k - 1].layer, stack[k - 1].next) = l
    BY <1>2, <2>1, <2>2
  <2> QED BY <1>1, <2>1, <2>2, <2>3, OutputFacts DEF Input
<1> QED BY <1>3, <1>4

\* The moves of the recursion in any phase.
LEMMA CallMoves ==
    ASSUME TypeI, CallI, NEW l \in Layers, Calls(l), NEW D,
           (l \notin D /\ Enter(l)) \/ (l \in D /\ Skip(l))
    PROVE  Moves(net, [stack |-> stack, sink |-> sink, done |-> D],
                      [stack |-> stack', sink |-> sink', done |-> D])
<1> DEFINE c == [stack |-> stack, sink |-> sink, done |-> D]
           d == [stack |-> stack', sink |-> sink', done |-> D]
<1>1. l \in DOMAIN net
  BY CallFacts
<1>2. CalledAt(net, c.stack, c.sink, l)
  BY DEF Calls, CalledAt, SinksLeft, Top
<1>3. /\ stack' = IF l \in c.done THEN Advance(c.stack) ELSE Append(c.stack, [layer |-> l, next |-> 1])
      /\ sink' = IF c.stack = <<>> THEN l ELSE c.sink
  BY DEF Enter, EnterAt, Skip, CalledSink
<1>4. d = [stack |-> IF l \in c.done THEN Advance(c.stack)
                     ELSE Append(c.stack, [layer |-> l, next |-> 1]),
           sink |-> IF c.stack = <<>> THEN l ELSE c.sink,
           done |-> c.done]
  BY <1>3
<1> QED
  <2> HIDE DEF c, d
  <2>1. Moves(net, c, d)
    BY <1>1, <1>2, <1>4 DEF Moves
  <2> QED BY <2>1 DEF c, d

LEMMA ReturnMoves ==
    ASSUME TypeI, CallI, NEW l \in Layers, Left(l), NEW D
    PROVE  Moves(net, [stack |-> stack, sink |-> sink, done |-> D],
                      [stack |-> stack', sink |-> sink', done |-> D \cup {l}])
<1> DEFINE c == [stack |-> stack, sink |-> sink, done |-> D]
           d == [stack |-> stack', sink |-> sink', done |-> D \cup {l}]
<1>1. c.stack # <<>> /\ c.stack[Len(c.stack)].layer = l /\ c.stack[Len(c.stack)].next > Len(net[l])
  BY DEF Left, Returned, Top
<1>2. l \in DOMAIN net
  <2>1. Len(stack) \in Nat /\ (stack # <<>> <=> Len(stack) > 0)
        /\ \A k \in 1 .. Len(stack) : stack[k].layer \in DOMAIN net
    BY StackFacts
  <2>2. Len(stack) \in 1 .. Len(stack)
    BY <1>1, <2>1
  <2> QED BY <1>1, <2>1, <2>2
<1>3. d = [stack |-> Advance(SubSeq(c.stack, 1, Len(c.stack) - 1)),
           sink |-> c.sink, done |-> c.done \cup {l}]
  BY DEF Left, Leave
<1> QED
  <2> HIDE DEF c, d
  <2>1. Moves(net, c, d)
    BY <1>1, <1>2, <1>3 DEF Moves
  <2> QED BY <2>1 DEF c, d

BuildI == phase = "build" =>
    /\ Visited(net, stack, sink, Built)
    /\ Reached(net, [stack |-> stack, sink |-> sink, done |-> Built])
    /\ LastUserIn(net, lastUser, Built) /\ SinksDisable(net, lastUser, Built)
    /\ \A l \in DOMAIN net : /\ lastUser[l] # <<>> => DOMAIN lastUser[l] = Outputs(net, l)
                             /\ IsSink(net, l) /\ l > sink => lastUser[l] = <<>>

UsersI == Usable =>
    /\ LastUserIn(net, lastUser, DOMAIN net) /\ SinksDisable(net, lastUser, DOMAIN net)
    /\ \A l \in DOMAIN net : ~IsSink(net, l) => DOMAIN lastUser[l] = Outputs(net, l)

OrderI == DOMAIN lastUser = Layers /\ BuildI /\ UsersI

LEMMA BuildBegins ==
    ASSUME TypeI', DOMAIN lastUser' = Layers, phase' = "build", stack' = <<>>, sink' = 0,
           \A l \in DOMAIN net' : lastUser'[l] = <<>>
    PROVE  OrderI'
<1>1. DOMAIN net' \subseteq Nat \ {0}
  BY NetworkFacts DEF TypeI
<1>2. Built' = {}
  BY <1>1 DEF Built
<1>3. DOMAIN stack' = {}
  BY EmptySeq
<1>4. Visited(net', stack', sink', {})
  BY <1>1, <1>3 DEF Visited
<1>5. Reached(net', [stack |-> stack', sink |-> sink', done |-> {}])
  BY ReachedStart DEF StartPlace
<1>6. LastUserIn(net', lastUser', {}) /\ SinksDisable(net', lastUser', {})
  BY DEF LastUserIn, SinksDisable
<1>7. BuildI'
  BY <1>2, <1>4, <1>5, <1>6 DEF BuildI
<1>8. UsersI'
  BY DEF UsersI, Usable
<1> QED BY <1>7, <1>8 DEF OrderI

LEMMA BuildEnterOrder == ASSUME NetworkI, OrderI, NEW l \in Layers, BuildEnter(l) PROVE OrderI'
<1>1. /\ TypeI /\ CallI /\ phase = "build" /\ Calls(l) /\ lastUser[l] = <<>> /\ Entered(l, 1) /\ Enter(l)
      /\ UNCHANGED <<net, lastUser>>
  BY DEF BuildEnter, Entered, Enter, userVars, NetworkI
<1>2. ~AtRest /\ phase # "recheck" /\ 1 \in Nat \ {0} /\ net' = net
  BY <1>1 DEF AtRest
<1>3. /\ phase' = phase /\ sink' = CalledSink(l)
      /\ \A m \in Layers : OnStack(m)' <=> OnStack(m) \/ m = l
  BY <1>1, <1>2, EnterKeeps
<1>4. /\ l \in DOMAIN net
      /\ stack = <<>> => /\ IsSink(net, l) /\ l > sink
                         /\ \A m \in DOMAIN net : IsSink(net, m) /\ m <= l => m = l \/ m <= sink
      /\ stack # <<>> => ~IsSink(net, l)
  BY <1>1, CallFacts
<1>5. DOMAIN net \subseteq Nat \ {0} /\ DOMAIN net \subseteq Layers /\ sink \in Nat
  BY <1>1, StackFacts DEF CallI
<1>6. Built' = Built /\ l \notin Built
  <2>1. l \notin Built
    BY <1>1, <1>4, <1>5 DEF Built
  <2>2. ASSUME NEW m \in DOMAIN net, IsSink(net, m)
        PROVE  m <= sink' /\ ~OnStack(m)' <=> m <= sink /\ ~OnStack(m)
    <3>1. CASE stack = <<>>
      <4>1. ~OnStack(m) /\ sink' = l
        BY <1>3, <3>1, EmptySeq DEF OnStack, CalledSink
      <4>2. CASE m = l
        BY <1>3, <1>4, <1>5, <3>1, <4>1, <4>2
      <4>3. CASE m # l
        <5>1. m <= l <=> m <= sink
          BY <1>4, <1>5, <2>2, <3>1, <4>3
        <5> QED BY <1>3, <1>5, <4>1, <4>3, <5>1
      <4> QED BY <4>2, <4>3
    <3>2. CASE stack # <<>>
      <4>1. sink' = sink /\ m # l
        BY <1>3, <1>4, <2>2, <3>2 DEF CalledSink
      <4> QED BY <1>3, <1>5, <4>1
    <3> QED BY <3>1, <3>2
  <2>3. Built' = Built
    BY <1>1, <2>2 DEF Built
  <2> QED BY <2>1, <2>3
<1>7. Visited(net, stack', sink', Built)
  BY <1>1, <1>2, <1>6, VisitEnter DEF OrderI, BuildI
<1>8. Reached(net, [stack |-> stack', sink |-> sink', done |-> Built])
  <2>1. Reached(net, [stack |-> stack, sink |-> sink, done |-> Built])
    BY <1>1 DEF OrderI, BuildI
  <2>2. Moves(net, [stack |-> stack, sink |-> sink, done |-> Built],
                   [stack |-> stack', sink |-> sink', done |-> Built])
    BY <1>1, <1>6, CallMoves
  <2> QED BY <2>1, <2>2, ReachedStep
<1>9. sink <= sink'
  BY <1>3, <1>4, <1>5 DEF CalledSink
<1>10. BuildI'
  <2>1. \A m \in DOMAIN net : /\ lastUser[m] # <<>> => DOMAIN lastUser[m] = Outputs(net, m)
                              /\ IsSink(net, m) /\ m > sink' => lastUser[m] = <<>>
    <3>1. sink' \in Nat
      BY <1>3, <1>4, <1>5 DEF CalledSink
    <3>2. \A m \in DOMAIN net : m > sink' => m > sink
      BY <1>5, <1>9, <3>1
    <3> QED BY <1>1, <3>2 DEF OrderI, BuildI
  <2> QED BY <1>1, <1>6, <1>7, <1>8, <2>1 DEF OrderI, BuildI
<1>11. UsersI' /\ DOMAIN lastUser' = Layers
  BY <1>1, <1>3 DEF UsersI, Usable, OrderI
<1> QED BY <1>10, <1>11 DEF OrderI

LEMMA BuildSkipOrder == ASSUME NetworkI, OrderI, NEW l \in Layers, BuildSkip(l) PROVE OrderI'
<1>1. /\ TypeI /\ CallI /\ phase = "build" /\ Calls(l) /\ lastUser[l] # <<>> /\ Skipped(l) /\ Skip(l)
      /\ UNCHANGED <<net, lastUser>>
  BY DEF BuildSkip, Skipped, userVars, NetworkI
<1>2. ~AtRest /\ phase # "recheck" /\ net' = net
  BY <1>1 DEF AtRest
<1>3. /\ phase' = phase /\ sink' = CalledSink(l)
      /\ \A m \in Layers : OnStack(m)' <=> OnStack(m)
  BY <1>1, <1>2, SkipKeeps
<1>4. /\ l \in DOMAIN net
      /\ stack = <<>> => IsSink(net, l) /\ l > sink
      /\ stack # <<>> => ~IsSink(net, l)
  BY <1>1, CallFacts
<1>5. stack # <<>> /\ ~IsSink(net, l)
  BY <1>1, <1>4 DEF OrderI, BuildI
<1>6. DOMAIN net \subseteq Layers /\ sink' = sink
  BY <1>1, <1>3, <1>5, StackFacts DEF CalledSink
<1>7. Built' = Built /\ l \in Built
  BY <1>1, <1>3, <1>4, <1>5, <1>6 DEF Built
<1>8. Visited(net, stack', sink', Built)
  BY <1>1, <1>2, <1>7, VisitSkip DEF OrderI, BuildI
<1>9. Reached(net, [stack |-> stack', sink |-> sink', done |-> Built])
  BY <1>1, <1>7, CallMoves, ReachedStep DEF OrderI, BuildI
<1>10. BuildI'
  BY <1>1, <1>6, <1>7, <1>8, <1>9 DEF OrderI, BuildI
<1>11. UsersI' /\ DOMAIN lastUser' = Layers
  BY <1>1, <1>3 DEF UsersI, Usable, OrderI
<1> QED BY <1>10, <1>11 DEF OrderI

\* The layer that returns is the last user so far of what it reads.
LEMMA NextUserLast ==
    ASSUME NEW n \in Networks, NEW D, NEW l \in DOMAIN n, l \notin D, NEW s, NEW k, NEW t, NEW u,
           Reached(n, [stack |-> s, sink |-> k, done |-> D]),
           Reached(n, [stack |-> t, sink |-> u, done |-> D \cup {l}]),
           NEW c, Reached(n, c), l \in c.done
    PROVE  D \cup {l} \subseteq c.done
<1>1. D \subseteq c.done \/ c.done \subseteq D
  BY OneBefore
<1> QED BY <1>1

LEMMA BuildLayerOrder == ASSUME NetworkI, OrderI, NEW l \in Layers, BuildLayer(l) PROVE OrderI'
<1> DEFINE Users(m, o) == IF \E i \in DOMAIN net[l] : net[l][i] = <<m, o>>
                          THEN NextUser(l, lastUser[m][o]) ELSE lastUser[m][o]
<1>1. /\ TypeI /\ CallI /\ phase = "build" /\ Left(l) /\ net' = net
      /\ lastUser' = [m \in Layers |-> IF m = l THEN [o \in Outputs(net, l) |-> Nobody]
                                       ELSE [o \in DOMAIN lastUser[m] |-> Users(m, o)]]
  BY DEF BuildLayer, Left, userVars, NetworkI
<1>2. ~AtRest /\ phase # "recheck" /\ net \in Networks
  BY <1>1 DEF AtRest, TypeI
<1>3. /\ phase' = phase /\ sink' = sink /\ l \in DOMAIN net /\ OnStack(l)
      /\ \A m \in Layers : OnStack(m)' <=> OnStack(m) /\ m # l
  BY <1>1, <1>2, LeaveKeeps
<1>4. DOMAIN net \subseteq Nat \ {0} /\ DOMAIN net \subseteq Layers /\ sink \in Nat
  BY <1>1, StackFacts DEF CallI
<1>5. /\ Visited(net, stack, sink, Built) /\ DOMAIN lastUser = Layers
      /\ Reached(net, [stack |-> stack, sink |-> sink, done |-> Built])
      /\ LastUserIn(net, lastUser, Built) /\ SinksDisable(net, lastUser, Built)
      /\ \A m \in DOMAIN net : /\ lastUser[m] # <<>> => DOMAIN lastUser[m] = Outputs(net, m)
                               /\ IsSink(net, m) /\ m > sink => lastUser[m] = <<>>
  BY <1>1 DEF OrderI, BuildI
<1>6. /\ Visited(net, stack', sink', Built \cup {l})
      /\ l \notin Built /\ \A i \in DOMAIN net[l] : net[l][i][1] \in Built
  BY <1>1, <1>2, <1>5, VisitLeave
<1>7. Reached(net, [stack |-> stack', sink |-> sink', done |-> Built \cup {l}])
  BY <1>1, <1>2, <1>5, ReturnMoves, ReachedStep
<1>8. IsSink(net, l) => l <= sink
  BY <1>1, <1>3, <1>4, SinkCalled
<1>9. \A m \in DOMAIN net : ~IsSink(net, m) => 1 \in Outputs(net, m)
  <2> SUFFICES ASSUME NEW m \in DOMAIN net, ~IsSink(net, m) PROVE 1 \in Outputs(net, m)
    OBVIOUS
  <2>1. OutputCount(net, m) \in Outputs(net, m) /\ Outputs(net, m) = 1 .. OutputCount(net, m)
        /\ OutputCount(net, m) \in Nat
    BY <1>2, OutputFacts
  <2> QED BY <2>1
<1>10. ASSUME NEW m \in DOMAIN net
       PROVE  /\ m = l => DOMAIN lastUser'[m] = Outputs(net, m)
              /\ m # l => DOMAIN lastUser'[m] = DOMAIN lastUser[m]
              /\ m # l /\ lastUser[m] = <<>> => lastUser'[m] = <<>>
  <2>1. m \in Layers
    BY <1>4
  <2>2. m = l => DOMAIN lastUser'[m] = Outputs(net, m)
    BY <1>1, <2>1
  <2>3. m # l => lastUser'[m] = [o \in DOMAIN lastUser[m] |-> Users(m, o)]
    BY <1>1, <2>1
  <2> HIDE DEF Users
  <2>4. m # l /\ lastUser[m] = <<>> => lastUser'[m] = <<>>
    BY <2>3
  <2> QED BY <2>2, <2>3, <2>4
<1>11. Built' = Built \cup {l}
  <2>1. ASSUME NEW m \in DOMAIN net, ~IsSink(net, m)
        PROVE  lastUser'[m] # <<>> <=> lastUser[m] # <<>> \/ m = l
    <3>1. CASE m = l
      <4>1. DOMAIN lastUser'[m] # {}
        BY <1>9, <1>10, <2>1, <3>1
      <4> QED BY <3>1, <4>1
    <3>2. CASE m # l /\ lastUser[m] # <<>>
      <4>1. DOMAIN lastUser'[m] # {}
        BY <1>5, <1>9, <1>10, <2>1, <3>2
      <4> QED BY <3>2, <4>1
    <3>3. CASE m # l /\ lastUser[m] = <<>>
      BY <1>10, <3>3
    <3> QED BY <3>1, <3>2, <3>3
  <2>2. ASSUME NEW m \in DOMAIN net, IsSink(net, m)
        PROVE  m <= sink' /\ ~OnStack(m)' <=> (m <= sink /\ ~OnStack(m)) \/ m = l
    BY <1>3, <1>4, <1>8, <2>2
  <2> QED BY <1>1, <1>3, <2>1, <2>2 DEF Built
<1>12. LastUserIn(net, lastUser', Built \cup {l})
  <2> SUFFICES ASSUME NEW m \in DOMAIN net, NEW o \in DOMAIN lastUser'[m], lastUser'[m][o] \in DOMAIN net,
                      NEW c, Reached(net, c), lastUser'[m][o] \in c.done,
                      NEW x \in Built \cup {l}, NEW i \in DOMAIN net[x], net[x][i] = <<m, o>>
               PROVE  x \in c.done
    BY DEF LastUserIn
  <2>1. m # l
    <3>1. CASE m = l
      <4>1. lastUser'[m][o] = Nobody
        BY <1>1, <3>1
      <4> QED BY <1>4, <4>1 DEF Nobody
    <3> QED BY <3>1
  <2>2. o \in DOMAIN lastUser[m] /\ lastUser'[m][o] = Users(m, o)
    <3>1. m \in Layers
      BY <1>4
    <3> QED BY <1>1, <2>1, <3>1
  <2>3. CASE \E j \in DOMAIN net[l] : net[l][j] = <<m, o>>
    <3>1. lastUser'[m][o] = l
      BY <1>4, <2>2, <2>3 DEF NextUser, Disabled
    <3>2. Built \cup {l} \subseteq c.done
      BY <1>2, <1>3, <1>5, <1>6, <1>7, <3>1, NextUserLast
    <3> QED BY <3>2
  <2>4. CASE ~\E j \in DOMAIN net[l] : net[l][j] = <<m, o>>
    <3>1. lastUser'[m][o] = lastUser[m][o] /\ x \in Built
      BY <2>2, <2>4
    <3> QED BY <1>5, <2>2, <3>1 DEF LastUserIn
  <2> QED BY <2>3, <2>4
<1>13. SinksDisable(net, lastUser', Built \cup {l})
  <2> SUFFICES ASSUME NEW x \in Built \cup {l}, IsSink(net, x), NEW i \in DOMAIN net[x]
               PROVE  /\ net[x][i][2] \in DOMAIN lastUser'[net[x][i][1]]
                      /\ lastUser'[net[x][i][1]][net[x][i][2]] = Disabled
    BY DEF SinksDisable
  <2> DEFINE m == net[x][i][1]
             o == net[x][i][2]
  <2>1. x \in DOMAIN net /\ net[x][i] = <<m, o>> /\ m \in DOMAIN net /\ m \in Built
    <3>1. x \in DOMAIN net
      BY <1>3, <1>5 DEF Visited
    <3>2. m \in Built
      BY <1>5, <1>6 DEF Visited
    <3> QED BY <1>2, <3>1, <3>2, NetworkFacts
  <2>2. m # l /\ ~IsSink(net, m) /\ o \in Outputs(net, m)
    BY <1>2, <1>6, <2>1, OutputFacts
  <2>3. o \in DOMAIN lastUser[m]
    BY <1>5, <2>1, <2>2 DEF Built
  <2>4. lastUser'[m][o] = Users(m, o) /\ o \in DOMAIN lastUser'[m]
    <3>1. m \in Layers
      BY <1>4, <2>1
    <3> QED BY <1>1, <2>2, <2>3, <3>1
  <2>5. CASE x = l
    <3>1. Users(m, o) = Disabled
      BY <2>1, <2>5 DEF NextUser
    <3> QED BY <2>4, <3>1
  <2>6. CASE x # l
    <3>1. x \in Built /\ lastUser[m][o] = Disabled
      BY <1>5, <2>6 DEF SinksDisable
    <3>2. Users(m, o) = Disabled
      BY <3>1 DEF NextUser
    <3> QED BY <2>4, <3>2
  <2> QED BY <2>5, <2>6
<1>14. \A m \in DOMAIN net : /\ lastUser'[m] # <<>> => DOMAIN lastUser'[m] = Outputs(net, m)
                             /\ IsSink(net, m) /\ m > sink' => lastUser'[m] = <<>>
  <2> SUFFICES ASSUME NEW m \in DOMAIN net
               PROVE  /\ lastUser'[m] # <<>> => DOMAIN lastUser'[m] = Outputs(net, m)
                      /\ IsSink(net, m) /\ m > sink' => lastUser'[m] = <<>>
    OBVIOUS
  <2>1. CASE m = l
    BY <1>3, <1>4, <1>8, <1>10, <2>1
  <2>2. CASE m # l
    BY <1>3, <1>5, <1>10, <2>2
  <2> QED BY <2>1, <2>2
<1>15. BuildI'
  BY <1>1, <1>6, <1>7, <1>11, <1>12, <1>13, <1>14 DEF BuildI
<1>16. UsersI' /\ DOMAIN lastUser' = Layers
  BY <1>1, <1>3 DEF UsersI, Usable
<1> QED BY <1>15, <1>16 DEF OrderI

LEMMA EndBuildOrder == ASSUME NetworkI, OrderI, EndBuild PROVE OrderI'
<1>1. TypeI /\ CallI /\ phase = "build" /\ PhaseOver /\ phase' = "recheck" /\ UNCHANGED <<net, lastUser>>
  BY DEF EndBuild, StartPhase, userVars, NetworkI
<1>2. Built = DOMAIN net
  BY <1>1, VisitAll DEF OrderI, BuildI
<1>3. LastUserIn(net, lastUser, DOMAIN net) /\ SinksDisable(net, lastUser, DOMAIN net)
  BY <1>1, <1>2 DEF OrderI, BuildI
<1>4. \A l \in DOMAIN net : ~IsSink(net, l) => DOMAIN lastUser[l] = Outputs(net, l)
  BY <1>1, <1>2 DEF OrderI, BuildI, Built
<1> QED BY <1>1, <1>3, <1>4 DEF OrderI, BuildI, UsersI

\* Elsewhere the last users do not change.
LEMMA OrderKept ==
    ASSUME OrderI, UNCHANGED <<net, lastUser>>, phase # "build", phase' # "build",
           Usable' => Usable
    PROVE  OrderI'
BY DEF OrderI, BuildI, UsersI

LEMMA OrderInit == ASSUME Init PROVE OrderI
<1>1. rebuildNeeded /\ phase = "idle" /\ DOMAIN lastUser = Layers
  BY DEF Init
<1> QED BY <1>1 DEF OrderI, BuildI, UsersI, Usable

LEMMA UserOrder == ASSUME NetworkI, NetworkI', OrderI, Careful, User PROVE OrderI'
<1>1. ASSUME UNCHANGED <<net, lastUser, rebuildNeeded, phase>>, AtRest PROVE OrderI'
  BY <1>1, OrderKept DEF AtRest, Usable
<1>2. ASSUME NEW l \in DOMAIN net, NEW size \in Sizes, SetBlob(l, size) PROVE OrderI'
  BY <1>1, <1>2 DEF SetBlob, May, callVars
<1>3. ASSUME NEW l \in DOMAIN net, ToggleLearning(l) PROVE OrderI'
  BY <1>1, <1>3 DEF ToggleLearning, May, callVars
<1>4. CASE ToggleNetLearning
  BY <1>1, <1>4 DEF ToggleNetLearning, May, callVars
<1>5. CASE CleanUp
  BY <1>1, <1>5 DEF CleanUp, May, userVars, callVars
<1>6. ASSUME NEW new \in Networks, Edit(new) PROVE OrderI'
  <2>1. AtRest' /\ rebuildNeeded' /\ DOMAIN lastUser' = Layers
    BY <1>6 DEF Edit, May, callVars, AtRest, Cleared
  <2> QED BY <2>1 DEF OrderI, BuildI, UsersI, Usable, AtRest
<1>7. ASSUME NEW train \in BOOLEAN, Begin(train) PROVE OrderI'
  <2>1. CASE rebuildNeeded
    <3>1. /\ phase' = "build" /\ stack' = <<>> /\ sink' = 0 /\ net' = net
          /\ lastUser' = Cleared(lastUser, DOMAIN net)
      BY <1>7, <2>1 DEF Begin
    <3>2. DOMAIN net \subseteq Layers
      BY NetworkFacts DEF NetworkI, TypeI
    <3>3. DOMAIN lastUser' = Layers /\ \A l \in DOMAIN net' : lastUser'[l] = <<>>
      BY <3>1, <3>2 DEF Cleared
    <3> QED BY <3>1, <3>3, BuildBegins DEF NetworkI
  <2>2. CASE ~rebuildNeeded
    <3>1. phase' = "recheck" /\ UNCHANGED <<net, lastUser>> /\ AtRest /\ phase # "broken"
      BY <1>7, <2>2 DEF Begin
    <3> QED BY <2>2, <3>1, OrderKept DEF AtRest, Usable
  <2> QED BY <2>1, <2>2
<1> QED BY <1>2, <1>3, <1>4, <1>5, <1>6, <1>7 DEF User

LEMMA StepOrder == ASSUME NetworkI, OrderI, Step PROVE OrderI'
<1>1. CASE BuildStep
  BY <1>1, BuildEnterOrder, BuildSkipOrder, BuildLayerOrder, EndBuildOrder DEF BuildStep
<1>2. ASSUME UNCHANGED <<net, lastUser, rebuildNeeded>>,
             phase \in {"recheck", "reshape", "forward", "backward"}, phase' # "build"
      PROVE  OrderI'
  <2>1. Usable
    BY <1>2 DEF NetworkI, TypeI, AtRest, Usable
  <2> QED BY <1>2, <2>1, OrderKept
<1>3. CASE ReshapeStep
  <2>1. CASE Recheck \/ EndReshape
    BY <1>2, <2>1 DEF Recheck, EndReshape, StartPhase, userVars
  <2>2. ASSUME NEW l \in Layers, \/ ReshapeEnter(l) \/ ReshapeSkip(l) \/ KeepShape(l)
                                 \/ ReshapeLayer(l) \/ ReshapeThrows(l)
        PROVE  OrderI'
    BY <1>2, <2>2 DEF ReshapeEnter, ReshapeSkip, KeepShape, ReshapeLayer, ReshapeThrows,
                      Enter, EnterAt, Skip, Leave, StartPhase, userVars
  <2> QED BY <1>3, <2>1, <2>2 DEF ReshapeStep
<1>4. CASE ForwardStep
  <2>1. CASE EndForward
    BY <1>2, <2>1 DEF EndForward, StartPhase, userVars
  <2>2. ASSUME NEW l \in Layers, RunEnter(l) \/ RunSkip(l) \/ RunLayer(l) \/ RunThrows(l)
        PROVE  OrderI'
    BY <1>2, <2>2 DEF RunEnter, RunSkip, RunLayer, RunThrows,
                      Enter, EnterAt, Skip, Leave, StartPhase, userVars
  <2> QED BY <1>4, <2>1, <2>2 DEF ForwardStep
<1>5. CASE BackwardStep
  <2>1. CASE EndBackward
    BY <1>2, <2>1 DEF EndBackward, StartPhase, userVars
  <2>2. ASSUME NEW l \in Layers, BackSkip(l) \/ BackLayer(l) \/ BackThrows(l) \/ BackReset(l)
        PROVE  OrderI'
    BY <1>2, <2>2 DEF BackSkip, BackLayer, BackThrows, BackReset,
                      EnterAt, Skip, Leave, StartPhase, userVars
  <2> QED BY <1>5, <2>1, <2>2 DEF BackwardStep
<1> QED BY <1>1, <1>3, <1>4, <1>5 DEF Step

LEMMA StutterOrder == ASSUME OrderI, UNCHANGED vars PROVE OrderI'
<1>1. UNCHANGED <<net, rebuildNeeded, phase, sink, stack, lastUser>>
  BY DEF vars, userVars, callVars
<1>2. Built' = Built
  BY <1>1 DEF Built, OnStack
<1> QED BY <1>1, <1>2 DEF OrderI, BuildI, UsersI, Usable

-----------------------------------------------------------------------------
(* Computing in place.  Blobs are passed along chains of layers that compute in place. *)

Ports(n) == (DOMAIN n) \X (Nat \ {0})

\* The port q of a layer of I is computed in place of the port p that this layer reads.
Over(n, I, p, q) ==
    \E l \in I \cap DOMAIN n : \E o \in Outputs(n, l) : q = <<l, o>> /\ n[l][o] = p

Closed(n, I, S) == \A x \in S : \A y \in Ports(n) : Over(n, I, x, y) => y \in S

\* The blob of port p may be passed on to port q.
Up(n, I, p, q) ==
    p \in Ports(n) /\ \A S \in SUBSET Ports(n) : p \in S /\ Closed(n, I, S) => q \in S

LEMMA UpSelf == ASSUME NEW n, NEW I, NEW p \in Ports(n) PROVE Up(n, I, p, p)
  BY DEF Up

LEMMA UpPort == ASSUME NEW n, NEW I, NEW p, NEW q, Up(n, I, p, q) PROVE p \in Ports(n) /\ q \in Ports(n)
<1>1. Closed(n, I, Ports(n))
  BY DEF Closed
<1> QED BY <1>1 DEF Up

LEMMA UpOver ==
    ASSUME NEW n, NEW I, NEW p, NEW q, NEW r, Up(n, I, p, q), Over(n, I, q, r), r \in Ports(n)
    PROVE  Up(n, I, p, r)
  BY DEF Up, Closed

\* The first layer of the chain.
LEMMA UpFirst ==
    ASSUME NEW n, NEW I, NEW p, NEW q, Up(n, I, p, q), p # q
    PROVE  \E y \in Ports(n) : Over(n, I, p, y) /\ Up(n, I, y, q)
<1> DEFINE S == {p} \cup {x \in Ports(n) : \E y \in Ports(n) : Over(n, I, p, y) /\ Up(n, I, y, x)}
<1>1. S \in SUBSET Ports(n) /\ p \in S
  BY DEF Up
<1>2. Closed(n, I, S)
  <2> SUFFICES ASSUME NEW x \in S, NEW z \in Ports(n), Over(n, I, x, z) PROVE z \in S
    BY DEF Closed
  <2>1. CASE x = p
    <3>1. Up(n, I, z, z)
      BY UpSelf
    <3> QED BY <2>1, <3>1
  <2>2. CASE x # p
    <3>1. PICK y \in Ports(n) : Over(n, I, p, y) /\ Up(n, I, y, x)
      BY <2>2
    <3>2. Up(n, I, y, z)
      BY <3>1, UpOver
    <3> QED BY <3>1, <3>2
  <2> QED BY <2>1, <2>2
<1>3. q \in S
  <2> HIDE DEF S
  <2> QED BY <1>1, <1>2 DEF Up
<1> QED BY <1>3

\* A chain goes on in one way when a port is overwritten by one layer at most.
LEMMA UpOneWay ==
    ASSUME NEW n, NEW I, NEW r, NEW p, NEW q, Up(n, I, r, p), Up(n, I, r, q),
           \A x, y, z \in Ports(n) : Over(n, I, x, y) /\ Over(n, I, x, z) => y = z
    PROVE  Up(n, I, p, q) \/ Up(n, I, q, p)
<1> DEFINE S == {x \in Ports(n) : Up(n, I, x, q) \/ Up(n, I, q, x)}
<1>1. S \in SUBSET Ports(n) /\ r \in S
  BY UpPort
<1>2. Closed(n, I, S)
  <2> SUFFICES ASSUME NEW x \in S, NEW z \in Ports(n), Over(n, I, x, z) PROVE z \in S
    BY DEF Closed
  <2>1. CASE Up(n, I, q, x)
    BY <2>1, UpOver
  <2>2. CASE Up(n, I, x, q) /\ x = q
    <3>1. Up(n, I, q, z)
      BY <2>2, UpOver
    <3> QED BY <3>1
  <2>3. CASE Up(n, I, x, q) /\ x # q
    <3>1. PICK y \in Ports(n) : Over(n, I, x, y) /\ Up(n, I, y, q)
      BY <2>3, UpFirst
    <3>2. y = z
      BY <3>1
    <3> QED BY <3>1, <3>2
  <2> QED BY <2>1, <2>2, <2>3
<1>3. p \in S
  <2> HIDE DEF S
  <2> QED BY <1>1, <1>2 DEF Up
<1> QED BY <1>3

\* A set of layers that has the inputs of its layers has all the layers of a chain that
\* ends in it.
LEMMA UpBefore ==
    ASSUME NEW n \in Networks, NEW I, NEW p, NEW q, Up(n, I, p, q), NEW D, q[1] \in D,
           \A l \in D : l \in DOMAIN n => \A i \in DOMAIN n[l] : n[l][i][1] \in D,
           \A l \in I \cap DOMAIN n : Outputs(n, l) \subseteq DOMAIN n[l]
    PROVE  p[1] \in D
<1> DEFINE S == {x \in Ports(n) : x[1] \in D => p[1] \in D}
<1>1. S \in SUBSET Ports(n) /\ p \in S
  BY DEF Up
<1>2. Closed(n, I, S)
  <2> SUFFICES ASSUME NEW x \in S, NEW z \in Ports(n), Over(n, I, x, z), z[1] \in D PROVE x[1] \in D
    BY DEF Closed
  <2>1. PICK l \in I \cap DOMAIN n : \E o \in Outputs(n, l) : z = <<l, o>> /\ n[l][o] = x
    BY DEF Over
  <2>2. PICK o \in Outputs(n, l) : z = <<l, o>> /\ n[l][o] = x
    BY <2>1
  <2> QED BY <2>1, <2>2
<1>3. q \in S
  <2> HIDE DEF S
  <2> QED BY <1>1, <1>2 DEF Up
<1> QED BY <1>3

\* The blob of a port that is not computed in place is its own.
LEMMA UpOwn ==
    ASSUME NEW n, NEW I, NEW p, NEW q, Up(n, I, p, q), q[1] \notin I
    PROVE  p = q
<1> DEFINE S == {x \in Ports(n) : x = q => p = q}
<1>1. S \in SUBSET Ports(n) /\ p \in S
  BY DEF Up
<1>2. Closed(n, I, S)
  BY DEF Closed, Over
<1>3. q \in S
  <2> HIDE DEF S
  <2> QED BY <1>1, <1>2 DEF Up
<1> QED BY <1>3

-----------------------------------------------------------------------------
(* The blobs. *)

\* Layers that compute in place, and source layers, have one output at most.
SingleOutput ==
    \A n \in Networks : \A l \in DOMAIN n :
        l \in InPlaceLayers \/ IsSource(n, l) => OutputCount(n, l) <= 1

SinksRead == \A n \in Networks : \A l \in DOMAIN n : IsSink(n, l) => ~IsSource(n, l)

\* Layers that compute in place do not ask for the inputs that they have overwritten.
InPlaceForgets == \A l \in InPlaceLayers : "in" \notin BlobsForBackward[l] \cup BlobsForLearn[l]

Name(b) == <<b[1], b[2]>>
BlobAt(p) == outBlobs[p[1]][p[2]]
HoldsAt(b, p) == Holds(b, Value(p[1], p[2]))

\* The blobs of layer l were created for it or for a layer it computes in place of.
Named(l) == \A o \in DOMAIN outBlobs[l] :
    outBlobs[l][o] # NoBlob => Up(net, inPlace, Name(outBlobs[l][o]), <<l, o>>)
Own(l) == \A o \in DOMAIN outBlobs[l] :
    outBlobs[l][o] # NoBlob => Name(outBlobs[l][o]) = <<l, o>> /\ <<l, o>> \in Ports(net)
Blank(l) == \A o \in DOMAIN outBlobs[l] : outBlobs[l][o] = NoBlob
Sized(l) == DOMAIN outBlobs[l] = Outputs(net, l) /\ Len(outBlobs[l]) = OutputCount(net, l)

\* No layer has computed in place of port p in this run.
Fresh(p) == \A y \in ran \cap inPlace : \A o \in Outputs(net, y) : net[y][o] # p

BlobTypeI ==
    /\ DOMAIN outBlobs = Layers /\ DOMAIN result = Layers
    /\ inPlace \subseteq InPlaceLayers

\* The layers that compute in place may do so now.
OverI == Usable => \A l \in inPlace \cap DOMAIN net :
    l \notin forced /\ (phase = "reshape" => l \in DoneLayers) => InputsMayBeOverwritten(l)

OutI == Usable => \A l \in DOMAIN net :
    l \notin forced /\ ~IsSource(net, l) => Sized(l)

EmptyI == phase = "build" => \A l \in DOMAIN net : outBlobs[l] = <<>>

NameI == Usable /\ phase # "reshape" => \A l \in DOMAIN net : Named(l)

\* Within reshape() either nothing is to be reshaped, or all the layers that compute in
\* place are.
RenameI == phase = "reshape" =>
    \/ stack = <<>> /\ \A l \in DOMAIN net : l \notin forced \cup stale /\ Named(l)
    \/ \A l \in DOMAIN net : IF l \in inPlace THEN l \in DoneLayers => Blank(l) ELSE Own(l)

KeptI == BlobTypeI /\ OverI /\ OutI /\ EmptyI /\ NameI /\ RenameI

\* The forward pass.
RunI == phase = "forward" =>
    /\ Reached(net, [stack |-> stack, sink |-> sink, done |-> ran])
    /\ \A m \in ran : Outputs(net, m) \subseteq DOMAIN outBlobs[m]
    /\ \A l \in DOMAIN net \ ran : \A i \in DOMAIN net[l] :
          Input(l, i) \in ran => BlobAt(net[l][i]) # NoBlob
    /\ \A m \in ran : \A o \in Outputs(net, m) :
          /\ "out" \in needed[m] => outBlobs[m][o] # NoBlob
          /\ Fresh(<<m, o>>) /\ outBlobs[m][o] # NoBlob => HoldsAt(outBlobs[m][o], <<m, o>>)
    /\ SinksRead =>
          \A m \in ran : IsSink(net, m) => result[m] = BlobAt(net[m][1]) /\ result[m] # NoBlob
    /\ \A m \in ran : "in" \in needed[m] => \A i \in DOMAIN net[m] :
          /\ inBlobs[m][i] # NoBlob /\ Up(net, inPlace, Name(inBlobs[m][i]), net[m][i])
          /\ Fresh(net[m][i]) => HoldsAt(inBlobs[m][i], net[m][i])

\* The backward pass.
BackI == phase = "backward" =>
    /\ SinksRead => \A l \in DOMAIN net : IsSink(net, l) => HoldsAt(result[l], net[l][1])
    /\ \A l \in DOMAIN net \ trained : Trainable(l) =>
          /\ InPlaceForgets /\ "in" \in needed[l] =>
                \A i \in DOMAIN net[l] : HoldsAt(inBlobs[l][i], net[l][i])
          /\ "out" \in needed[l] => \A o \in Outputs(net, l) : HoldsAt(outBlobs[l][o], <<l, o>>)

BlobI == KeptI /\ RunI /\ BackI

LEMMA BlobInit == ASSUME Init PROVE BlobI
<1>1. rebuildNeeded /\ phase = "idle" /\ inPlace = {}
      /\ outBlobs = [l \in Layers |-> <<>>] /\ result = [l \in Layers |-> NoBlob]
  BY DEF Init
<1>2. BlobTypeI
  BY <1>1 DEF BlobTypeI
<1>3. KeptI
  BY <1>1, <1>2 DEF KeptI, OverI, OutI, EmptyI, NameI, RenameI, Usable
<1> QED BY <1>1, <1>3 DEF BlobI, RunI, BackI

\* When the network has to be rebuilt first nothing is asked of the blobs.
LEMMA NoBlobsAsked ==
    ASSUME BlobTypeI', ~Usable', phase' \notin {"reshape", "forward", "backward"},
           phase' = "build" => EmptyI'
    PROVE  BlobI'
<1>1. KeptI'
  BY DEF KeptI, OverI, OutI, EmptyI, NameI, RenameI
<1> QED BY <1>1 DEF BlobI, RunI, BackI

LEMMA NamedSame ==
    ASSUME NEW l, UNCHANGED <<net, inPlace>>, outBlobs'[l] = outBlobs[l]
    PROVE  Named(l)' <=> Named(l)
  BY DEF Named

\* Steps that leave the shapes, or force all the layers to be reshaped.
LEMMA KeptOutside ==
    ASSUME KeptI, UNCHANGED <<net, lastUser, needed, inPlace>>, forced \subseteq forced',
           backward' = backward \/ DOMAIN net \subseteq forced',
           phase \notin {"reshape", "build"}, phase' \notin {"reshape", "build"}, Usable' => Usable,
           DOMAIN outBlobs' = Layers, DOMAIN result' = Layers,
           \A l \in DOMAIN net : Named(l) => Named(l)',
           \A l \in DOMAIN net : ~IsSource(net, l) /\ Sized(l) => Sized(l)'
    PROVE  KeptI'
<1>1. BlobTypeI'
  BY DEF KeptI, BlobTypeI
<1>2. OverI'
  <2> SUFFICES ASSUME Usable', NEW l \in inPlace \cap DOMAIN net, l \notin forced'
               PROVE  InputsMayBeOverwritten(l)'
    BY DEF OverI
  <2>1. backward' = backward /\ InputsMayBeOverwritten(l)
    BY DEF KeptI, OverI
  <2> QED BY <2>1 DEF InputsMayBeOverwritten
<1>3. OutI'
  BY DEF KeptI, OutI
<1>4. NameI'
  BY DEF KeptI, NameI
<1> QED BY <1>1, <1>2, <1>3, <1>4 DEF KeptI, EmptyI, RenameI

LEMMA UserBlobs == ASSUME NetworkI, OrderI, BlobI, Careful, User PROVE BlobI'
<1>0. ASSUME AtRest PROVE phase \notin {"reshape", "build", "forward", "backward"}
  BY <1>0 DEF AtRest
<1>1. ASSUME AtRest, UNCHANGED <<net, lastUser, needed, inPlace, backward, phase, rebuildNeeded, result>>,
             forced \subseteq forced', DOMAIN outBlobs' = Layers,
             \A l \in DOMAIN net :
                 \/ outBlobs'[l] = outBlobs[l]
                 \/ Blank(l)' /\ (IsSource(net, l) \/ Sized(l)')
      PROVE  BlobI'
  <2>1. \A l \in DOMAIN net : Named(l) => Named(l)'
    <3> SUFFICES ASSUME NEW l \in DOMAIN net, Named(l) PROVE Named(l)'
      OBVIOUS
    <3>1. CASE Blank(l)'
      BY <3>1 DEF Blank, Named
    <3>2. CASE outBlobs'[l] = outBlobs[l]
      BY <1>1, <3>2, NamedSame
    <3> QED BY <1>1, <3>1, <3>2
  <2>2. DOMAIN result' = Layers
    BY <1>1 DEF BlobI, KeptI, BlobTypeI
  <2>3. \A l \in DOMAIN net : ~IsSource(net, l) /\ Sized(l) => Sized(l)'
    BY <1>1 DEF Sized
  <2>4. KeptI'
    BY <1>0, <1>1, <2>1, <2>2, <2>3, KeptOutside DEF BlobI, Usable
  <2> QED BY <1>0, <1>1, <2>4 DEF BlobI, RunI, BackI
<1>2. ASSUME NEW l \in DOMAIN net, NEW size \in Sizes, SetBlob(l, size) PROVE BlobI'
  <2>1. /\ AtRest /\ UNCHANGED <<net, lastUser, needed, inPlace, backward, phase, rebuildNeeded, result>>
        /\ forced \subseteq forced' /\ IsSource(net, l)
        /\ outBlobs' = [outBlobs EXCEPT ![l] = NoBlobs(Len(outBlobs[l]))]
    BY <1>2 DEF SetBlob, May, netVars, callVars
  <2>2. DOMAIN outBlobs = Layers
    BY DEF BlobI, KeptI, BlobTypeI
  <2>3. ASSUME NEW m \in DOMAIN net, m # l PROVE outBlobs'[m] = outBlobs[m]
    BY <2>1, <2>2, <2>3, NetworkFacts DEF NetworkI, TypeI
  <2>4. Blank(l)'
    <3>1. outBlobs'[l] = NoBlobs(Len(outBlobs[l]))
      BY <2>1, <2>2, NetworkFacts DEF NetworkI, TypeI
    <3> QED BY <3>1 DEF Blank, NoBlobs
  <2>5. DOMAIN outBlobs' = Layers
    BY <2>1, <2>2
  <2> QED BY <1>1, <2>1, <2>3, <2>4, <2>5
<1>3. ASSUME NEW l \in DOMAIN net, ToggleLearning(l) PROVE BlobI'
  <2>1. /\ AtRest /\ UNCHANGED <<net, lastUser, needed, inPlace, backward, phase, rebuildNeeded, result, outBlobs>>
        /\ forced \subseteq forced'
    BY <1>3 DEF ToggleLearning, May, netVars, callVars, blobVars
  <2> QED BY <1>1, <2>1 DEF BlobI, KeptI, BlobTypeI
<1>4. CASE ToggleNetLearning
  <2>1. /\ AtRest /\ UNCHANGED <<net, lastUser, needed, inPlace, backward, phase, rebuildNeeded, result, outBlobs>>
        /\ forced \subseteq forced'
    BY <1>4 DEF ToggleNetLearning, May, netVars, callVars, blobVars
  <2> QED BY <1>1, <2>1 DEF BlobI, KeptI, BlobTypeI
<1>5. CASE CleanUp
  <2>1. /\ AtRest /\ UNCHANGED <<net, lastUser, needed, inPlace, backward, phase, rebuildNeeded, result, forced>>
        /\ outBlobs' = [l \in Layers |-> IF l \in DOMAIN net /\ outSizes[l] # 0
                                         THEN NoBlobs(OutputCount(net, l)) ELSE outBlobs[l]]
    BY <1>5 DEF CleanUp, May, userVars, netVars, callVars, shapeVars
  <2>2. ASSUME NEW l \in DOMAIN net
        PROVE  outBlobs'[l] = outBlobs[l] \/ (Blank(l)' /\ Sized(l)')
    <3>1. l \in Layers
      BY NetworkFacts DEF NetworkI, TypeI
    <3>2. CASE outSizes[l] = 0
      BY <2>1, <3>1, <3>2
    <3>3. CASE outSizes[l] # 0
      <4>1. outBlobs'[l] = NoBlobs(OutputCount(net, l))
        BY <2>1, <3>1, <3>3
      <4>2. Blank(l)'
        BY <4>1 DEF Blank, NoBlobs
      <4>3. OutputCount(net, l) \in Nat /\ Outputs(net, l) = 1 .. OutputCount(net, l)
        BY OutputFacts DEF NetworkI, TypeI
      <4>4. Sized(l)'
        BY <2>1, <4>1, <4>3, NoBlobsFacts DEF Sized
      <4> QED BY <4>2, <4>4
    <3> QED BY <3>2, <3>3
  <2> QED BY <1>1, <2>1, <2>2
<1>6. ASSUME NEW new \in Networks, Edit(new) PROVE BlobI'
  <2>1. AtRest' /\ rebuildNeeded' /\ DOMAIN outBlobs' = Layers /\ UNCHANGED <<result, inPlace>>
    BY <1>6 DEF Edit, May, callVars, shapeVars, AtRest, Cleared
  <2>2. BlobTypeI'
    BY <2>1 DEF BlobI, KeptI, BlobTypeI
  <2> QED BY <2>1, <2>2, NoBlobsAsked DEF Usable, AtRest
<1>7. ASSUME NEW train \in BOOLEAN, Begin(train) PROVE BlobI'
  <2>0. /\ AtRest /\ UNCHANGED <<net, needed, inPlace, result>> /\ backward' = train
        /\ phase = "broken" => rebuildNeeded
        /\ ~rebuildNeeded'
    BY <1>7 DEF Begin
  <2>1. CASE rebuildNeeded
    <3>1. phase' = "build" /\ outBlobs' = Cleared(outBlobs, DOMAIN net)
      BY <1>7, <2>1 DEF Begin
    <3>2. DOMAIN net \subseteq Layers
      BY NetworkFacts DEF NetworkI, TypeI
    <3>3. EmptyI' /\ BlobTypeI'
      BY <2>0, <3>1, <3>2 DEF EmptyI, BlobI, KeptI, BlobTypeI, Cleared
    <3> QED BY <3>1, <3>3, NoBlobsAsked DEF Usable
  <2>2. CASE ~rebuildNeeded
    <3>1. /\ phase' = "recheck" /\ UNCHANGED <<lastUser, outBlobs>>
          /\ forced' = IF train # backward THEN forced \cup DOMAIN net ELSE forced
      BY <1>7, <2>2 DEF Begin
    <3>2. Usable /\ phase \notin {"reshape", "build"}
      BY <2>0, <2>2 DEF Usable, AtRest
    <3>3. \A l \in DOMAIN net : Named(l) => Named(l)'
      BY <2>0, <3>1, NamedSame
    <3>4. backward' = backward \/ DOMAIN net \subseteq forced'
      BY <2>0, <3>1
    <3>5. KeptI'
      BY <2>0, <3>1, <3>2, <3>3, <3>4, KeptOutside DEF BlobI, KeptI, BlobTypeI, Sized
    <3> QED BY <3>1, <3>5 DEF BlobI, RunI, BackI
  <2> QED BY <2>1, <2>2
<1> QED BY <1>2, <1>3, <1>4, <1>5, <1>6, <1>7 DEF User

LEMMA BuildBlobs == ASSUME NetworkI, BlobI, BuildStep PROVE BlobI'
<1>0. ASSUME UNCHANGED <<outBlobs, result, inPlace>> PROVE BlobTypeI'
  BY <1>0 DEF BlobI, KeptI, BlobTypeI
<1>1. ASSUME NEW l \in Layers, BuildEnter(l) \/ BuildSkip(l) \/ BuildLayer(l) PROVE BlobI'
  <2>1. /\ phase = "build" /\ phase' = phase
        /\ UNCHANGED <<net, outBlobs, result, inPlace>>
    BY <1>1 DEF BuildEnter, BuildSkip, BuildLayer, Enter, EnterAt, Skip, Leave, userVars, shapeVars, blobVars
  <2>2. EmptyI'
    BY <2>1 DEF BlobI, KeptI, EmptyI
  <2> QED BY <1>0, <2>1, <2>2, NoBlobsAsked DEF Usable
<1>2. CASE EndBuild
  <2>1. /\ phase = "build" /\ phase' = "recheck" /\ UNCHANGED <<net, outBlobs, result, inPlace>>
        /\ DOMAIN net \subseteq forced'
    BY <1>2 DEF EndBuild, StartPhase, userVars, blobVars
  <2>2. \A l \in DOMAIN net : DOMAIN outBlobs'[l] = {}
    BY <2>1, EmptySeq DEF BlobI, KeptI, EmptyI
  <2>3. \A l \in DOMAIN net : Named(l)'
    BY <2>2 DEF Named
  <2>4. KeptI'
    BY <1>0, <2>1, <2>3 DEF KeptI, OverI, OutI, EmptyI, NameI, RenameI
  <2> QED BY <2>1, <2>4 DEF BlobI, RunI, BackI
<1> QED BY <1>1, <1>2 DEF BuildStep

LEMMA RecheckBlobs == ASSUME NetworkI, ShapesI, BlobI, Recheck PROVE BlobI'
<1>1. /\ phase = "recheck" /\ phase' = "reshape" /\ stack' = <<>> /\ TypeI /\ Usable
      /\ UNCHANGED <<net, lastUser, rebuildNeeded, backward, forced, stale, inPlace, needed, outBlobs, result>>
  <2>1. phase = "recheck" /\ TypeI
    BY DEF Recheck, NetworkI
  <2> QED BY <2>1 DEF Recheck, StartPhase, userVars, dnnVars, blobVars, Usable, TypeI, AtRest
<1>2. OverI'
  <2> SUFFICES ASSUME NEW l \in inPlace \cap DOMAIN net, l \notin forced PROVE InputsMayBeOverwritten(l)'
    BY <1>1 DEF OverI
  <2>1. InputsMayBeOverwritten(l)
    BY <1>1 DEF BlobI, KeptI, OverI
  <2> QED BY <1>1, <2>1 DEF InputsMayBeOverwritten
<1>3. OutI' /\ BlobTypeI'
  BY <1>1 DEF BlobI, KeptI, OutI, Sized, BlobTypeI
<1>4. \A l \in DOMAIN net : Named(l) /\ (Named(l)' <=> Named(l))
  BY <1>1, NamedSame DEF BlobI, KeptI, NameI
<1>5. RenameI'
  <2>1. CASE DOMAIN net \subseteq stale
    <3>1. \A l \in DOMAIN net : l \notin DoneLayers'
      BY <1>1, <2>1 DEF DoneLayers
    <3>2. ASSUME NEW l \in DOMAIN net, l \notin inPlace PROVE Own(l)'
      <4> SUFFICES ASSUME NEW o \in DOMAIN outBlobs[l], outBlobs[l][o] # NoBlob
                   PROVE  Name(outBlobs[l][o]) = <<l, o>> /\ <<l, o>> \in Ports(net)
        BY <1>1 DEF Own
      <4>1. Up(net, inPlace, Name(outBlobs[l][o]), <<l, o>>) /\ <<l, o>>[1] \notin inPlace
        BY <1>4, <3>2 DEF Named
      <4> QED BY <4>1, UpOwn, UpPort
    <3> QED BY <1>1, <3>1, <3>2 DEF RenameI
  <2>2. CASE \A l \in DOMAIN net : l \notin stale /\ Current(l)
    BY <1>1, <1>4, <2>2 DEF RenameI, Current
  <2> QED BY <1>1, <2>1, <2>2 DEF ShapesI, StaleI
<1> QED BY <1>1, <1>2, <1>3, <1>5 DEF BlobI, KeptI, EmptyI, NameI, RunI, BackI

\* A call of reshape() that does not change the layer.
LEMMA ReshapeGoesOn ==
    ASSUME KeptI, TypeI, UNCHANGED <<net, lastUser, rebuildNeeded, backward, forced, inPlace, needed, outBlobs, result>>,
           phase = "reshape", phase' = "reshape",
           \A m \in inPlace : m \in DoneLayers' => m \in DoneLayers,
           (stack' = <<>> /\ stale' = stale) \/ ~(stack = <<>> /\ \A l \in DOMAIN net : l \notin forced \cup stale)
    PROVE  BlobI'
<1>1. Usable
  BY DEF TypeI, AtRest, Usable
<1>2. OverI'
  <2> SUFFICES ASSUME NEW l \in inPlace \cap DOMAIN net, l \notin forced, l \in DoneLayers'
               PROVE  InputsMayBeOverwritten(l)'
    BY DEF OverI
  <2>1. InputsMayBeOverwritten(l)
    BY <1>1 DEF KeptI, OverI
  <2> QED BY <2>1 DEF InputsMayBeOverwritten
<1>3. OutI' /\ BlobTypeI'
  BY <1>1 DEF KeptI, OutI, Sized, BlobTypeI
<1>4. \A l : /\ Named(l)' <=> Named(l)
             /\ Blank(l)' <=> Blank(l)
             /\ Own(l)' <=> Own(l)
  BY NamedSame DEF Blank, Own
<1>5. RenameI'
  <2>1. CASE stack = <<>> /\ \A l \in DOMAIN net : l \notin forced \cup stale /\ Named(l)
    BY <1>4, <2>1 DEF RenameI
  <2>2. CASE \A l \in DOMAIN net : IF l \in inPlace THEN l \in DoneLayers => Blank(l) ELSE Own(l)
    BY <1>4, <2>2 DEF RenameI
  <2> QED BY <2>1, <2>2 DEF KeptI, RenameI
<1> QED BY <1>2, <1>3, <1>5 DEF BlobI, KeptI, EmptyI, NameI, RunI, BackI

LEMMA ReshapeLayerBlobs == ASSUME NetworkI, ShapesI, BlobI, NEW l \in Layers, ReshapeLayer(l) PROVE BlobI'
<1>1. /\ TypeI /\ CallI /\ ReshapeI /\ KeptI /\ phase = "reshape" /\ Left(l) /\ net' = net
      /\ forced' = forced \ {l}
      /\ inPlace' = IF l \in InPlaceLayers /\ InputsMayBeOverwritten(l)
                    THEN inPlace \cup {l} ELSE inPlace \ {l}
      /\ needed' = [needed EXCEPT ![l] = NeededNow(l)]
      /\ outBlobs' = [outBlobs EXCEPT ![l] = NoBlobs(OutputCount(net, l))]
      /\ UNCHANGED <<lastUser, rebuildNeeded, backward, stale, result>>
  BY DEF ReshapeLayer, Left, userVars, dnnVars, NetworkI, ShapesI, BlobI
<1>2. ~AtRest /\ phase # "recheck" /\ Usable /\ DOMAIN net \subseteq Layers
  BY <1>1, NetworkFacts DEF AtRest, Usable, TypeI
<1>3. /\ phase' = phase /\ l \in DOMAIN net /\ OnStack(l)
      /\ \A m \in Layers : OnStack(m)' <=> OnStack(m) /\ m # l
  BY <1>1, <1>2, LeaveKeeps
<1>4. l \notin DoneLayers /\ \A m \in DOMAIN net \ {l} : m \in DoneLayers' => m \in DoneLayers
  BY <1>1, <1>2, <1>3 DEF DoneLayers
<1>5. BlobTypeI'
  <2>1. DOMAIN outBlobs' = Layers
    BY <1>1 DEF KeptI, BlobTypeI
  <2> QED BY <1>1, <2>1 DEF KeptI, BlobTypeI
<1>6. /\ outBlobs'[l] = NoBlobs(OutputCount(net, l))
      /\ \A m \in DOMAIN net \ {l} : outBlobs'[m] = outBlobs[m] /\ needed'[m] = needed[m]
  <2>1. DOMAIN outBlobs = Layers /\ DOMAIN needed = Layers
    BY DEF BlobI, KeptI, BlobTypeI, ShapesI, ShapeTypeI
  <2> QED BY <1>1, <1>2, <2>1
<1>7. \A m \in DOMAIN net \ {l} : m \in inPlace' <=> m \in inPlace
  BY <1>1
<1>8. ASSUME NEW m \in DOMAIN net, InputsMayBeOverwritten(m), \A i \in DOMAIN net[m] : Input(m, i) # l
      PROVE  InputsMayBeOverwritten(m)'
  <2> SUFFICES ASSUME NEW i \in DOMAIN net[m] \cap Outputs(net, m)
               PROVE  /\ needed'[net[m][i][1]] = needed[net[m][i][1]]
                      /\ net[m][i][1] \in inPlace' <=> net[m][i][1] \in inPlace
    BY <1>1, <1>8 DEF InputsMayBeOverwritten
  <2>1. net[m][i][1] \in DOMAIN net \ {l}
    BY <1>1, <1>8, SizesFacts DEF Input
  <2> QED BY <1>6, <1>7, <2>1
<1>9. OverI'
  <2> SUFFICES ASSUME NEW m \in inPlace' \cap DOMAIN net, m \notin forced', m \in DoneLayers'
               PROVE  InputsMayBeOverwritten(m)'
    BY <1>1, <1>3 DEF OverI
  <2>1. CASE m = l
    <3>1. InputsMayBeOverwritten(l)
      BY <1>1, <2>1
    <3>2. \A i \in DOMAIN net[l] : Input(l, i) # l
      BY <1>1, <1>3, SizesFacts
    <3> QED BY <1>3, <1>8, <2>1, <3>1, <3>2
  <2>2. CASE m # l
    <3>1. m \in inPlace /\ m \notin forced /\ m \in DoneLayers
      BY <1>1, <1>4, <1>7, <2>2
    <3>2. InputsMayBeOverwritten(m)
      BY <1>1, <1>2, <3>1 DEF KeptI, OverI
    <3>3. \A i \in DOMAIN net[m] : Input(m, i) # l
      BY <1>1, <1>4, <3>1 DEF ReshapeI
    <3> QED BY <1>8, <3>2, <3>3
  <2> QED BY <2>1, <2>2
<1>10. OutI'
  <2> SUFFICES ASSUME NEW m \in DOMAIN net, m \notin forced', ~IsSource(net, m)
               PROVE  Sized(m)'
    BY <1>1 DEF OutI
  <2>1. CASE m = l
    <3>1. OutputCount(net, l) \in Nat /\ Outputs(net, l) = 1 .. OutputCount(net, l)
      BY <1>1, OutputFacts DEF TypeI
    <3> QED BY <1>1, <1>6, <2>1, <3>1, NoBlobsFacts DEF Sized
  <2>2. CASE m # l
    BY <1>1, <1>2, <1>6, <2>2 DEF KeptI, OutI, Sized
  <2> QED BY <2>1, <2>2
<1>11. RenameI'
  <2>1. stack # <<>>
    BY <1>1 DEF Left, Returned
  <2>2. \A m \in DOMAIN net : IF m \in inPlace THEN m \in DoneLayers => Blank(m) ELSE Own(m)
    BY <1>1, <2>1 DEF KeptI, RenameI
  <2>3. \A o \in DOMAIN outBlobs'[l] : outBlobs'[l][o] = NoBlob
    BY <1>6 DEF NoBlobs
  <2>4. Blank(l)' /\ Own(l)'
    BY <2>3 DEF Blank, Own
  <2>5. ASSUME NEW m \in DOMAIN net \ {l}
        PROVE  (Blank(m)' <=> Blank(m)) /\ (Own(m)' <=> Own(m))
    BY <1>1, <1>6 DEF Blank, Own
  <2>6. \A m \in DOMAIN net : IF m \in inPlace' THEN m \in DoneLayers' => Blank(m)' ELSE Own(m)'
    BY <1>4, <1>7, <2>2, <2>4, <2>5
  <2> QED BY <1>1, <2>6 DEF RenameI
<1> QED BY <1>1, <1>3, <1>5, <1>9, <1>10, <1>11 DEF BlobI, KeptI, EmptyI, NameI, RunI, BackI

LEMMA EndReshapeBlobs == ASSUME NetworkI, ShapesI, BlobI, EndReshape PROVE BlobI'
<1>1. /\ TypeI /\ CallI /\ ReshapeI /\ KeptI /\ phase = "reshape" /\ PhaseOver /\ phase' = "forward"
      /\ stack' = <<>> /\ sink' = 0 /\ ran' = {}
      /\ UNCHANGED <<net, lastUser, rebuildNeeded, backward, forced, inPlace, needed, outBlobs, result>>
  BY DEF EndReshape, StartPhase, userVars, shapeVars, NetworkI, ShapesI, BlobI
<1>2. DoneLayers = DOMAIN net /\ Usable
  BY <1>1, AllDone DEF Usable, TypeI, AtRest
<1>3. OverI'
  <2> SUFFICES ASSUME NEW l \in inPlace \cap DOMAIN net, l \notin forced PROVE InputsMayBeOverwritten(l)'
    BY <1>1 DEF OverI
  <2>1. InputsMayBeOverwritten(l)
    BY <1>1, <1>2 DEF KeptI, OverI
  <2> QED BY <1>1, <2>1 DEF InputsMayBeOverwritten
<1>4. OutI' /\ BlobTypeI'
  BY <1>1, <1>2 DEF KeptI, OutI, Sized, BlobTypeI
<1>5. ASSUME NEW l \in DOMAIN net PROVE Named(l)
  <2>1. CASE Blank(l)
    BY <2>1 DEF Blank, Named
  <2>2. CASE Own(l)
    BY <2>2, UpSelf DEF Own, Named
  <2> QED BY <1>1, <1>2, <2>1, <2>2 DEF KeptI, RenameI
<1>6. NameI'
  BY <1>1, <1>5, NamedSame DEF NameI
<1>7. Reached(net, [stack |-> stack', sink |-> sink', done |-> ran'])
  BY <1>1, ReachedStart DEF StartPlace
<1>8. RunI'
  BY <1>1, <1>7 DEF RunI, Input
<1> QED BY <1>1, <1>3, <1>4, <1>6, <1>8 DEF BlobI, KeptI, EmptyI, RenameI, BackI

LEMMA ReshapeBlobs == ASSUME NetworkI, ShapesI, BlobI, ReshapeStep PROVE BlobI'
<1>0. TypeI /\ CallI /\ KeptI /\ (phase = "reshape" => ~AtRest /\ phase # "recheck")
  BY DEF NetworkI, BlobI, AtRest
<1>1. ASSUME NEW l \in Layers, ReshapeEnter(l) PROVE BlobI'
  <2>1. /\ UNCHANGED <<net, lastUser, rebuildNeeded, backward, forced, inPlace, needed, outBlobs, result>>
        /\ phase = "reshape" /\ Entered(l, 1) /\ l \in forced \cup stale /\ stale' = stale \ {l} /\ Calls(l)
    BY <1>1 DEF ReshapeEnter, Entered, Enter, userVars, dnnVars, blobVars
  <2>2. phase' = phase /\ \A m \in Layers : OnStack(m)' <=> OnStack(m) \/ m = l
    <3>1. 1 \in Nat \ {0}
      OBVIOUS
    <3> QED BY <1>0, <2>1, <3>1, EnterKeeps
  <2>3. l \in DOMAIN net /\ DOMAIN net \subseteq Layers
    BY <1>0, <2>1, CallFacts, NetworkFacts DEF TypeI
  <2>4. \A m \in inPlace : m \in DoneLayers' => m \in DoneLayers
    BY <2>1, <2>2, <2>3 DEF DoneLayers
  <2>5. ~(stack = <<>> /\ \A m \in DOMAIN net : m \notin forced \cup stale)
    BY <2>1, <2>3
  <2> QED BY <1>0, <2>1, <2>2, <2>4, <2>5, ReshapeGoesOn
<1>2. ASSUME NEW l \in Layers, ReshapeSkip(l) PROVE BlobI'
  <2>1. /\ UNCHANGED <<net, lastUser, rebuildNeeded, backward, forced, stale, inPlace, needed, outBlobs, result>>
        /\ phase = "reshape" /\ Skipped(l) /\ stack' = Advance(stack)
    BY <1>2 DEF ReshapeSkip, Skipped, Skip, userVars, dnnVars, shapeVars, blobVars
  <2>2. phase' = phase /\ \A m \in Layers : OnStack(m)' <=> OnStack(m)
    BY <1>0, <2>1, SkipKeeps
  <2>3. DOMAIN net \subseteq Layers
    BY <1>0, NetworkFacts DEF TypeI
  <2>4. \A m \in inPlace : m \in DoneLayers' => m \in DoneLayers
    BY <2>1, <2>2, <2>3 DEF DoneLayers
  <2>5. stack = <<>> => stack' = <<>>
    BY <2>1 DEF Advance
  <2> QED BY <1>0, <2>1, <2>2, <2>4, <2>5, ReshapeGoesOn
<1>3. ASSUME NEW l \in Layers, KeepShape(l) PROVE BlobI'
  <2>1. /\ UNCHANGED <<net, lastUser, rebuildNeeded, backward, forced, stale, inPlace, needed, outBlobs, result>>
        /\ phase = "reshape" /\ Left(l) /\ l \notin inPlace /\ stack # <<>>
    BY <1>3 DEF KeepShape, Left, Returned, MustReshape, userVars, dnnVars, blobVars
  <2>2. phase' = phase /\ \A m \in Layers : OnStack(m)' <=> OnStack(m) /\ m # l
    BY <1>0, <2>1, LeaveKeeps
  <2>3. DOMAIN net \subseteq Layers
    BY <1>0, NetworkFacts DEF TypeI
  <2>4. \A m \in inPlace : m \in DoneLayers' => m \in DoneLayers
    BY <2>1, <2>2, <2>3 DEF DoneLayers
  <2> QED BY <1>0, <2>1, <2>2, <2>4, ReshapeGoesOn
<1>4. ASSUME NEW l \in Layers, ReshapeThrows(l) PROVE BlobI'
  <2>1. /\ phase' = "broken" /\ result' = result /\ inPlace' = inPlace \ {l}
        /\ outBlobs' = [outBlobs EXCEPT ![l] = <<>>]
    BY <1>4 DEF ReshapeThrows, StartPhase
  <2>2. BlobTypeI'
    BY <1>0, <2>1 DEF KeptI, BlobTypeI
  <2> QED BY <2>1, <2>2, NoBlobsAsked DEF Usable
<1> QED BY <1>1, <1>2, <1>3, <1>4, RecheckBlobs, EndReshapeBlobs, ReshapeLayerBlobs DEF ReshapeStep

-----------------------------------------------------------------------------
(* The forward pass. *)

LEMMA FunctionLength ==
    ASSUME NEW n \in Nat, NEW f, DOMAIN f = 1 .. n, f = [i \in DOMAIN f |-> f[i]]
    PROVE  DOMAIN f = 1 .. n /\ Len(f) = n
<1> DEFINE T == {f[i] : i \in 1 .. n}
<1>1. f \in [1 .. n -> T]
  OBVIOUS
<1> QED BY <1>1, SequenceLength

\* The shapes and the last users in a pass.
LEMMA InRun ==
    ASSUME NetworkI, ShapesI, OrderI, BlobI, SingleOutput, phase \in {"forward", "backward"}
    PROVE  /\ TypeI /\ CallI /\ KeptI /\ Usable /\ net \in Networks
           /\ DOMAIN net \subseteq Layers /\ DOMAIN net \subseteq Nat \ {0}
           /\ \A l \in DOMAIN net :
                 /\ l \notin forced /\ Named(l) /\ (relearned \/ needed[l] = NeededNow(l))
                 /\ needed[l] \subseteq BlobsForBackward[l] \cup BlobsForLearn[l]
                 /\ DOMAIN inBlobs[l] = DOMAIN net[l]
                 /\ ~IsSource(net, l) => DOMAIN outBlobs[l] = Outputs(net, l) /\ Sized(l)
                 /\ \A i \in DOMAIN net[l] :
                       /\ net[l][i] \in Ports(net) /\ net[l][i] = <<Input(l, i), net[l][i][2]>>
                       /\ Input(l, i) \in DOMAIN net /\ net[l][i][2] \in Outputs(net, Input(l, i))
                       /\ net[l][i][2] \in DOMAIN lastUser[Input(l, i)]
           /\ \A l \in inPlace \cap DOMAIN net :
                 /\ InputsMayBeOverwritten(l) /\ ~IsSource(net, l) /\ Outputs(net, l) \subseteq {1}
                 /\ Outputs(net, l) \subseteq DOMAIN net[l]
                 /\ \A o \in Outputs(net, l) :
                       /\ ~IsSource(net, Input(l, o))
                       /\ lastUser[Input(l, o)][net[l][o][2]] = l
           /\ \A l \in DOMAIN net : IsSource(net, l) => Outputs(net, l) \subseteq {1}
           /\ \A x, y, z \in Ports(net) : Over(net, inPlace, x, y) /\ Over(net, inPlace, x, z) => y = z
<1>1. /\ TypeI /\ CallI /\ KeptI /\ Usable /\ net \in Networks
      /\ DOMAIN net \subseteq Layers /\ DOMAIN net \subseteq Nat \ {0}
  BY StackFacts DEF NetworkI, BlobI, TypeI, AtRest, Usable
<1>2. ASSUME NEW l \in DOMAIN net
      PROVE  /\ l \notin forced /\ Named(l) /\ (relearned \/ needed[l] = NeededNow(l))
             /\ needed[l] \subseteq BlobsForBackward[l] \cup BlobsForLearn[l]
             /\ DOMAIN inBlobs[l] = DOMAIN net[l]
             /\ ~IsSource(net, l) => DOMAIN outBlobs[l] = Outputs(net, l) /\ Sized(l)
  <2>1. l \notin forced
    BY <1>1 DEF ShapesI, StaleI, Current
  <2>2. Fits(l)
    BY <1>1, <2>1 DEF ShapesI, FitI
  <2>3. Named(l)
    BY <1>1 DEF KeptI, NameI
  <2>4. ~IsSource(net, l) => DOMAIN outBlobs[l] = Outputs(net, l) /\ Sized(l)
    BY <1>1, <2>1 DEF KeptI, OutI, Sized
  <2> QED BY <2>1, <2>2, <2>3, <2>4 DEF Fits
<1>3. ASSUME NEW l \in DOMAIN net, NEW i \in DOMAIN net[l]
      PROVE  /\ net[l][i] \in Ports(net) /\ net[l][i] = <<Input(l, i), net[l][i][2]>>
             /\ Input(l, i) \in DOMAIN net /\ net[l][i][2] \in Outputs(net, Input(l, i))
             /\ net[l][i][2] \in DOMAIN lastUser[Input(l, i)]
  <2>1. /\ Input(l, i) \in DOMAIN net /\ net[l][i] = <<Input(l, i), net[l][i][2]>>
        /\ net[l][i][2] \in Nat \ {0}
    BY <1>1, NetworkFacts DEF Input
  <2>2. net[l][i][2] \in Outputs(net, Input(l, i)) /\ ~IsSink(net, Input(l, i))
    BY <1>1, OutputFacts DEF Input
  <2>3. net[l][i] \in Ports(net)
    BY <2>1 DEF Ports
  <2>4. DOMAIN lastUser[Input(l, i)] = Outputs(net, Input(l, i))
    BY <1>1, <2>1, <2>2 DEF OrderI, UsersI
  <2> QED BY <2>1, <2>2, <2>3, <2>4
<1>4. ASSUME NEW l \in DOMAIN net, l \in inPlace \/ IsSource(net, l)
      PROVE  Outputs(net, l) \subseteq {1}
  <2>1. l \in InPlaceLayers \/ IsSource(net, l)
    BY <1>1, <1>4 DEF KeptI, BlobTypeI
  <2>2. OutputCount(net, l) <= 1 /\ OutputCount(net, l) \in Nat
    BY <1>1, <2>1, OutputFacts DEF SingleOutput
  <2> QED BY <2>2 DEF Outputs
<1>5. ASSUME NEW l \in inPlace \cap DOMAIN net
      PROVE  /\ InputsMayBeOverwritten(l) /\ ~IsSource(net, l)
             /\ Outputs(net, l) \subseteq DOMAIN net[l]
             /\ \A o \in Outputs(net, l) :
                   /\ ~IsSource(net, Input(l, o))
                   /\ lastUser[Input(l, o)][net[l][o][2]] = l
  <2>1. InputsMayBeOverwritten(l)
    BY <1>1, <1>2 DEF KeptI, OverI
  <2>2. net[l] # <<>> /\ OutputCount(net, l) <= Len(net[l])
    <3>1. l \in InPlaceLayers
      BY <1>1 DEF KeptI, BlobTypeI
    <3> QED BY <1>1, <3>1, NetworkAssumption
  <2>3. Outputs(net, l) \subseteq DOMAIN net[l]
    <3>1. OutputCount(net, l) \in Nat /\ Len(net[l]) \in Nat /\ DOMAIN net[l] = 1 .. Len(net[l])
      BY <1>1, OutputFacts, NetworkFacts
    <3> QED BY <2>2, <3>1 DEF Outputs
  <2>4. ASSUME NEW o \in Outputs(net, l)
        PROVE  /\ ~IsSource(net, Input(l, o))
               /\ lastUser[Input(l, o)][net[l][o][2]] = l
    BY <2>1, <2>3 DEF InputsMayBeOverwritten, Input
  <2> QED BY <2>1, <2>2, <2>3, <2>4 DEF IsSource
<1>6. ASSUME NEW x \in Ports(net), NEW y \in Ports(net), NEW z \in Ports(net),
             Over(net, inPlace, x, y), Over(net, inPlace, x, z)
      PROVE  y = z
  <2>1. PICK l \in inPlace \cap DOMAIN net : \E o \in Outputs(net, l) : y = <<l, o>> /\ net[l][o] = x
    BY <1>6 DEF Over
  <2>2. PICK o \in Outputs(net, l) : y = <<l, o>> /\ net[l][o] = x
    BY <2>1
  <2>3. PICK m \in inPlace \cap DOMAIN net : \E u \in Outputs(net, m) : z = <<m, u>> /\ net[m][u] = x
    BY <1>6 DEF Over
  <2>4. PICK u \in Outputs(net, m) : z = <<m, u>> /\ net[m][u] = x
    BY <2>3
  <2>5. o = 1 /\ u = 1
    BY <1>4
  <2>6. l = m
    BY <1>5, <2>2, <2>4 DEF Input
  <2> QED BY <2>2, <2>4, <2>5, <2>6
<1> QED BY <1>1, <1>2, <1>3, <1>4, <1>5, <1>6

\* The last user of a port runs last.
LEMMA LastRuns ==
    ASSUME NetworkI, ShapesI, OrderI, BlobI, SingleOutput, phase \in {"forward", "backward"},
           NEW D, NEW s, NEW k, Reached(net, [stack |-> s, sink |-> k, done |-> D]),
           NEW x \in DOMAIN net, NEW i \in DOMAIN net[x],
           lastUser[Input(x, i)][net[x][i][2]] \in D \cap DOMAIN net
    PROVE  x \in D
<1> DEFINE c == [stack |-> s, sink |-> k, done |-> D]
           m == Input(x, i)
           o == net[x][i][2]
<1>1. m \in DOMAIN net /\ o \in DOMAIN lastUser[m] /\ net[x][i] = <<m, o>> /\ Usable
  BY InRun
<1>2. LastUserIn(net, lastUser, DOMAIN net)
  BY <1>1 DEF OrderI, UsersI
<1>3. Reached(net, c) /\ lastUser[m][o] \in c.done /\ lastUser[m][o] \in DOMAIN net /\ c.done = D
  OBVIOUS
<1> HIDE DEF c, m, o
<1>4. x \in c.done
  BY <1>1, <1>2, <1>3 DEF LastUserIn
<1> QED BY <1>3, <1>4

\* What a layer reads that is about to compute.
LEMMA InputsThere ==
    ASSUME NetworkI, ShapesI, OrderI, BlobI, SingleOutput, phase = "forward", NEW l \in Layers, Returned(l)
    PROVE  /\ l \in DOMAIN net /\ l \notin ran
           /\ \A i \in DOMAIN net[l] :
                 /\ Input(l, i) \in ran /\ Input(l, i) # l
                 /\ Taken(l)[i] = BlobAt(net[l][i]) /\ BlobAt(net[l][i]) # NoBlob
                 /\ Up(net, inPlace, Name(BlobAt(net[l][i])), net[l][i])
                 /\ Fresh(net[l][i]) /\ HoldsAt(BlobAt(net[l][i]), net[l][i])
<1>1. /\ TypeI /\ CallI /\ net \in Networks /\ ForwardI
      /\ DOMAIN net \subseteq Layers /\ DOMAIN net \subseteq Nat \ {0}
  BY InRun DEF NetworkI, PassI
<1>2. /\ Len(stack) \in Nat /\ DOMAIN stack = 1 .. Len(stack) /\ (stack # <<>> <=> Len(stack) > 0)
      /\ \A k \in 1 .. Len(stack) : stack[k].layer \in DOMAIN net /\ stack[k].next \in Nat \ {0}
  BY <1>1, StackFacts
<1>3. Len(stack) \in DOMAIN stack /\ stack[Len(stack)].layer = l /\ stack[Len(stack)].next > Len(net[l])
  BY <1>2 DEF Returned, Top
<1>4. l \in DOMAIN net /\ l \notin ran
  BY <1>1, <1>2, <1>3 DEF ForwardI
<1>5. \A i \in DOMAIN net[l] : Input(l, i) \in ran
  <2> SUFFICES ASSUME NEW i \in DOMAIN net[l] PROVE Input(l, i) \in ran
    OBVIOUS
  <2>1. i < stack[Len(stack)].next
    <3>1. Len(net[l]) \in Nat /\ DOMAIN net[l] = 1 .. Len(net[l]) /\ stack[Len(stack)].next \in Nat
      BY <1>1, <1>2, <1>3, <1>4, NetworkFacts
    <3> QED BY <1>3, <3>1
  <2> QED BY <1>1, <1>3, <2>1 DEF ForwardI
<1>6. ASSUME NEW i \in DOMAIN net[l]
      PROVE  /\ Input(l, i) # l /\ Taken(l)[i] = BlobAt(net[l][i]) /\ BlobAt(net[l][i]) # NoBlob
             /\ Up(net, inPlace, Name(BlobAt(net[l][i])), net[l][i])
             /\ Fresh(net[l][i]) /\ HoldsAt(BlobAt(net[l][i]), net[l][i])
  <2> DEFINE m == Input(l, i)
             o == net[l][i][2]
  <2>1. /\ net[l][i] = <<m, o>> /\ m \in DOMAIN net /\ o \in Outputs(net, m)
        /\ m \in ran /\ Named(m) /\ DOMAIN inBlobs[l] = DOMAIN net[l]
    BY <1>4, <1>5, InRun
  <2>2. BlobAt(net[l][i]) = outBlobs[m][o] /\ Taken(l)[i] = outBlobs[m][o]
    BY <2>1 DEF BlobAt, Taken
  <2>3. outBlobs[m][o] # NoBlob
    BY <1>4, <2>1, <2>2 DEF BlobI, RunI
  <2>4. o \in DOMAIN outBlobs[m]
    BY <2>1 DEF BlobI, RunI
  <2>5. Up(net, inPlace, Name(outBlobs[m][o]), <<m, o>>)
    BY <2>1, <2>3, <2>4 DEF Named
  <2>6. Fresh(<<m, o>>)
    <3> SUFFICES ASSUME NEW y \in ran \cap inPlace, NEW u \in Outputs(net, y), net[y][u] = <<m, o>>
                 PROVE  FALSE
      BY DEF Fresh
    <3>1. y \in DOMAIN net /\ u \in DOMAIN net[y] /\ lastUser[m][o] = y
      <4>1. y \in DOMAIN net
        BY <1>1 DEF ForwardI
      <4>2. u \in DOMAIN net[y] /\ lastUser[Input(y, u)][net[y][u][2]] = y
        BY <4>1, InRun
      <4> QED BY <4>1, <4>2 DEF Input
    <3>2. Reached(net, [stack |-> stack, sink |-> sink, done |-> ran])
      BY DEF BlobI, RunI
    <3>3. l \in ran
      BY <1>4, <3>1, <3>2, LastRuns
    <3> QED BY <1>4, <3>3
  <2>7. HoldsAt(outBlobs[m][o], <<m, o>>)
    BY <2>1, <2>3, <2>6 DEF BlobI, RunI
  <2>8. m # l
    BY <1>4, <2>1
  <2> HIDE DEF m, o
  <2>9. Input(l, i) = m
    BY DEF m
  <2> QED BY <2>1, <2>2, <2>3, <2>5, <2>6, <2>7, <2>8, <2>9
<1> QED BY <1>4, <1>5, <1>6

\* The blobs that a layer writes: there is one for every output, of its own or passed on to
\* it, and no two are the same.
LEMMA AllocatedFacts ==
    ASSUME NetworkI, ShapesI, OrderI, BlobI, SingleOutput, phase = "forward", NEW l \in Layers, Returned(l)
    PROVE  /\ Outputs(net, l) \subseteq DOMAIN Allocated(l)
           /\ IsSource(net, l) => DOMAIN Allocated(l) = {1} /\ Allocated(l)[1] = UserBlob(l)
           /\ ~IsSource(net, l) => DOMAIN Allocated(l) = Outputs(net, l) /\ Len(Allocated(l)) = OutputCount(net, l)
           /\ \A o \in DOMAIN Allocated(l) :
                 /\ Allocated(l)[o] # NoBlob
                 /\ Up(net, inPlace, Name(Allocated(l)[o]), <<l, o>>)
           /\ \A o, u \in DOMAIN Allocated(l) : Allocated(l)[o] = Allocated(l)[u] => o = u
<1>1. /\ l \in DOMAIN net /\ net \in Networks /\ Named(l) /\ DOMAIN net \subseteq Nat \ {0}
      /\ ~IsSource(net, l) => DOMAIN outBlobs[l] = Outputs(net, l) /\ Sized(l)
      /\ IsSource(net, l) => Outputs(net, l) \subseteq {1}
      /\ l \in inPlace => /\ ~IsSource(net, l) /\ Outputs(net, l) \subseteq {1}
                          /\ Outputs(net, l) \subseteq DOMAIN net[l]
  BY InputsThere, InRun
<1>6. OutputCount(net, l) \in Nat /\ Outputs(net, l) = 1 .. OutputCount(net, l)
  BY <1>1, OutputFacts
<1>2. ASSUME NEW o \in Nat \ {0} PROVE <<l, o>> \in Ports(net) /\ Up(net, inPlace, <<l, o>>, <<l, o>>)
  BY <1>1, UpSelf DEF Ports
<1>3. CASE IsSource(net, l)
  <2>1. Allocated(l) = <<UserBlob(l)>>
    BY <1>3 DEF Allocated
  <2>2. DOMAIN Allocated(l) = {1} /\ Allocated(l)[1] = UserBlob(l)
    BY <2>1
  <2>3. UserBlob(l) # NoBlob /\ Name(UserBlob(l)) = <<l, 1>>
    BY DEF UserBlob, NoBlob, Name
  <2>4. Up(net, inPlace, <<l, 1>>, <<l, 1>>)
    BY <1>2
  <2> QED BY <1>1, <1>3, <2>2, <2>3, <2>4
<1>4. CASE l \in inPlace
  <2>1. DOMAIN outBlobs[l] = Outputs(net, l) /\ Outputs(net, l) \subseteq {1} /\ ~IsSource(net, l)
    BY <1>1, <1>4
  <2>2. CASE outBlobs[l] # <<>> /\ outBlobs[l][1] = NoBlob
    <3>1. Allocated(l) = [o \in DOMAIN outBlobs[l] |-> Taken(l)[o]]
      BY <1>4, <2>1, <2>2 DEF Allocated
    <3>2. ASSUME NEW o \in Outputs(net, l)
          PROVE  Allocated(l)[o] # NoBlob /\ Up(net, inPlace, Name(Allocated(l)[o]), <<l, o>>)
      <4>1. o \in DOMAIN net[l] /\ Allocated(l)[o] = Taken(l)[o]
        BY <1>1, <1>4, <2>1, <3>1
      <4>2. /\ Allocated(l)[o] = BlobAt(net[l][o]) /\ BlobAt(net[l][o]) # NoBlob
            /\ Up(net, inPlace, Name(BlobAt(net[l][o])), net[l][o])
        BY <4>1, InputsThere
      <4>3. Over(net, inPlace, net[l][o], <<l, o>>)
        BY <1>1, <1>4 DEF Over
      <4>4. <<l, o>> \in Ports(net)
        BY <1>2, <2>1
      <4> QED BY <4>2, <4>3, <4>4, UpOver
    <3>3. Len(Allocated(l)) = OutputCount(net, l)
      BY <1>6, <2>1, <3>1, FunctionLength
    <3> QED BY <2>1, <3>1, <3>2, <3>3
  <2>3. CASE ~(outBlobs[l] # <<>> /\ outBlobs[l][1] = NoBlob)
    <3>1. Allocated(l) = outBlobs[l]
      BY <1>4, <2>1, <2>3 DEF Allocated
    <3>2. ASSUME NEW o \in DOMAIN outBlobs[l]
          PROVE  outBlobs[l][o] # NoBlob /\ Up(net, inPlace, Name(outBlobs[l][o]), <<l, o>>)
      <4>1. o = 1 /\ outBlobs[l] # <<>>
        BY <2>1, EmptySeq
      <4> QED BY <1>1, <2>3, <4>1 DEF Named
    <3> QED BY <1>1, <2>1, <3>1, <3>2 DEF Sized
  <2> QED BY <2>2, <2>3
<1>5. CASE ~IsSource(net, l) /\ l \notin inPlace
  <2>1. /\ Allocated(l) = [o \in DOMAIN outBlobs[l] |-> IF outBlobs[l][o] = NoBlob THEN Created(l, o) ELSE outBlobs[l][o]]
        /\ DOMAIN outBlobs[l] = Outputs(net, l)
    BY <1>1, <1>5 DEF Allocated
  <2>2. ASSUME NEW o \in Outputs(net, l)
        PROVE  /\ Allocated(l)[o] # NoBlob /\ Up(net, inPlace, Name(Allocated(l)[o]), <<l, o>>)
               /\ Name(Allocated(l)[o]) = <<l, o>>
    <3>1. CASE outBlobs[l][o] = NoBlob
      <4>1. Allocated(l)[o] = Created(l, o)
        BY <2>1, <3>1
      <4>2. Created(l, o) # NoBlob /\ Name(Created(l, o)) = <<l, o>>
        BY DEF Created, NoBlob, Name
      <4>3. o \in Nat \ {0}
        <5>1. Outputs(net, l) = 1 .. OutputCount(net, l) /\ OutputCount(net, l) \in Nat
          BY <1>1, OutputFacts
        <5> QED BY <5>1
      <4> QED BY <1>2, <4>1, <4>2, <4>3
    <3>2. CASE outBlobs[l][o] # NoBlob
      <4>1. Allocated(l)[o] = outBlobs[l][o]
        BY <2>1, <3>2
      <4>2. Up(net, inPlace, Name(outBlobs[l][o]), <<l, o>>)
        BY <1>1, <2>1, <3>2 DEF Named
      <4>3. <<l, o>>[1] \notin inPlace
        BY <1>5
      <4> QED BY <3>2, <4>1, <4>2, <4>3, UpOwn
    <3> QED BY <3>1, <3>2
  <2>3. DOMAIN Allocated(l) = Outputs(net, l) /\ Len(Allocated(l)) = OutputCount(net, l)
    BY <1>6, <2>1, FunctionLength
  <2>4. ASSUME NEW o \in DOMAIN Allocated(l), NEW u \in DOMAIN Allocated(l), Allocated(l)[o] = Allocated(l)[u]
        PROVE  o = u
    <3>1. <<l, o>> = <<l, u>>
      BY <2>2, <2>3, <2>4
    <3> QED BY <3>1
  <2> QED BY <1>5, <2>2, <2>3, <2>4
<1> QED BY <1>1, <1>3, <1>4, <1>5

\* What a layer writes, and what it leaves as it was.
LEMMA WrittenFacts ==
    ASSUME NetworkI, ShapesI, OrderI, BlobI, SingleOutput, phase = "forward", NEW l \in Layers, Returned(l),
           content' = Written(l, Allocated(l), TRUE)
    PROVE  /\ \A o \in Outputs(net, l) : Allocated(l)[o] \in DOMAIN content' /\ content'[Allocated(l)[o]] = Value(l, o)
           /\ \A b \in DOMAIN content :
                 (\A o \in DOMAIN Allocated(l) : Allocated(l)[o] # b) =>
                     b \in DOMAIN content' /\ content'[b] = content[b]
<1> DEFINE bs == Allocated(l)
<1>1. content' = [b \in DOMAIN content \cup {bs[o] : o \in DOMAIN bs} |->
          IF \E o \in DOMAIN bs : bs[o] = b
          THEN IF IsSource(net, l) THEN b ELSE Created(l, CHOOSE o \in DOMAIN bs : bs[o] = b)
          ELSE content[b]]
  BY DEF Written
<1>2. /\ Outputs(net, l) \subseteq DOMAIN bs /\ \A o, u \in DOMAIN bs : bs[o] = bs[u] => o = u
      /\ IsSource(net, l) => DOMAIN bs = {1} /\ bs[1] = UserBlob(l)
  BY AllocatedFacts
<1> HIDE DEF bs
<1>3. ASSUME NEW o \in Outputs(net, l) PROVE bs[o] \in DOMAIN content' /\ content'[bs[o]] = Value(l, o)
  <2>1. o \in DOMAIN bs /\ \E u \in DOMAIN bs : bs[u] = bs[o]
    BY <1>2
  <2> DEFINE b == bs[o]
             B == DOMAIN content \cup {bs[u] : u \in DOMAIN bs}
             new(x) == IF \E u \in DOMAIN bs : bs[u] = x
                       THEN IF IsSource(net, l) THEN x ELSE Created(l, CHOOSE u \in DOMAIN bs : bs[u] = x)
                       ELSE content[x]
  <2>4. content' = [x \in B |-> new(x)] /\ b \in B
    BY <1>1, <2>1
  <2>5. new(b) = IF IsSource(net, l) THEN b ELSE Created(l, CHOOSE u \in DOMAIN bs : bs[u] = b)
    BY <2>1
  <2>6. bs[o] \in DOMAIN content' /\ content'[bs[o]] = new(b)
    <3> HIDE DEF new, B
    <3> QED BY <2>4
  <2>2. CASE IsSource(net, l)
    <3>1. o = 1
      BY <1>2, <2>1, <2>2
    <3> QED BY <1>2, <2>2, <2>5, <2>6, <3>1 DEF Value
  <2>3. CASE ~IsSource(net, l)
    <3>1. (CHOOSE u \in DOMAIN bs : bs[u] = bs[o]) = o
      BY <1>2, <2>1
    <3> QED BY <2>3, <2>5, <2>6, <3>1 DEF Value
  <2> QED BY <2>2, <2>3
<1>4. ASSUME NEW b \in DOMAIN content, \A o \in DOMAIN bs : bs[o] # b
      PROVE  b \in DOMAIN content' /\ content'[b] = content[b]
  BY <1>1, <1>4
<1> QED BY <1>3, <1>4 DEF bs

\* The blob passed on to a port of a layer that has computed is not written, if nothing has
\* been computed in place of that port.
LEMMA NotWritten ==
    ASSUME NetworkI, ShapesI, OrderI, BlobI, SingleOutput, phase = "forward", NEW l \in Layers, Returned(l),
           NEW b, NEW p, p[1] \in ran, Up(net, inPlace, Name(b), p),
           \A y \in (ran \cup {l}) \cap inPlace : \A o \in Outputs(net, y) : net[y][o] # p
    PROVE  \A o \in DOMAIN Allocated(l) : Allocated(l)[o] # b
<1> SUFFICES ASSUME NEW o \in DOMAIN Allocated(l), Allocated(l)[o] = b PROVE FALSE
  OBVIOUS
<1>1. /\ l \notin ran /\ l \in DOMAIN net /\ net \in Networks /\ ran \subseteq DOMAIN net
      /\ \A i \in DOMAIN net[l] : Input(l, i) \in ran
      /\ \A m \in ran : \A i \in DOMAIN net[m] : Input(m, i) \in ran
      /\ \A m \in inPlace \cap DOMAIN net : Outputs(net, m) \subseteq DOMAIN net[m]
      /\ \A x, y, z \in Ports(net) : Over(net, inPlace, x, y) /\ Over(net, inPlace, x, z) => y = z
  BY InputsThere, InRun DEF NetworkI, PassI, ForwardI
<1>2. Up(net, inPlace, Name(b), <<l, o>>)
  BY AllocatedFacts
<1>3. Up(net, inPlace, p, <<l, o>>) \/ Up(net, inPlace, <<l, o>>, p)
  BY <1>1, <1>2, UpOneWay
<1>4. CASE Up(net, inPlace, <<l, o>>, p)
  <2>1. <<l, o>>[1] \in ran
    BY <1>1, <1>4, UpBefore DEF Input
  <2> QED BY <1>1, <2>1
<1>5. CASE Up(net, inPlace, p, <<l, o>>)
  <2>1. p # <<l, o>>
    BY <1>1
  <2>2. PICK y \in Ports(net) : Over(net, inPlace, p, y) /\ Up(net, inPlace, y, <<l, o>>)
    BY <1>5, <2>1, UpFirst
  <2>3. PICK m \in inPlace \cap DOMAIN net : \E u \in Outputs(net, m) : y = <<m, u>> /\ net[m][u] = p
    BY <2>2 DEF Over
  <2>4. PICK u \in Outputs(net, m) : y = <<m, u>> /\ net[m][u] = p
    BY <2>3
  <2> DEFINE D == ran \cup {l}
  <2>5. /\ <<l, o>>[1] \in D
        /\ \A x \in D : x \in DOMAIN net => \A i \in DOMAIN net[x] : net[x][i][1] \in D
    BY <1>1 DEF Input
  <2>6. y[1] \in D
    <3> HIDE DEF D
    <3> QED BY <1>1, <2>2, <2>5, UpBefore
  <2>7. m \in D
    BY <2>4, <2>6
  <2> QED BY <2>3, <2>4, <2>7
<1> QED BY <1>3, <1>4, <1>5

\* The blobs of the layers after a call of runOnce.
LEMMA OutBlobsMoved ==
    ASSUME NetworkI, ShapesI, OrderI, BlobI, SingleOutput, phase = "forward", NEW l \in Layers, Returned(l),
           UNCHANGED <<net, inPlace>>, outBlobs' = OutBlobsAfter(l)
    PROVE  /\ DOMAIN outBlobs' = Layers /\ outBlobs'[l] = Allocated(l)
           /\ \A m \in Layers : m # l =>
                 /\ DOMAIN outBlobs'[m] = DOMAIN outBlobs[m]
                 /\ \A o \in DOMAIN outBlobs[m] :
                       outBlobs'[m][o] = IF Drops(l, m, o) THEN NoBlob ELSE outBlobs[m][o]
           /\ \A m \in DOMAIN net :
                 /\ Named(m)'
                 /\ ~IsSource(net, m) => Sized(m)'
<1>1. /\ DOMAIN outBlobs' = Layers /\ outBlobs'[l] = Allocated(l)
      /\ \A m \in Layers : m # l =>
            /\ DOMAIN outBlobs'[m] = DOMAIN outBlobs[m]
            /\ \A o \in DOMAIN outBlobs[m] :
                  outBlobs'[m][o] = IF Drops(l, m, o) THEN NoBlob ELSE outBlobs[m][o]
  BY DEF OutBlobsAfter
<1>2. ASSUME NEW m \in DOMAIN net PROVE Named(m)' /\ (~IsSource(net, m) => Sized(m)')
  <2>1. m \in Layers /\ Named(m) /\ (~IsSource(net, m) => Sized(m))
    BY InRun
  <2>2. CASE m = l
    BY <1>1, <2>2, AllocatedFacts DEF Named, Sized
  <2>3. CASE m # l
    <3>1. Named(m)'
      BY <1>1, <2>1, <2>3 DEF Named
    <3>2. ASSUME ~IsSource(net, m) PROVE Sized(m)'
      <4>1. outBlobs'[m] = [o \in DOMAIN outBlobs[m] |-> IF Drops(l, m, o) THEN NoBlob ELSE outBlobs[m][o]]
        BY <2>1, <2>3 DEF OutBlobsAfter
      <4>2. OutputCount(net, m) \in Nat /\ DOMAIN outBlobs[m] = 1 .. OutputCount(net, m)
        BY <2>1, <3>2, InRun, OutputFacts DEF Sized
      <4>3. Len(outBlobs'[m]) = OutputCount(net, m) /\ DOMAIN outBlobs'[m] = 1 .. OutputCount(net, m)
        BY <4>1, <4>2, FunctionLength
      <4> QED BY <4>3 DEF Sized, Outputs
    <3> QED BY <3>1, <3>2
  <2> QED BY <2>2, <2>3
<1> QED BY <1>1, <1>2

LEMMA RunLayerBlobs ==
    ASSUME NetworkI, ShapesI, OrderI, BlobI, SingleOutput, NEW l \in Layers, RunLayer(l)
    PROVE  BlobI'
<1>1. /\ phase = "forward" /\ phase' = phase /\ Returned(l) /\ Left(l)
      /\ UNCHANGED <<net, lastUser, needed, inPlace, forced, backward, rebuildNeeded, userSize, runNumber>>
      /\ outBlobs' = OutBlobsAfter(l) /\ content' = Written(l, Allocated(l), TRUE)
      /\ inBlobs' = [inBlobs EXCEPT ![l] =
            IF reuse /\ "in" \notin needed[l] THEN NoBlobs(Len(inBlobs[l])) ELSE Taken(l)]
      /\ result' = IF IsSink(net, l) THEN [result EXCEPT ![l] = Taken(l)[1]] ELSE result
      /\ ran' = ran \cup {l}
  BY DEF RunLayer, Left, Leave, userVars, dnnVars, shapeVars
<1>2. /\ TypeI /\ CallI /\ KeptI /\ Usable /\ net \in Networks /\ ForwardI
      /\ DOMAIN net \subseteq Layers /\ DOMAIN net \subseteq Nat \ {0}
      /\ DOMAIN inBlobs = Layers /\ DOMAIN result = Layers
      /\ l \in DOMAIN net /\ l \notin ran /\ ran \subseteq DOMAIN net
  BY <1>1, InRun, InputsThere DEF NetworkI, PassI, ForwardI, ShapesI, ShapeTypeI, KeptI, BlobTypeI
<1>3. KeptI'
  <2>1. DOMAIN result' = Layers
    BY <1>1, <1>2
  <2>2. /\ DOMAIN outBlobs' = Layers
        /\ \A m \in DOMAIN net : Named(m)' /\ (~IsSource(net, m) => Sized(m)')
    BY <1>1, OutBlobsMoved
  <2> QED BY <1>1, <1>2, <2>1, <2>2, KeptOutside DEF Usable
<1>4. Reached(net, [stack |-> stack', sink |-> sink', done |-> ran'])
  <2>1. Reached(net, [stack |-> stack, sink |-> sink, done |-> ran])
    BY <1>1 DEF BlobI, RunI
  <2>2. Moves(net, [stack |-> stack, sink |-> sink, done |-> ran],
                   [stack |-> stack', sink |-> sink', done |-> ran'])
    BY <1>1, <1>2, ReturnMoves
  <2> QED BY <2>1, <2>2, ReachedStep
<1>5. \A m \in ran \ {l} : /\ DOMAIN outBlobs'[m] = DOMAIN outBlobs[m]
                     /\ Outputs(net, m) \subseteq DOMAIN outBlobs[m]
                     /\ \A o \in Outputs(net, m) :
                           outBlobs'[m][o] = IF Drops(l, m, o) THEN NoBlob ELSE outBlobs[m][o]
  BY <1>1, <1>2, OutBlobsMoved DEF BlobI, RunI
<1>6. /\ outBlobs'[l] = Allocated(l) /\ Outputs(net, l) \subseteq DOMAIN Allocated(l)
      /\ \A o \in DOMAIN Allocated(l) : Allocated(l)[o] # NoBlob
  BY <1>1, OutBlobsMoved, AllocatedFacts
<1>7. \A m \in ran' : Outputs(net, m) \subseteq DOMAIN outBlobs'[m]
  BY <1>1, <1>2, <1>5, <1>6
\* What is read later is not dropped.
<1>8. ASSUME NEW x \in DOMAIN net \ ran', NEW i \in DOMAIN net[x], Input(x, i) \in ran'
      PROVE  BlobAt(net[x][i])' # NoBlob
  <2>1. /\ net[x][i] = <<Input(x, i), net[x][i][2]>> /\ net[x][i][2] \in Outputs(net, Input(x, i))
    BY <1>1, InRun
  <2>2. BlobAt(net[x][i])' = outBlobs'[Input(x, i)][net[x][i][2]]
    BY <1>1 DEF BlobAt, Input
  <2>3. CASE Input(x, i) = l
    BY <1>6, <2>1, <2>2, <2>3
  <2>4. CASE Input(x, i) # l
    <3>1. outBlobs[Input(x, i)][net[x][i][2]] # NoBlob
      BY <1>1, <1>8, <2>4 DEF BlobI, RunI, BlobAt, Input
    <3>2. ~Drops(l, Input(x, i), net[x][i][2])
      <4> SUFFICES ASSUME lastUser[Input(x, i)][net[x][i][2]] = l PROVE FALSE
        BY DEF Drops
      <4>1. l \in ran' /\ x \notin ran'
        BY <1>1
      <4> QED BY <1>1, <1>2, <1>4, <4>1, LastRuns
    <3> QED BY <1>1, <1>5, <1>8, <2>1, <2>2, <2>4, <3>1, <3>2
  <2> QED BY <2>3, <2>4
<1>9. ASSUME NEW m \in ran', NEW o \in Outputs(net, m), "out" \in needed[m]
      PROVE  outBlobs'[m][o] # NoBlob
  <2>1. CASE m = l
    BY <1>6, <2>1
  <2>2. CASE m # l
    <3>1. m \in ran /\ outBlobs[m][o] # NoBlob
      BY <1>1, <1>9, <2>2 DEF BlobI, RunI
    <3>2. ~Drops(l, m, o)
      BY <1>9 DEF Drops
    <3> QED BY <1>5, <2>2, <3>1, <3>2
  <2> QED BY <2>1, <2>2
\* The blobs that nothing has been computed in place of are not written.
<1>10. \A p : Fresh(p)' => Fresh(p) /\ \A y \in (ran \cup {l}) \cap inPlace : \A o \in Outputs(net, y) : net[y][o] # p
  BY <1>1 DEF Fresh
<1>11. \A p : Value(p[1], p[2])' = Value(p[1], p[2])
  BY <1>1 DEF Value, UserBlob, Created
<1>12. ASSUME NEW b, NEW p, p[1] \in ran, Up(net, inPlace, Name(b), p), Fresh(p)', HoldsAt(b, p)
       PROVE  HoldsAt(b, p)'
  <2>1. \A o \in DOMAIN Allocated(l) : Allocated(l)[o] # b
    BY <1>1, <1>10, <1>12, NotWritten
  <2>2. b \in DOMAIN content /\ content[b] = Value(p[1], p[2])
    BY <1>12 DEF HoldsAt, Holds
  <2>3. b \in DOMAIN content' /\ content'[b] = content[b]
    BY <1>1, <2>1, <2>2, WrittenFacts
  <2> QED BY <1>11, <2>2, <2>3 DEF HoldsAt, Holds
<1>13. ASSUME NEW m \in ran', NEW o \in Outputs(net, m), Fresh(<<m, o>>)', outBlobs'[m][o] # NoBlob
       PROVE  HoldsAt(outBlobs[m][o], <<m, o>>)'
  <2>1. CASE m = l
    <3>1. Allocated(l)[o] \in DOMAIN content' /\ content'[Allocated(l)[o]] = Value(l, o)
      BY <1>1, <2>1, WrittenFacts
    <3>2. Value(l, o)' = Value(l, o)
      BY <1>1 DEF Value, UserBlob, Created
    <3> QED BY <1>6, <2>1, <3>1, <3>2 DEF HoldsAt, Holds
  <2>2. CASE m # l
    <3>1. m \in ran
      BY <1>1, <2>2
    <3>2. outBlobs'[m][o] = outBlobs[m][o] /\ outBlobs[m][o] # NoBlob
      BY <1>5, <1>13, <2>2, <3>1
    <3>3. HoldsAt(outBlobs[m][o], <<m, o>>)
      BY <1>1, <1>10, <1>13, <3>1, <3>2 DEF BlobI, RunI
    <3>4. Up(net, inPlace, Name(outBlobs[m][o]), <<m, o>>)
      <4>1. Named(m) /\ o \in DOMAIN outBlobs[m]
        BY <1>1, <1>2, <1>5, <2>2, <3>1, InRun
      <4> QED BY <3>2, <4>1 DEF Named
    <3> DEFINE b == outBlobs[m][o]
               p == <<m, o>>
    <3>5. p[1] \in ran /\ HoldsAt(b, p) /\ Up(net, inPlace, Name(b), p) /\ Fresh(p)'
      BY <1>13, <3>1, <3>3, <3>4
    <3>6. b \in DOMAIN content' /\ content'[b] = Value(p[1], p[2])'
      <4> HIDE DEF b, p
      <4> QED BY <1>12, <3>5 DEF HoldsAt, Holds
    <3> QED BY <3>2, <3>6 DEF HoldsAt, Holds
  <2> QED BY <2>1, <2>2
<1>14. ASSUME SinksRead, NEW m \in ran', IsSink(net, m)
       PROVE  result'[m] = BlobAt(net[m][1])' /\ result'[m] # NoBlob
  <2>1. m \in DOMAIN net /\ 1 \in DOMAIN net[m]
    <3>1. m \in DOMAIN net
      BY <1>1, <1>2
    <3>2. ~IsSource(net, m)
      BY <1>2, <1>14, <3>1 DEF SinksRead
    <3> QED BY <1>2, <3>1, <3>2, SizesFacts
  <2> DEFINE x == Input(m, 1)
             o == net[m][1][2]
  <2>2. /\ net[m][1] = <<x, o>> /\ o \in Outputs(net, x) /\ lastUser[x][o] = Disabled
    <3>1. SinksDisable(net, lastUser, DOMAIN net)
      BY <1>2 DEF OrderI, UsersI
    <3> QED BY <1>1, <1>14, <2>1, <3>1, InRun DEF SinksDisable, Input
  <2>3. x \in ran /\ x # l
    <3>1. CASE m = l
      BY <1>1, <2>1, <3>1, InputsThere
    <3>2. CASE m # l
      BY <1>1, <1>2, <2>1, <3>2 DEF ForwardI
    <3> QED BY <3>1, <3>2
  <2>4. ~Drops(l, x, o)
    BY <1>2, <2>2 DEF Drops, Disabled
  <2>5. BlobAt(net[m][1])' = BlobAt(net[m][1])
    BY <1>1, <1>5, <2>2, <2>3, <2>4 DEF BlobAt
  <2> HIDE DEF x, o
  <2>6. CASE m = l
    <3>1. Taken(l)[1] = BlobAt(net[l][1]) /\ BlobAt(net[l][1]) # NoBlob
      BY <1>1, <2>1, <2>6, InputsThere
    <3> QED BY <1>1, <1>2, <1>14, <2>5, <2>6, <3>1
  <2>7. CASE m # l
    <3>1. result'[m] = result[m] /\ m \in ran
      BY <1>1, <1>2, <2>7
    <3> QED BY <1>1, <1>14, <2>5, <3>1 DEF BlobI, RunI
  <2> QED BY <2>6, <2>7
<1>15. ASSUME NEW m \in ran', "in" \in needed[m], NEW i \in DOMAIN net[m]
       PROVE  /\ inBlobs'[m][i] # NoBlob /\ Up(net, inPlace, Name(inBlobs'[m][i]), net[m][i])
              /\ Fresh(net[m][i])' => HoldsAt(inBlobs[m][i], net[m][i])'
  <2> DEFINE b == inBlobs'[m][i]
             p == net[m][i]
  <2>1. /\ b # NoBlob /\ p[1] \in ran /\ Up(net, inPlace, Name(b), p)
        /\ Fresh(p) => HoldsAt(b, p)
    <3>1. CASE m = l
      <4>1. inBlobs'[l] = Taken(l)
        BY <1>1, <1>2, <1>15, <3>1
      <4> QED BY <1>1, <1>15, <3>1, <4>1, InputsThere DEF Input
    <3>2. CASE m # l
      <4>1. m \in ran /\ inBlobs'[m] = inBlobs[m]
        BY <1>1, <1>2, <3>2
      <4>2. Input(m, i) \in ran
        BY <1>1, <1>2, <4>1 DEF ForwardI
      <4> QED BY <1>1, <1>15, <4>1, <4>2 DEF BlobI, RunI, Input
    <3> QED BY <3>1, <3>2
  <2>2. Fresh(p)' => b \in DOMAIN content' /\ content'[b] = Value(p[1], p[2])'
    <3>1. p' = p
      BY <1>1
    <3> HIDE DEF b, p
    <3> QED BY <1>10, <1>12, <2>1, <3>1 DEF HoldsAt, Holds
  <2> QED BY <1>1, <2>1, <2>2 DEF HoldsAt, Holds
<1>16. RunI'
  BY <1>1, <1>4, <1>7, <1>8, <1>9, <1>13, <1>14, <1>15 DEF RunI, Input
<1> QED BY <1>1, <1>3, <1>16 DEF BlobI, BackI

\* Steps that leave the blobs and the outcome of the forward pass.
LEMMA RunStepBlobs ==
    ASSUME NetworkI, ShapesI, OrderI, BlobI, SingleOutput, NEW l \in Layers, RunEnter(l) \/ RunSkip(l)
    PROVE  BlobI'
<1>1. /\ phase = "forward" /\ phase' = phase /\ Calls(l)
      /\ UNCHANGED <<net, lastUser, needed, inPlace, forced, backward, rebuildNeeded, userSize, runNumber,
                     inBlobs, outBlobs, content, result, ran>>
  BY DEF RunEnter, RunSkip, Enter, EnterAt, Skip, userVars, dnnVars, shapeVars, blobVars
<1>2. TypeI /\ CallI /\ KeptI /\ Usable /\ ForwardI /\ l \in DOMAIN net
  BY <1>1, InRun, CallFacts DEF NetworkI, PassI
<1>3. KeptI'
  <2>1. \A m \in DOMAIN net : Named(m) => Named(m)'
    BY <1>1, NamedSame
  <2> QED BY <1>1, <1>2, <2>1, KeptOutside DEF Usable, KeptI, BlobTypeI, Sized
<1>4. (l \notin ran /\ Enter(l)) \/ (l \in ran /\ Skip(l))
  <2>1. CASE RunEnter(l)
    BY <1>2, <2>1 DEF RunEnter, ForwardI
  <2>2. CASE RunSkip(l)
    <3>1. l \in ran \/ OnStack(l)
      BY <1>2, <2>2 DEF RunSkip, ForwardI
    <3>2. ~OnStack(l)
      BY <1>1, <1>2, CallFacts DEF OnStack
    <3> QED BY <2>2, <3>1, <3>2 DEF RunSkip
  <2> QED BY <2>1, <2>2
<1>5. Reached(net, [stack |-> stack', sink |-> sink', done |-> ran])
  <2>1. Reached(net, [stack |-> stack, sink |-> sink, done |-> ran])
    BY <1>1 DEF BlobI, RunI
  <2>2. Moves(net, [stack |-> stack, sink |-> sink, done |-> ran],
                   [stack |-> stack', sink |-> sink', done |-> ran])
    BY <1>1, <1>2, <1>4, CallMoves
  <2> QED BY <2>1, <2>2, ReachedStep
<1>6. \A b, p : (Fresh(p)' <=> Fresh(p)) /\ (HoldsAt(b, p)' <=> HoldsAt(b, p))
  BY <1>1 DEF Fresh, HoldsAt, Holds, Value, UserBlob, Created
<1>7. \A p : BlobAt(p)' = BlobAt(p)
  BY <1>1 DEF BlobAt
<1>8. RunI'
  BY <1>1, <1>5, <1>6, <1>7 DEF BlobI, RunI, Input
<1> QED BY <1>1, <1>3, <1>8 DEF BlobI, BackI

LEMMA RunThrowsBlobs ==
    ASSUME NetworkI, ShapesI, OrderI, BlobI, SingleOutput, NEW l \in Layers, RunThrows(l)
    PROVE  BlobI'
<1>1. /\ phase = "forward" /\ phase' = "failed" /\ Returned(l)
      /\ UNCHANGED <<net, lastUser, needed, inPlace, forced, backward, rebuildNeeded, result>>
      /\ outBlobs' = OutBlobsAfter(l)
  BY DEF RunThrows, StartPhase, userVars, dnnVars, shapeVars
<1>2. KeptI /\ Usable
  BY <1>1, InRun
<1>3. KeptI'
  <2>1. /\ DOMAIN outBlobs' = Layers
        /\ \A m \in DOMAIN net : Named(m)' /\ (~IsSource(net, m) => Sized(m)')
    BY <1>1, OutBlobsMoved
  <2> QED BY <1>1, <1>2, <2>1, KeptOutside DEF Usable, KeptI, BlobTypeI
<1> QED BY <1>1, <1>3 DEF BlobI, RunI, BackI

\* A port that is computed in place of, in a pass.
LEMMA OverwrittenFacts ==
    ASSUME NetworkI, ShapesI, OrderI, BlobI, SingleOutput, phase \in {"forward", "backward"},
           NEW p, NEW y \in inPlace \cap DOMAIN net, NEW u \in Outputs(net, y), net[y][u] = p
    PROVE  /\ u \in DOMAIN net[y] /\ p = <<Input(y, u), p[2]>> /\ lastUser[Input(y, u)][p[2]] = y
           /\ "out" \notin needed[Input(y, u)]
           /\ backward => Cardinality(Consumers(net, p)) = 1
<1>1. /\ u \in DOMAIN net[y] /\ p = <<Input(y, u), p[2]>> /\ lastUser[Input(y, u)][p[2]] = y
      /\ InputsMayBeOverwritten(y)
  BY InRun
<1> QED BY <1>1 DEF InputsMayBeOverwritten, Input

\* No layer computes in place of what a sink has read.
LEMMA SinkBlobs ==
    ASSUME NetworkI, ShapesI, OrderI, BlobI, SingleOutput, SinksRead, phase = "forward",
           NEW l \in ran, IsSink(net, l)
    PROVE  HoldsAt(result[l], net[l][1])
<1>1. /\ TypeI /\ ForwardI /\ Usable /\ net \in Networks /\ DOMAIN net \subseteq Nat \ {0}
      /\ l \in DOMAIN net /\ ran \subseteq DOMAIN net
  BY InRun DEF NetworkI, PassI, ForwardI
<1>2. 1 \in DOMAIN net[l]
  <2>1. ~IsSource(net, l)
    BY <1>1 DEF SinksRead
  <2> QED BY <1>1, <2>1, SizesFacts
<1> DEFINE m == Input(l, 1)
           o == net[l][1][2]
<1>3. net[l][1] = <<m, o>> /\ o \in Outputs(net, m) /\ m \in ran
  BY <1>1, <1>2, InRun DEF ForwardI
<1>4. lastUser[m][o] = Disabled
  <2>1. SinksDisable(net, lastUser, DOMAIN net)
    BY <1>1 DEF OrderI, UsersI
  <2> QED BY <1>1, <1>2, <2>1 DEF SinksDisable, Input
<1>5. Fresh(net[l][1])
  <2> SUFFICES ASSUME NEW y \in ran \cap inPlace, NEW u \in Outputs(net, y), net[y][u] = net[l][1]
               PROVE  FALSE
    BY DEF Fresh
  <2>1. y = Disabled
    BY <1>1, <1>4, OverwrittenFacts DEF Input
  <2> QED BY <1>1, <2>1 DEF Disabled
<1>6. result[l] = BlobAt(net[l][1]) /\ result[l] # NoBlob
  BY DEF BlobI, RunI
<1>7. Fresh(<<m, o>>) /\ outBlobs[m][o] # NoBlob => HoldsAt(outBlobs[m][o], <<m, o>>)
  BY <1>3 DEF BlobI, RunI
<1> HIDE DEF m, o
<1>8. BlobAt(net[l][1]) = outBlobs[m][o]
  BY <1>3 DEF BlobAt
<1> QED BY <1>3, <1>5, <1>6, <1>7, <1>8

\* What is asked for in the backward pass has not been computed in place of.
LEMMA EndForwardBlobs ==
    ASSUME NetworkI, ShapesI, OrderI, BlobI, SingleOutput, EndForward
    PROVE  BlobI'
<1>1. /\ phase = "forward" /\ phase' \in {"backward", "idle"} /\ (phase' = "backward" => backward)
      /\ PhaseOver
      /\ UNCHANGED <<net, lastUser, needed, inPlace, forced, backward, rebuildNeeded, userSize, runNumber,
                     inBlobs, outBlobs, content, result, ran, trained, backwardNeeded, learningOn, netLearning>>
  BY DEF EndForward, StartPhase, userVars, dnnVars, shapeVars, blobVars, diffVars
<1>2. /\ TypeI /\ CallI /\ KeptI /\ Usable /\ ForwardI /\ net \in Networks
      /\ DOMAIN net \subseteq Nat \ {0}
  BY <1>1, InRun DEF NetworkI, PassI
<1>3. KeptI'
  <2>1. \A m \in DOMAIN net : Named(m) => Named(m)'
    BY <1>1, NamedSame
  <2> QED BY <1>1, <1>2, <2>1, KeptOutside DEF Usable, KeptI, BlobTypeI, Sized
<1>4. ran = DOMAIN net
  BY <1>1, <1>2, AllRan
<1>5. \A b, p : HoldsAt(b, p)' <=> HoldsAt(b, p)
  BY <1>1 DEF HoldsAt, Holds, Value, UserBlob, Created
<1>7. SinksRead => \A l \in DOMAIN net : IsSink(net, l) => HoldsAt(result[l], net[l][1])
  BY <1>1, <1>4, SinkBlobs
<1>8. ASSUME InPlaceForgets, backward, NEW l \in DOMAIN net, "in" \in needed[l], NEW i \in DOMAIN net[l]
      PROVE  HoldsAt(inBlobs[l][i], net[l][i])
  <2>1. Fresh(net[l][i])
    <3> SUFFICES ASSUME NEW y \in ran \cap inPlace, NEW u \in Outputs(net, y), net[y][u] = net[l][i]
                 PROVE  FALSE
      BY DEF Fresh
    <3>1. u \in DOMAIN net[y] /\ Cardinality(Consumers(net, net[l][i])) = 1
      BY <1>1, <1>4, <1>8, OverwrittenFacts
    <3>2. <<y, u>> \in Consumers(net, net[l][i]) /\ <<l, i>> \in Consumers(net, net[l][i])
      <4> DEFINE m == Input(l, i)
                 o == net[l][i][2]
      <4>1. net[l][i] = <<m, o>> /\ net[y][u] = <<m, o>>
        BY <1>1, <1>8, InRun
      <4> HIDE DEF m, o
      <4>2. <<y, u>> \in Consumers(net, <<m, o>>) /\ <<l, i>> \in Consumers(net, <<m, o>>)
        BY <1>2, <1>4, <1>8, <3>1, <4>1, ConsumerPairs
      <4> QED BY <4>1, <4>2
    <3>3. l = y
      <4>1. IsFiniteSet(Consumers(net, net[l][i]))
        BY <1>2, NetworkFacts, ConsumerFacts
      <4> QED BY <3>1, <3>2, <4>1, FS_Singleton
    <3>4. l \in InPlaceLayers /\ needed[l] \subseteq BlobsForBackward[l] \cup BlobsForLearn[l]
      BY <1>1, <1>2, <3>3, InRun DEF KeptI, BlobTypeI
    <3> QED BY <1>8, <3>4 DEF InPlaceForgets
  <2> QED BY <1>1, <1>4, <1>8, <2>1 DEF BlobI, RunI
<1>9. ASSUME NEW l \in DOMAIN net, "out" \in needed[l], NEW o \in Outputs(net, l)
      PROVE  HoldsAt(outBlobs[l][o], <<l, o>>)
  <2>1. Fresh(<<l, o>>)
    <3> SUFFICES ASSUME NEW y \in ran \cap inPlace, NEW u \in Outputs(net, y), net[y][u] = <<l, o>>
                 PROVE  FALSE
      BY DEF Fresh
    <3>1. "out" \notin needed[Input(y, u)] /\ Input(y, u) = l
      BY <1>1, <1>4, OverwrittenFacts DEF Input
    <3> QED BY <1>9, <3>1
  <2> QED BY <1>1, <1>4, <1>9, <2>1 DEF BlobI, RunI
<1>10. BackI'
  BY <1>1, <1>5, <1>7, <1>8, <1>9 DEF BackI, Trainable, LearningNeeded
<1>11. RunI'
  BY <1>1 DEF RunI
<1> QED BY <1>3, <1>10, <1>11 DEF BlobI

\* The backward pass: the blobs of a layer are freed after it was trained.
LEMMA BackwardStepBlobs == ASSUME NetworkI, ShapesI, OrderI, BlobI, SingleOutput, BackwardStep PROVE BlobI'
<1> DEFINE Same == UNCHANGED <<net, lastUser, needed, inPlace, forced, backward, rebuildNeeded, userSize,
                               runNumber, content, result, backwardNeeded, learningOn, netLearning>>
<1>1. /\ phase = "backward" => TypeI /\ CallI /\ KeptI /\ Usable /\ BackI /\ TrainedI
      /\ DOMAIN outBlobs = Layers /\ DOMAIN result = Layers
  BY InRun DEF NetworkI, PassI, BlobI, KeptI, BlobTypeI
<1>2. ASSUME Same, phase = "backward", NEW freed \in SUBSET trained,
             \A l \in DOMAIN net : l \notin freed /\ Trainable(l) => UNCHANGED <<inBlobs[l], outBlobs[l]>>,
             \A l \in DOMAIN net : (Named(l) => Named(l)') /\ (~IsSource(net, l) /\ Sized(l) => Sized(l)'),
             DOMAIN outBlobs' = Layers, trained \subseteq trained', phase' \in {"backward", "idle"}
      PROVE  BlobI'
  <2>1. KeptI'
    BY <1>1, <1>2, KeptOutside DEF Usable
  <2>2. \A b, p : HoldsAt(b, p)' <=> HoldsAt(b, p)
    BY <1>2 DEF HoldsAt, Holds, Value, UserBlob, Created
  <2>3. \A l : Trainable(l)' <=> Trainable(l)
    BY <1>2 DEF Trainable, LearningNeeded
  <2>4. BackI'
    <3> SUFFICES ASSUME phase' = "backward"
                 PROVE  /\ SinksRead => \A l \in DOMAIN net : IsSink(net, l) => HoldsAt(result[l], net[l][1])
                        /\ \A l \in DOMAIN net \ trained' : Trainable(l) =>
                              /\ UNCHANGED <<inBlobs[l], outBlobs[l]>>
                              /\ InPlaceForgets /\ "in" \in needed[l] =>
                                    \A i \in DOMAIN net[l] : HoldsAt(inBlobs[l][i], net[l][i])
                              /\ "out" \in needed[l] =>
                                    \A o \in Outputs(net, l) : HoldsAt(outBlobs[l][o], <<l, o>>)
      BY <1>2, <2>2, <2>3 DEF BackI
    <3> QED BY <1>1, <1>2 DEF BackI
  <2> QED BY <1>2, <2>1, <2>4 DEF BlobI, RunI
<1>3. ASSUME Same, UNCHANGED <<inBlobs, outBlobs>>, phase = "backward", trained \subseteq trained',
             phase' \in {"backward", "idle"}
      PROVE  BlobI'
  <2>1. \A l \in DOMAIN net : (Named(l) => Named(l)') /\ (Sized(l) => Sized(l)')
    BY <1>3 DEF Named, Sized
  <2> QED BY <1>1, <1>2, <1>3, <2>1
<1>4. CASE EndBackward
  BY <1>3, <1>4 DEF EndBackward, StartPhase, userVars, dnnVars, shapeVars, blobVars, diffVars
<1>5. ASSUME NEW l \in Layers, BackSkip(l) PROVE BlobI'
  BY <1>3, <1>5 DEF BackSkip, Skip, userVars, dnnVars, shapeVars, blobVars, diffVars
<1>6. ASSUME NEW l \in Layers, BackLayer(l) PROVE BlobI'
  <2>1. Same /\ UNCHANGED <<inBlobs, outBlobs>> /\ phase = "backward" /\ trained \subseteq trained'
    BY <1>6 DEF BackLayer, userVars, dnnVars, shapeVars, blobVars
  <2>2. phase' = phase
    BY <1>6 DEF BackLayer, EnterAt
  <2> QED BY <1>3, <2>1, <2>2
<1>7. ASSUME NEW l \in Layers, BackThrows(l) PROVE BlobI'
  <2>1. phase = "backward" /\ phase' = "broken" /\ UNCHANGED <<outBlobs, result, inPlace>>
    BY <1>7 DEF BackThrows, StartPhase, shapeVars, blobVars
  <2>2. BlobTypeI'
    BY <1>1, <2>1 DEF KeptI, BlobTypeI
  <2> QED BY <2>1, <2>2, NoBlobsAsked DEF Usable
<1>8. ASSUME NEW l \in Layers, BackReset(l) PROVE BlobI'
  <2>1. /\ Same /\ phase = "backward" /\ phase' = phase /\ trained' = trained /\ Returned(l)
        /\ \/ UNCHANGED <<inBlobs, outBlobs>>
           \/ /\ inBlobs' = [inBlobs EXCEPT ![l] = NoBlobs(Len(inBlobs[l]))]
              /\ outBlobs' = [outBlobs EXCEPT ![l] = NoBlobs(Len(outBlobs[l]))]
    BY <1>8 DEF BackReset, Leave, userVars, dnnVars, shapeVars
  <2>2. CASE UNCHANGED <<inBlobs, outBlobs>>
    BY <1>3, <2>1, <2>2
  <2>3. CASE /\ inBlobs' = [inBlobs EXCEPT ![l] = NoBlobs(Len(inBlobs[l]))]
             /\ outBlobs' = [outBlobs EXCEPT ![l] = NoBlobs(Len(outBlobs[l]))]
    <3>1. /\ \A m \in Layers \ {l} : inBlobs'[m] = inBlobs[m] /\ outBlobs'[m] = outBlobs[m]
          /\ outBlobs'[l] = NoBlobs(Len(outBlobs[l])) /\ DOMAIN outBlobs' = Layers
          /\ DOMAIN net \subseteq Layers /\ net \in Networks
      BY <1>1, <2>1, <2>3, InRun DEF ShapesI, ShapeTypeI
    <3>2. Trainable(l) => l \in trained
      <4>1. OnStack(l)
        BY <1>1, <2>1, StackFacts DEF Returned, Top, OnStack
      <4> QED BY <1>1, <2>1, <4>1 DEF TrainedI, OnStack
    <3>3. ASSUME NEW m \in DOMAIN net
          PROVE  (Named(m) => Named(m)') /\ (~IsSource(net, m) /\ Sized(m) => Sized(m)')
      <4>1. CASE m = l
        <5>1. Named(l)'
          BY <3>1 DEF Named, NoBlobs
        <5>2. ASSUME Sized(l) PROVE Sized(l)'
          <6>1. OutputCount(net, l) \in Nat /\ Outputs(net, l) = 1 .. OutputCount(net, l)
            BY <3>1, OutputFacts
          <6> QED BY <2>1, <3>1, <5>2, <6>1, NoBlobsFacts DEF Sized
        <5> QED BY <4>1, <5>1, <5>2
      <4>2. CASE m # l
        BY <2>1, <3>1, <4>2 DEF Named, Sized
      <4> QED BY <4>1, <4>2
    <3>4. \A m \in DOMAIN net : m \notin {l} \cap trained /\ Trainable(m) => UNCHANGED <<inBlobs[m], outBlobs[m]>>
      BY <3>1, <3>2
    <3> QED BY <1>2, <2>1, <3>1, <3>3, <3>4
  <2> QED BY <2>1, <2>2, <2>3
<1> QED BY <1>4, <1>5, <1>6, <1>7, <1>8 DEF BackwardStep

LEMMA StutterBlobs == ASSUME BlobI, UNCHANGED vars PROVE BlobI'
<1>1. UNCHANGED <<net, rebuildNeeded, userSize, learningOn, netLearning, runNumber, backward, phase, sink,
                  stack, lastUser, backwardNeeded, forced, stale, inPlace, needed, inBlobs, outBlobs,
                  content, result, ran, trained>>
  BY DEF vars, userVars, dnnVars, callVars, shapeVars, blobVars, diffVars
<1>2. /\ Usable' = Usable /\ DoneLayers' = DoneLayers
      /\ \A l : /\ InputsMayBeOverwritten(l)' = InputsMayBeOverwritten(l)
                /\ Named(l)' = Named(l) /\ Own(l)' = Own(l) /\ Blank(l)' = Blank(l) /\ Sized(l)' = Sized(l)
                /\ Trainable(l)' = Trainable(l)
      /\ \A p : Fresh(p)' = Fresh(p) /\ BlobAt(p)' = BlobAt(p)
      /\ \A b, p : HoldsAt(b, p)' = HoldsAt(b, p)
  BY <1>1 DEF Usable, DoneLayers, OnStack, InputsMayBeOverwritten, Named, Own, Blank, Sized, Trainable,
              LearningNeeded, Fresh, BlobAt, HoldsAt, Holds, Value, UserBlob, Created
<1>3. KeptI'
  BY <1>1, <1>2 DEF BlobI, KeptI, BlobTypeI, OverI, OutI, EmptyI, NameI, RenameI
<1>4. RunI'
  BY <1>1, <1>2 DEF BlobI, RunI, Input
<1>5. BackI'
  BY <1>1, <1>2 DEF BlobI, BackI
<1> QED BY <1>3, <1>4, <1>5 DEF BlobI

\* The blobs of every network in which source layers and layers that compute in place have
\* one output at most.
LEMMA BlobInvariant ==
    ASSUME Careful, SingleOutput
    PROVE  Spec => [](NetworkI /\ ShapesI /\ OrderI /\ BlobI)
<1>1. Init => ShapesI /\ OrderI /\ BlobI
  BY ShapesInit, OrderInit, BlobInit
<1>2. NetworkI /\ NetworkI' /\ ShapesI /\ OrderI /\ BlobI /\ [Next]_vars => ShapesI' /\ OrderI' /\ BlobI'
  <2> SUFFICES ASSUME NetworkI, NetworkI', ShapesI, OrderI, BlobI, [Next]_vars
               PROVE  ShapesI' /\ OrderI' /\ BlobI'
    OBVIOUS
  <2>1. ShapesI'
    BY ShapesStep
  <2>2. OrderI'
    BY UserOrder, StepOrder, StutterOrder DEF Next
  <2>3. BlobI'
    <3>1. CASE User
      BY <3>1, UserBlobs
    <3>2. CASE BuildStep
      BY <3>2, BuildBlobs
    <3>3. CASE ReshapeStep
      BY <3>3, ReshapeBlobs
    <3>4. CASE ForwardStep
      BY <3>4, RunStepBlobs, RunLayerBlobs, RunThrowsBlobs, EndForwardBlobs DEF ForwardStep
    <3>5. CASE BackwardStep
      BY <3>5, BackwardStepBlobs
    <3>6. CASE UNCHANGED vars
      BY <3>6, StutterBlobs
    <3> QED BY <3>1, <3>2, <3>3, <3>4, <3>5, <3>6 DEF Next, Step
  <2> QED BY <2>1, <2>2, <2>3
<1> QED BY <1>1, <1>2, NetworkInvariant, PTL DEF Spec

\* What a layer reads when it computes is what the layers it is connected to have written
\* in this run, whatever was dropped by a last user, computed in place or kept from an
\* earlier run (runOnce, buildOrder, InputsMayBeOverwritten).
THEOREM InputsAreCurrent ==
    ASSUME Careful, SingleOutput
    PROVE  Spec => []InputsCurrent
<1>1. NetworkI /\ ShapesI /\ OrderI /\ BlobI => InputsCurrent
  <2> SUFFICES ASSUME NetworkI, ShapesI, OrderI, BlobI, NEW l \in Layers, AboutToRun(l)
               PROVE  /\ Len(inBlobs[l]) = Len(net[l])
                      /\ \A i \in DOMAIN net[l] :
                            Holds(outBlobs[net[l][i][1]][net[l][i][2]], Value(net[l][i][1], net[l][i][2]))
    BY DEF InputsCurrent
  <2>1. phase = "forward" /\ Returned(l)
    BY DEF AboutToRun
  <2>2. l \in DOMAIN net /\ \A i \in DOMAIN net[l] : HoldsAt(BlobAt(net[l][i]), net[l][i])
    BY <2>1, InputsThere
  <2>3. Fits(l)
    BY <2>1, <2>2, InRun DEF ShapesI, FitI
  <2> QED BY <2>2, <2>3 DEF Fits, HoldsAt, BlobAt
<1> QED BY <1>1, BlobInvariant, PTL

\* What a sink layer gave to the user stays as it was computed until the next run, although
\* other layers compute in place and are the last users of what it has read (buildOrder).
THEOREM ResultsAreIntact ==
    ASSUME Careful, SingleOutput, SinksRead
    PROVE  Spec => []ResultsIntact
<1>1. NetworkI /\ ShapesI /\ OrderI /\ BlobI => ResultsIntact
  <2> SUFFICES ASSUME NetworkI, ShapesI, OrderI, BlobI, phase \in {"forward", "backward"},
                      NEW l \in ran, IsSink(net, l)
               PROVE  HoldsAt(result[l], net[l][1])
    BY DEF ResultsIntact, HoldsAt
  <2>1. CASE phase = "forward"
    BY <2>1, SinkBlobs
  <2>2. CASE phase = "backward"
    <3>1. l \in DOMAIN net
      BY <2>2 DEF NetworkI, PassI, TrainedI
    <3> QED BY <2>2, <3>1 DEF BlobI, BackI
  <2> QED BY <2>1, <2>2
<1> QED BY <1>1, BlobInvariant, PTL

\* The blobs that BackwardOnce and LearnOnce say they need are there when they are called,
\* and no layer computing in place has overwritten them since, unless the learning of a single
\* layer has been switched since all layers were last forced (setAllocatedBlobs,
\* InputsMayBeOverwritten).
THEOREM NeededBlobsAreHeld ==
    ASSUME Careful, SingleOutput, InPlaceForgets
    PROVE  Spec => []NeededBlobsHeld
<1>1. NetworkI /\ ShapesI /\ OrderI /\ BlobI => NeededBlobsHeld
  <2> SUFFICES ASSUME NetworkI, ShapesI, OrderI, BlobI, ~relearned, NEW l \in Layers, AboutToTrain(l)
               PROVE  /\ "in" \in NeededNow(l) => \A i \in DOMAIN net[l] : HoldsAt(inBlobs[l][i], net[l][i])
                      /\ "out" \in NeededNow(l) => \A o \in Outputs(net, l) : HoldsAt(outBlobs[l][o], <<l, o>>)
    BY DEF NeededBlobsHeld, HoldsAt
  <2>1. phase = "backward" /\ Calls(l) /\ DiffsReady(l) /\ Trainable(l)
    BY DEF AboutToTrain, Trains, BackwardPerformed, LearningPerformed, Trainable
  <2>2. l \in DOMAIN net /\ l \notin trained
    BY <2>1, CallFacts, ReadyFacts DEF NetworkI
  <2>3. needed[l] = NeededNow(l)
    BY <2>1, <2>2, InRun
  <2> QED BY <2>1, <2>2, <2>3 DEF BlobI, BackI
<1> QED BY <1>1, BlobInvariant, PTL
=============================================================================
