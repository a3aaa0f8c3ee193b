-------------------------- MODULE RecurrentProofs --------------------------
(***************************************************************************)
(* A recurrent layer trains through time as it should for every inner      *)
(* network, of any size, with any number of back links, for sequences of   *)
(* any length, in any number of runs and with any use of it between them.  *)
(*                                                                         *)
(* Backward.  What a layer has received in a position are the terms of its *)
(* readers that were run back there, and of the back link whose capture    *)
(* sink reads it, one position later.  A capture sink reads what is        *)
(* computed from its back link, so it is run back before the back link is, *)
(* while the diff it holds is the one of the position after; and the diff  *)
(* of the run before is cleared when the back link runs in the last one.   *)
(*                                                                         *)
(* Forward.  A blob is shared by the layers of a line: a layer, the one it *)
(* computes in place of, and so on.  Two lines meet only where one is the  *)
(* other's beginning, for only the last user of a layer computes in place  *)
(* of it: what a layer writes is what nobody is still to read.  What is    *)
(* not written over, nor dropped before the last position, holds the items *)
(* of all the positions; the outputs and what the backward pass needs are  *)
(* such.  What a back link passes on is its history, carried.              *)
(***************************************************************************)
EXTENDS Recurrent, FiniteSetTheorems, SequenceTheorems, WellFoundedInduction, TLAPS

\* The back links of the inner network, and its composite sinks.
NetLinks == BackLinks \cap DOMAIN net
Outputs == {l \in DOMAIN net : IsSink(net, l)} \ Captures

Visited(l) == IndexIn(net, l) < at

-----------------------------------------------------------------------------
(* The invariants of the backward pass.                                    *)

TypeI ==
    /\ net \in Nets /\ reverse \in BOOLEAN /\ repeat \in Nat \ {0}
    /\ run \in Nat /\ training \in BOOLEAN
    /\ phase \in {"idle", "forward", "backward"}
    /\ step \in Nat /\ at \in Nat \ {0} /\ steps \in Nat
    /\ phase # "idle" => length \in Nat \ {0} /\ step < steps
    /\ phase = "backward" => training
    /\ DOMAIN captured = Captures /\ DOMAIN capturedDiff = Captures
    /\ DOMAIN inBlobs = Layers /\ DOMAIN outBlobs = Layers /\ DOMAIN sinkBlob = Layers
    /\ DOMAIN outDiffs = Layers /\ DOMAIN paramDiff = Layers /\ DOMAIN given = Layers

\* The layers are run back after those that read them.
CloseI ==
    phase = "backward" =>
        /\ todo \subseteq Trains(net)
        /\ \A m \in Trains(net) \ todo : Readers(net, m) \cap todo = {}

\* The terms that layer l has received in this position.
Arrived(l) ==
    {<<k[1], k[2], run, step>> : k \in {c \in Links(net, l) :
         c[1] \notin todo /\ c[1] \notin Captures /\ (c[1] \in BackLinks => step = 0)}}
    \cup {<<b, 0, run, step + 1>> : b \in {c \in BackLinks :
         ~LastStep /\ CaptureOf[c] \in Readers(net, l) /\ CaptureOf[c] \notin todo}}

SumI ==
    /\ phase = "forward" => \A l \in DOMAIN net : outDiffs[l] = {}
    /\ phase = "backward" =>
        \A l \in DOMAIN net : outDiffs[l] = IF l \in todo THEN Arrived(l) ELSE {}

\* The diff a capture sink holds is the one of the position its back link was last run back in.
LinkDiffI ==
    \A b \in NetLinks :
        /\ phase = "forward" /\ training /\ LastStep /\ Visited(b) => capturedDiff[CaptureOf[b]] = {}
        /\ phase = "backward" => capturedDiff[CaptureOf[b]] =
               IF b \notin todo THEN {<<b, 0, run, step>>}
               ELSE IF LastStep THEN {} ELSE {<<b, 0, run, step + 1>>}

\* The positions in which layer l was run back.
DoneBack(l) == IF l \in todo THEN step + 1 .. steps - 1 ELSE step .. steps - 1

\* A layer that learns adds up its diffs until it gives them all to the solver.
ParamI ==
    \A l \in Learnable \cap DOMAIN net :
        /\ phase = "backward" /\ (l \in todo \/ step > 0) =>
              paramDiff[l] = {run} \X DoneBack(l) /\ given[l] = <<>>
        /\ phase = "backward" /\ ~(l \in todo \/ step > 0) =>
              paramDiff[l] = {} /\ given[l] = <<{run} \X (0 .. steps - 1)>>
        /\ phase # "backward" => paramDiff[l] = {}
        /\ phase = "forward" => given[l] = <<>>

\* What the layers have passed to item j of source s in the positions of T.
PassedTo(s, j, T) ==
    {<<k[1][1], k[1][2], run, k[2]>> :
        k \in {c \in Links(net, s) \X T :
            /\ Position(c[2]) % ItemsOf(s, length) = j
            /\ c[1][1] \in BackLinks => c[2] = 0}}

InputDiffI ==
    /\ phase # "idle" => DOMAIN inputDiff = Sources \cap DOMAIN net
    /\ \A s \in Sources \cap DOMAIN net :
        /\ phase # "idle" => DOMAIN inputDiff[s] = 0 .. ItemsOf(s, length) - 1
        /\ phase = "forward" => \A j \in DOMAIN inputDiff[s] : inputDiff[s][j] = {}
        /\ phase = "backward" /\ s \in Trains(net) => \A j \in DOMAIN inputDiff[s] :
              inputDiff[s][j] = PassedTo(s, j, DoneBack(s))

-----------------------------------------------------------------------------
(* The graph.                                                              *)

LEMMA NetFacts ==
    ASSUME NEW n \in Nets
    PROVE  /\ DOMAIN n \subseteq Layers
           /\ \A l \in DOMAIN n : n[l] \in Seq(DOMAIN n)
           /\ \A l \in DOMAIN n : DOMAIN n[l] = 1 .. Len(n[l]) /\ Len(n[l]) \in Nat
           /\ \A l \in DOMAIN n : \A i \in DOMAIN n[l] : n[l][i] \in DOMAIN n
<1>1. DOMAIN n \subseteq Layers /\ \A l \in DOMAIN n : n[l] \in Seq(DOMAIN n)
    BY NetsAssumption
<1> QED
    BY <1>1

\* The order of the layers is a bijection with their places in it.
LEMMA OrderFacts ==
    ASSUME NEW n \in Nets
    PROVE  /\ Order[n] \in Seq(DOMAIN n)
           /\ DOMAIN Order[n] = 1 .. Len(Order[n]) /\ Len(Order[n]) \in Nat
           /\ \A l \in DOMAIN n : IndexIn(n, l) \in 1 .. Len(Order[n]) /\ Order[n][IndexIn(n, l)] = l
           /\ \A i \in 1 .. Len(Order[n]) : Order[n][i] \in DOMAIN n /\ IndexIn(n, Order[n][i]) = i
<1>1. /\ Order[n] \in Seq(DOMAIN n)
      /\ \A l \in DOMAIN n : \E i \in DOMAIN Order[n] : Order[n][i] = l
      /\ \A i, j \in DOMAIN Order[n] : Order[n][i] = Order[n][j] => i = j
    BY NetsAssumption
<1>2. DOMAIN Order[n] = 1 .. Len(Order[n]) /\ Len(Order[n]) \in Nat
    BY <1>1
<1>3. \A l \in DOMAIN n : IndexIn(n, l) \in DOMAIN Order[n] /\ Order[n][IndexIn(n, l)] = l
    BY <1>1 DEF IndexIn
<1>4. \A i \in DOMAIN Order[n] : Order[n][i] \in DOMAIN n
    BY <1>1, <1>2
<1> QED
    BY <1>1, <1>2, <1>3, <1>4

\* A layer is visited after the layers it reads.
LEMMA ReadersAreLater ==
    ASSUME NEW n \in Nets, NEW m \in DOMAIN n, NEW c \in Readers(n, m)
    PROVE  c \in DOMAIN n /\ IndexIn(n, m) < IndexIn(n, c)
BY NetsAssumption DEF Readers

LEMMA SinkFacts ==
    ASSUME NEW n \in Nets, NEW l \in DOMAIN n, IsSink(n, l)
    PROVE  /\ DOMAIN n[l] = {1} /\ Len(n[l]) = 1
           /\ l \notin Sources \cup BackLinks \cup Learnable \cup InPlaceLayers
<1>1. Len(n[l]) = 1 /\ l \notin Sources \cup BackLinks \cup Learnable \cup InPlaceLayers
    BY NetsAssumption
<1> QED
    BY <1>1, NetFacts

LEMMA BackLinkFacts ==
    ASSUME NEW n \in Nets, NEW b \in BackLinks \cap DOMAIN n
    PROVE  /\ CaptureOf[b] \in DOMAIN n /\ IsSink(n, CaptureOf[b]) /\ CaptureOf[b] \in Captures
           /\ \A S \in SUBSET DOMAIN n : CaptureOf[b] \in S /\ ClosedBack(n, S) => b \in S
BY NetsAssumption DEF Captures

LEMMA CaptureFacts ==
    ASSUME NEW n \in Nets, NEW c \in Captures \cap DOMAIN n
    PROVE  /\ \E b \in BackLinks \cap DOMAIN n : CaptureOf[b] = c
           /\ IsSink(n, c) /\ c \notin Sources \cup BackLinks
<1>1. \E b \in BackLinks \cap DOMAIN n : CaptureOf[b] = c
    BY NetsAssumption
<1> QED
    BY <1>1, BackLinkFacts, SinkFacts

LEMMA CapturesDiffer ==
    \A b, d \in BackLinks : CaptureOf[b] = CaptureOf[d] => b = d
BY RecurrentAssumption

\* A capture sink reads no source.
LEMMA CaptureReadsNoSource ==
    ASSUME NEW n \in Nets, NEW s \in Sources \cap DOMAIN n, NEW c \in Captures
    PROVE  c \notin Readers(n, s)
<1> SUFFICES ASSUME c \in Readers(n, s) PROVE FALSE
    OBVIOUS
<1>1. c \in Captures \cap DOMAIN n /\ \E i \in DOMAIN n[c] : n[c][i] = s
    BY DEF Readers
<1>2. PICK b \in BackLinks \cap DOMAIN n : CaptureOf[b] = c
    BY <1>1, CaptureFacts
<1>3. IsSink(n, c) /\ DOMAIN n[c] = {1} /\ c \notin BackLinks
    BY <1>1, CaptureFacts, SinkFacts
<1>4. n[c][1] = s
    BY <1>1, <1>3
<1>5. n[s] = <<>>
    BY NetsAssumption DEF IsSource
<1>6. ClosedBack(n, {c, s})
    BY <1>3, <1>4, <1>5 DEF ClosedBack
<1>7. b \in {c, s}
    BY <1>1, <1>2, <1>6, BackLinkFacts
<1> QED
    BY <1>3, <1>7, RecurrentAssumption

\* What reads a layer that trains needs backward, and so do the back links.
LEMMA NeedsSpread ==
    ASSUME NEW n \in Nets
    PROVE  /\ BackwardNeeded[n] \subseteq DOMAIN n
           /\ \A b \in BackLinks \cap DOMAIN n : b \in BackwardNeeded[n]
           /\ \A m \in Trains(n) : \A c \in Readers(n, m) : c \in BackwardNeeded[n]
<1> DEFINE needs(S) == {l \in DOMAIN n :
                            \/ l \in BackLinks
                            \/ l \in Sources /\ InputsNeedBackward
                            \/ \E i \in DOMAIN n[l] : n[l][i] \in S \cup Learnable}
           closed(S) == needs(S) \subseteq S
           B == {l \in DOMAIN n : \A S \in SUBSET DOMAIN n : closed(S) => l \in S}
<1>1. BackwardNeeded[n] = B
    BY DEF BackwardNeeded
<1>2. \A b \in BackLinks \cap DOMAIN n : b \in B
    OBVIOUS
<1>3. ASSUME NEW m \in B \cup Learnable, NEW c \in Readers(n, m)
      PROVE  c \in B
    <2>1. c \in DOMAIN n /\ \E i \in DOMAIN n[c] : n[c][i] = m
        BY DEF Readers
    <2>2. ASSUME NEW S \in SUBSET DOMAIN n, closed(S) PROVE c \in S
        <3>1. m \in S \cup Learnable
            BY <2>2
        <3> QED BY <2>1, <2>2, <3>1
    <2> QED BY <2>1, <2>2
<1> QED
    BY <1>1, <1>2, <1>3 DEF Trains

-----------------------------------------------------------------------------
(* The steps.                                                              *)

\* The calls of the user that begin no run.
Setting == \/ SetAutoRestartMode \/ RestartSequence \/ SetState \/ SetReverseSequence
           \/ \E count \in Repeats : SetRepeatCount(count)

\* Layer l is run, forward or back.
Runs(l) == RunSource(l) \/ RunCapture(l) \/ RunSink(l) \/ RunBackLink(l) \/ RunLayer(l)
RunsBackward(l) == BackSource(l) \/ BackBackLink(l) \/ BackLayer(l)

LEMMA StepCases ==
    ASSUME [Next]_vars
    PROVE  \/ Setting \/ (\E train \in BOOLEAN, len \in Lengths : Begin(train, len))
           \/ (\E l \in Layers : Runs(l)) \/ NextPosition \/ EndForward
           \/ (\E l \in Layers : RunsBackward(l)) \/ NextPositionBack \/ EndBackward
           \/ UNCHANGED vars
BY DEF Next, User, Forward, Backward, Setting, Runs, RunsBackward

LEMMA SettingFacts ==
    ASSUME TypeI, Setting
    PROVE  /\ phase = "idle" /\ phase' = "idle" /\ net' = net /\ run' = run /\ training' = training
           /\ step' = step /\ steps' = steps /\ at' = at /\ todo' = todo /\ length' = length
           /\ reuse' = reuse /\ inPlace' = inPlace /\ repeat' \in Nat \ {0} /\ reverse' \in BOOLEAN
           /\ capturedDiff' = capturedDiff /\ DOMAIN captured' = Captures
           /\ carried' = carried /\ sinkBlob' = sinkBlob /\ content' = content
           /\ inBlobs' = inBlobs /\ outBlobs' = outBlobs /\ outDiffs' = outDiffs
           /\ paramDiff' = paramDiff /\ given' = given /\ inputDiff' = inputDiff
<1> USE DEF May, userVars, runVars, callVars, linkVars, blobVars, diffVars
<1>1. CASE SetAutoRestartMode
    BY <1>1 DEF SetAutoRestartMode, TypeI
<1>2. CASE RestartSequence
    BY <1>2 DEF RestartSequence, TypeI
<1>3. CASE SetState
    BY <1>3 DEF SetState, TypeI
<1>4. CASE SetReverseSequence
    BY <1>4 DEF SetReverseSequence, TypeI
<1>5. ASSUME NEW count \in Repeats, SetRepeatCount(count)
      PROVE  repeat' \in Nat \ {0} /\ UNCHANGED <<phase, net, run, training, step, steps, at, todo,
                 length, reuse, inPlace, reverse, linkVars, blobVars, diffVars>> /\ phase = "idle"
    BY <1>5, RecurrentAssumption DEF SetRepeatCount
<1> QED
    BY <1>1, <1>2, <1>3, <1>4, <1>5 DEF Setting, TypeI

LEMMA Product ==
    ASSUME NEW a \in Nat \ {0}, NEW b \in Nat \ {0}
    PROVE  a * b \in Nat \ {0}
OBVIOUS

LEMMA BeginFacts ==
    ASSUME TypeI, NEW train \in BOOLEAN, NEW len \in Lengths, Begin(train, len)
    PROVE  /\ phase = "idle" /\ phase' = "forward" /\ net' = net /\ run' = run + 1
           /\ training' = train /\ step' = 0 /\ at' = 1 /\ todo' = {} /\ reverse' = reverse
           /\ length' = len /\ len \in Nat \ {0} /\ steps' = len * repeat /\ steps' \in Nat \ {0}
           /\ repeat' = repeat /\ capturedDiff' = capturedDiff /\ DOMAIN captured' = Captures
           /\ DOMAIN inBlobs' = Layers /\ DOMAIN outBlobs' = Layers /\ DOMAIN sinkBlob' = Layers
           /\ outDiffs' = [l \in Layers |-> {}] /\ paramDiff' = paramDiff
           /\ given' = [l \in Layers |-> <<>>]
           /\ inputDiff' = [s \in Sources \cap DOMAIN net |->
                                [j \in 0 .. ItemsOf(s, len) - 1 |-> {}]]
<1>1. len \in Nat \ {0} /\ len * repeat \in Nat \ {0}
    BY RecurrentAssumption, Product DEF TypeI
<1>2. DOMAIN captured' = Captures
    BY DEF Begin, TypeI
<1>3. DOMAIN inBlobs' = Layers /\ DOMAIN outBlobs' = Layers /\ DOMAIN sinkBlob' = Layers
    BY DEF Begin, TypeI
<1>4. inputDiff' = [s \in Sources \cap DOMAIN net |-> [j \in 0 .. ItemsOf(s, len) - 1 |-> {}]]
    BY DEF Begin
<1> QED
    BY <1>1, <1>2, <1>3, <1>4 DEF Begin

\* What running a layer forward leaves alone.
LEMMA RunsFacts ==
    ASSUME TypeI, NEW l \in Layers, Runs(l)
    PROVE  /\ phase = "forward" /\ phase' = "forward" /\ net' = net /\ run' = run
           /\ training' = training /\ step' = step /\ steps' = steps /\ length' = length
           /\ todo' = todo /\ reverse' = reverse /\ repeat' = repeat /\ reuse' = reuse
           /\ inPlace' = inPlace /\ state' = state /\ carried' = carried
           /\ l \in DOMAIN net /\ IndexIn(net, l) = at /\ at' = at + 1
           /\ Running(l) /\ RunsOnce(l)
           /\ DOMAIN captured' = Captures /\ DOMAIN capturedDiff' = Captures
           /\ DOMAIN inBlobs' = Layers /\ DOMAIN outBlobs' = Layers /\ DOMAIN sinkBlob' = Layers
           /\ outDiffs' = outDiffs /\ paramDiff' = paramDiff /\ given' = given /\ inputDiff' = inputDiff
<1>1. Running(l) /\ RunsOnce(l)
    BY DEF Runs, RunSource, RunCapture, RunSink, RunBackLink, RunLayer
<1>2. state' = state /\ carried' = carried
    BY DEF Runs, RunSource, RunCapture, RunSink, RunBackLink, RunLayer, linkVars
<1>3. DOMAIN captured' = Captures
    BY DEF Runs, RunSource, RunCapture, RunSink, RunBackLink, RunLayer, linkVars, TypeI
<1>4. DOMAIN capturedDiff' = Captures
    BY DEF Runs, RunSource, RunCapture, RunSink, RunBackLink, RunLayer, linkVars, TypeI
<1>5. DOMAIN sinkBlob' = Layers
    BY DEF Runs, RunSource, RunCapture, RunSink, RunBackLink, RunLayer, TypeI
<1>6. /\ l \in DOMAIN net /\ IndexIn(net, l) = at
    <2>1. at \in 1 .. Len(Order[net]) /\ l = Order[net][at]
        BY <1>1, OrderFacts DEF Running, TypeI
    <2> QED BY <2>1, OrderFacts DEF TypeI
<1>7. DOMAIN inBlobs' = Layers /\ DOMAIN outBlobs' = Layers
    BY <1>1 DEF RunsOnce, TypeI
<1>8. UNCHANGED <<userVars, runVars, phase, step, todo, result, diffVars>> /\ at' = at + 1
    BY <1>1 DEF RunsOnce
<1> QED
    BY <1>1, <1>2, <1>3, <1>4, <1>5, <1>6, <1>7, <1>8 DEF Running, userVars, runVars, diffVars

\* What running a layer back leaves alone.
LEMMA RunsBackFacts ==
    ASSUME TypeI, NEW l \in Layers, RunsBackward(l)
    PROVE  /\ phase = "backward" /\ phase' = "backward" /\ net' = net /\ run' = run
           /\ training' = training /\ step' = step /\ steps' = steps /\ length' = length
           /\ todo' = todo \ {l} /\ reverse' = reverse /\ repeat' = repeat /\ reuse' = reuse
           /\ inPlace' = inPlace /\ state' = state /\ carried' = carried /\ captured' = captured
           /\ at' = at /\ content' = content /\ sinkBlob' = sinkBlob
           /\ RunningBack(l) /\ RunsBack(l)
           /\ DOMAIN capturedDiff' = Captures
           /\ DOMAIN inBlobs' = Layers /\ DOMAIN outBlobs' = Layers
           /\ DOMAIN outDiffs' = Layers /\ DOMAIN paramDiff' = Layers /\ DOMAIN given' = Layers
<1>1. RunsBack(l)
    BY DEF RunsBackward, BackSource, BackBackLink, BackLayer
<1>2. DOMAIN capturedDiff' = Captures
    BY DEF RunsBackward, BackSource, BackBackLink, BackLayer, TypeI
<1>3. DOMAIN paramDiff' = Layers /\ DOMAIN given' = Layers
    BY DEF RunsBackward, BackSource, BackBackLink, BackLayer, Learn, TypeI
<1>4. DOMAIN inBlobs' = Layers /\ DOMAIN outBlobs' = Layers
    BY <1>1 DEF RunsBack, TypeI
<1>5. /\ UNCHANGED <<userVars, runVars, phase, step, at, first, captured, state, carried, content,
                     sinkBlob, result>>
      /\ RunningBack(l) /\ todo' = todo \ {l} /\ DOMAIN outDiffs' = Layers
    BY <1>1 DEF RunsBack
<1> QED
    BY <1>1, <1>2, <1>3, <1>4, <1>5 DEF RunningBack, userVars, runVars

LEMMA NextPositionFacts ==
    ASSUME TypeI, NextPosition
    PROVE  /\ phase = "forward" /\ at > Len(Order[net]) /\ ~LastStep /\ step' = step + 1 /\ at' = 1
           /\ step + 1 < steps
           /\ UNCHANGED <<net, gpu, repeat, reverse, autoRestart, reshapeAsked, inPlace, run, uses,
                          training, reuse, length, steps, phase, todo, first, captured, capturedDiff,
                          state, inBlobs, outBlobs, content, sinkBlob, result, outDiffs, paramDiff,
                          given, inputDiff>>
BY DEF NextPosition, PositionDone, LastStep, TypeI, userVars, runVars, blobVars, diffVars

LEMMA EndForwardFacts ==
    ASSUME TypeI, EndForward
    PROVE  /\ phase = "forward" /\ at > Len(Order[net]) /\ LastStep /\ step = steps - 1
           /\ (training /\ phase' = "backward" /\ todo' = Trains(net))
              \/ (~training /\ phase' = "idle" /\ todo' = todo)
           /\ DOMAIN outBlobs' = Layers /\ DOMAIN sinkBlob' = Layers
           /\ UNCHANGED <<net, gpu, repeat, reverse, autoRestart, reshapeAsked, inPlace, run, uses,
                          training, reuse, length, steps, step, at, first, captured, capturedDiff,
                          carried, inBlobs, content, outDiffs, paramDiff, given, inputDiff>>
BY DEF EndForward, PositionDone, LastStep, TypeI, userVars, runVars, diffVars

LEMMA NextPositionBackFacts ==
    ASSUME TypeI, NextPositionBack
    PROVE  /\ phase = "backward" /\ todo = {} /\ step > 0 /\ step' = step - 1 /\ todo' = Trains(net)
           /\ UNCHANGED <<net, gpu, repeat, reverse, autoRestart, reshapeAsked, inPlace, run, uses,
                          training, reuse, length, steps, phase, at, first, captured, capturedDiff,
                          state, carried, inBlobs, outBlobs, content, sinkBlob, result, outDiffs,
                          paramDiff, given, inputDiff>>
BY DEF NextPositionBack, PositionDoneBack, userVars, runVars, linkVars, blobVars, diffVars

LEMMA EndBackwardFacts ==
    ASSUME TypeI, EndBackward
    PROVE  /\ phase = "backward" /\ phase' = "idle" /\ todo = {} /\ step = 0
           /\ UNCHANGED <<net, gpu, repeat, reverse, autoRestart, reshapeAsked, inPlace, run, uses,
                          training, reuse, length, steps, step, at, todo, first, captured,
                          capturedDiff, state, carried, inBlobs, outBlobs, content, sinkBlob,
                          result, outDiffs, paramDiff, given, inputDiff>>
BY DEF EndBackward, PositionDoneBack, userVars, runVars, linkVars, blobVars, diffVars

LEMMA Stuttering ==
    ASSUME UNCHANGED vars
    PROVE  UNCHANGED <<net, gpu, repeat, reverse, autoRestart, reshapeAsked, inPlace, run, uses,
                       training, reuse, length, steps, phase, step, at, todo, first, captured,
                       capturedDiff, state, carried, inBlobs, outBlobs, content, sinkBlob,
                       result, outDiffs, paramDiff, given, inputDiff>>
BY DEF vars, userVars, runVars, callVars, linkVars, blobVars, diffVars

LEMMA TypeStep ==
    ASSUME TypeI, [Next]_vars
    PROVE  TypeI'
<1>1. CASE Setting
    BY <1>1, SettingFacts DEF TypeI
<1>2. ASSUME NEW train \in BOOLEAN, NEW len \in Lengths, Begin(train, len)
      PROVE  TypeI'
    BY <1>2, BeginFacts DEF TypeI
<1>3. ASSUME NEW l \in Layers, Runs(l)
      PROVE  TypeI'
    BY <1>3, RunsFacts DEF TypeI
<1>4. CASE NextPosition
    BY <1>4, NextPositionFacts DEF TypeI
<1>5. CASE EndForward
    BY <1>5, EndForwardFacts DEF TypeI
<1>6. ASSUME NEW l \in Layers, RunsBackward(l)
      PROVE  TypeI'
    BY <1>6, RunsBackFacts DEF TypeI
<1>7. CASE NextPositionBack
    BY <1>7, NextPositionBackFacts DEF TypeI
<1>8. CASE EndBackward
    BY <1>8, EndBackwardFacts DEF TypeI
<1>9. CASE UNCHANGED vars
    BY <1>9, Stuttering DEF TypeI
<1> QED
    BY <1>1, <1>2, <1>3, <1>4, <1>5, <1>6, <1>7, <1>8, <1>9, StepCases

-----------------------------------------------------------------------------
(* The diffs of a position.                                                *)

\* A capture sink is run back before its back link.
LEMMA CaptureGoesFirst ==
    ASSUME TypeI, CloseI, phase = "backward", NEW b \in NetLinks, CaptureOf[b] \in todo
    PROVE  b \in todo
<1> DEFINE S == {x \in DOMAIN net : x \in todo \/ x \notin Trains(net)}
<1>1. net \in Nets
    BY DEF TypeI
<1>2. ASSUME NEW x \in S, NEW i \in DOMAIN net[x], net[x][i] \notin S
      PROVE  FALSE
    <2>1. net[x][i] \in Trains(net) \ todo /\ x \in Readers(net, net[x][i])
        BY <1>1, <1>2, NetFacts DEF Readers
    <2>2. x \notin todo /\ x \in BackwardNeeded[net]
        BY <1>1, <2>1, NeedsSpread DEF CloseI
    <2> QED
        BY <1>2, <2>2 DEF Trains
<1>3. ClosedBack(net, S)
    BY <1>2 DEF ClosedBack
<1>4. b \in S
    <2>1. S \in SUBSET DOMAIN net
        OBVIOUS
    <2>2. CaptureOf[b] \in S
        BY <1>1, BackLinkFacts DEF NetLinks
    <2> HIDE DEF S
    <2> QED
        BY <1>1, <1>3, <2>1, <2>2, BackLinkFacts DEF NetLinks
<1>5. b \in Trains(net)
    BY <1>1, NeedsSpread DEF NetLinks, Trains
<1> QED
    BY <1>4, <1>5

LEMMA CloseStep ==
    ASSUME TypeI, CloseI, [Next]_vars
    PROVE  CloseI'
<1>1. CASE Setting
    BY <1>1, SettingFacts DEF CloseI
<1>2. ASSUME NEW train \in BOOLEAN, NEW len \in Lengths, Begin(train, len)
      PROVE  CloseI'
    BY <1>2, BeginFacts DEF CloseI
<1>3. ASSUME NEW l \in Layers, Runs(l)
      PROVE  CloseI'
    BY <1>3, RunsFacts DEF CloseI
<1>4. CASE NextPosition
    BY <1>4, NextPositionFacts DEF CloseI
<1>5. CASE EndForward
    BY <1>5, EndForwardFacts DEF CloseI
<1>6. ASSUME NEW l \in Layers, RunsBackward(l)
      PROVE  CloseI'
    BY <1>6, RunsBackFacts DEF CloseI, RunningBack
<1>7. CASE NextPositionBack
    BY <1>7, NextPositionBackFacts DEF CloseI
<1>8. CASE EndBackward
    BY <1>8, EndBackwardFacts DEF CloseI
<1>9. CASE UNCHANGED vars
    BY <1>9, Stuttering DEF CloseI
<1> QED
    BY <1>1, <1>2, <1>3, <1>4, <1>5, <1>6, <1>7, <1>8, <1>9, StepCases

\* Nothing has arrived where the readers are all still to be run back.
LEMMA NothingArrived ==
    ASSUME NEW n \in Nets, NEW l \in Trains(n)
    PROVE  /\ \A k \in Links(n, l) : k[1] \in Trains(n)
           /\ \A c \in Readers(n, l) : c \in Trains(n)
<1>1. \A c \in Readers(n, l) : c \in Trains(n)
    BY NeedsSpread DEF Trains
<1>2. \A k \in Links(n, l) : k[1] \in Readers(n, l)
    BY DEF Links, Readers
<1> QED
    BY <1>1, <1>2

\* What layer l passes to a layer that trains is what it then lacks.
LEMMA PassedFacts ==
    ASSUME TypeI, CloseI, LinkDiffI, NEW l \in Layers, RunningBack(l), NEW i,
           NEW m \in Trains(net), <<l, i>> \in Links(net, m)
    PROVE  /\ l \notin Captures =>
                 Passed(l, i) = IF l \in BackLinks => step = 0 THEN {<<l, i, run, step>>} ELSE {}
           /\ l \in Captures => \E b \in NetLinks :
                 /\ CaptureOf[b] = l
                 /\ Passed(l, i) = IF LastStep THEN {} ELSE {<<b, 0, run, step + 1>>}
<1>1. CASE l \in Captures
    <2>1. l \in DOMAIN net
        BY DEF Links
    <2>2. PICK b \in NetLinks : CaptureOf[b] = l
        BY <1>1, <2>1, CaptureFacts DEF TypeI, NetLinks
    <2>3. b \in todo
        BY <2>2, CaptureGoesFirst DEF RunningBack
    <2> QED
        BY <1>1, <2>2, <2>3 DEF LinkDiffI, RunningBack, Passed
<1>2. CASE l \notin Captures
    BY <1>2 DEF Passed, TypeI
<1> QED BY <1>1, <1>2

\* The links to a layer are those of its readers.
LEMMA ReaderLinks ==
    ASSUME NEW n, NEW m
    PROVE  /\ \A c \in Readers(n, m) : c \in DOMAIN n /\ \E i \in DOMAIN n[c] : <<c, i>> \in Links(n, m)
           /\ \A k \in Links(n, m) : /\ k = <<k[1], k[2]>> /\ k[1] \in Readers(n, m) /\ k[1] \in DOMAIN n
                                    /\ k[2] \in DOMAIN n[k[1]] /\ n[k[1]][k[2]] = m
BY DEF Readers, Links

\* The links of layer m to layer l.
LinksFrom(l, m) == {c \in Links(net, m) : c[1] = l}

LEMMA MoreArrives ==
    ASSUME TypeI, CloseI, LinkDiffI, NEW l \in Layers, RunsBackward(l),
           NEW m \in Trains(net), m # l, m \in todo
    PROVE  Arrived(m)' = Arrived(m) \cup UNION {Passed(k[1], k[2]) : k \in LinksFrom(l, m)}
<1>1. /\ todo' = todo \ {l} /\ l \in todo /\ RunningBack(l)
      /\ UNCHANGED <<net, run, step, steps>>
    BY RunsBackFacts DEF RunningBack
<1> DEFINE Straight(T) == {<<k[1], k[2], run, step>> : k \in {c \in Links(net, m) :
                  c[1] \notin T /\ c[1] \notin Captures /\ (c[1] \in BackLinks => step = 0)}}
           Back(T) == {<<b, 0, run, step + 1>> : b \in {c \in BackLinks :
                  ~LastStep /\ CaptureOf[c] \in Readers(net, m) /\ CaptureOf[c] \notin T}}
<1>2. Arrived(m) = Straight(todo) \cup Back(todo) /\ Arrived(m)' = Straight(todo \ {l}) \cup Back(todo \ {l})
    BY <1>1 DEF Arrived, LastStep
<1>3. \A k \in LinksFrom(l, m) : k = <<l, k[2]>> /\ k \in Links(net, m)
    BY DEF LinksFrom, Links
<1>4. CASE l \in Captures
    <2>1. PICK b \in NetLinks : CaptureOf[b] = l
        <3>1. CASE l \in DOMAIN net
            BY <1>4, <3>1, CaptureFacts DEF TypeI, NetLinks
        <3>2. CASE l \notin DOMAIN net
            BY <1>1, <3>2 DEF CloseI, RunningBack, Trains
        <3> QED BY <3>1, <3>2
    <2>2. Straight(todo \ {l}) = Straight(todo)
        BY <1>4
    <2>3. CASE LinksFrom(l, m) = {}
        <3>1. l \notin Readers(net, m)
            <4>1. ASSUME NEW i, <<l, i>> \in Links(net, m) PROVE <<l, i>> \in LinksFrom(l, m)
                BY <4>1 DEF LinksFrom
            <4> QED BY <2>3, <4>1, ReaderLinks
        <3>2. Back(todo \ {l}) = Back(todo)
            BY <3>1
        <3>3. UNION {Passed(k[1], k[2]) : k \in LinksFrom(l, m)} = {}
            BY <2>3
        <3> HIDE DEF Straight, Back
        <3> QED BY <1>2, <2>2, <3>2, <3>3
    <2>4. CASE LinksFrom(l, m) # {}
        <3>1. l \in Readers(net, m)
            BY <2>4 DEF LinksFrom, Links, Readers
        <3>2. \A k \in LinksFrom(l, m) :
                 Passed(k[1], k[2]) = IF LastStep THEN {} ELSE {<<b, 0, run, step + 1>>}
            <4> SUFFICES ASSUME NEW k \in LinksFrom(l, m)
                         PROVE  Passed(k[1], k[2]) = IF LastStep THEN {} ELSE {<<b, 0, run, step + 1>>}
                OBVIOUS
            <4>1. k[1] = l /\ <<l, k[2]>> \in Links(net, m)
                BY <1>3 DEF LinksFrom
            <4>2. PICK d \in NetLinks :
                     /\ CaptureOf[d] = l
                     /\ Passed(l, k[2]) = IF LastStep THEN {} ELSE {<<d, 0, run, step + 1>>}
                BY <1>1, <1>4, <4>1, PassedFacts
            <4>3. d = b
                BY <2>1, <4>2, CapturesDiffer DEF NetLinks
            <4> QED BY <4>1, <4>2, <4>3
        <3>3. UNION {Passed(k[1], k[2]) : k \in LinksFrom(l, m)}
                 = IF LastStep THEN {} ELSE {<<b, 0, run, step + 1>>}
            BY <2>4, <3>2
        <3>4. Back(todo \ {l}) = Back(todo) \cup (IF LastStep THEN {} ELSE {<<b, 0, run, step + 1>>})
            <4>1. \A c \in BackLinks : CaptureOf[c] = l <=> c = b
                BY <2>1, CapturesDiffer DEF NetLinks
            <4> QED BY <1>1, <2>1, <3>1, <4>1 DEF NetLinks
        <3> HIDE DEF Straight, Back
        <3> QED BY <1>2, <2>2, <3>3, <3>4
    <2> QED BY <2>3, <2>4
<1>5. CASE l \notin Captures
    <2>1. Back(todo \ {l}) = Back(todo)
        BY <1>5 DEF Captures
    <2>2. \A k \in LinksFrom(l, m) :
             Passed(k[1], k[2]) = IF l \in BackLinks => step = 0 THEN {<<k[1], k[2], run, step>>} ELSE {}
        <3> SUFFICES ASSUME NEW k \in LinksFrom(l, m)
                     PROVE  Passed(k[1], k[2]) = IF l \in BackLinks => step = 0
                                                 THEN {<<k[1], k[2], run, step>>} ELSE {}
            OBVIOUS
        <3>1. k[1] = l /\ <<l, k[2]>> \in Links(net, m)
            BY <1>3 DEF LinksFrom
        <3> QED BY <1>1, <1>5, <3>1, PassedFacts
    <2>3. Straight(todo \ {l}) = Straight(todo) \cup
             {<<k[1], k[2], run, step>> : k \in {c \in LinksFrom(l, m) : l \in BackLinks => step = 0}}
        BY <1>1, <1>5 DEF LinksFrom
    <2>4. UNION {Passed(k[1], k[2]) : k \in LinksFrom(l, m)} =
             {<<k[1], k[2], run, step>> : k \in {c \in LinksFrom(l, m) : l \in BackLinks => step = 0}}
        BY <2>2
    <2> HIDE DEF Straight, Back
    <2> QED BY <1>2, <2>1, <2>3, <2>4
<1> QED BY <1>4, <1>5

LEMMA SumStep ==
    ASSUME TypeI, CloseI, SumI, LinkDiffI, [Next]_vars
    PROVE  SumI'
<1>1. CASE Setting
    BY <1>1, SettingFacts DEF SumI
<1>2. ASSUME NEW train \in BOOLEAN, NEW len \in Lengths, Begin(train, len)
      PROVE  SumI'
    BY <1>2, BeginFacts, NetFacts DEF SumI, TypeI
<1>3. ASSUME NEW l \in Layers, Runs(l)
      PROVE  SumI'
    BY <1>3, RunsFacts DEF SumI
<1>4. CASE NextPosition
    BY <1>4, NextPositionFacts DEF SumI
<1>5. CASE EndForward
    <2>1. CASE phase' = "backward"
        <3>1. todo' = Trains(net)' /\ TypeI'
            BY <1>5, <2>1, EndForwardFacts, TypeStep
        <3>2. \A l \in todo' : Arrived(l)' = {}
            BY <3>1, NothingArrived DEF Arrived, TypeI
        <3>3. \A l \in DOMAIN net : outDiffs'[l] = {}
            BY <1>5, EndForwardFacts DEF SumI
        <3> QED
            BY <1>5, <2>1, <3>2, <3>3, EndForwardFacts DEF SumI
    <2> QED
        BY <1>5, <2>1, EndForwardFacts DEF SumI
<1>6. ASSUME NEW l \in Layers, RunsBackward(l)
      PROVE  SumI'
    <2>1. /\ phase = "backward" /\ phase' = "backward" /\ todo' = todo \ {l} /\ l \in todo /\ net' = net
          /\ Readers(net, l) \cap todo = {}
        BY <1>6, RunsBackFacts DEF RunningBack
    <2>2. \A m \in Layers : outDiffs'[m] =
             IF m = l THEN {}
             ELSE IF BackwardPerformed(l) /\ m \in DOMAIN net /\ m \in Trains(net)
             THEN outDiffs[m] \cup UNION {Passed(k[1], k[2]) : k \in LinksFrom(l, m)}
             ELSE outDiffs[m]
        BY <1>6, RunsBackFacts DEF RunsBack, LinksFrom
    <2>3. ASSUME NEW m \in DOMAIN net
          PROVE  outDiffs'[m] = IF m \in todo \ {l} THEN Arrived(m)' ELSE {}
        <3>1. m \in Layers
            BY NetFacts DEF TypeI
        <3>2. CASE m = l
            BY <2>2, <3>1, <3>2
        <3>3. CASE m # l /\ m \notin todo
            <4>1. outDiffs[m] = {}
                BY <2>1, <3>3 DEF SumI
            <4>2. CASE m \in Trains(net)
                <5>1. l \notin Readers(net, m)
                    BY <2>1, <3>3, <4>2 DEF CloseI
                <5>2. LinksFrom(l, m) = {}
                    BY <5>1, ReaderLinks DEF LinksFrom
                <5> QED BY <2>2, <3>1, <3>3, <4>1, <5>2
            <4> QED BY <2>2, <3>1, <3>3, <4>1, <4>2
        <3>4. CASE m # l /\ m \in todo
            <4>1. outDiffs[m] = Arrived(m) /\ m \in Trains(net)
                BY <2>1, <3>4 DEF SumI, CloseI
            <4>2. Arrived(m)' = Arrived(m) \cup UNION {Passed(k[1], k[2]) : k \in LinksFrom(l, m)}
                BY <1>6, <3>4, <4>1, MoreArrives
            <4>3. CASE LinksFrom(l, m) = {}
                <5>1. UNION {Passed(k[1], k[2]) : k \in LinksFrom(l, m)} = {}
                    BY <4>3
                <5> QED BY <2>2, <3>1, <3>4, <4>1, <4>2, <5>1
            <4>4. CASE LinksFrom(l, m) # {}
                <5>1. l \in Readers(net, m)
                    BY <4>4, ReaderLinks DEF LinksFrom
                <5>2. BackwardPerformed(l)
                    BY <2>1, <4>1, <5>1, NeedsSpread DEF BackwardPerformed, TypeI
                <5> QED BY <2>2, <3>1, <3>4, <4>1, <4>2, <5>2
            <4> QED BY <4>3, <4>4
        <3> QED BY <3>2, <3>3, <3>4
    <2> QED BY <2>1, <2>3 DEF SumI
<1>7. CASE NextPositionBack
    <2>1. todo' = Trains(net)' /\ TypeI' /\ todo = {} /\ phase = "backward"
        BY <1>7, NextPositionBackFacts, TypeStep
    <2>2. \A l \in todo' : Arrived(l)' = {}
        BY <2>1, NothingArrived DEF Arrived, TypeI
    <2>3. \A l \in DOMAIN net : outDiffs'[l] = {}
        BY <1>7, <2>1, NextPositionBackFacts DEF SumI
    <2> QED
        BY <1>7, <2>1, <2>2, <2>3, NextPositionBackFacts DEF SumI
<1>8. CASE EndBackward
    BY <1>8, EndBackwardFacts DEF SumI
<1>9. CASE UNCHANGED vars
    BY <1>9, Stuttering DEF SumI, Arrived, LastStep
<1> QED
    BY <1>1, <1>2, <1>3, <1>4, <1>5, <1>6, <1>7, <1>8, <1>9, StepCases

\* Which diffs of the capture sinks a step of the forward pass changes.
LEMMA RunsLinkDiff ==
    ASSUME TypeI, NEW l \in Layers, Runs(l)
    PROVE  capturedDiff' = IF l \in BackLinks /\ LastStep /\ BackwardPerformed(l)
                           THEN [capturedDiff EXCEPT ![CaptureOf[l]] = {}] ELSE capturedDiff
<1>1. l \in DOMAIN net
    BY RunsFacts
<1>2. CASE RunSource(l)
    BY <1>2, RecurrentAssumption DEF RunSource, linkVars
<1>3. CASE RunCapture(l)
    <2>1. l \notin BackLinks
        BY <1>1, <1>3, CaptureFacts DEF RunCapture, TypeI
    <2> QED BY <1>3, <2>1 DEF RunCapture
<1>4. CASE RunSink(l)
    <2>1. l \notin BackLinks
        BY <1>1, <1>4, SinkFacts DEF RunSink, TypeI
    <2> QED BY <1>4, <2>1 DEF RunSink, linkVars
<1>5. CASE RunBackLink(l)
    BY <1>5 DEF RunBackLink
<1>6. CASE RunLayer(l)
    BY <1>6 DEF RunLayer, linkVars
<1> QED
    BY <1>2, <1>3, <1>4, <1>5, <1>6 DEF Runs

LEMMA RunsBackLinkDiff ==
    ASSUME TypeI, NEW l \in Layers, RunsBackward(l)
    PROVE  capturedDiff' = IF l \in BackLinks
                           THEN [capturedDiff EXCEPT ![CaptureOf[l]] = {<<l, 0, run, step>>}]
                           ELSE capturedDiff
BY RecurrentAssumption DEF RunsBackward, BackSource, BackBackLink, BackLayer

LEMMA LinkDiffStep ==
    ASSUME TypeI, CloseI, LinkDiffI, [Next]_vars
    PROVE  LinkDiffI'
<1>0. /\ net \in Nets /\ \A b \in NetLinks : b \in DOMAIN net /\ b \in Trains(net) /\ b \in BackwardNeeded[net]
                                             /\ CaptureOf[b] \in Captures /\ b \in BackLinks
    BY NeedsSpread, BackLinkFacts DEF TypeI, NetLinks, Trains
<1>1. CASE Setting
    BY <1>1, SettingFacts DEF LinkDiffI, NetLinks, LastStep, Visited
<1>2. ASSUME NEW train \in BOOLEAN, NEW len \in Lengths, Begin(train, len)
      PROVE  LinkDiffI'
    BY <1>2, BeginFacts, <1>0, OrderFacts DEF LinkDiffI, NetLinks, LastStep, Visited
<1>3. ASSUME NEW l \in Layers, Runs(l)
      PROVE  LinkDiffI'
    <2>1. /\ phase = "forward" /\ phase' = "forward" /\ l \in DOMAIN net /\ IndexIn(net, l) = at
          /\ at' = at + 1 /\ DOMAIN capturedDiff = Captures
          /\ UNCHANGED <<net, training, step, steps>>
        BY <1>3, RunsFacts DEF TypeI
    <2> SUFFICES ASSUME NEW b \in NetLinks, training, LastStep, Visited(b)'
                 PROVE  capturedDiff'[CaptureOf[b]] = {}
        BY <2>1 DEF LinkDiffI, NetLinks, LastStep
    <2>2. CASE b = l
        BY <1>0, <1>3, <2>1, <2>2, RunsLinkDiff DEF BackwardPerformed
    <2>3. CASE b # l
        <3>1. IndexIn(net, b) # at /\ IndexIn(net, b) \in Nat
            BY <1>0, <2>1, <2>3, OrderFacts
        <3>2. capturedDiff[CaptureOf[b]] = {}
            BY <2>1, <3>1 DEF LinkDiffI, Visited, TypeI
        <3>3. l \in BackLinks => CaptureOf[l] # CaptureOf[b]
            BY <1>0, <2>3, CapturesDiffer
        <3> QED BY <1>0, <1>3, <2>1, <3>2, <3>3, RunsLinkDiff
    <2> QED BY <2>2, <2>3
<1>4. CASE NextPosition
    BY <1>4, NextPositionFacts, <1>0, OrderFacts DEF LinkDiffI, NetLinks, LastStep, Visited
<1>5. CASE EndForward
    <2>1. \A b \in NetLinks : IndexIn(net, b) < at
        BY <1>0, <1>5, EndForwardFacts, OrderFacts DEF TypeI
    <2> QED
        BY <1>0, <1>5, <2>1, EndForwardFacts DEF LinkDiffI, NetLinks, LastStep, Visited
<1>6. ASSUME NEW l \in Layers, RunsBackward(l)
      PROVE  LinkDiffI'
    <2>1. /\ phase = "backward" /\ phase' = "backward" /\ todo' = todo \ {l}
          /\ DOMAIN capturedDiff = Captures
          /\ UNCHANGED <<net, training, run, step, steps>>
        BY <1>6, RunsBackFacts DEF TypeI
    <2> SUFFICES ASSUME NEW b \in NetLinks
                 PROVE  capturedDiff'[CaptureOf[b]] =
                            IF b \notin todo \ {l} THEN {<<b, 0, run, step>>}
                            ELSE IF LastStep THEN {} ELSE {<<b, 0, run, step + 1>>}
        BY <2>1 DEF LinkDiffI, NetLinks, LastStep
    <2>2. CASE b = l
        BY <1>0, <1>6, <2>1, <2>2, RunsBackLinkDiff
    <2>3. CASE b # l
        <3>1. l \in BackLinks => CaptureOf[l] # CaptureOf[b]
            BY <1>0, <2>3, CapturesDiffer
        <3>2. capturedDiff'[CaptureOf[b]] = capturedDiff[CaptureOf[b]]
            BY <1>0, <1>6, <2>1, <3>1, RunsBackLinkDiff
        <3> QED BY <2>1, <2>3, <3>2 DEF LinkDiffI
    <2> QED BY <2>2, <2>3
<1>7. CASE NextPositionBack
    <2>1. /\ phase = "backward" /\ phase' = "backward" /\ step' = step - 1 /\ step' + 1 = step
          /\ todo = {} /\ todo' = Trains(net) /\ ~LastStep'
          /\ UNCHANGED <<net, run, capturedDiff>>
        BY <1>7, NextPositionBackFacts DEF LastStep, TypeI
    <2> SUFFICES ASSUME NEW b \in NetLinks
                 PROVE  capturedDiff[CaptureOf[b]] = {<<b, 0, run, step' + 1>>} /\ b \in todo'
        BY <2>1 DEF LinkDiffI, NetLinks
    <2> QED
        BY <1>0, <2>1 DEF LinkDiffI
<1>8. CASE EndBackward
    BY <1>8, EndBackwardFacts DEF LinkDiffI, NetLinks
<1>9. CASE UNCHANGED vars
    BY <1>9, Stuttering DEF LinkDiffI, NetLinks, LastStep, Visited
<1> QED
    BY <1>1, <1>2, <1>3, <1>4, <1>5, <1>6, <1>7, <1>8, <1>9, StepCases

DiffI == TypeI /\ CloseI /\ SumI /\ LinkDiffI

LEMMA InitDiffI == Init => DiffI
<1> SUFFICES ASSUME Init PROVE DiffI
    OBVIOUS
<1>1. /\ DOMAIN captured = Captures /\ DOMAIN capturedDiff = Captures
      /\ DOMAIN inBlobs = Layers /\ DOMAIN outBlobs = Layers /\ DOMAIN sinkBlob = Layers
      /\ DOMAIN outDiffs = Layers /\ DOMAIN paramDiff = Layers /\ DOMAIN given = Layers
    BY DEF Init
<1>2. /\ net \in Nets /\ reverse \in BOOLEAN /\ repeat = 1 /\ run = 0 /\ training \in BOOLEAN
      /\ phase = "idle" /\ step = 0 /\ at = 1 /\ steps = 0
    BY DEF Init
<1>3. TypeI
    BY <1>1, <1>2 DEF TypeI
<1> QED
    BY <1>2, <1>3 DEF DiffI, CloseI, SumI, LinkDiffI

LEMMA DiffInvariant == Spec => []DiffI
<1>1. DiffI /\ [Next]_vars => DiffI'
    BY TypeStep, CloseStep, SumStep, LinkDiffStep DEF DiffI
<1> QED
    BY <1>1, InitDiffI, PTL DEF Spec

LEMMA DiffsOfPosition ==
    ASSUME DiffI
    PROVE  DiffsThroughTime
<1> SUFFICES ASSUME NEW l \in DOMAIN net, RunningBack(l)
             PROVE  Arrived(l) =
                {<<k[1], k[2], run, step>> : k \in {c \in Links(net, l) :
                     c[1] \notin Captures /\ (c[1] \in BackLinks => step = 0)}}
                \cup {<<b, 0, run, step + 1>> : b \in {c \in BackLinks :
                     ~LastStep /\ CaptureOf[c] \in Readers(net, l)}}
    BY DEF DiffsThroughTime, DiffI, SumI, RunningBack
<1>1. \A k \in Links(net, l) : k[1] \notin todo
    BY ReaderLinks DEF RunningBack
<1>2. \A c \in BackLinks : CaptureOf[c] \in Readers(net, l) => CaptureOf[c] \notin todo
    BY DEF RunningBack
<1> QED
    BY <1>1, <1>2 DEF Arrived

\* A layer is run back in a position with the sum of what its readers have passed there and of
\* what the back link has passed in the next position, whatever the inner network
\* (CBaseLayer::transferDiffBlob, CBackLinkLayer::BackwardOnce, CCaptureSinkLayer::BackwardOnce).
THEOREM DiffsThroughTimeCorrect == Spec => []DiffsThroughTime
BY DiffInvariant, DiffsOfPosition, PTL

-----------------------------------------------------------------------------
(* What a training run leaves to the solver and to the layers outside.     *)

LEMMA LearnableFacts ==
    ASSUME TypeI, NEW l \in Learnable \cap DOMAIN net
    PROVE  l \in Layers /\ l \in Trains(net) /\ l \notin Sources \cup BackLinks
BY NetFacts, RecurrentAssumption DEF TypeI, Trains

\* The sum of a layer that learns grows by one position.
LEMMA OneMoreLearnt ==
    ASSUME NEW k \in Nat, NEW n \in Nat, k < n, NEW r
    PROVE  /\ ({r} \X (k + 1 .. n - 1)) \cup {<<r, k>>} = {r} \X (k .. n - 1)
           /\ k = n - 1 => k + 1 .. n - 1 = {}
<1>1. k .. n - 1 = (k + 1 .. n - 1) \cup {k}
    OBVIOUS
<1> QED
    BY <1>1

LEMMA LearnFacts ==
    ASSUME TypeI, NEW l \in Layers, RunsBackward(l), NEW m \in Learnable \cap DOMAIN net
    PROVE  /\ m # l => paramDiff'[m] = paramDiff[m] /\ given'[m] = given[m]
           /\ m = l /\ step > 0 =>
                 paramDiff'[m] = paramDiff[m] \cup {<<run, step>>} /\ given'[m] = given[m]
           /\ m = l /\ step = 0 =>
                 paramDiff'[m] = {} /\ given'[m] = Append(given[m], paramDiff[m] \cup {<<run, step>>})
<1>1. m \in Layers /\ m \notin Sources \cup BackLinks
    BY LearnableFacts
<1>2. DOMAIN paramDiff = Layers /\ DOMAIN given = Layers /\ step \in Nat
    BY DEF TypeI
<1>3. CASE BackSource(l)
    BY <1>1, <1>3 DEF BackSource
<1>4. CASE BackBackLink(l)
    BY <1>1, <1>4 DEF BackBackLink
<1>5. CASE BackLayer(l)
    BY <1>1, <1>2, <1>5 DEF BackLayer, Learn
<1> QED
    BY <1>3, <1>4, <1>5 DEF RunsBackward

LEMMA ParamStep ==
    ASSUME TypeI, CloseI, ParamI, [Next]_vars
    PROVE  ParamI'
<1>1. CASE Setting
    BY <1>1, SettingFacts DEF ParamI
<1>2. ASSUME NEW train \in BOOLEAN, NEW len \in Lengths, Begin(train, len)
      PROVE  ParamI'
    BY <1>2, BeginFacts, LearnableFacts DEF ParamI
<1>3. ASSUME NEW l \in Layers, Runs(l)
      PROVE  ParamI'
    BY <1>3, RunsFacts DEF ParamI
<1>4. CASE NextPosition
    BY <1>4, NextPositionFacts DEF ParamI
<1>5. CASE EndForward
    <2>1. \A l \in Learnable \cap DOMAIN net : paramDiff[l] = {} /\ given[l] = <<>>
        BY <1>5, EndForwardFacts DEF ParamI
    <2>2. step + 1 .. steps - 1 = {}
        BY <1>5, EndForwardFacts DEF TypeI
    <2>3. {run} \X {} = {}
        OBVIOUS
    <2>4. CASE phase' = "backward"
        BY <1>5, <2>1, <2>2, <2>3, <2>4, EndForwardFacts, LearnableFacts DEF ParamI, DoneBack
    <2>5. CASE phase' = "idle"
        BY <1>5, <2>1, <2>5, EndForwardFacts DEF ParamI
    <2> QED BY <1>5, <2>4, <2>5, EndForwardFacts
<1>6. ASSUME NEW l \in Layers, RunsBackward(l)
      PROVE  ParamI'
    <2>1. /\ phase = "backward" /\ phase' = "backward" /\ todo' = todo \ {l} /\ l \in todo
          /\ UNCHANGED <<net, run, step, steps>> /\ step \in Nat /\ steps \in Nat /\ step < steps
        BY <1>6, RunsBackFacts DEF RunningBack, TypeI
    <2> SUFFICES ASSUME NEW m \in Learnable \cap DOMAIN net
                 PROVE  /\ m \in todo' \/ step > 0 =>
                              paramDiff'[m] = {run} \X DoneBack(m)' /\ given'[m] = <<>>
                        /\ ~(m \in todo' \/ step > 0) =>
                              paramDiff'[m] = {} /\ given'[m] = <<{run} \X (0 .. steps - 1)>>
        BY <2>1 DEF ParamI
    <2>2. CASE m # l
        BY <1>6, <2>1, <2>2, LearnFacts DEF ParamI, DoneBack
    <2>3. CASE m = l
        <3>1. paramDiff[m] = {run} \X (step + 1 .. steps - 1) /\ given[m] = <<>>
            BY <2>1, <2>3 DEF ParamI, DoneBack
        <3>2. paramDiff[m] \cup {<<run, step>>} = {run} \X (step .. steps - 1)
            BY <2>1, <3>1, OneMoreLearnt
        <3>3. DoneBack(m)' = step .. steps - 1 /\ m \notin todo'
            BY <2>1, <2>3 DEF DoneBack
        <3>4. CASE step > 0
            BY <1>6, <2>1, <2>3, <3>1, <3>2, <3>3, <3>4, LearnFacts
        <3>5. CASE step = 0
            BY <1>6, <2>1, <2>3, <3>1, <3>2, <3>3, <3>5, LearnFacts
        <3> QED BY <2>1, <3>4, <3>5
    <2> QED BY <2>2, <2>3
<1>7. CASE NextPositionBack
    <2>1. /\ phase = "backward" /\ phase' = "backward" /\ todo = {} /\ todo' = Trains(net) /\ step > 0
          /\ step' + 1 = step /\ UNCHANGED <<net, run, steps, paramDiff, given>>
        BY <1>7, NextPositionBackFacts DEF TypeI
    <2>2. \A l \in Learnable \cap DOMAIN net : l \in todo' /\ DoneBack(l)' = DoneBack(l)
        BY <2>1, LearnableFacts DEF DoneBack
    <2> QED
        BY <2>1, <2>2 DEF ParamI
<1>8. CASE EndBackward
    BY <1>8, EndBackwardFacts DEF ParamI
<1>9. CASE UNCHANGED vars
    BY <1>9, Stuttering DEF ParamI, DoneBack
<1> QED
    BY <1>1, <1>2, <1>3, <1>4, <1>5, <1>6, <1>7, <1>8, <1>9, StepCases

\* The window of a layer on a blob is one of its items.
LEMMA PositionFacts ==
    ASSUME TypeI, phase # "idle", NEW k \in 0 .. steps - 1
    PROVE  Position(k) \in 0 .. steps - 1
BY DEF Position, PositionOf, TypeI

LEMMA ItemOfSource ==
    ASSUME TypeI, phase # "idle", NEW k \in 0 .. steps - 1, NEW s
    PROVE  /\ ItemsOf(s, length) \in Nat \ {0}
           /\ Position(k) % ItemsOf(s, length) \in 0 .. ItemsOf(s, length) - 1
<1>1. ItemsOf(s, length) \in Nat \ {0}
    BY DEF ItemsOf, TypeI
<1>2. Position(k) \in Nat
    BY PositionFacts
<1>3. \A p \in Nat : \A q \in Nat \ {0} : (p % q) \in 0 .. q - 1
    OBVIOUS
<1> QED
    BY <1>1, <1>2, <1>3

LEMMA InputDiffFacts ==
    ASSUME TypeI, NEW l \in Layers, RunsBackward(l)
    PROVE  inputDiff' = IF l \in Sources
                        THEN [inputDiff EXCEPT ![l][Position(step) % ItemsOf(l, length)] = @ \cup outDiffs[l]]
                        ELSE inputDiff
BY RecurrentAssumption DEF RunsBackward, BackSource, BackBackLink, BackLayer

\* The terms that a source receives in a position: nothing that reads it is captured.
LEMMA SourceTerms ==
    ASSUME DiffI, NEW s \in Sources \cap DOMAIN net, RunningBack(s)
    PROVE  outDiffs[s] = {<<c[1], c[2], run, step>> :
                             c \in {d \in Links(net, s) : d[1] \in BackLinks => step = 0}}
<1>1. \A c \in Links(net, s) : c[1] \notin Captures
    BY CaptureReadsNoSource, ReaderLinks DEF DiffI, TypeI
<1>2. outDiffs[s] =
         {<<k[1], k[2], run, step>> : k \in {c \in Links(net, s) :
              c[1] \notin Captures /\ (c[1] \in BackLinks => step = 0)}}
         \cup {<<b, 0, run, step + 1>> : b \in {c \in BackLinks :
              ~LastStep /\ CaptureOf[c] \in Readers(net, s)}}
    BY DiffsOfPosition DEF DiffsThroughTime
<1>3. \A c \in BackLinks : CaptureOf[c] \notin Readers(net, s)
    BY CaptureReadsNoSource DEF DiffI, TypeI, Captures
<1> QED
    BY <1>1, <1>2, <1>3

LEMMA InputDiffStep ==
    ASSUME DiffI, InputDiffI, [Next]_vars
    PROVE  InputDiffI'
<1>0. TypeI
    BY DEF DiffI
<1>1. CASE Setting
    BY <1>0, <1>1, SettingFacts DEF InputDiffI
<1>2. ASSUME NEW train \in BOOLEAN, NEW len \in Lengths, Begin(train, len)
      PROVE  InputDiffI'
    <2>1. /\ phase' = "forward" /\ net' = net /\ length' = len
          /\ inputDiff' = [s \in Sources \cap DOMAIN net |-> [j \in 0 .. ItemsOf(s, len) - 1 |-> {}]]
        BY <1>0, <1>2, BeginFacts
    <2> QED
        BY <2>1 DEF InputDiffI
<1>3. ASSUME NEW l \in Layers, Runs(l)
      PROVE  InputDiffI'
    BY <1>0, <1>3, RunsFacts DEF InputDiffI
<1>4. CASE NextPosition
    BY <1>0, <1>4, NextPositionFacts DEF InputDiffI
<1>5. CASE EndForward
    <2>1. CASE phase' = "idle"
        BY <1>0, <1>5, <2>1, EndForwardFacts DEF InputDiffI
    <2>2. CASE phase' = "backward"
        <3>1. /\ phase = "forward" /\ todo' = Trains(net) /\ step = steps - 1
              /\ UNCHANGED <<net, step, steps, run, length, inputDiff, reverse>>
            BY <1>0, <1>5, <2>2, EndForwardFacts
        <3>2. \A s \in Trains(net) : DoneBack(s)' = {}
            BY <1>0, <3>1 DEF DoneBack, TypeI
        <3>3. \A s \in Trains(net) : \A j : PassedTo(s, j, DoneBack(s))' = {}
            BY <3>2 DEF PassedTo
        <3>4. \A s \in Sources \cap DOMAIN net : \A j \in DOMAIN inputDiff[s] : inputDiff[s][j] = {}
            BY <3>1 DEF InputDiffI
        <3> QED
            BY <2>2, <3>1, <3>3, <3>4 DEF InputDiffI
    <2> QED BY <1>0, <1>5, <2>1, <2>2, EndForwardFacts
<1>6. ASSUME NEW l \in Layers, RunsBackward(l)
      PROVE  InputDiffI'
    <2>1. /\ phase = "backward" /\ phase' = "backward" /\ todo' = todo \ {l} /\ l \in todo
          /\ UNCHANGED <<net, run, step, steps, length, reverse>> /\ RunningBack(l)
          /\ step \in Nat /\ steps \in Nat /\ step < steps
        BY <1>0, <1>6, RunsBackFacts DEF RunningBack, TypeI
    <2> DEFINE here(s) == Position(step) % ItemsOf(s, length)
    <2>2. /\ DOMAIN inputDiff = Sources \cap DOMAIN net
          /\ \A s \in Sources \cap DOMAIN net : DOMAIN inputDiff[s] = 0 .. ItemsOf(s, length) - 1
        BY <2>1 DEF InputDiffI
    <2>3. DOMAIN inputDiff' = Sources \cap DOMAIN net
        BY <1>0, <1>6, <2>2, InputDiffFacts
    <2>4. ASSUME NEW s \in Sources \cap DOMAIN net
          PROVE  /\ DOMAIN inputDiff'[s] = DOMAIN inputDiff[s]
                 /\ \A j \in DOMAIN inputDiff[s] :
                       inputDiff'[s][j] = IF s = l /\ j = here(s) THEN inputDiff[s][j] \cup outDiffs[s]
                                          ELSE inputDiff[s][j]
        <3>1. CASE l \in Sources
            <4>1. inputDiff' = [inputDiff EXCEPT ![l][here(l)] = @ \cup outDiffs[l]]
                BY <1>0, <1>6, <3>1, InputDiffFacts
            <4>2. inputDiff'[s] = IF s = l THEN [inputDiff[s] EXCEPT ![here(s)] = @ \cup outDiffs[s]]
                                  ELSE inputDiff[s]
                BY <2>2, <4>1
            <4> HIDE DEF here
            <4> QED BY <4>2
        <3>2. CASE l \notin Sources
            BY <1>0, <1>6, <3>2, InputDiffFacts
        <3> QED BY <3>1, <3>2
    <2>5. ASSUME NEW s \in Sources \cap DOMAIN net, s \in Trains(net), NEW j \in DOMAIN inputDiff[s]
          PROVE  inputDiff'[s][j] = PassedTo(s, j, DoneBack(s)')
        <3>1. inputDiff[s][j] = PassedTo(s, j, DoneBack(s))
            BY <2>1, <2>5 DEF InputDiffI
        <3>2. CASE s # l
            BY <2>1, <2>4, <3>1, <3>2 DEF DoneBack
        <3>3. CASE s = l
            <4>1. DoneBack(s)' = DoneBack(s) \cup {step}
                BY <2>1, <3>3 DEF DoneBack
            <4>2. PassedTo(s, j, DoneBack(s)') = PassedTo(s, j, DoneBack(s)) \cup PassedTo(s, j, {step})
                BY <4>1 DEF PassedTo
            <4>3. CASE j # here(s)
                <5>1. PassedTo(s, j, {step}) = {}
                    BY <4>3 DEF PassedTo
                <5> QED BY <2>4, <3>1, <4>2, <4>3, <5>1
            <4>4. CASE j = here(s)
                <5>1. PassedTo(s, j, {step}) =
                         {<<c[1], c[2], run, step>> :
                             c \in {d \in Links(net, s) : d[1] \in BackLinks => step = 0}}
                    <6>1. ASSUME NEW d \in Links(net, s), d[1] \in BackLinks => step = 0
                          PROVE  <<d[1], d[2], run, step>> \in PassedTo(s, j, {step})
                        <7>1. <<d, step>> \in Links(net, s) \X {step}
                            OBVIOUS
                        <7> QED BY <4>4, <6>1, <7>1 DEF PassedTo
                    <6>2. ASSUME NEW t \in PassedTo(s, j, {step})
                          PROVE  \E d \in Links(net, s) :
                                     (d[1] \in BackLinks => step = 0) /\ t = <<d[1], d[2], run, step>>
                        BY DEF PassedTo
                    <6> QED BY <6>1, <6>2
                <5>2. outDiffs[s] = PassedTo(s, j, {step})
                    BY <2>1, <3>3, <5>1, SourceTerms
                <5>3. inputDiff'[s][j] = inputDiff[s][j] \cup outDiffs[s]
                    BY <2>4, <3>3, <4>4
                <5> QED BY <3>1, <4>2, <5>2, <5>3
            <4> QED BY <4>3, <4>4
        <3> QED BY <3>2, <3>3
    <2>6. \A s, j : PassedTo(s, j, DoneBack(s))' = PassedTo(s, j, DoneBack(s)')
        BY <2>1 DEF PassedTo, Position, PositionOf
    <2> QED
        BY <2>1, <2>2, <2>3, <2>4, <2>5, <2>6 DEF InputDiffI
<1>7. CASE NextPositionBack
    <2>1. /\ phase = "backward" /\ phase' = "backward" /\ todo = {} /\ todo' = Trains(net) /\ step > 0
          /\ step' + 1 = step /\ UNCHANGED <<net, run, steps, length, reverse, inputDiff>>
        BY <1>0, <1>7, NextPositionBackFacts DEF TypeI
    <2>2. \A s \in Trains(net) : DoneBack(s)' = DoneBack(s)
        BY <2>1 DEF DoneBack
    <2>3. \A s \in Trains(net) : \A j : PassedTo(s, j, DoneBack(s))' = PassedTo(s, j, DoneBack(s))
        BY <2>1, <2>2 DEF PassedTo, Position, PositionOf
    <2> QED
        BY <2>1, <2>3 DEF InputDiffI
<1>8. CASE EndBackward
    BY <1>0, <1>8, EndBackwardFacts DEF InputDiffI
<1>9. CASE UNCHANGED vars
    BY <1>9, Stuttering DEF InputDiffI, PassedTo, DoneBack, Position, PositionOf
<1> QED
    BY <1>0, <1>1, <1>2, <1>3, <1>4, <1>5, <1>6, <1>7, <1>8, <1>9, StepCases

TrainI == DiffI /\ ParamI /\ InputDiffI

LEMMA TrainInvariant == Spec => []TrainI
<1>1. Init => ParamI /\ InputDiffI
    <2> SUFFICES ASSUME Init PROVE ParamI /\ InputDiffI
        OBVIOUS
    <2>1. phase = "idle" /\ TypeI /\ paramDiff = [l \in Layers |-> {}]
        BY InitDiffI DEF Init, DiffI
    <2> QED
        BY <2>1, LearnableFacts DEF ParamI, InputDiffI
<1>2. TrainI /\ [Next]_vars => TrainI'
    BY TypeStep, CloseStep, SumStep, LinkDiffStep, ParamStep, InputDiffStep DEF TrainI, DiffI
<1> QED
    BY <1>1, <1>2, InitDiffI, PTL DEF Spec, TrainI

\* A training run gives the solver the diffs of each layer that learns once, summed over all the
\* positions and none of an earlier run, and gives the layers outside, for each item of the
\* inputs, the diffs of all the positions that have read it, those of a back link in the first
\* position only, whatever the inner network and the length of the sequence (CBaseLayer::backwardRunAndLearnOnce, CCompositeSourceLayer::BackwardOnce).
THEOREM TrainingIsComplete == Spec => []TrainingComplete
<1>1. TrainI => TrainingComplete
    <2> SUFFICES ASSUME TrainI, phase = "backward", todo = {}, step = 0
                 PROVE  /\ \A l \in Learnable \cap DOMAIN net :
                              given[l] = <<{run} \X (0 .. steps - 1)>> /\ paramDiff[l] = {}
                        /\ \A s \in Sources \cap Trains(net) : \A j \in DOMAIN inputDiff[s] :
                              inputDiff[s][j] = PassedTo(s, j, 0 .. steps - 1)
        BY DEF TrainingComplete, PositionDoneBack, PassedTo
    <2>1. \A l : DoneBack(l) = 0 .. steps - 1
        BY DEF DoneBack
    <2>2. \A l \in Learnable \cap DOMAIN net :
             given[l] = <<{run} \X (0 .. steps - 1)>> /\ paramDiff[l] = {}
        BY DEF TrainI, ParamI
    <2>3. Trains(net) \subseteq DOMAIN net
        BY DEF Trains
    <2> QED
        BY <2>1, <2>2, <2>3 DEF TrainI, InputDiffI
<1> QED BY <1>1, TrainInvariant, PTL

-----------------------------------------------------------------------------
(* Layers that compute in place of each other.                             *)

\* Layer l and the layers it is in place of, one after the other.
Line(l) == {o \in DOMAIN net : \A S \in SUBSET DOMAIN net :
               l \in S /\ (\A x \in S \cap inPlace : net[x][1] \in S) => o \in S}

\* What the layers in place were found to be.
InPlaceI ==
    /\ inPlace \subseteq InPlaceLayers \cap DOMAIN net
    /\ run = 0 => inPlace = {} /\ steps = 0
    /\ run > 0 => \A l \in InPlaceLayers \cap DOMAIN net :
           l \in inPlace <=> InputsMayBeOverwritten(net, l, inPlace, training)

\* A set of numbers that is not empty has a least one.
LEMMA LeastNumber ==
    ASSUME NEW T, T \subseteq Nat, T # {}
    PROVE  \E x \in T : \A y \in T : x <= y
<1> DEFINE R == {p \in Nat \X Nat : p[1] < p[2]}
<1>1. IsWellFoundedOn(R, Nat)
  BY NatLessThanWellFounded DEF OpToRel
<1>2. PICK x \in T : \A y \in T : ~(<<y, x>> \in R)
  <2> HIDE DEF R
  <2> QED BY <1>1, WFMin
<1>3. ASSUME NEW y \in T PROVE x <= y
  <2>1. ~(<<y, x>> \in R)
    BY <1>2
  <2> QED BY <2>1
<1> QED BY <1>2, <1>3

LEMMA OneIndex ==
    ASSUME NEW n \in Nets, NEW x \in DOMAIN n, NEW y \in DOMAIN n, IndexIn(n, x) = IndexIn(n, y)
    PROVE  x = y
<1>1. Order[n][IndexIn(n, x)] = x /\ Order[n][IndexIn(n, y)] = y
    BY OrderFacts
<1> QED BY <1>1

\* A set of layers that is not empty has one that is visited before the others.
LEMMA FirstLayer ==
    ASSUME NEW n \in Nets, NEW T, T \subseteq DOMAIN n, T # {}
    PROVE  \E x \in T : \A y \in T : IndexIn(n, x) <= IndexIn(n, y)
<1> DEFINE N == {i \in Nat : \E x \in T : IndexIn(n, x) = i}
<1>1. \A x \in T : IndexIn(n, x) \in N
    BY OrderFacts
<1>2. PICK i \in N : \A j \in N : i <= j
    <2>1. N \subseteq Nat /\ N # {}
        BY <1>1
    <2> HIDE DEF N
    <2> QED BY <2>1, LeastNumber
<1> QED BY <1>1, <1>2

LEMMA LastUserFacts ==
    ASSUME NEW n \in Nets, NEW m \in DOMAIN n, NEW c, IsLastUser(n, c, m)
    PROVE  /\ c \in Readers(n, m) /\ c \in DOMAIN n /\ c # m /\ IndexIn(n, m) < IndexIn(n, c)
           /\ \A d \in Readers(n, m) : d \in DOMAIN n /\ ~IsSink(n, d) /\ IndexIn(n, d) <= IndexIn(n, c)
           /\ \A d : IsLastUser(n, d, m) => d = c
<1>1. c \in Readers(n, m) /\ c \in DOMAIN n /\ IndexIn(n, m) < IndexIn(n, c)
    BY ReadersAreLater DEF IsLastUser
<1>2. \A d \in Readers(n, m) : d \in DOMAIN n /\ ~IsSink(n, d) /\ IndexIn(n, d) <= IndexIn(n, c)
    BY DEF IsLastUser, Readers
<1>3. ASSUME NEW d, IsLastUser(n, d, m) PROVE d = c
    <2>1. d \in DOMAIN n /\ IndexIn(n, d) = IndexIn(n, c)
        BY <1>1, <1>2, <1>3, OrderFacts DEF IsLastUser
    <2> QED BY <1>1, <2>1, OrderFacts
<1>4. IndexIn(n, m) \in Nat
    BY OrderFacts
<1> QED BY <1>1, <1>2, <1>3, <1>4

LEMMA InPlaceFacts ==
    ASSUME TypeI, InPlaceI, NEW l \in inPlace
    PROVE  /\ l \in DOMAIN net /\ l \notin Sources \cup BackLinks /\ ~IsSink(net, l) /\ ~IsSource(net, l)
           /\ 1 \in DOMAIN net[l] /\ net[l][1] \in DOMAIN net /\ net[l][1] \notin Sources
           /\ IsLastUser(net, l, net[l][1])
           /\ training => /\ Cardinality(Links(net, net[l][1])) = 1
                          /\ "out" \notin NeededBy(net, net[l][1])
<1>1. l \in InPlaceLayers \cap DOMAIN net /\ run # 0
    BY DEF InPlaceI
<1>2. InputsMayBeOverwritten(net, l, inPlace, training)
    BY <1>1 DEF InPlaceI, TypeI
<1>3. ~IsSource(net, l) /\ l \notin Sources \cup BackLinks /\ ~IsSink(net, l)
    BY <1>1, NetsAssumption, RecurrentAssumption DEF TypeI
<1>4. 1 \in DOMAIN net[l]
    <2>1. net[l] \in Seq(DOMAIN net) /\ net[l] # <<>>
        BY <1>1, <1>3, NetFacts DEF TypeI, IsSource
    <2> QED BY <2>1
<1>5. net[l][1] \in DOMAIN net
    BY <1>1, <1>4, NetFacts DEF TypeI
<1>6. net[l][1] \notin Sources
    BY <1>2, <1>5, NetsAssumption DEF InputsMayBeOverwritten, TypeI
<1> QED
    BY <1>1, <1>2, <1>3, <1>4, <1>5, <1>6 DEF InputsMayBeOverwritten

LEMMA LineFacts ==
    ASSUME TypeI, InPlaceI, NEW l \in DOMAIN net
    PROVE  /\ l \in Line(l) /\ Line(l) \subseteq DOMAIN net
           /\ l \in inPlace => Line(net[l][1]) \subseteq Line(l)
           /\ \A o \in Line(l) : o # l => /\ l \in inPlace /\ o \in Line(net[l][1])
                                          /\ IndexIn(net, o) < IndexIn(net, l)
           /\ \A o \in Line(l) : o \in Sources => o = l
<1>1. l \in Line(l) /\ Line(l) \subseteq DOMAIN net
    BY DEF Line
<1>2. ASSUME l \in inPlace PROVE Line(net[l][1]) \subseteq Line(l)
    BY <1>2 DEF Line
<1>3. ASSUME NEW o \in Line(l), o # l
      PROVE  l \in inPlace /\ o \in Line(net[l][1])
    <2>1. l \in inPlace
        <3> SUFFICES ASSUME l \notin inPlace PROVE FALSE
            OBVIOUS
        <3>1. o \in {l}
            <4>1. {l} \in SUBSET DOMAIN net /\ \A x \in {l} \cap inPlace : net[x][1] \in {l}
                OBVIOUS
            <4> QED BY <4>1 DEF Line
        <3> QED BY <1>3, <3>1
    <2>2. ASSUME NEW S \in SUBSET DOMAIN net, net[l][1] \in S, \A x \in S \cap inPlace : net[x][1] \in S
          PROVE  o \in S
        <3>1. S \cup {l} \in SUBSET DOMAIN net /\ \A x \in (S \cup {l}) \cap inPlace : net[x][1] \in S \cup {l}
            BY <2>2
        <3>2. o \in S \cup {l}
            BY <3>1 DEF Line
        <3> QED BY <1>3, <3>2
    <2> QED BY <1>1, <2>1, <2>2 DEF Line
<1>4. ASSUME NEW o \in Line(l), o # l
      PROVE  IndexIn(net, o) < IndexIn(net, l)
    <2> DEFINE S == {x \in DOMAIN net : x = l \/ IndexIn(net, x) < IndexIn(net, l)}
    <2>1. ASSUME NEW x \in S \cap inPlace PROVE net[x][1] \in S
        <3>1. net[x][1] \in DOMAIN net /\ IndexIn(net, net[x][1]) < IndexIn(net, x)
            BY InPlaceFacts, LastUserFacts DEF TypeI
        <3>2. /\ IndexIn(net, x) \in Nat /\ IndexIn(net, l) \in Nat /\ IndexIn(net, net[x][1]) \in Nat
              /\ IndexIn(net, x) <= IndexIn(net, l)
            BY <3>1, OrderFacts DEF TypeI
        <3> QED BY <3>1, <3>2
    <2>2. o \in S
        <3>1. S \in SUBSET DOMAIN net /\ l \in S
            OBVIOUS
        <3> HIDE DEF S
        <3> QED BY <2>1, <3>1 DEF Line
    <2> QED BY <1>4, <2>2
<1>5. ASSUME NEW o \in Line(l), o \in Sources PROVE o = l
    <2> DEFINE S == {x \in DOMAIN net : x = l \/ x \notin Sources}
    <2>1. \A x \in S \cap inPlace : net[x][1] \in S
        BY InPlaceFacts
    <2>2. o \in S
        <3>1. S \in SUBSET DOMAIN net /\ l \in S
            OBVIOUS
        <3> HIDE DEF S
        <3> QED BY <2>1, <3>1 DEF Line
    <2> QED BY <1>5, <2>2
<1> QED
    BY <1>1, <1>2, <1>3, <1>4, <1>5

\* Two layers compute in place of different ones.
LEMMA OneInPlace ==
    ASSUME TypeI, InPlaceI, NEW l \in inPlace, NEW k \in inPlace, net[l][1] = net[k][1]
    PROVE  l = k
BY InPlaceFacts, LastUserFacts DEF TypeI

\* Layer d computes in place of layer x, and is not visited after layer y.
Overwrites(d, x, y) ==
    d \in inPlace /\ net[d][1] = x /\ IsLastUser(net, d, x) /\ IndexIn(net, d) <= IndexIn(net, y)

\* Of two layers whose lines meet, the first one is overwritten by a layer that is not visited
\* after the second: take the first y that is a counterexample with some x.
LEMMA LinesMeet ==
    ASSUME TypeI, InPlaceI, NEW o, NEW x0 \in DOMAIN net, NEW y0 \in DOMAIN net,
           o \in Line(x0), o \in Line(y0), IndexIn(net, x0) < IndexIn(net, y0)
    PROVE  \E d \in DOMAIN net : Overwrites(d, x0, y0)
<1> DEFINE Meet(x, y) == o \in Line(x) /\ o \in Line(y) /\ IndexIn(net, x) < IndexIn(net, y)
           Bad == {y \in DOMAIN net : \E x \in DOMAIN net :
                      Meet(x, y) /\ ~\E d \in DOMAIN net : Overwrites(d, x, y)}
<1>0. net \in Nets
    BY DEF TypeI
<1>1. SUFFICES ASSUME Bad # {} PROVE FALSE
    OBVIOUS
<1>2. PICK y \in Bad : \A z \in Bad : IndexIn(net, y) <= IndexIn(net, z)
    <2>1. Bad \subseteq DOMAIN net
        OBVIOUS
    <2> HIDE DEF Bad
    <2> QED BY <1>0, <1>1, <2>1, FirstLayer
<1>3. PICK x \in DOMAIN net : Meet(x, y) /\ ~\E d \in DOMAIN net : Overwrites(d, x, y)
    BY <1>2
<1>4. \A z \in DOMAIN net : IndexIn(net, z) \in Nat
    BY <1>0, OrderFacts
<1>5. o # y
    BY <1>3, <1>4, LineFacts
<1>6. y \in inPlace /\ o \in Line(net[y][1])
    BY <1>3, <1>5, LineFacts
<1> DEFINE p == net[y][1]
<1>7. p \in DOMAIN net /\ IsLastUser(net, y, p) /\ IndexIn(net, p) < IndexIn(net, y)
    BY <1>0, <1>6, InPlaceFacts, LastUserFacts
<1>8. CASE p = x
    BY <1>3, <1>4, <1>6, <1>7, <1>8 DEF Overwrites
<1>9. CASE IndexIn(net, x) < IndexIn(net, p)
    <2>1. p \notin Bad
        BY <1>2, <1>4, <1>7
    <2>2. PICK d \in DOMAIN net : Overwrites(d, x, p)
        BY <1>3, <1>6, <1>7, <1>9, <2>1
    <2>3. Overwrites(d, x, y)
        BY <1>4, <1>7, <2>2 DEF Overwrites
    <2> QED BY <1>3, <2>3
<1>10. CASE IndexIn(net, p) < IndexIn(net, x)
    <2>1. x \notin Bad
        BY <1>2, <1>3, <1>4
    <2>2. PICK d \in DOMAIN net : Overwrites(d, p, x)
        BY <1>3, <1>6, <1>7, <1>10, <2>1
    <2>3. d = y
        BY <1>6, <2>2, OneInPlace DEF Overwrites
    <2> QED BY <1>3, <1>4, <2>2, <2>3 DEF Overwrites
<1>11. IndexIn(net, x) = IndexIn(net, p) => x = p
    BY <1>0, <1>7, OneIndex
<1> QED
    BY <1>4, <1>7, <1>8, <1>9, <1>10, <1>11

\* The conditions on the layers in place have one solution.
LEMMA InPlaceUnique ==
    ASSUME TypeI, NEW S1 \in SUBSET (InPlaceLayers \cap DOMAIN net),
           NEW S2 \in SUBSET (InPlaceLayers \cap DOMAIN net), NEW train,
           \A l \in InPlaceLayers \cap DOMAIN net : l \in S1 <=> InputsMayBeOverwritten(net, l, S1, train),
           \A l \in InPlaceLayers \cap DOMAIN net : l \in S2 <=> InputsMayBeOverwritten(net, l, S2, train)
    PROVE  S1 = S2
<1> DEFINE D == {l \in InPlaceLayers \cap DOMAIN net : ~(l \in S1 <=> l \in S2)}
<1>0. net \in Nets
    BY DEF TypeI
<1>1. SUFFICES ASSUME D # {} PROVE FALSE
    OBVIOUS
<1>2. PICK l \in D : \A k \in D : IndexIn(net, l) <= IndexIn(net, k)
    <2>1. D \subseteq DOMAIN net
        OBVIOUS
    <2> HIDE DEF D
    <2> QED BY <1>0, <1>1, <2>1, FirstLayer
<1>3. 1 \in DOMAIN net[l] /\ net[l][1] \in DOMAIN net
    <2>1. net[l] \in Seq(DOMAIN net) /\ net[l] # <<>>
        BY <1>0, <1>2, NetFacts, NetsAssumption DEF IsSource
    <2>2. 1 \in DOMAIN net[l]
        BY <2>1
    <2> QED BY <1>0, <1>2, <2>2, NetFacts
<1>4. IndexIn(net, net[l][1]) < IndexIn(net, l)
    BY <1>0, <1>2, <1>3, NetsAssumption
<1>5. net[l][1] \in S1 <=> net[l][1] \in S2
    BY <1>0, <1>2, <1>3, <1>4, OrderFacts
<1>6. InputsMayBeOverwritten(net, l, S1, train) <=> InputsMayBeOverwritten(net, l, S2, train)
    BY <1>5 DEF InputsMayBeOverwritten
<1> QED BY <1>2, <1>6

LEMMA InPlaceStep ==
    ASSUME TypeI, InPlaceI, [Next]_vars
    PROVE  InPlaceI'
<1>1. CASE Setting
    BY <1>1, SettingFacts DEF InPlaceI
<1>2. ASSUME NEW train \in BOOLEAN, NEW len \in Lengths, Begin(train, len)
      PROVE  InPlaceI'
    <2>1. run' = run + 1 /\ training' = train /\ net' = net /\ run \in Nat
        BY <1>2, BeginFacts DEF TypeI
    <2>2. /\ inPlace' \subseteq InPlaceLayers \cap DOMAIN net
          /\ \A l \in InPlaceLayers \cap DOMAIN net :
                l \in inPlace' <=> InputsMayBeOverwritten(net, l, inPlace', train)
        BY <1>2 DEF Begin
    <2> QED
        BY <2>1, <2>2 DEF InPlaceI
<1>3. ASSUME NEW l \in Layers, Runs(l)
      PROVE  InPlaceI'
    BY <1>3, RunsFacts DEF InPlaceI
<1>4. CASE NextPosition
    BY <1>4, NextPositionFacts DEF InPlaceI
<1>5. CASE EndForward
    BY <1>5, EndForwardFacts DEF InPlaceI
<1>6. ASSUME NEW l \in Layers, RunsBackward(l)
      PROVE  InPlaceI'
    BY <1>6, RunsBackFacts DEF InPlaceI
<1>7. CASE NextPositionBack
    BY <1>7, NextPositionBackFacts DEF InPlaceI
<1>8. CASE EndBackward
    BY <1>8, EndBackwardFacts DEF InPlaceI
<1>9. CASE UNCHANGED vars
    BY <1>9, Stuttering DEF InPlaceI
<1> QED
    BY <1>1, <1>2, <1>3, <1>4, <1>5, <1>6, <1>7, <1>8, <1>9, StepCases

-----------------------------------------------------------------------------
(* The invariants of the blobs.                                            *)

ItemsIn(l) == IF l \in Sources THEN ItemsOf(l, length) ELSE steps

\* What layer l has is a blob of its line.
OwnI ==
    \A l \in DOMAIN net : outBlobs[l] # NoBlob =>
        /\ ~IsSink(net, l) /\ outBlobs[l][1] \in Line(l)
        /\ outBlobs[l] \in DOMAIN content
        /\ DOMAIN content[outBlobs[l]] = 0 .. ItemsIn(l) - 1

SourceI ==
    phase = "forward" => \A s \in Sources \cap DOMAIN net :
        /\ outBlobs[s] \in {NoBlob, UserBlob(s)}
        /\ UserBlob(s) \in DOMAIN content
        /\ content[UserBlob(s)] = [j \in 0 .. ItemsOf(s, length) - 1 |-> <<s, run, j>>]

\* Nobody drops or overwrites what a composite sink reads.
SinkI ==
    phase = "forward" => \A s \in Outputs : step > 0 \/ Visited(s) =>
        sinkBlob[s] # NoBlob /\ sinkBlob[s] = outBlobs[net[s][1]]

\* What layer m computed in this position is there for its readers.
ReadI ==
    phase = "forward" => \A m \in DOMAIN net :
        Visited(m) /\ (\E c \in Readers(net, m) : ~Visited(c)) => Holds(outBlobs[m], step, Value(m, step))

\* Does layer d keep its blobs until the last position?
Keeps(d) == "in" \in Needed(d) \/ (d \in inPlace /\ "out" \in Needed(d))

\* Nobody overwrites what layer m computed, or drops it before the last position.
Solid(m) ==
    \A d \in DOMAIN net : IsLastUser(net, d, m) =>
        /\ ~(d \in inPlace /\ net[d][1] = m)
        /\ reuse => "out" \in Needed(m) \/ (training /\ Keeps(d))

\* The output of layer m is dropped in the last position.
Gone(m) ==
    /\ LastStep /\ "out" \notin Needed(m)
    /\ \E d \in DOMAIN net : IsLastUser(net, d, m) /\ Visited(d)

SolidI ==
    phase = "forward" => \A m \in DOMAIN net :
        ~IsSink(net, m) /\ Solid(m) /\ ~Gone(m) =>
            \A k \in 0 .. step : k < step \/ Visited(m) => Holds(outBlobs[m], k, Value(m, k))

\* What back link b is to copy.
Due(b) ==
    IF Follows(b, length) \/ (HasInitialInput(b, length) /\ ((reverse /\ step = 0) \/ b \in first))
    THEN Value(net[b][1], step)
    ELSE IF reverse /\ step = 0 THEN Zero ELSE captured[CaptureOf[b]]

\* What the back links have passed on and will pass on.
LinkI ==
    /\ phase = "forward" =>
        /\ \E V : carried \in Seq(V)
        /\ Len(carried) = step + 1
        /\ \A b \in NetLinks :
              /\ step > 0 \/ Visited(b) => b \notin first
              /\ ~Visited(b) => carried[step + 1][b] = Due(b)
              /\ Visited(CaptureOf[b]) => captured[CaptureOf[b]] = Value(net[CaptureOf[b]][1], step)
    /\ phase # "forward" => \A b \in NetLinks : captured[CaptureOf[b]] = state[b]

NeedsIn(l) == "in" \in Needed(l) /\ l \notin Sources \cup BackLinks

\* The inputs that a layer keeps for the backward pass.
InI ==
    phase = "forward" /\ LastStep => \A l \in DOMAIN net : Visited(l) /\ NeedsIn(l) =>
        \A i \in DOMAIN net[l] : Solid(net[l][i]) =>
            /\ inBlobs[l][i] \in DOMAIN content /\ inBlobs[l][i][1] \in Line(net[l][i])
            /\ \A k \in 0 .. step : Holds(inBlobs[l][i], k, Value(net[l][i], k))

BackI ==
    phase = "backward" => \A l \in DOMAIN net : l \in todo \/ step > 0 =>
        /\ NeedsIn(l) => \A i \in DOMAIN net[l] : Solid(net[l][i]) =>
              \A k \in 0 .. steps - 1 : Holds(inBlobs[l][i], k, Value(net[l][i], k))
        /\ l \notin Sources /\ "out" \in Needed(l) /\ ~IsSink(net, l) =>
              \A k \in 0 .. steps - 1 : Holds(outBlobs[l], k, Value(l, k))

ResultI ==
    phase = "backward" => \A s \in Outputs : \A k \in 0 .. steps - 1 :
        Holds(result[s], k, Value(net[s][1], k))

BlobI ==
    /\ TypeI /\ InPlaceI /\ OwnI /\ SourceI /\ SinkI /\ ReadI /\ SolidI /\ LinkI /\ InI /\ BackI
    /\ ResultI

-----------------------------------------------------------------------------
(* Items.                                                                  *)

LEMMA ItemFacts ==
    ASSUME NEW n \in Nat \ {0}, NEW c, DOMAIN c = 0 .. n - 1
    PROVE  Cardinality(DOMAIN c) = n /\ \A p \in 0 .. n - 1 : (p % n) = p
<1>1. 0 \in Int /\ n - 1 \in Int /\ ~(0 > n - 1) /\ (n - 1) - 0 + 1 = n
    OBVIOUS
<1>2. Cardinality(0 .. n - 1) = n
    BY <1>1, FS_Interval
<1> QED BY <1>2

LEMMA PositionsDiffer ==
    ASSUME TypeI, phase # "idle", NEW k \in 0 .. steps - 1, NEW j \in 0 .. steps - 1, k # j
    PROVE  Position(k) # Position(j)
BY DEF Position, PositionOf, TypeI

\* Blob b of contents c has value v at place p of the sequence.
Kept(c, b, p, v) == b # NoBlob /\ c[b][p % Cardinality(DOMAIN c[b])] = v

LEMMA HoldsKept ==
    ASSUME NEW b, NEW k, NEW v
    PROVE  Holds(b, k, v) <=> Kept(content, b, Position(k), v)
BY DEF Holds, Kept, Item

\* In a blob of all the positions.
LEMMA KeptFacts ==
    ASSUME TypeI, phase # "idle", NEW c, NEW b, b # NoBlob, DOMAIN c[b] = 0 .. steps - 1,
           NEW k \in 0 .. steps - 1, NEW v
    PROVE  Kept(c, b, Position(k), v) <=> c[b][Position(k)] = v
<1>1. steps \in Nat \ {0}
    BY DEF TypeI
<1>2. Cardinality(DOMAIN c[b]) = steps /\ (Position(k) % steps) = Position(k)
    BY <1>1, ItemFacts, PositionFacts
<1> QED BY <1>2 DEF Kept

LEMMA SameMeaning ==
    ASSUME UNCHANGED <<run, length, reverse, steps, carried>>
    PROVE  \A m, k : Value(m, k)' = Value(m, k) /\ Position(k)' = Position(k)
BY DEF Value, Position, PositionOf

LEMMA SameLines ==
    ASSUME UNCHANGED <<net, inPlace>>
    PROVE  \A l : Line(l)' = Line(l)
BY DEF Line

LEMMA SameSolid ==
    ASSUME UNCHANGED <<net, inPlace, reuse, training>>
    PROVE  \A m : (Solid(m)' <=> Solid(m)) /\ (NeedsIn(m)' <=> NeedsIn(m)) /\ Needed(m)' = Needed(m)
BY DEF Solid, NeedsIn, Keeps, Needed

-----------------------------------------------------------------------------
(* One layer is run.                                                       *)

\* A layer that is run reads what its inputs have computed.
LEMMA InputsAreThere ==
    ASSUME TypeI, ReadI, NEW l \in DOMAIN net, phase = "forward", IndexIn(net, l) = at,
           NEW i \in DOMAIN net[l]
    PROVE  /\ net[l][i] \in DOMAIN net /\ Visited(net[l][i])
           /\ Holds(outBlobs[net[l][i]], step, Value(net[l][i], step))
<1>1. net[l][i] \in DOMAIN net /\ l \in Readers(net, net[l][i])
    BY NetFacts DEF TypeI, Readers
<1>2. Visited(net[l][i])
    BY <1>1, ReadersAreLater DEF TypeI, Visited
<1>3. ~Visited(l)
    BY DEF Visited, TypeI
<1> QED
    BY <1>1, <1>2, <1>3 DEF ReadI

LEMMA ReadFacts ==
    ASSUME TypeI, ReadI, NEW l \in DOMAIN net, phase = "forward", IndexIn(net, l) = at,
           NEW i \in DOMAIN net[l]
    PROVE  Read(l, i) = Value(net[l][i], step) /\ Taken(l)[i] = outBlobs[net[l][i]]
           /\ Taken(l)[i] # NoBlob
<1>1. Taken(l)[i] = outBlobs[net[l][i]]
    BY DEF Taken
<1> QED
    BY <1>1, InputsAreThere DEF Read, Holds

LEMMA AllocatedFacts ==
    ASSUME TypeI, InPlaceI, OwnI, SourceI, ReadI, NEW l \in DOMAIN net, phase = "forward",
           IndexIn(net, l) = at
    PROVE  /\ l \in Sources => Allocated(l) = UserBlob(l)
           /\ IsSink(net, l) => Allocated(l) = NoBlob
           /\ ~IsSink(net, l) => Allocated(l) # NoBlob /\ Allocated(l)[1] \in Line(l)
           /\ outBlobs[l] # NoBlob => Allocated(l) = outBlobs[l]
           /\ l \notin Sources /\ ~IsSink(net, l) /\ Allocated(l) \in DOMAIN content
                 /\ Allocated(l) = outBlobs[l] => DOMAIN content[Allocated(l)] = 0 .. steps - 1
<1>0. /\ l \in Line(l) /\ <<l, run, 0>> # NoBlob /\ <<l, run, step>> # NoBlob
      /\ <<l, run, 0>>[1] = l /\ <<l, run, step>>[1] = l
    BY LineFacts DEF NoBlob
<1>1. CASE l \in Sources
    <2>1. ~IsSink(net, l)
        BY <1>1, SinkFacts DEF TypeI
    <2> QED BY <1>0, <1>1, <2>1 DEF Allocated, UserBlob, SourceI
<1>2. CASE IsSink(net, l)
    <2>1. l \notin Sources /\ outBlobs[l] = NoBlob
        BY <1>2, SinkFacts DEF TypeI, OwnI
    <2> QED BY <1>2, <2>1 DEF Allocated
<1>3. CASE l \notin Sources /\ ~IsSink(net, l) /\ outBlobs[l] # NoBlob
    <2>1. Allocated(l) = outBlobs[l]
        BY <1>3 DEF Allocated
    <2> QED BY <1>3, <2>1 DEF OwnI, ItemsIn
<1>4. CASE l \notin Sources /\ ~IsSink(net, l) /\ outBlobs[l] = NoBlob
    <2>1. CASE l \notin inPlace
        <3>1. Allocated(l) = <<l, run, step>>
            BY <1>4, <2>1 DEF Allocated
        <3> QED BY <1>0, <1>4, <3>1
    <2>2. CASE l \in inPlace
        <3>1. 1 \in DOMAIN net[l] /\ net[l][1] \in DOMAIN net /\ Line(net[l][1]) \subseteq Line(l)
            BY <2>2, InPlaceFacts, LineFacts
        <3>2. Allocated(l) = outBlobs[net[l][1]] /\ outBlobs[net[l][1]] # NoBlob
            BY <1>4, <2>2, <3>1, ReadFacts DEF Allocated
        <3> QED BY <1>4, <3>1, <3>2 DEF OwnI
    <2> QED BY <2>1, <2>2
<1> QED BY <1>1, <1>2, <1>3, <1>4

\* A back link copies what it should pass on.
LEMMA CopiedFacts ==
    ASSUME TypeI, ReadI, LinkI, NEW b \in NetLinks, phase = "forward", IndexIn(net, b) = at,
           NEW kept, kept = IF reverse /\ step = 0 THEN Zero ELSE captured[CaptureOf[b]]
    PROVE  Copied(b, kept, (reverse /\ step = 0) \/ b \in first) = Value(b, step)
<1>1. ~Visited(b) /\ b \in DOMAIN net
    BY DEF Visited, TypeI, NetLinks
<1>2. carried[step + 1][b] = Due(b)
    BY <1>1 DEF LinkI
<1>3. Value(b, step) = carried[step + 1][b]
    BY RecurrentAssumption DEF Value, NetLinks
<1>4. Follows(b, length) \/ HasInitialInput(b, length) => Read(b, 1) = Value(net[b][1], step)
    <2> SUFFICES ASSUME ~IsSource(net, b) PROVE Read(b, 1) = Value(net[b][1], step)
        BY DEF Follows, HasInitialInput
    <2>1. net[b] \in Seq(DOMAIN net) /\ net[b] # <<>>
        BY <1>1, NetFacts DEF TypeI, IsSource
    <2>2. 1 \in DOMAIN net[b]
        BY <2>1
    <2> QED BY <1>1, <2>2, ReadFacts
<1> QED BY <1>2, <1>3, <1>4 DEF Copied, Due

\* What running a layer writes.
LEMMA WriteFacts ==
    ASSUME BlobI, NEW l \in Layers, Runs(l)
    PROVE  content' = IF l \in Sources \/ IsSink(net, l) THEN content
                      ELSE Written(Allocated(l), Value(l, step))
<1>0. TypeI /\ ReadI /\ LinkI /\ SinkI /\ InPlaceI /\ OwnI /\ SourceI
    BY DEF BlobI
<1>1. l \in DOMAIN net /\ IndexIn(net, l) = at /\ phase = "forward" /\ net \in Nets
    BY <1>0, RunsFacts DEF TypeI
<1>2. CASE RunSource(l)
    BY <1>2 DEF RunSource
<1>3. CASE RunCapture(l)
    <2>1. IsSink(net, l)
        BY <1>1, <1>3, CaptureFacts DEF RunCapture
    <2> QED BY <1>3, <2>1 DEF RunCapture
<1>4. CASE RunSink(l)
    <2>1. IsSink(net, l) /\ l \in Outputs
        BY <1>1, <1>4 DEF RunSink, Outputs
    <2>2. 1 \in DOMAIN net[l]
        BY <1>1, <2>1, SinkFacts
    <2>3. step > 0 => sinkBlob[l] = Taken(l)[1]
        BY <1>0, <1>1, <2>1, <2>2, ReadFacts DEF SinkI
    <2>4. sinkBlob[l] \in {NoBlob, Taken(l)[1]} \/ step = 0
        BY <1>0, <2>3 DEF TypeI
    <2> QED BY <1>4, <2>1, <2>4 DEF RunSink
<1>5. CASE RunBackLink(l)
    <2>1. l \in NetLinks /\ l \notin Sources /\ ~IsSink(net, l)
        BY <1>1, <1>5, SinkFacts, RecurrentAssumption DEF RunBackLink, NetLinks
    <2> DEFINE kept == IF reverse /\ step = 0 THEN Zero ELSE captured[CaptureOf[l]]
    <2>2. content' = Written(Allocated(l), Copied(l, kept, (reverse /\ step = 0) \/ l \in first))
        BY <1>5 DEF RunBackLink
    <2>3. Copied(l, kept, (reverse /\ step = 0) \/ l \in first) = Value(l, step)
        BY <1>0, <1>1, <2>1, CopiedFacts
    <2> HIDE DEF kept
    <2> QED BY <2>1, <2>2, <2>3
<1>6. CASE RunLayer(l)
    <2>1. l \notin Sources /\ ~IsSink(net, l) /\ Value(l, step) = <<l, run, step>>
        BY <1>6 DEF RunLayer, Value
    <2> QED BY <1>6, <2>1 DEF RunLayer
<1> QED BY <1>2, <1>3, <1>4, <1>5, <1>6 DEF Runs

\* What it leaves: other blobs, and the other positions.
LEMMA OtherBlobs ==
    ASSUME BlobI, NEW l \in Layers, Runs(l), NEW b \in DOMAIN content,
           l \in Sources \/ b # Allocated(l)
    PROVE  b \in DOMAIN content' /\ content'[b] = content[b]
BY WriteFacts DEF Written

LEMMA OtherItems ==
    ASSUME BlobI, NEW l \in Layers, Runs(l), NEW b \in DOMAIN content,
           DOMAIN content[b] = 0 .. steps - 1
    PROVE  /\ b \in DOMAIN content' /\ DOMAIN content'[b] = 0 .. steps - 1
           /\ \A k \in 0 .. steps - 1 : k # step => content'[b][Position(k)] = content[b][Position(k)]
<1>0. TypeI /\ phase # "idle" /\ step \in 0 .. steps - 1
    BY RunsFacts DEF BlobI, TypeI
<1>1. \A k \in 0 .. steps - 1 : Position(k) \in 0 .. steps - 1 /\ (k # step => Position(k) # Position(step))
    BY <1>0, PositionFacts, PositionsDiffer
<1>2. CASE content' = content
    BY <1>2
<1>3. CASE content' = Written(Allocated(l), Value(l, step))
    BY <1>1, <1>3 DEF Written
<1> QED BY <1>2, <1>3, WriteFacts

LEMMA ItemWritten ==
    ASSUME BlobI, NEW l \in Layers, Runs(l), l \notin Sources, ~IsSink(net, l)
    PROVE  /\ Allocated(l) \in DOMAIN content' /\ DOMAIN content'[Allocated(l)] = 0 .. steps - 1
           /\ content'[Allocated(l)][Position(step)] = Value(l, step)
<1>0. TypeI /\ phase # "idle" /\ step \in 0 .. steps - 1
    BY RunsFacts DEF BlobI, TypeI
<1>1. Position(step) \in 0 .. steps - 1
    BY <1>0, PositionFacts
<1>2. content' = Written(Allocated(l), Value(l, step))
    BY WriteFacts
<1> QED BY <1>1, <1>2 DEF Written

LEMMA RunsOut ==
    ASSUME BlobI, NEW l \in Layers, Runs(l), NEW m \in DOMAIN net
    PROVE  /\ outBlobs'[m] = IF m = l THEN Allocated(l)
                             ELSE IF Drops(l, m) THEN NoBlob ELSE outBlobs[m]
           /\ Visited(m)' <=> (Visited(m) \/ m = l)
           /\ IndexIn(net, m) \in Nat /\ (m = l <=> IndexIn(net, m) = at)
<1>1. /\ net \in Nets /\ m \in Layers /\ l \in DOMAIN net /\ IndexIn(net, l) = at /\ at' = at + 1
      /\ net' = net /\ RunsOnce(l) /\ at \in Nat
    BY RunsFacts, NetFacts DEF BlobI, TypeI
<1>2. IndexIn(net, m) \in Nat /\ (m = l <=> IndexIn(net, m) = at)
    BY <1>1, OrderFacts, OneIndex
<1>3. Visited(m)' <=> (Visited(m) \/ m = l)
    BY <1>1, <1>2 DEF Visited
<1> QED BY <1>1, <1>2, <1>3 DEF RunsOnce

\* When the lines of two layers meet, the layer that is run spoils the one visited before.
LEMMA Spoilt ==
    ASSUME BlobI, NEW l \in Layers, Runs(l), NEW m \in DOMAIN net, m # l,
           NEW o \in Line(m), o \in Line(l)
    PROVE  /\ m \notin Sources /\ l \notin Sources
           /\ Visited(m) => ~Solid(m) /\ \A c \in Readers(net, m) : Visited(c)'
<1>0. TypeI /\ InPlaceI /\ net \in Nets /\ l \in DOMAIN net
    BY RunsFacts DEF BlobI, TypeI
<1>1. m \notin Sources
    BY <1>0, LineFacts, InPlaceFacts
<1>2. l \notin Sources
    BY <1>0, LineFacts, InPlaceFacts
<1>3. ASSUME Visited(m) PROVE ~Solid(m) /\ \A c \in Readers(net, m) : Visited(c)'
    <2>1. IndexIn(net, m) < IndexIn(net, l) /\ IndexIn(net, l) = at /\ at' = at + 1 /\ net' = net /\ at \in Nat
        BY <1>0, <1>3, RunsFacts DEF Visited, TypeI
    <2>2. PICK d \in DOMAIN net : Overwrites(d, m, l)
        BY <1>0, <2>1, LinesMeet
    <2>3. ~Solid(m)
        BY <2>2 DEF Overwrites, Solid
    <2>4. ASSUME NEW c \in Readers(net, m) PROVE Visited(c)'
        <3>1. c \in DOMAIN net /\ IndexIn(net, c) <= IndexIn(net, d) /\ IndexIn(net, d) <= at
            BY <1>0, <2>1, <2>2, LastUserFacts DEF Overwrites
        <3>2. IndexIn(net, c) \in Nat /\ IndexIn(net, d) \in Nat
            BY <1>0, <3>1, OrderFacts
        <3> QED BY <2>1, <3>1, <3>2 DEF Visited
    <2> QED BY <2>3, <2>4
<1> QED BY <1>1, <1>2, <1>3

\* What is dropped nobody is to read, and it is not kept for the backward pass.
LEMMA DropFacts ==
    ASSUME BlobI, NEW l \in Layers, Runs(l), NEW m \in DOMAIN net, Drops(l, m)
    PROVE  /\ \A c \in Readers(net, m) : Visited(c)' /\ ~IsSink(net, c)
           /\ Solid(m) => Gone(m)'
<1>0. /\ TypeI /\ net \in Nets /\ l \in DOMAIN net /\ IndexIn(net, l) = at /\ at' = at + 1 /\ at \in Nat
      /\ UNCHANGED <<net, training, steps, step>> /\ IsLastUser(net, l, m)
    BY RunsFacts DEF BlobI, TypeI, Drops
<1>1. ASSUME NEW c \in Readers(net, m) PROVE Visited(c)' /\ ~IsSink(net, c)
    <2>1. c \in DOMAIN net /\ IndexIn(net, c) <= at /\ ~IsSink(net, c)
        BY <1>0, LastUserFacts
    <2>2. IndexIn(net, c) \in Nat
        BY <1>0, <2>1, OrderFacts
    <2> QED BY <1>0, <2>1, <2>2 DEF Visited
<1>2. ASSUME Solid(m) PROVE Gone(m)'
    <2>1. MayFreeIoBlobs(l) /\ "out" \notin Needed(m)
        BY DEF Drops
    <2>2. training /\ Keeps(l)
        BY <1>0, <1>2, <2>1 DEF Solid, MayFreeIoBlobs
    <2>3. LastStep
        BY <2>1, <2>2 DEF MayFreeIoBlobs, Keeps
    <2>4. Visited(l)'
        BY <1>0 DEF Visited
    <2> QED BY <1>0, <2>1, <2>3, <2>4 DEF Gone, LastStep, Needed
<1> QED BY <1>1, <1>2

LEMMA OwnRuns ==
    ASSUME BlobI, NEW l \in Layers, Runs(l)
    PROVE  OwnI'
<1>0. /\ TypeI /\ InPlaceI /\ OwnI /\ SourceI /\ ReadI /\ net \in Nets
      /\ l \in DOMAIN net /\ phase = "forward" /\ IndexIn(net, l) = at
      /\ UNCHANGED <<net, inPlace, length, steps, run>>
    BY RunsFacts DEF BlobI, TypeI
<1> SUFFICES ASSUME NEW m \in DOMAIN net, outBlobs'[m] # NoBlob
             PROVE  /\ ~IsSink(net, m) /\ outBlobs'[m][1] \in Line(m)
                    /\ outBlobs'[m] \in DOMAIN content'
                    /\ DOMAIN content'[outBlobs'[m]] = 0 .. ItemsIn(m) - 1
    BY <1>0, SameLines DEF OwnI, ItemsIn
<1>1. CASE m = l
    <2>1. outBlobs'[m] = Allocated(l)
        BY <1>1, RunsOut
    <2>2. ~IsSink(net, m) /\ outBlobs'[m][1] \in Line(m)
        BY <1>0, <1>1, <2>1, AllocatedFacts
    <2>3. CASE l \in Sources
        <3>1. Allocated(l) = UserBlob(l) /\ content' = content
            BY <1>0, <2>3, AllocatedFacts, WriteFacts
        <3>2. UserBlob(l) \in DOMAIN content /\ DOMAIN content[UserBlob(l)] = 0 .. ItemsOf(l, length) - 1
            BY <1>0, <2>3 DEF SourceI
        <3> QED BY <1>1, <2>1, <2>2, <2>3, <3>1, <3>2 DEF ItemsIn
    <2>4. CASE l \notin Sources
        <3>1. Allocated(l) \in DOMAIN content' /\ DOMAIN content'[Allocated(l)] = 0 .. steps - 1
            BY <1>1, <2>2, <2>4, ItemWritten
        <3> QED BY <1>1, <2>1, <2>2, <2>4, <3>1 DEF ItemsIn
    <2> QED BY <2>3, <2>4
<1>2. CASE m # l
    <2>1. outBlobs'[m] = outBlobs[m] /\ outBlobs[m] # NoBlob
        BY <1>2, RunsOut
    <2>2. /\ ~IsSink(net, m) /\ outBlobs[m][1] \in Line(m) /\ outBlobs[m] \in DOMAIN content
          /\ DOMAIN content[outBlobs[m]] = 0 .. ItemsIn(m) - 1
        BY <1>0, <2>1 DEF OwnI
    <2>3. CASE l \in Sources \/ outBlobs[m] # Allocated(l)
        BY <2>1, <2>2, <2>3, OtherBlobs
    <2>4. CASE outBlobs[m] = Allocated(l)
        <3>1. ~IsSink(net, l)
            BY <1>0, <2>1, <2>4, AllocatedFacts
        <3>2. Allocated(l)[1] \in Line(l) /\ Allocated(l)[1] \in Line(m)
            BY <1>0, <2>2, <2>4, <3>1, AllocatedFacts
        <3>3. m \notin Sources
            BY <1>2, <3>2, Spoilt
        <3>4. DOMAIN content[outBlobs[m]] = 0 .. steps - 1
            BY <2>2, <3>3 DEF ItemsIn
        <3> QED BY <2>1, <2>2, <3>3, <3>4, OtherItems DEF ItemsIn
    <2> QED BY <2>3, <2>4
<1> QED BY <1>1, <1>2

LEMMA SourceRuns ==
    ASSUME BlobI, NEW l \in Layers, Runs(l)
    PROVE  SourceI'
<1>0. /\ TypeI /\ InPlaceI /\ OwnI /\ SourceI /\ ReadI /\ net \in Nets
      /\ l \in DOMAIN net /\ phase = "forward" /\ IndexIn(net, l) = at
      /\ UNCHANGED <<net, inPlace, length, steps, run>>
    BY RunsFacts DEF BlobI, TypeI
<1> SUFFICES ASSUME NEW s \in Sources \cap DOMAIN net
             PROVE  /\ outBlobs'[s] \in {NoBlob, UserBlob(s)}
                    /\ UserBlob(s) \in DOMAIN content'
                    /\ content'[UserBlob(s)] = [j \in 0 .. ItemsOf(s, length) - 1 |-> <<s, run, j>>]
    BY <1>0 DEF SourceI, UserBlob
<1>1. outBlobs'[s] \in {NoBlob, UserBlob(s)}
    BY <1>0, RunsOut, AllocatedFacts DEF SourceI
<1>2. UserBlob(s) \in DOMAIN content /\ UserBlob(s)[1] = s /\ UserBlob(s) # NoBlob
    BY <1>0 DEF SourceI, UserBlob, NoBlob
<1>3. l \in Sources \/ UserBlob(s) # Allocated(l)
    BY <1>0, <1>2, AllocatedFacts, LineFacts
<1>4. UserBlob(s) \in DOMAIN content' /\ content'[UserBlob(s)] = content[UserBlob(s)]
    BY <1>2, <1>3, OtherBlobs
<1> QED BY <1>0, <1>1, <1>4 DEF SourceI

\* The layer that was run has what it should have computed.
LEMMA RunsValue ==
    ASSUME BlobI, NEW l \in Layers, Runs(l), ~IsSink(net, l)
    PROVE  Kept(content', outBlobs'[l], Position(step), Value(l, step))
<1>0. /\ TypeI /\ InPlaceI /\ OwnI /\ SourceI /\ ReadI /\ net \in Nets /\ step \in 0 .. steps - 1
      /\ l \in DOMAIN net /\ phase = "forward" /\ IndexIn(net, l) = at
      /\ UNCHANGED <<net, inPlace, length, steps, run>>
    BY RunsFacts DEF BlobI, TypeI
<1>1. outBlobs'[l] = Allocated(l) /\ Allocated(l) # NoBlob
    BY <1>0, RunsOut, AllocatedFacts
<1>2. CASE l \in Sources
    <2> DEFINE n == ItemsOf(l, length)
    <2>1. Allocated(l) = UserBlob(l) /\ content' = content
        BY <1>0, <1>2, AllocatedFacts, WriteFacts
    <2>2. content[UserBlob(l)] = [j \in 0 .. n - 1 |-> <<l, run, j>>]
        BY <1>0, <1>2 DEF SourceI
    <2>3. n \in Nat \ {0} /\ (Position(step) % n) \in 0 .. n - 1
        BY <1>0, ItemOfSource
    <2>4. DOMAIN content[UserBlob(l)] = 0 .. n - 1
        BY <2>2
    <2>5. Cardinality(DOMAIN content[UserBlob(l)]) = n
        BY <2>3, <2>4, ItemFacts
    <2>6. Value(l, step) = <<l, run, Position(step) % n>>
        BY <1>2 DEF Value
    <2>7. content[UserBlob(l)][Position(step) % n] = <<l, run, Position(step) % n>>
        BY <2>2, <2>3
    <2> HIDE DEF n
    <2> QED BY <1>1, <2>1, <2>5, <2>6, <2>7 DEF Kept
<1>3. CASE l \notin Sources
    BY <1>0, <1>1, <1>3, ItemWritten, KeptFacts
<1> QED BY <1>2, <1>3

LEMMA ReadRuns ==
    ASSUME BlobI, NEW l \in Layers, Runs(l)
    PROVE  ReadI'
<1>0. /\ TypeI /\ InPlaceI /\ OwnI /\ SourceI /\ ReadI /\ net \in Nets
      /\ l \in DOMAIN net /\ phase = "forward" /\ IndexIn(net, l) = at
      /\ UNCHANGED <<net, inPlace, length, steps, step, run, reverse, carried>>
    BY RunsFacts DEF BlobI, TypeI
<1> SUFFICES ASSUME NEW m \in DOMAIN net, Visited(m)', NEW c \in Readers(net, m), ~Visited(c)'
             PROVE  Kept(content', outBlobs'[m], Position(step), Value(m, step))
    <2>1. \A m : Holds(outBlobs[m], step, Value(m, step))' <=>
                 Kept(content', outBlobs'[m], Position(step), Value(m, step))
        BY <1>0, SameMeaning DEF Holds, Kept, Item
    <2> QED BY <1>0, <2>1 DEF ReadI
<1>1. CASE m = l
    BY <1>1, RunsValue DEF IsSink
<1>2. CASE m # l
    <2>1. Visited(m) /\ c \in DOMAIN net /\ ~Visited(c)
        BY <1>0, <1>2, RunsOut DEF Readers
    <2>2. Holds(outBlobs[m], step, Value(m, step))
        BY <1>0, <2>1 DEF ReadI
    <2>3. ~Drops(l, m)
        BY DropFacts
    <2>4. outBlobs'[m] = outBlobs[m] /\ outBlobs[m] # NoBlob
        BY <1>2, <2>2, <2>3, RunsOut DEF Holds
    <2>5. outBlobs[m] \in DOMAIN content /\ outBlobs[m][1] \in Line(m)
        BY <1>0, <2>4 DEF OwnI
    <2>6. l \in Sources \/ outBlobs[m] # Allocated(l)
        <3> SUFFICES ASSUME l \notin Sources, outBlobs[m] = Allocated(l) PROVE FALSE
            OBVIOUS
        <3>1. outBlobs[m][1] \in Line(l)
            BY <1>0, <2>4, AllocatedFacts
        <3> QED BY <1>2, <2>1, <2>5, <3>1, Spoilt
    <2>7. content'[outBlobs[m]] = content[outBlobs[m]]
        BY <2>5, <2>6, OtherBlobs
    <2> QED BY <2>2, <2>4, <2>7 DEF Holds, Kept, Item
<1> QED BY <1>1, <1>2

LEMMA SolidRuns ==
    ASSUME BlobI, NEW l \in Layers, Runs(l)
    PROVE  SolidI'
<1>0. /\ TypeI /\ InPlaceI /\ OwnI /\ SourceI /\ ReadI /\ SolidI /\ net \in Nets
      /\ l \in DOMAIN net /\ phase = "forward" /\ IndexIn(net, l) = at
      /\ step \in Nat /\ steps \in Nat /\ step < steps
      /\ UNCHANGED <<net, inPlace, length, steps, step, run, reverse, carried, reuse, training>>
    BY RunsFacts DEF BlobI, TypeI
<1> SUFFICES ASSUME NEW m \in DOMAIN net, ~IsSink(net, m), Solid(m), ~Gone(m)', NEW k \in 0 .. step,
                    k < step \/ Visited(m)'
             PROVE  Kept(content', outBlobs'[m], Position(k), Value(m, k))
    <2>1. \A m, k : Holds(outBlobs[m], k, Value(m, k))' <=>
                    Kept(content', outBlobs'[m], Position(k), Value(m, k))
        BY <1>0, SameMeaning DEF Holds, Kept, Item
    <2> QED BY <1>0, <2>1, SameSolid DEF SolidI
<1>1. ~Gone(m)
    BY <1>0, RunsOut, SameSolid DEF Gone, LastStep
<1>2. ~Drops(l, m)
    BY DropFacts
<1>3. k \in 0 .. steps - 1
    BY <1>0
<1>4. CASE m = l
    <2>1. CASE k = step
        BY <1>4, <2>1, RunsValue
    <2>2. CASE k # step
        <3>1. Holds(outBlobs[l], k, Value(l, k))
            BY <1>0, <1>1, <1>4, <2>2 DEF SolidI
        <3>2. outBlobs[l] # NoBlob /\ outBlobs'[l] = outBlobs[l] /\ Kept(content, outBlobs[l], Position(k), Value(l, k))
            BY <1>0, <3>1, AllocatedFacts, RunsOut, HoldsKept DEF Holds
        <3>3. outBlobs[l] \in DOMAIN content /\ DOMAIN content[outBlobs[l]] = 0 .. ItemsIn(l) - 1
            BY <1>0, <3>2 DEF OwnI
        <3>4. CASE l \in Sources
            BY <1>4, <3>2, <3>4, WriteFacts
        <3>5. CASE l \notin Sources
            <4>1. DOMAIN content[outBlobs[l]] = 0 .. steps - 1
                BY <3>3, <3>5 DEF ItemsIn
            <4>2. /\ DOMAIN content'[outBlobs[l]] = 0 .. steps - 1
                  /\ content'[outBlobs[l]][Position(k)] = content[outBlobs[l]][Position(k)]
                BY <1>3, <2>2, <3>3, <4>1, OtherItems
            <4> QED BY <1>0, <1>3, <1>4, <3>2, <4>1, <4>2, KeptFacts
        <3> QED BY <3>4, <3>5
    <2> QED BY <2>1, <2>2
<1>5. CASE m # l
    <2>1. k < step \/ Visited(m)
        BY <1>5, RunsOut
    <2>2. Holds(outBlobs[m], k, Value(m, k))
        BY <1>0, <1>1, <2>1 DEF SolidI
    <2>3. /\ outBlobs'[m] = outBlobs[m] /\ outBlobs[m] # NoBlob
          /\ Kept(content, outBlobs[m], Position(k), Value(m, k))
        BY <1>2, <1>5, <2>2, RunsOut, HoldsKept DEF Holds
    <2>4. outBlobs[m] \in DOMAIN content /\ outBlobs[m][1] \in Line(m) /\ DOMAIN content[outBlobs[m]] = 0 .. ItemsIn(m) - 1
        BY <1>0, <2>3 DEF OwnI
    <2>5. CASE l \in Sources \/ outBlobs[m] # Allocated(l)
        <3>1. content'[outBlobs[m]] = content[outBlobs[m]]
            BY <2>4, <2>5, OtherBlobs
        <3> QED BY <2>3, <3>1 DEF Kept
    <2>6. CASE l \notin Sources /\ outBlobs[m] = Allocated(l)
        <3>1. outBlobs[m][1] \in Line(l)
            BY <1>0, <2>3, <2>6, AllocatedFacts
        <3>2. m \notin Sources /\ ~Visited(m)
            BY <1>5, <2>4, <3>1, Spoilt
        <3>3. k # step /\ DOMAIN content[outBlobs[m]] = 0 .. steps - 1
            BY <2>1, <2>4, <3>2 DEF ItemsIn
        <3>4. /\ DOMAIN content'[outBlobs[m]] = 0 .. steps - 1
              /\ content'[outBlobs[m]][Position(k)] = content[outBlobs[m]][Position(k)]
            BY <1>3, <2>4, <3>3, OtherItems
        <3> QED BY <1>0, <1>3, <2>3, <3>3, <3>4, KeptFacts
    <2> QED BY <2>5, <2>6
<1> QED BY <1>4, <1>5

\* What a sink reads has no last user.
LEMMA SinkInput ==
    ASSUME NEW n \in Nets, NEW s \in DOMAIN n, IsSink(n, s)
    PROVE  /\ 1 \in DOMAIN n[s] /\ n[s][1] \in DOMAIN n /\ n[s][1] # s /\ ~IsSink(n, n[s][1])
           /\ \A d : ~IsLastUser(n, d, n[s][1])
<1>1. 1 \in DOMAIN n[s] /\ n[s][1] \in DOMAIN n
    BY SinkFacts, NetFacts
<1>2. s \in Readers(n, n[s][1])
    BY <1>1 DEF Readers
<1>3. n[s][1] # s
    BY <1>2 DEF IsSink
<1> QED BY <1>1, <1>2, <1>3 DEF IsLastUser, IsSink

LEMMA SinkRuns ==
    ASSUME BlobI, NEW l \in Layers, Runs(l)
    PROVE  SinkI'
<1>0. /\ TypeI /\ InPlaceI /\ OwnI /\ SourceI /\ ReadI /\ SinkI /\ net \in Nets
      /\ l \in DOMAIN net /\ phase = "forward" /\ IndexIn(net, l) = at
      /\ UNCHANGED <<net, step>>
    BY RunsFacts DEF BlobI, TypeI
<1> SUFFICES ASSUME NEW s \in Outputs, step > 0 \/ Visited(s)'
             PROVE  sinkBlob'[s] # NoBlob /\ sinkBlob'[s] = outBlobs'[net[s][1]]
    BY <1>0 DEF SinkI, Outputs
<1>1. s \in DOMAIN net /\ IsSink(net, s) /\ s \notin Captures /\ s \in Layers
    BY <1>0, NetFacts DEF Outputs
<1> DEFINE m == net[s][1]
<1>2. 1 \in DOMAIN net[s] /\ m \in DOMAIN net /\ m # s /\ ~Drops(l, m)
    BY <1>0, <1>1, SinkInput DEF Drops
<1>3. CASE s = l
    <2>1. outBlobs'[m] = outBlobs[m] /\ Taken(s)[1] = outBlobs[m] /\ outBlobs[m] # NoBlob
        BY <1>0, <1>1, <1>2, <1>3, RunsOut, ReadFacts
    <2>2. RunSink(l)
        BY <1>0, <1>1, <1>3, SinkFacts DEF Runs, RunSource, RunCapture, RunBackLink, RunLayer
    <2>3. step > 0 => sinkBlob[s] = Taken(s)[1]
        BY <1>0, <2>1 DEF SinkI
    <2>4. sinkBlob[s] \in {NoBlob, Taken(s)[1]} \/ step = 0
        BY <1>0, <2>3 DEF TypeI
    <2>5. sinkBlob' = [sinkBlob EXCEPT ![s] = Taken(s)[1]]
        BY <1>3, <2>2, <2>4 DEF RunSink
    <2> QED BY <1>0, <1>1, <2>1, <2>5 DEF TypeI
<1>4. CASE s # l
    <2>1. sinkBlob[s] # NoBlob /\ sinkBlob[s] = outBlobs[m]
        BY <1>0, <1>1, <1>4, RunsOut DEF SinkI
    <2>2. sinkBlob'[s] = sinkBlob[s]
        BY <1>0, <1>1, <1>4 DEF Runs, RunSource, RunCapture, RunSink, RunBackLink, RunLayer, TypeI
    <2>3. outBlobs'[m] = outBlobs[m]
        BY <1>0, <1>2, <2>1, RunsOut, AllocatedFacts
    <2> QED BY <2>1, <2>2, <2>3
<1> QED BY <1>3, <1>4

\* A capture sink is visited after its back link.
LEMMA CaptureIsLater ==
    ASSUME NEW n \in Nets, NEW b \in BackLinks \cap DOMAIN n
    PROVE  IndexIn(n, b) < IndexIn(n, CaptureOf[b])
<1> DEFINE c == CaptureOf[b]
           S == {x \in DOMAIN n : IndexIn(n, x) <= IndexIn(n, c)}
<1>1. c \in DOMAIN n /\ c # b
    BY BackLinkFacts, SinkFacts
<1>2. \A x \in DOMAIN n : IndexIn(n, x) \in Nat
    BY OrderFacts
<1>3. ASSUME NEW x \in S, NEW i \in DOMAIN n[x] PROVE n[x][i] \in S
    <2>1. n[x][i] \in DOMAIN n /\ IndexIn(n, n[x][i]) < IndexIn(n, x)
        BY NetFacts, NetsAssumption
    <2> QED BY <1>1, <1>2, <2>1
<1>4. b \in S
    <2>1. S \in SUBSET DOMAIN n /\ c \in S
        BY <1>1, <1>2
    <2>2. ClosedBack(n, S)
        BY <1>3 DEF ClosedBack
    <2> HIDE DEF S
    <2> QED BY <2>1, <2>2, BackLinkFacts
<1>5. IndexIn(n, b) # IndexIn(n, c)
    BY <1>1, OneIndex
<1> QED BY <1>1, <1>2, <1>4, <1>5

\* What running a layer does to the back links.
LEMMA RunsLinks ==
    ASSUME BlobI, NEW l \in Layers, Runs(l), NEW b \in NetLinks
    PROVE  /\ b \in first' <=> b \in first /\ b # l
           /\ b # l /\ l # CaptureOf[b] => captured'[CaptureOf[b]] = captured[CaptureOf[b]]
           /\ l = CaptureOf[b] => captured'[l] = Value(net[l][1], step)
<1>0. /\ TypeI /\ ReadI /\ net \in Nets /\ l \in DOMAIN net /\ phase = "forward" /\ IndexIn(net, l) = at
      /\ DOMAIN captured = Captures /\ CaptureOf[b] \in Captures /\ b \in BackLinks
      /\ \A d \in BackLinks : CaptureOf[d] = CaptureOf[b] => d = b
    BY RunsFacts, CapturesDiffer, BackLinkFacts DEF BlobI, TypeI, NetLinks
<1>1. l \in Captures \cap DOMAIN net => l \notin Sources \cup BackLinks /\ IsSink(net, l)
    BY <1>0, CaptureFacts
<1>2. l \in BackLinks => l \notin Sources /\ ~IsSink(net, l)
    BY <1>0, SinkFacts, RecurrentAssumption
<1>3. CASE RunSource(l)
    BY <1>0, <1>1, <1>2, <1>3 DEF RunSource, linkVars
<1>4. CASE RunCapture(l)
    <2>1. 1 \in DOMAIN net[l]
        BY <1>0, <1>1, <1>4, SinkFacts DEF RunCapture
    <2>2. Read(l, 1) = Value(net[l][1], step)
        BY <1>0, <2>1, ReadFacts
    <2> QED BY <1>0, <1>1, <1>4, <2>2 DEF RunCapture
<1>5. CASE RunSink(l)
    BY <1>0, <1>1, <1>2, <1>5 DEF RunSink, linkVars
<1>6. CASE RunBackLink(l)
    BY <1>0, <1>1, <1>2, <1>6 DEF RunBackLink
<1>7. CASE RunLayer(l)
    BY <1>0, <1>1, <1>2, <1>7 DEF RunLayer, linkVars
<1> QED BY <1>3, <1>4, <1>5, <1>6, <1>7 DEF Runs

LEMMA LinkRuns ==
    ASSUME BlobI, NEW l \in Layers, Runs(l)
    PROVE  LinkI'
<1>0. /\ TypeI /\ LinkI /\ net \in Nets /\ l \in DOMAIN net /\ phase = "forward" /\ phase' = "forward"
      /\ UNCHANGED <<net, length, steps, step, run, reverse, carried>>
    BY RunsFacts DEF BlobI, TypeI
<1> SUFFICES ASSUME NEW b \in NetLinks
             PROVE  /\ step > 0 \/ Visited(b)' => b \notin first'
                    /\ ~Visited(b)' => carried[step + 1][b] = Due(b)'
                    /\ Visited(CaptureOf[b])' => captured'[CaptureOf[b]] = Value(net[CaptureOf[b]][1], step)
    BY <1>0, SameMeaning DEF LinkI, NetLinks
<1>1. b \in DOMAIN net /\ CaptureOf[b] \in DOMAIN net /\ IndexIn(net, b) < IndexIn(net, CaptureOf[b])
    BY <1>0, BackLinkFacts, CaptureIsLater DEF NetLinks
<1>2. step > 0 \/ Visited(b)' => b \notin first'
    BY <1>0, <1>1, RunsOut, RunsLinks DEF LinkI
<1>3. ASSUME ~Visited(b)' PROVE carried[step + 1][b] = Due(b)'
    <2>1. b # l /\ ~Visited(b)
        BY <1>1, <1>3, RunsOut
    <2>2. CaptureOf[b] # l
        <3>1. IndexIn(net, l) = at /\ IndexIn(net, b) >= at
            BY <1>1, <2>1, RunsFacts, RunsOut DEF Visited, TypeI, BlobI
        <3> QED BY <1>1, <3>1, RunsOut
    <2>3. (b \in first' <=> b \in first) /\ captured'[CaptureOf[b]] = captured[CaptureOf[b]]
        BY <2>1, <2>2, RunsLinks
    <2>4. Due(b)' = Due(b)
        BY <1>0, <2>3, SameMeaning DEF Due, Follows, HasInitialInput
    <2> QED BY <1>0, <2>1, <2>4 DEF LinkI
<1>4. ASSUME Visited(CaptureOf[b])'
      PROVE  captured'[CaptureOf[b]] = Value(net[CaptureOf[b]][1], step)
    <2>1. CASE CaptureOf[b] = l
        BY <2>1, RunsLinks
    <2>2. CASE CaptureOf[b] # l
        <3>1. Visited(CaptureOf[b]) /\ captured[CaptureOf[b]] = Value(net[CaptureOf[b]][1], step)
            BY <1>0, <1>1, <1>4, <2>2, RunsOut DEF LinkI
        <3>2. b # l
            <4>1. IndexIn(net, CaptureOf[b]) < at /\ IndexIn(net, l) = at
                BY <3>1, RunsFacts DEF Visited, BlobI
            <4> QED BY <1>1, <4>1, RunsOut
        <3> QED BY <2>2, <3>1, <3>2, RunsLinks
    <2> QED BY <2>1, <2>2
<1> QED BY <1>2, <1>3, <1>4

LEMMA InRuns ==
    ASSUME BlobI, NEW l \in Layers, Runs(l)
    PROVE  InI'
<1>0. /\ TypeI /\ InPlaceI /\ OwnI /\ SourceI /\ ReadI /\ SolidI /\ InI /\ net \in Nets
      /\ l \in DOMAIN net /\ phase = "forward" /\ IndexIn(net, l) = at
      /\ step \in Nat /\ steps \in Nat /\ step < steps /\ at \in Nat
      /\ UNCHANGED <<net, inPlace, length, steps, step, run, reverse, carried, reuse, training>>
    BY RunsFacts DEF BlobI, TypeI
<1> SUFFICES ASSUME LastStep, NEW q \in DOMAIN net, Visited(q)', NeedsIn(q), NEW i \in DOMAIN net[q],
                    Solid(net[q][i])
             PROVE  /\ inBlobs'[q][i] \in DOMAIN content' /\ inBlobs'[q][i][1] \in Line(net[q][i])
                    /\ \A k \in 0 .. step : Kept(content', inBlobs'[q][i], Position(k), Value(net[q][i], k))
    <2>1. \A b, m, k : Kept(content', b, Position(k), Value(m, k)) <=>
              b # NoBlob /\ content'[b][Position(k)' % Cardinality(DOMAIN content'[b])] = Value(m, k)'
        BY <1>0, SameMeaning DEF Kept
    <2>2. LastStep' <=> LastStep
        BY <1>0 DEF LastStep
    <2> QED BY <1>0, <2>1, <2>2, SameSolid, SameLines DEF InI, Holds, Item
<1> DEFINE m == net[q][i]
<1>1. m \in DOMAIN net /\ q \in Readers(net, m) /\ IndexIn(net, m) < IndexIn(net, q)
    BY <1>0, NetFacts, NetsAssumption DEF Readers
<1>2. IndexIn(net, q) <= at
    BY <1>0, RunsOut DEF Visited
<1>3. m # l /\ Visited(m) /\ ~IsSink(net, m)
    <2>1. IndexIn(net, m) < at
        BY <1>0, <1>1, <1>2, RunsOut
    <2> QED BY <1>0, <1>1, <2>1 DEF Visited, IsSink
\* A blob of the line of m stays as it is.
<1>4. ASSUME NEW b \in DOMAIN content, b # NoBlob, b[1] \in Line(m)
      PROVE  b \in DOMAIN content' /\ content'[b] = content[b]
    <2>1. l \in Sources \/ b # Allocated(l)
        <3> SUFFICES ASSUME b = Allocated(l) PROVE l \in Sources
            OBVIOUS
        <3>1. b[1] \in Line(l)
            BY <1>0, <1>4, AllocatedFacts
        <3> QED BY <1>1, <1>3, <1>4, <3>1, Spoilt
    <2> QED BY <2>1, OtherBlobs
<1>5. CASE q = l
    <2>1. inBlobs'[q][i] = outBlobs[m]
        <3>1. "in" \in Needed(l) /\ RunsOnce(l) /\ DOMAIN inBlobs = Layers
            BY <1>0, <1>5, RunsFacts DEF NeedsIn, TypeI
        <3>2. inBlobs' = [inBlobs EXCEPT ![l] = Taken(l)]
            BY <3>1 DEF RunsOnce
        <3> QED BY <1>5, <3>1, <3>2 DEF Taken
    <2>2. ~Gone(m)
        <3> SUFFICES ASSUME NEW d \in DOMAIN net, IsLastUser(net, d, m), Visited(d) PROVE FALSE
            BY DEF Gone
        <3>1. IndexIn(net, q) <= IndexIn(net, d)
            BY <1>0, <1>1, LastUserFacts
        <3> QED BY <1>0, <1>5, <3>1, RunsOut DEF Visited
    <2>3. \A k \in 0 .. step : Holds(outBlobs[m], k, Value(m, k))
        BY <1>0, <1>1, <1>3, <2>2 DEF SolidI
    <2>4. outBlobs[m] # NoBlob
        <3>1. 0 \in 0 .. step
            BY <1>0
        <3> QED BY <2>3, <3>1 DEF Holds
    <2>5. outBlobs[m] \in DOMAIN content /\ outBlobs[m][1] \in Line(m)
        BY <1>0, <1>1, <2>4 DEF OwnI
    <2>6. outBlobs[m] \in DOMAIN content' /\ content'[outBlobs[m]] = content[outBlobs[m]]
        BY <1>4, <2>4, <2>5
    <2> HIDE DEF m
    <2> QED BY <2>1, <2>3, <2>5, <2>6, HoldsKept DEF Kept, m
<1>6. CASE q # l
    <2>1. Visited(q)
        BY <1>6, RunsOut
    <2>2. /\ inBlobs[q][i] \in DOMAIN content /\ inBlobs[q][i][1] \in Line(m)
          /\ \A k \in 0 .. step : Holds(inBlobs[q][i], k, Value(m, k))
        BY <1>0, <2>1 DEF InI
    <2>3. inBlobs[q][i] # NoBlob
        <3>1. 0 \in 0 .. step
            BY <1>0
        <3> QED BY <2>2, <3>1 DEF Holds
    <2>4. inBlobs'[q] = inBlobs[q]
        <3>1. RunsOnce(l) /\ DOMAIN inBlobs = Layers /\ q \in Layers
            BY <1>0, RunsFacts, NetFacts DEF TypeI
        <3> QED BY <1>6, <3>1 DEF RunsOnce
    <2>5. inBlobs[q][i] \in DOMAIN content' /\ content'[inBlobs[q][i]] = content[inBlobs[q][i]]
        BY <1>4, <2>2, <2>3
    <2> HIDE DEF m
    <2> QED BY <2>2, <2>4, <2>5, HoldsKept DEF Kept, m
<1> QED BY <1>5, <1>6

LEMMA RunsBlobI ==
    ASSUME BlobI, NEW l \in Layers, Runs(l)
    PROVE  BlobI'
<1>1. TypeI' /\ InPlaceI'
    BY TypeStep, InPlaceStep DEF BlobI, Next, Forward, Runs
<1>2. BackI' /\ ResultI'
    BY RunsFacts DEF BlobI, BackI, ResultI
<1> QED
    BY <1>1, <1>2, OwnRuns, SourceRuns, SinkRuns, ReadRuns, SolidRuns, LinkRuns, InRuns DEF BlobI

-----------------------------------------------------------------------------
(* The other steps.                                                        *)

LEMMA AllVisited ==
    ASSUME TypeI, at > Len(Order[net]), NEW l \in DOMAIN net
    PROVE  Visited(l)
<1>1. IndexIn(net, l) <= Len(Order[net]) /\ IndexIn(net, l) \in Nat /\ Len(Order[net]) \in Nat /\ at \in Nat
    BY OrderFacts DEF TypeI
<1> QED BY <1>1 DEF Visited

LEMMA NoneVisited ==
    ASSUME TypeI, net' = net, at' = 1, NEW l \in DOMAIN net
    PROVE  ~Visited(l)'
<1>1. IndexIn(net, l) \in Nat \ {0}
    BY OrderFacts DEF TypeI
<1> QED BY <1>1 DEF Visited

\* A back link that has an input reads a source.
LEMMA LinkInput ==
    ASSUME NEW n \in Nets, NEW b \in BackLinks \cap DOMAIN n, ~IsSource(n, b)
    PROVE  n[b][1] \in Sources
<1>1. n[b] \in Seq(DOMAIN n) /\ n[b] # <<>>
    BY NetFacts DEF IsSource
<1>2. 1 \in DOMAIN n[b]
    BY <1>1
<1> QED BY <1>2, NetsAssumption

LEMMA SettingBlobI ==
    ASSUME BlobI, Setting
    PROVE  BlobI'
<1>0. TypeI /\ InPlaceI /\ OwnI /\ LinkI
    BY DEF BlobI
<1>1. TypeI' /\ InPlaceI'
    BY <1>0, TypeStep, InPlaceStep DEF Next, User, Setting
<1>2. OwnI'
    BY <1>0, SettingFacts, SameLines DEF OwnI, ItemsIn
<1>3. LinkI'
    <2> SUFFICES ASSUME NEW b \in NetLinks PROVE captured'[CaptureOf[b]] = state'[b]
        BY <1>0, SettingFacts DEF LinkI, NetLinks
    <2>1. captured[CaptureOf[b]] = state[b] /\ CaptureOf[b] \in Captures /\ b \in BackLinks
        BY <1>0, SettingFacts, BackLinkFacts DEF LinkI, NetLinks, TypeI
    <2>2. CASE SetAutoRestartMode
        BY <2>1, <2>2 DEF SetAutoRestartMode, linkVars
    <2>3. CASE RestartSequence
        BY <2>1, <2>3 DEF RestartSequence
    <2>4. CASE SetState
        BY <2>1, <2>4 DEF SetState
    <2>5. CASE SetReverseSequence
        BY <2>1, <2>5 DEF SetReverseSequence, linkVars
    <2>6. ASSUME NEW count \in Repeats, SetRepeatCount(count)
          PROVE  captured'[CaptureOf[b]] = state'[b]
        BY <2>1, <2>6 DEF SetRepeatCount, linkVars
    <2> QED BY <2>2, <2>3, <2>4, <2>5, <2>6 DEF Setting
<1>4. SourceI' /\ SinkI' /\ ReadI' /\ SolidI' /\ InI' /\ BackI' /\ ResultI'
    BY <1>0, SettingFacts DEF SourceI, SinkI, ReadI, SolidI, InI, BackI, ResultI
<1> QED BY <1>1, <1>2, <1>3, <1>4 DEF BlobI

LEMMA BeginBlobI ==
    ASSUME BlobI, NEW train \in BOOLEAN, NEW len \in Lengths, Begin(train, len)
    PROVE  BlobI'
<1>0. TypeI /\ InPlaceI /\ OwnI /\ LinkI /\ net \in Nets
    BY DEF BlobI, TypeI
<1>1. TypeI' /\ InPlaceI'
    BY <1>0, TypeStep, InPlaceStep DEF Next, User
<1>2. /\ phase = "idle" /\ phase' = "forward" /\ net' = net /\ run' = run + 1 /\ training' = train
      /\ step' = 0 /\ at' = 1 /\ reverse' = reverse /\ length' = len /\ steps' = len * repeat
      /\ steps' \in Nat \ {0}
    BY <1>0, BeginFacts
<1> DEFINE reshaped == train # training \/ len * repeat # steps
           inputs == {<<s, run + 1, 0>> : s \in Sources \cap DOMAIN net}
<1>3. /\ outBlobs' = [l \in Layers |->
            IF (reshaped \/ (reshapeAsked /\ l \in inPlace) \/ l \in Sources) THEN NoBlob ELSE outBlobs[l]]
      /\ content' = [b \in DOMAIN content \cup inputs |->
            IF b \in inputs THEN [j \in 0 .. ItemsOf(b[1], len) - 1 |-> <<b[1], run + 1, j>>] ELSE content[b]]
    BY DEF Begin
<1>4. \A l \in DOMAIN net : ~Visited(l)'
    BY <1>0, <1>2, NoneVisited
<1>5. OwnI'
    <2> SUFFICES ASSUME NEW l \in DOMAIN net, outBlobs'[l] # NoBlob
                 PROVE  /\ ~IsSink(net, l) /\ outBlobs'[l][1] \in Line(l)'
                        /\ outBlobs'[l] \in DOMAIN content'
                        /\ DOMAIN content'[outBlobs'[l]] = 0 .. ItemsIn(l)' - 1
        BY <1>2 DEF OwnI
    <2>1. ~reshaped /\ l \notin Sources /\ outBlobs'[l] = outBlobs[l]
        <3>1. l \in Layers
            BY <1>0, NetFacts
        <3> QED BY <1>3, <3>1
    <2>2. /\ ~IsSink(net, l) /\ outBlobs[l][1] \in Line(l) /\ outBlobs[l] \in DOMAIN content
          /\ DOMAIN content[outBlobs[l]] = 0 .. steps - 1
        BY <1>0, <2>1 DEF OwnI, ItemsIn
    <2>3. inPlace' = inPlace
        <3>1. train = training /\ steps # 0 /\ run > 0
            BY <1>0, <1>2, <2>1 DEF InPlaceI, TypeI
        <3>2. /\ inPlace \in SUBSET (InPlaceLayers \cap DOMAIN net)
              /\ \A k \in InPlaceLayers \cap DOMAIN net :
                    k \in inPlace <=> InputsMayBeOverwritten(net, k, inPlace, train)
            BY <1>0, <3>1 DEF InPlaceI
        <3>3. /\ inPlace' \in SUBSET (InPlaceLayers \cap DOMAIN net)
              /\ \A k \in InPlaceLayers \cap DOMAIN net :
                    k \in inPlace' <=> InputsMayBeOverwritten(net, k, inPlace', train)
            BY DEF Begin
        <3> QED BY <1>0, <3>2, <3>3, InPlaceUnique
    <2>4. Line(l)' = Line(l)
        BY <1>2, <2>3, SameLines
    <2>5. outBlobs[l] \notin inputs
        <3> SUFFICES ASSUME NEW s \in Sources, outBlobs[l] = <<s, run + 1, 0>> PROVE FALSE
            OBVIOUS
        <3>1. s \in Line(l)
            BY <2>2
        <3> QED BY <1>0, <2>1, <3>1, LineFacts
    <2>6. outBlobs[l] \in DOMAIN content' /\ content'[outBlobs[l]] = content[outBlobs[l]]
        BY <1>3, <2>2, <2>5
    <2> QED BY <1>2, <2>1, <2>2, <2>4, <2>6 DEF ItemsIn
<1>6. SourceI'
    <2> SUFFICES ASSUME NEW s \in Sources \cap DOMAIN net
                 PROVE  /\ outBlobs'[s] = NoBlob
                        /\ <<s, run + 1, 0>> \in DOMAIN content'
                        /\ content'[<<s, run + 1, 0>>] = [j \in 0 .. ItemsOf(s, len) - 1 |-> <<s, run + 1, j>>]
        BY <1>2 DEF SourceI, UserBlob
    <2>1. <<s, run + 1, 0>> \in inputs /\ s \in Layers /\ <<s, run + 1, 0>>[1] = s
        BY <1>0, NetFacts
    <2> HIDE DEF inputs
    <2> QED BY <1>3, <2>1
<1>7. LinkI'
    <2> DEFINE firstItem(s) == <<s, run + 1, PositionOf(0, len * repeat) % ItemsOf(s, len)>>
               f == [b \in BackLinks |->
                 IF b \in DOMAIN net /\ (\/ Follows(b, len)
                                         \/ HasInitialInput(b, len) /\ (b \in first' \/ reverse))
                 THEN firstItem(net[b][1])
                 ELSE IF autoRestart \/ reverse THEN Zero
                 ELSE state[b]]
    <2>1. carried' = <<f>>
        BY DEF Begin
    <2>2. captured' = IF autoRestart THEN [c \in Captures |-> Zero] ELSE captured
        BY DEF Begin
    <2>3. /\ \E V : carried' \in Seq(V)
          /\ Len(carried') = 1 /\ carried'[1] = f
        <3>1. <<f>> \in Seq({f}) /\ Len(<<f>>) = 1 /\ <<f>>[1] = f
            <4> HIDE DEF f
            <4> QED OBVIOUS
        <3> HIDE DEF f
        <3> QED BY <2>1, <3>1
    <2>4. ASSUME NEW b \in NetLinks
          PROVE  f[b] = Due(b)'
        <3>1. /\ b \in DOMAIN net /\ b \in BackLinks /\ captured[CaptureOf[b]] = state[b]
              /\ CaptureOf[b] \in Captures
            BY <1>0, <1>2, BackLinkFacts DEF LinkI, NetLinks
        <3>2. (Follows(b, length)' <=> Follows(b, len)) /\ (HasInitialInput(b, length)' <=> HasInitialInput(b, len))
            BY <1>2 DEF Follows, HasInitialInput
        <3>3. captured'[CaptureOf[b]] = IF autoRestart THEN Zero ELSE state[b]
            BY <2>2, <3>1
        <3>4. ~IsSource(net, b) => Value(net[b][1], step)' = firstItem(net[b][1])
            <4> SUFFICES ASSUME ~IsSource(net, b) PROVE Value(net[b][1], step)' = firstItem(net[b][1])
                OBVIOUS
            <4>1. net[b][1] \in Sources
                BY <1>0, <3>1, LinkInput
            <4> QED BY <1>2, <4>1 DEF Value, Position, PositionOf
        <3>5. f[b] = IF (Follows(b, len) \/ (HasInitialInput(b, len) /\ (b \in first' \/ reverse)))
                     THEN firstItem(net[b][1])
                     ELSE IF autoRestart \/ reverse THEN Zero ELSE state[b]
            BY <3>1
        <3>6. Due(b)' = IF (Follows(b, len) \/ (HasInitialInput(b, len) /\ (reverse \/ b \in first')))
                        THEN Value(net[b][1], step)'
                        ELSE IF reverse THEN Zero ELSE captured'[CaptureOf[b]]
            BY <1>2, <3>2 DEF Due
        <3>7. Follows(b, len) \/ HasInitialInput(b, len) => ~IsSource(net, b)
            BY DEF Follows, HasInitialInput
        <3> HIDE DEF f, firstItem
        <3> QED BY <3>3, <3>4, <3>5, <3>6, <3>7
    <2>5. \A b \in NetLinks : ~Visited(b)' /\ ~Visited(CaptureOf[b])'
        BY <1>0, <1>4, BackLinkFacts DEF NetLinks
    <2>6. NetLinks' = NetLinks
        BY <1>2 DEF NetLinks
    <2>7. ASSUME NEW b \in NetLinks
          PROVE  /\ step' > 0 \/ Visited(b)' => b \notin first'
                 /\ ~Visited(b)' => carried'[step' + 1][b] = Due(b)'
                 /\ Visited(CaptureOf[b])' => captured'[CaptureOf[b]] = Value(net[CaptureOf[b]][1], step)'
        <3> HIDE DEF f
        <3> QED BY <1>2, <2>3, <2>4, <2>5
    <2> HIDE DEF f
    <2> QED BY <1>2, <2>3, <2>6, <2>7 DEF LinkI
<1>8. SinkI' /\ ReadI' /\ SolidI' /\ InI'
    <2>1. SinkI'
        BY <1>2, <1>4 DEF SinkI, Outputs
    <2>2. ReadI'
        BY <1>2, <1>4 DEF ReadI
    <2>3. SolidI'
        BY <1>2, <1>4 DEF SolidI
    <2>4. InI'
        BY <1>2, <1>4 DEF InI
    <2> QED BY <2>1, <2>2, <2>3, <2>4
<1>9. BackI' /\ ResultI'
    BY <1>2 DEF BackI, ResultI
<1> QED BY <1>1, <1>5, <1>6, <1>7, <1>8, <1>9 DEF BlobI

\* One more entry of the history of the back links.
LEMMA AppendFacts ==
    ASSUME NEW V, NEW s \in Seq(V), NEW e
    PROVE  /\ Append(s, e) \in Seq(V \cup {e})
           /\ Len(Append(s, e)) = Len(s) + 1
           /\ \A i \in 1 .. Len(s) : Append(s, e)[i] = s[i]
           /\ Append(s, e)[Len(s) + 1] = e
<1>1. s \in Seq(V \cup {e})
    BY SeqMonotonic
<1> QED BY <1>1

LEMMA NextPositionBlobI ==
    ASSUME BlobI, NextPosition
    PROVE  BlobI'
<1>0. TypeI /\ InPlaceI /\ OwnI /\ SourceI /\ SinkI /\ SolidI /\ LinkI /\ net \in Nets
    BY DEF BlobI, TypeI
<1>1. TypeI' /\ InPlaceI'
    BY <1>0, TypeStep, InPlaceStep DEF Next, Forward
<1>2. /\ phase = "forward" /\ phase' = "forward" /\ at > Len(Order[net]) /\ ~LastStep /\ step' = step + 1
      /\ at' = 1 /\ step \in Nat
      /\ UNCHANGED <<net, inPlace, run, training, reuse, length, steps, reverse, first, captured,
                     outBlobs, content, sinkBlob>>
    BY <1>0, NextPositionFacts DEF TypeI
<1>3. \A l \in DOMAIN net : Visited(l) /\ ~Visited(l)'
    BY <1>0, <1>2, AllVisited, NoneVisited
<1> DEFINE f == [b \in BackLinks |->
          IF b \notin DOMAIN net THEN Zero
          ELSE IF Follows(b, length) THEN Value(net[b][1], step + 1)
          ELSE Value(net[CaptureOf[b]][1], step)]
<1>4. /\ \E V : carried' \in Seq(V)
      /\ Len(carried') = step + 2 /\ carried'[step + 2] = f
      /\ \A k \in 0 .. step : carried'[k + 1] = carried[k + 1]
    <2>1. (\E V : carried \in Seq(V)) /\ Len(carried) = step + 1 /\ carried' = Append(carried, f)
        BY <1>0, <1>2 DEF LinkI, NextPosition
    <2>2. step + 1 \in Nat /\ (step + 1) + 1 = step + 2
        BY <1>2
    <2> HIDE DEF f
    <2>3. PICK V : carried \in Seq(V)
        BY <2>1
    <2>5. /\ Append(carried, f) \in Seq(V \cup {f})
          /\ Len(Append(carried, f)) = Len(carried) + 1 /\ Append(carried, f)[Len(carried) + 1] = f
          /\ \A i \in 1 .. Len(carried) : Append(carried, f)[i] = carried[i]
        BY <2>3, AppendFacts
    <2>6. \E W : carried' \in Seq(W)
        BY <2>1, <2>5
    <2>7. Len(carried') = (step + 1) + 1 /\ carried'[(step + 1) + 1] = f
        BY <2>1, <2>5
    <2>8. \A i \in 1 .. step + 1 : carried'[i] = carried[i]
        BY <2>1, <2>5
    <2>4. \A k \in 0 .. step : k + 1 \in 1 .. step + 1
        BY <1>2
    <2> QED BY <2>2, <2>4, <2>6, <2>7, <2>8
<1>5. \A m : \A k \in 0 .. step : Value(m, k)' = Value(m, k) /\ Position(k)' = Position(k)
    BY <1>2, <1>4 DEF Value, Position, PositionOf
<1>6. OwnI' /\ SourceI'
    BY <1>0, <1>2, SameLines DEF OwnI, ItemsIn, SourceI, UserBlob
<1>7. SinkI'
    BY <1>0, <1>2, <1>3 DEF SinkI, Outputs
<1>8. SolidI'
    <2> SUFFICES ASSUME NEW m \in DOMAIN net, ~IsSink(net, m), Solid(m), NEW k \in 0 .. step
                 PROVE  Kept(content, outBlobs[m], Position(k), Value(m, k))
        <3>1. \A m, k : Holds(outBlobs[m], k, Value(m, k))' <=>
                        Kept(content, outBlobs[m], Position(k)', Value(m, k)')
            BY <1>2 DEF Holds, Kept, Item
        <3>2. \A k \in 0 .. step + 1 : k < step + 1 => k \in 0 .. step
            BY <1>2
        <3> QED BY <1>2, <1>3, <1>5, <3>1, <3>2, SameSolid DEF SolidI
    <2>1. ~Gone(m)
        BY <1>2 DEF Gone
    <2>2. Holds(outBlobs[m], k, Value(m, k))
        BY <1>0, <1>2, <1>3, <2>1 DEF SolidI
    <2> QED BY <2>2, HoldsKept
<1>9. LinkI'
    <2>1. ASSUME NEW b \in NetLinks
          PROVE  f[b] = Due(b)' /\ b \notin first /\ ~Visited(CaptureOf[b])' /\ ~Visited(b)'
        <3>1. /\ b \in DOMAIN net /\ b \in BackLinks /\ b \notin first /\ CaptureOf[b] \in DOMAIN net
              /\ captured[CaptureOf[b]] = Value(net[CaptureOf[b]][1], step)
            BY <1>0, <1>2, <1>3, BackLinkFacts DEF LinkI, NetLinks
        <3>2. Follows(b, length) => Value(net[b][1], step)' = Value(net[b][1], step + 1)
            <4> SUFFICES ASSUME ~IsSource(net, b)
                         PROVE  Value(net[b][1], step)' = Value(net[b][1], step + 1)
                BY DEF Follows
            <4>1. net[b][1] \in Sources
                BY <1>0, <3>1, LinkInput
            <4> QED BY <1>2, <4>1 DEF Value, Position, PositionOf
        <3>3. f[b] = IF Follows(b, length) THEN Value(net[b][1], step + 1)
                     ELSE Value(net[CaptureOf[b]][1], step)
            BY <3>1
        <3>4. Due(b)' = IF Follows(b, length) THEN Value(net[b][1], step)' ELSE captured[CaptureOf[b]]
            BY <1>2, <3>1 DEF Due, Follows
        <3> HIDE DEF f
        <3> QED BY <1>3, <3>1, <3>2, <3>3, <3>4
    <2>2. NetLinks' = NetLinks /\ step' + 1 = step + 2
        BY <1>2 DEF NetLinks
    <2> HIDE DEF f
    <2> QED BY <1>2, <1>4, <2>1, <2>2 DEF LinkI
<1>10. ReadI' /\ InI'
    BY <1>2, <1>3 DEF ReadI, InI
<1>11. BackI' /\ ResultI'
    BY <1>2 DEF BackI, ResultI
<1> QED BY <1>1, <1>6, <1>7, <1>8, <1>9, <1>10, <1>11 DEF BlobI

LEMMA EndForwardBlobI ==
    ASSUME BlobI, EndForward
    PROVE  BlobI'
<1>0. /\ TypeI /\ InPlaceI /\ OwnI /\ SourceI /\ SinkI /\ SolidI /\ LinkI /\ InI /\ net \in Nets
      /\ DOMAIN outBlobs = Layers
    BY DEF BlobI, TypeI
<1>1. TypeI' /\ InPlaceI'
    BY <1>0, TypeStep, InPlaceStep DEF Next, Forward
<1>2. /\ phase = "forward" /\ phase' # "forward" /\ at > Len(Order[net]) /\ LastStep /\ step = steps - 1
      /\ phase' = "backward" => training
      /\ step \in Nat /\ steps \in Nat
      /\ UNCHANGED <<net, inPlace, run, training, reuse, length, step, steps, reverse, captured,
                     inBlobs, content, carried>>
    BY <1>0, EndForwardFacts DEF TypeI
<1>3. \A l \in DOMAIN net : Visited(l)
    BY <1>0, <1>2, AllVisited
<1>4. \A l \in DOMAIN net : outBlobs'[l] = outBlobs[l] \/ (l \in Sources /\ outBlobs'[l] = NoBlob)
    <2>1. \A l \in DOMAIN net : l \in Layers
        BY <1>0, NetFacts
    <2> QED BY <1>0, <2>1 DEF EndForward
<1>5. OwnI'
    BY <1>0, <1>2, <1>4, SameLines DEF OwnI, ItemsIn
<1>6. LinkI'
    <2>1. ASSUME NEW b \in NetLinks PROVE captured'[CaptureOf[b]] = state'[b]
        <3>1. state' = [d \in BackLinks |->
                          IF d \in DOMAIN net THEN Value(net[CaptureOf[d]][1], step) ELSE Zero]
            BY DEF EndForward
        <3>2. Visited(CaptureOf[b])
            BY <1>0, <1>3, BackLinkFacts DEF NetLinks
        <3>3. captured[CaptureOf[b]] = Value(net[CaptureOf[b]][1], step)
            BY <1>0, <1>2, <3>2 DEF LinkI
        <3> QED BY <1>2, <3>1, <3>3 DEF NetLinks
    <2> QED BY <1>2, <2>1 DEF LinkI, NetLinks
<1>7. SourceI' /\ SinkI' /\ ReadI' /\ SolidI' /\ InI'
    BY <1>2 DEF SourceI, SinkI, ReadI, SolidI, InI
<1>8. \A b, m, k : Holds(b, k, Value(m, k)) <=> Kept(content', b, Position(k)', Value(m, k)')
    BY <1>2, SameMeaning, HoldsKept
<1>9. ASSUME NEW m \in DOMAIN net, ~IsSink(net, m), Solid(m), ~Gone(m), NEW k \in 0 .. steps - 1
      PROVE  Holds(outBlobs[m], k, Value(m, k))
    BY <1>0, <1>2, <1>3, <1>9 DEF SolidI
<1>10. ResultI'
    <2>1. ASSUME NEW s \in Outputs, NEW k \in 0 .. steps - 1
          PROVE  Holds(sinkBlob[s], k, Value(net[s][1], k))
        <3>1. s \in DOMAIN net /\ IsSink(net, s) /\ sinkBlob[s] = outBlobs[net[s][1]]
            BY <1>0, <1>2, <1>3 DEF SinkI, Outputs
        <3>2. net[s][1] \in DOMAIN net /\ ~IsSink(net, net[s][1]) /\ \A d : ~IsLastUser(net, d, net[s][1])
            BY <1>0, <3>1, SinkInput
        <3>3. Solid(net[s][1]) /\ ~Gone(net[s][1])
            BY <3>2 DEF Solid, Gone
        <3> QED BY <1>9, <3>1, <3>2, <3>3
    <2>2. result' = sinkBlob /\ Outputs' = Outputs
        BY <1>2 DEF EndForward, Outputs
    <2>3. \A s, k : Holds(result[s], k, Value(net[s][1], k))' <=>
                 Kept(content', sinkBlob[s], Position(k)', Value(net[s][1], k)')
        BY <1>2, <2>2 DEF Holds, Kept, Item
    <2> QED BY <1>2, <1>8, <2>1, <2>2, <2>3 DEF ResultI
<1>11. BackI'
    <2> SUFFICES ASSUME phase' = "backward", NEW l \in DOMAIN net
                 PROVE  /\ NeedsIn(l) => \A i \in DOMAIN net[l] : Solid(net[l][i]) =>
                              \A k \in 0 .. steps - 1 : Holds(inBlobs[l][i], k, Value(net[l][i], k))
                        /\ l \notin Sources /\ "out" \in Needed(l) /\ ~IsSink(net, l) =>
                              \A k \in 0 .. steps - 1 : Holds(outBlobs[l], k, Value(l, k))
        <3>1. \A q, i, k, m : Holds(inBlobs[q][i], k, Value(m, k))' <=>
                     Kept(content', inBlobs[q][i], Position(k)', Value(m, k)')
            BY <1>2 DEF Holds, Kept, Item
        <3>2. \A q \in DOMAIN net : q \notin Sources => \A k : Holds(outBlobs[q], k, Value(q, k))' <=>
                     Kept(content', outBlobs[q], Position(k)', Value(q, k)')
            BY <1>2, <1>4 DEF Holds, Kept, Item
        <3> QED BY <1>2, <1>8, <3>1, <3>2, SameSolid DEF BackI
    <2>1. 0 .. step = 0 .. steps - 1 /\ training
        BY <1>2
    <2>2. ASSUME NeedsIn(l), NEW i \in DOMAIN net[l], Solid(net[l][i]), NEW k \in 0 .. steps - 1
          PROVE  Holds(inBlobs[l][i], k, Value(net[l][i], k))
        BY <1>0, <1>2, <1>3, <2>1, <2>2 DEF InI
    <2>3. ASSUME l \notin Sources, "out" \in Needed(l), ~IsSink(net, l), NEW k \in 0 .. steps - 1
          PROVE  Holds(outBlobs[l], k, Value(l, k))
        <3>1. ~Gone(l)
            BY <2>3 DEF Gone
        <3>2. Solid(l)
            <4>1. ASSUME NEW d \in inPlace, net[d][1] = l PROVE FALSE
                BY <1>0, <2>1, <2>3, <4>1, InPlaceFacts DEF Needed
            <4> QED BY <2>3, <4>1 DEF Solid
        <3> QED BY <1>9, <2>3, <3>1, <3>2
    <2> QED BY <2>2, <2>3
<1> QED BY <1>1, <1>5, <1>6, <1>7, <1>10, <1>11 DEF BlobI

LEMMA RunsBackBlobI ==
    ASSUME BlobI, NEW l \in Layers, RunsBackward(l)
    PROVE  BlobI'
<1>0. /\ TypeI /\ InPlaceI /\ OwnI /\ LinkI /\ BackI /\ ResultI /\ net \in Nets
      /\ DOMAIN outBlobs = Layers /\ DOMAIN inBlobs = Layers
    BY DEF BlobI, TypeI
<1>1. TypeI' /\ InPlaceI'
    BY <1>0, TypeStep, InPlaceStep DEF Next, Backward, RunsBackward
<1>2. /\ phase = "backward" /\ phase' = "backward" /\ todo' = todo \ {l} /\ RunsBack(l) /\ result' = result
      /\ step \in Nat
      /\ UNCHANGED <<net, inPlace, run, training, reuse, length, step, steps, reverse, captured,
                     content, carried, state>>
    BY <1>0, RunsBackFacts DEF TypeI, RunsBack
<1>3. \A q \in DOMAIN net :
         /\ outBlobs'[q] \in {outBlobs[q], NoBlob}
         /\ q # l \/ step > 0 => outBlobs'[q] = outBlobs[q] /\ inBlobs'[q] = inBlobs[q]
    <2>1. \A q \in DOMAIN net : q \in Layers
        BY <1>0, NetFacts
    <2>2. CASE reuse /\ step = 0
        BY <1>0, <1>2, <2>1, <2>2 DEF RunsBack
    <2>3. CASE ~(reuse /\ step = 0)
        BY <1>0, <1>2, <2>1, <2>3 DEF RunsBack
    <2> QED BY <2>2, <2>3
<1>4. OwnI'
    BY <1>0, <1>2, <1>3, SameLines DEF OwnI, ItemsIn
<1>5. LinkI'
    BY <1>0, <1>2 DEF LinkI, NetLinks
<1>6. SourceI' /\ SinkI' /\ ReadI' /\ SolidI' /\ InI'
    BY <1>2 DEF SourceI, SinkI, ReadI, SolidI, InI
<1>7. \A b, m, k : Holds(b, k, Value(m, k)) <=> Kept(content', b, Position(k)', Value(m, k)')
    BY <1>2, SameMeaning, HoldsKept
<1>8. ResultI'
    <2>1. \A s, k : Holds(result[s], k, Value(net[s][1], k))' <=>
                 Kept(content', result[s], Position(k)', Value(net[s][1], k)')
        BY <1>2 DEF Holds, Kept, Item
    <2> QED BY <1>0, <1>2, <1>7, <2>1 DEF ResultI, Outputs
<1>9. BackI'
    <2>1. \A q \in DOMAIN net : q \in todo' \/ step > 0 =>
             /\ \A i, k, m : Holds(inBlobs[q][i], k, Value(m, k))' <=>
                    Kept(content', inBlobs[q][i], Position(k)', Value(m, k)')
             /\ \A k : Holds(outBlobs[q], k, Value(q, k))' <=>
                    Kept(content', outBlobs[q], Position(k)', Value(q, k)')
        BY <1>2, <1>3 DEF Holds, Kept, Item
    <2>2. \A q \in DOMAIN net : q \in todo' \/ step > 0 => q \in todo \/ step > 0
        BY <1>2
    <2> QED BY <1>0, <1>2, <1>7, <2>1, <2>2, SameSolid DEF BackI
<1> QED BY <1>1, <1>4, <1>5, <1>6, <1>8, <1>9 DEF BlobI

\* The steps that change neither blobs nor what is in them.
LEMMA QuietBlobI ==
    ASSUME BlobI, NextPositionBack \/ EndBackward \/ UNCHANGED vars
    PROVE  BlobI'
<1>0. TypeI /\ InPlaceI /\ OwnI /\ LinkI /\ BackI /\ ResultI /\ net \in Nets
    BY DEF BlobI, TypeI
<1>1. TypeI' /\ InPlaceI'
    BY <1>0, TypeStep, InPlaceStep DEF Next, Backward
<1>2. UNCHANGED <<net, inPlace, run, training, reuse, length, steps, reverse, captured, first, state,
                  carried, inBlobs, outBlobs, content, sinkBlob, result, at>>
    BY <1>0, NextPositionBackFacts, EndBackwardFacts, Stuttering
<1>3. OwnI'
    BY <1>0, <1>2, SameLines DEF OwnI, ItemsIn
<1>4. \A b, m, k : Holds(b, k, Value(m, k))' <=> Holds(b, k, Value(m, k))
    BY <1>2, SameMeaning DEF Holds, Item
<1>5. CASE UNCHANGED vars
    <2>1. UNCHANGED <<phase, step, todo>>
        BY <1>5, Stuttering
    <2>2. LinkI'
        BY <1>0, <1>2, <2>1 DEF LinkI, NetLinks, Visited, Due, Follows, HasInitialInput, Value,
            Position, PositionOf
    <2>3. SourceI' /\ SinkI'
        BY <1>2, <2>1 DEF BlobI, SourceI, SinkI, UserBlob, Outputs, Visited
    <2>4. ReadI' /\ SolidI'
        <3>1. \A m, k : Holds(outBlobs[m], k, Value(m, k))' <=> Holds(outBlobs[m], k, Value(m, k))
            BY <1>2, SameMeaning DEF Holds, Item
        <3>2. \A m : (Visited(m)' <=> Visited(m)) /\ (Gone(m)' <=> Gone(m)) /\ (Solid(m)' <=> Solid(m))
            BY <1>2, <2>1, SameSolid DEF Gone, LastStep, Visited
        <3> QED BY <1>2, <2>1, <3>1, <3>2 DEF BlobI, ReadI, SolidI
    <2>5. InI' /\ BackI' /\ ResultI'
        <3>1. /\ \A q, i, m, k : Holds(inBlobs[q][i], k, Value(m, k))' <=> Holds(inBlobs[q][i], k, Value(m, k))
              /\ \A q, k : Holds(outBlobs[q], k, Value(q, k))' <=> Holds(outBlobs[q], k, Value(q, k))
              /\ \A s, k : Holds(result[s], k, Value(net[s][1], k))' <=> Holds(result[s], k, Value(net[s][1], k))
            BY <1>2, SameMeaning DEF Holds, Item
        <3>2. \A m : (Visited(m)' <=> Visited(m)) /\ (Solid(m)' <=> Solid(m)) /\ (NeedsIn(m)' <=> NeedsIn(m))
                     /\ Line(m)' = Line(m) /\ Needed(m)' = Needed(m)
            BY <1>2, SameSolid, SameLines DEF Visited
        <3>3. (LastStep' <=> LastStep) /\ Outputs' = Outputs
            BY <1>2, <2>1 DEF LastStep, Outputs
        <3> QED BY <1>2, <2>1, <3>1, <3>2, <3>3 DEF BlobI, InI, BackI, ResultI
    <2> QED BY <1>1, <1>3, <2>2, <2>3, <2>4, <2>5 DEF BlobI
<1>6. CASE NextPositionBack \/ EndBackward
    <2>1. /\ phase = "backward" /\ phase' # "forward"
          /\ phase' = "backward" => step > 0
        BY <1>0, <1>6, NextPositionBackFacts, EndBackwardFacts
    <2>2. LinkI'
        BY <1>0, <1>2, <2>1 DEF LinkI, NetLinks
    <2>3. SourceI' /\ SinkI' /\ ReadI' /\ SolidI' /\ InI'
        BY <2>1 DEF SourceI, SinkI, ReadI, SolidI, InI
    <2>4. /\ \A q, i, m, k : Holds(inBlobs[q][i], k, Value(m, k))' <=> Holds(inBlobs[q][i], k, Value(m, k))
          /\ \A q, k : Holds(outBlobs[q], k, Value(q, k))' <=> Holds(outBlobs[q], k, Value(q, k))
          /\ \A s, k : Holds(result[s], k, Value(net[s][1], k))' <=> Holds(result[s], k, Value(net[s][1], k))
        BY <1>2, SameMeaning DEF Holds, Item
    <2>5. BackI'
        BY <1>0, <1>2, <2>1, <2>4, SameSolid DEF BackI
    <2>6. ResultI'
        BY <1>0, <1>2, <2>1, <2>4 DEF ResultI, Outputs
    <2> QED BY <1>1, <1>3, <2>2, <2>3, <2>5, <2>6 DEF BlobI
<1> QED BY <1>5, <1>6

LEMMA BlobInvariant == Spec => []BlobI
<1>1. Init => BlobI
    <2> SUFFICES ASSUME Init PROVE BlobI
        OBVIOUS
    <2>1. TypeI /\ phase = "idle"
        BY InitDiffI DEF Init, DiffI
    <2>2. /\ run = 0 /\ steps = 0 /\ inPlace = {} /\ outBlobs = [l \in Layers |-> NoBlob]
          /\ captured = [c \in Captures |-> Zero] /\ state = [b \in BackLinks |-> Zero]
        BY DEF Init
    <2>3. InPlaceI
        BY <2>2 DEF InPlaceI
    <2>4. OwnI
        BY <2>1, <2>2, NetFacts DEF OwnI, TypeI
    <2>5. LinkI
        BY <2>1, <2>2, BackLinkFacts DEF LinkI, NetLinks, TypeI
    <2> QED
        BY <2>1, <2>3, <2>4, <2>5 DEF BlobI, SourceI, SinkI, ReadI, SolidI, InI, BackI, ResultI
<1>2. BlobI /\ [Next]_vars => BlobI'
    BY StepCases, SettingBlobI, BeginBlobI, RunsBlobI, NextPositionBlobI, EndForwardBlobI, RunsBackBlobI,
       QuietBlobI
<1> QED
    BY <1>1, <1>2, PTL DEF Spec

\* Every layer reads in every position what its inputs should compute there, a back link what it
\* should pass on, whatever the inner network and the calls between the runs
\* (CBaseLayer::runOnce, CBackLinkLayer::RunOnce).
THEOREM StepsReadTheirInputsCorrect == Spec => []StepsReadTheirInputs
<1>1. BlobI => StepsReadTheirInputs
    <2> SUFFICES ASSUME BlobI, NEW l \in DOMAIN net, Running(l), NEW i \in DOMAIN net[l]
                 PROVE  Holds(outBlobs[net[l][i]], step, Value(net[l][i], step))
        BY DEF StepsReadTheirInputs
    <2>1. TypeI /\ ReadI /\ net \in Nets
        BY DEF BlobI, TypeI
    <2>2. phase = "forward" /\ at \in 1 .. Len(Order[net]) /\ l = Order[net][at]
        BY <2>1, OrderFacts DEF Running, TypeI
    <2>3. IndexIn(net, l) = at
        BY <2>1, <2>2, OrderFacts
    <2> QED BY <2>1, <2>2, <2>3, InputsAreThere
<1> QED BY <1>1, BlobInvariant, PTL

\* The outputs of the recurrent layer hold all the items of the sequence, each in the place of the
\* input it was computed from (CCompositeSinkLayer::RunOnce, CCompositeLayer::setOutputBlobs).
THEOREM OutputsAreComplete == Spec => []OutputsComplete
<1>1. BlobI => OutputsComplete
    <2> SUFFICES ASSUME BlobI, phase = "backward" \/ (PositionDone /\ LastStep),
                        NEW s \in Outputs, NEW k \in 0 .. steps - 1
                 PROVE  Holds(IF phase = "backward" THEN result[s] ELSE sinkBlob[s], k, Value(net[s][1], k))
        BY DEF OutputsComplete, Outputs
    <2>1. TypeI /\ SinkI /\ SolidI /\ ResultI /\ net \in Nets
        BY DEF BlobI, TypeI
    <2>2. CASE phase = "backward"
        BY <2>1, <2>2 DEF ResultI
    <2>3. CASE phase # "backward"
        <3>1. phase = "forward" /\ at > Len(Order[net]) /\ LastStep
            BY <2>3 DEF PositionDone
        <3>2. s \in DOMAIN net /\ IsSink(net, s) /\ sinkBlob[s] = outBlobs[net[s][1]]
            BY <2>1, <3>1, AllVisited DEF SinkI, Outputs
        <3>3. /\ net[s][1] \in DOMAIN net /\ ~IsSink(net, net[s][1])
              /\ \A d : ~IsLastUser(net, d, net[s][1])
            BY <2>1, <3>2, SinkInput
        <3>4. Solid(net[s][1]) /\ ~Gone(net[s][1]) /\ Visited(net[s][1])
            BY <2>1, <3>1, <3>3, AllVisited DEF Solid, Gone
        <3>5. k \in 0 .. step
            BY <2>1, <3>1 DEF LastStep, TypeI
        <3> QED BY <2>1, <2>3, <3>1, <3>2, <3>3, <3>4, <3>5 DEF SolidI
    <2> QED BY <2>2, <2>3
<1> QED BY <1>1, BlobInvariant, PTL

\* No layer that computes in place needs its inputs in the backward pass.
InPlaceForgets == \A l \in InPlaceLayers : "in" \notin BlobsForBackward[l] \cup BlobsForLearn[l]

\* Two links to a layer that has one are the same.
LEMMA OneLink ==
    ASSUME NEW S, Cardinality(S) = 1, IsFiniteSet(S), NEW j \in S, NEW k \in S
    PROVE  j = k
<1>1. PICK x : S = {x}
    BY FS_Singleton
<1> QED BY <1>1

\* The links to a layer are finitely many.
LEMMA LinksFinite ==
    ASSUME NEW n \in Nets, NEW m
    PROVE  IsFiniteSet(Links(n, m))
<1> DEFINE D == DOMAIN n
           of(c) == {<<c, i>> : i \in {j \in DOMAIN n[c] : n[c][j] = m}}
<1>1. IsFiniteSet(D)
    BY FS_Subset, NetsAssumption, RecurrentAssumption
<1>2. ASSUME NEW c \in D PROVE IsFiniteSet(of(c))
    <2>1. n[c] \in Seq(D)
        BY NetsAssumption
    <2>2. IsFiniteSet(1 .. Len(n[c])) /\ DOMAIN n[c] = 1 .. Len(n[c])
        BY <2>1, FS_Interval
    <2> DEFINE J == {j \in DOMAIN n[c] : n[c][j] = m}
    <2>3. IsFiniteSet(J)
        BY <2>2, FS_Subset
    <2>4. [i \in J |-> <<c, i>>] \in Surjection(J, of(c))
        BY DEF Surjection
    <2> HIDE DEF J, of
    <2> QED BY <2>3, <2>4, FS_Surjection
<1>3. IsFiniteSet({of(c) : c \in D})
    <2>1. [c \in D |-> of(c)] \in Surjection(D, {of(c) : c \in D})
        BY DEF Surjection
    <2> HIDE DEF D, of
    <2> QED BY <1>1, <2>1, FS_Surjection
<1>4. \A S \in {of(c) : c \in D} : IsFiniteSet(S)
    BY <1>2
<1>5. IsFiniteSet(UNION {of(c) : c \in D})
    <2> HIDE DEF D, of
    <2> QED BY <1>3, <1>4, FS_UNION
<1> QED BY <1>5 DEF Links

\* In every position of the backward pass a layer has the blobs that it needs, if no layer that
\* computes in place needs its inputs (BlobsForBackward, CBaseLayer::MayFreeIoBlobs).
THEOREM BackwardHasItsBlobsCorrect ==
    ASSUME InPlaceForgets
    PROVE  Spec => []BackwardHasItsBlobs
<1>1. BlobI => BackwardHasItsBlobs
    <2> SUFFICES ASSUME BlobI, NEW l \in DOMAIN net, RunningBack(l), l \notin Sources \cup BackLinks
                 PROVE  /\ "in" \in Needed(l) =>
                              \A i \in DOMAIN net[l] : (reuse => LastUserKeeps(net[l][i]))
                                  => Holds(inBlobs[l][i], step, Value(net[l][i], step))
                        /\ "out" \in Needed(l) /\ ~IsSink(net, l) => Holds(outBlobs[l], step, Value(l, step))
        BY DEF BackwardHasItsBlobs
    <2>1. TypeI /\ InPlaceI /\ BackI /\ net \in Nets
        BY DEF BlobI, TypeI
    <2>2. phase = "backward" /\ l \in todo /\ training /\ step \in 0 .. steps - 1
        BY <2>1 DEF RunningBack, TypeI
    <2>3. ASSUME "in" \in Needed(l), NEW i \in DOMAIN net[l], reuse => LastUserKeeps(net[l][i])
          PROVE  Solid(net[l][i])
        <3> DEFINE m == net[l][i]
        <3>1. \A d \in DOMAIN net : IsLastUser(net, d, m) =>
                  (reuse => "out" \in Needed(m) \/ (training /\ Keeps(d)))
            BY <2>2, <2>3 DEF LastUserKeeps, Keeps
        <3>2. ASSUME NEW d \in inPlace, d \in DOMAIN net, net[d][1] = m PROVE FALSE
            <4>1. /\ Cardinality(Links(net, m)) = 1 /\ 1 \in DOMAIN net[d] /\ d \in InPlaceLayers
                <5>1. inPlace \subseteq InPlaceLayers
                    BY <2>1 DEF InPlaceI
                <5>2. Cardinality(Links(net, net[d][1])) = 1 /\ 1 \in DOMAIN net[d]
                    BY <2>1, <2>2, <3>2, InPlaceFacts
                <5> QED BY <3>2, <5>1, <5>2
            <4>2. <<d, 1>> \in Links(net, m) /\ <<l, i>> \in Links(net, m)
                BY <3>2, <4>1 DEF Links
            <4>3. <<d, 1>> = <<l, i>>
                BY <2>1, <4>1, <4>2, LinksFinite, OneLink
            <4>4. l \in InPlaceLayers
                BY <4>1, <4>3
            <4>5. "in" \in BlobsForBackward[l] \cup BlobsForLearn[l]
                BY <2>3 DEF Needed, NeededBy
            <4> QED BY <4>4, <4>5 DEF InPlaceForgets
        <3> QED BY <3>1, <3>2 DEF Solid
    <2> QED BY <2>1, <2>2, <2>3 DEF BackI, NeedsIn
<1> QED BY <1>1, BlobInvariant, PTL
=============================================================================
