----------------------------- MODULE Recurrent -----------------------------
(***************************************************************************)
(* CCompositeLayer, CRecurrentLayer, CBackLinkLayer (NeoML/src/Dnn/Layers) *)
(* and the recurrent mode of CBaseLayer: a layer whose inner network is    *)
(* run once for each position of a sequence, and backwards through the     *)
(* positions in training.  Every blob holds a whole sequence, a layer sees *)
(* its window on the current position; a back link carries a value from    *)
(* the capture sink of one position to the next, its diff the other way,   *)
(* and the state of the sequence from run to run.                          *)
(*                                                                         *)
(* The recursions that module Network spells out are taken here by their   *)
(* result: the forward pass visits the layers in the order of runOnce(),   *)
(* the backward pass visits a layer when the layers that read it are done. *)
(* All layers have one output: n[l] is the sequence of the layers that     *)
(* layer l of network n reads.                                             *)
(***************************************************************************)
EXTENDS Integers, Sequences, FiniteSets

CONSTANTS
    Layers,             \* inner layers
    Nets,               \* inner networks made of them
    Order,              \* of each network, the layers as runOnce() of the sinks visits them
    Sources,            \* composite sources, one for each input of the recurrent layer
    OneItem,            \* the sources whose blob holds one item for the whole sequence
    BackLinks,          \* back links
    CaptureOf,          \* the capture sink of each back link
    Learnable,          \* layers with parameters
    InPlaceLayers,      \* layers whose Reshape() asks InputsMayBeOverwritten()
    BlobsForBackward,   \* of each layer, what BackwardOnce() needs of {"in", "out"}
    BlobsForLearn,      \* of each layer, what LearnOnce() needs
    InputsNeedBackward, \* IsBackwardNeeded() of the recurrent layer
    Lengths, Repeats,   \* lengths of a sequence, repeat counts
    MaxRuns, MaxUses    \* bounds on runs, and on other calls before each of them

Captures == {CaptureOf[b] : b \in BackLinks}

\* The inputs connected to layer m: <<c, i>> is input i of layer c.
Links(n, m) == UNION {{<<c, i>> : i \in {j \in DOMAIN n[c] : n[c][j] = m}} : c \in DOMAIN n}
Readers(n, m) == {c \in DOMAIN n : \E i \in DOMAIN n[c] : n[c][i] = m}

IsSource(n, l) == n[l] = <<>>
IsSink(n, l) == Readers(n, l) = {}

IndexIn(n, l) == CHOOSE i \in DOMAIN Order[n] : Order[n][i] = l

\* Set S contains what its layers read.
ClosedBack(n, S) == \A l \in S : \A i \in DOMAIN n[l] : n[l][i] \in S

ASSUME RecurrentAssumption ==
    /\ IsFiniteSet(Layers) /\ 0 \notin Layers
    /\ Sources \cup Learnable \cup InPlaceLayers \subseteq Layers /\ OneItem \subseteq Sources
    /\ BackLinks \subseteq Layers /\ BackLinks \cap (Sources \cup Learnable \cup InPlaceLayers) = {}
    /\ CaptureOf \in [BackLinks -> Layers] /\ Captures \cap Learnable = {}
    /\ \A b, d \in BackLinks : CaptureOf[b] = CaptureOf[d] => b = d
    /\ Sources \cap (Learnable \cup InPlaceLayers) = {}
    /\ BlobsForBackward \in [Layers -> SUBSET {"in", "out"}]
    /\ BlobsForLearn \in [Layers -> SUBSET {"in", "out"}]
    /\ InputsNeedBackward \in BOOLEAN
    /\ Lengths \cup Repeats \subseteq Nat \ {0}
    \* So that the number of positions tells whether the length has changed.
    /\ \A k, m \in Lengths : \A r, s \in Repeats : k * r = m * s => k = m
    /\ MaxRuns \in Nat /\ MaxUses \in Nat

ASSUME NetsAssumption ==
    \A n \in Nets :
        /\ DOMAIN n \subseteq Layers
        /\ \A l \in DOMAIN n : n[l] \in Seq(DOMAIN n)
        \* Each layer is visited once, after the layers it reads.
        /\ Order[n] \in Seq(DOMAIN n)
        /\ \A l \in DOMAIN n : \E i \in DOMAIN Order[n] : Order[n][i] = l
        /\ \A i, j \in DOMAIN Order[n] : Order[n][i] = Order[n][j] => i = j
        /\ \A l \in DOMAIN n : \A i \in DOMAIN n[l] : IndexIn(n, n[l][i]) < IndexIn(n, l)
        /\ \A l \in DOMAIN n \cap Sources : IsSource(n, l)
        \* The layers that nothing reads are composite sinks and capture sinks.
        /\ \A l \in DOMAIN n : IsSink(n, l) =>
              Len(n[l]) = 1 /\ l \notin Sources \cup BackLinks \cup Learnable \cup InPlaceLayers
        /\ \A l \in DOMAIN n \cap InPlaceLayers : ~IsSource(n, l)
        \* A back link has no input or a source.  Its capture sink reads what is computed from
        \* it: otherwise the capture sink might run first, and capture the current position.
        /\ \A b \in BackLinks \cap DOMAIN n :
              /\ Len(n[b]) <= 1 /\ \A i \in DOMAIN n[b] : n[b][i] \in Sources
              /\ CaptureOf[b] \in DOMAIN n /\ IsSink(n, CaptureOf[b])
              /\ \A S \in SUBSET DOMAIN n : CaptureOf[b] \in S /\ ClosedBack(n, S) => b \in S
        /\ \A c \in Captures \cap DOMAIN n : \E b \in BackLinks \cap DOMAIN n : CaptureOf[b] = c

-----------------------------------------------------------------------------
(* What the inner network decides when it is built and reshaped.           *)

\* Mutant of IsLastUser: a sink is a user like others.
IsLastUserOrSink(n, c, m) ==
    c \in Readers(n, m) /\ \A d \in Readers(n, m) : IndexIn(n, d) <= IndexIn(n, c)

\* lastOutputUser of layer m is c: there is none if a sink reads m.
IsLastUser(n, c, m) ==
    /\ c \in Readers(n, m)
    /\ \A d \in Readers(n, m) : ~IsSink(n, d) /\ IndexIn(n, d) <= IndexIn(n, c)

\* The layers that need backward: the back links (SetInternalDnnParams), the sources if the
\* recurrent layer does, and what reads them or a layer that learns.
BackwardNeeded ==
    [n \in Nets |->
        LET needs(S) == {l \in DOMAIN n :
                            \/ l \in BackLinks
                            \/ l \in Sources /\ InputsNeedBackward
                            \/ \E i \in DOMAIN n[l] : n[l][i] \in S \cup Learnable}
        IN  {l \in DOMAIN n : \A S \in SUBSET DOMAIN n : needs(S) \subseteq S => l \in S}]

Trains(n) == {l \in DOMAIN n : l \in BackwardNeeded[n] \cup Learnable}

\* blobsNeededForBackward of layer l in a training run.
NeededBy(n, l) == (IF l \in BackwardNeeded[n] THEN BlobsForBackward[l] ELSE {})
                  \cup (IF l \in Learnable THEN BlobsForLearn[l] ELSE {})

\* InputsMayBeOverwritten() of layer l when those of S compute in place.
InputsMayBeOverwritten(n, l, S, train) ==
    LET m == n[l][1]
    IN  /\ ~IsSource(n, m)
        /\ IsLastUser(n, l, m)
        /\ train => /\ Cardinality(Links(n, m)) = 1
                    /\ "out" \notin NeededBy(n, m)
                    /\ ~(m \in S /\ "in" \in NeededBy(n, m))

-----------------------------------------------------------------------------
VARIABLES
    \* what the user has set
    net, gpu,               \* the inner network; the engine is a GPU or distributed
    repeat, reverse,        \* repeatCount, isReverseSequence
    autoRestart,            \* autoRestartMode of the outer network
    reshapeAsked,           \* isReshapeNeeded of the layers, without forcedReshape
    inPlace,                \* the layers with isInPlace
    \* the run
    run, uses,              \* history: runs begun, other calls of the user since
    training, reuse,        \* isBackwardPerformed, isReuseMemoryMode
    length, steps,          \* length of the input, maxSequenceLength
    phase, step,            \* what is being done, the positions done before this one
    at, todo,               \* the next layer to run, the layers to run back
    \* the back links
    first,                  \* those with isProcessingFirstPosition
    captured, capturedDiff, \* blob and diffBlob of their capture sinks
    state,                  \* history: what the sequences before have left for each
    carried,                \* history: what each should pass on, position by position
    \* the blobs
    inBlobs, outBlobs,      \* inputBlobs, outputBlobs[0]
    content,                \* of each blob, what each item was last written with
    sinkBlob, result,       \* blob of the composite sinks; outputBlobs of the recurrent layer
    \* the diffs
    outDiffs,               \* the terms of outputDiffBlobs[0]
    paramDiff, given,       \* the terms of paramDiffBlobs, those of each AddDiff of this run
    inputDiff               \* the terms of diffBlob of the sources, item by item

userVars == <<net, gpu, repeat, reverse, autoRestart, reshapeAsked, inPlace>>
runVars == <<run, uses, training, reuse, length, steps>>
callVars == <<phase, step, at, todo>>
linkVars == <<first, captured, capturedDiff, state, carried>>
blobVars == <<inBlobs, outBlobs, content, sinkBlob, result>>
diffVars == <<outDiffs, paramDiff, given, inputDiff>>
vars == <<userVars, runVars, callVars, linkVars, blobVars, diffVars>>

\* A term of a diff: <<c, i, r, k>> is what layer c passed to its input i in step k of run r; a
\* back link passes its diff to the capture sink, "input" 0.  The empty set is zero.
\* What an item is written with: <<l, r, k>> is what layer l computed in step k of run r; for a
\* source, item k of the user's blob of run r.
Zero == <<0, 0, 0>>
UserState == <<0, 0, 1>>
Unspecified == <<0, 0, 2>>

\* A blob is named by the layer that created it and the run and step it did so.
NoBlob == <<>>
NoBlobs(n) == [i \in 1 .. n |-> NoBlob]
UserBlob(s) == <<s, run, 0>>

LastStep == step = steps - 1

\* currentSequencePos in step k of n.
PositionOf(k, n) == IF reverse THEN n - 1 - k ELSE k
Position(k) == PositionOf(k, steps)

ItemsOf(s, len) == IF s \in OneItem THEN 1 ELSE len

\* The item of blob b in the window of step k.
Item(b, k) == Position(k) % Cardinality(DOMAIN content[b])
Holds(b, k, value) == b # NoBlob /\ content[b][Item(b, k)] = value

Needed(l) == IF training THEN NeededBy(net, l) ELSE {}
BackwardPerformed(l) == training /\ l \in BackwardNeeded[net]

\* The input of a back link that is read in the first position only.
HasInitialInput(b, len) == ~IsSource(net, b) /\ ItemsOf(net[b][1], len) = 1
\* The input of a back link that is read in every position.
Follows(b, len) == ~IsSource(net, b) /\ ItemsOf(net[b][1], len) > 1

\* What layer l should compute in step k of this run.
Value(l, k) ==
    IF l \in Sources THEN <<l, run, Position(k) % ItemsOf(l, length)>>
    ELSE IF l \in BackLinks THEN carried[k + 1][l]
    ELSE <<l, run, k>>

Init ==
    /\ net \in Nets /\ gpu \in BOOLEAN /\ reverse \in BOOLEAN /\ autoRestart \in BOOLEAN
    /\ repeat = 1 /\ reshapeAsked = TRUE /\ inPlace = {}
    /\ run = 0 /\ uses = 0 /\ training = FALSE /\ reuse = FALSE /\ length = 0 /\ steps = 0
    /\ phase = "idle" /\ step = 0 /\ at = 1 /\ todo = {}
    /\ first = BackLinks
    /\ captured = [c \in Captures |-> Zero] /\ capturedDiff = [c \in Captures |-> {}]
    /\ state = [b \in BackLinks |-> Zero] /\ carried = <<>>
    /\ inBlobs = [l \in Layers |-> <<>>] /\ outBlobs = [l \in Layers |-> NoBlob]
    /\ content = <<>> /\ sinkBlob = [l \in Layers |-> NoBlob] /\ result = sinkBlob
    /\ outDiffs = [l \in Layers |-> {}]
    /\ paramDiff = [l \in Layers |-> {}] /\ given = [l \in Layers |-> <<>>] /\ inputDiff = <<>>

-----------------------------------------------------------------------------
(* What the user does between the runs.                                    *)

May == phase = "idle" /\ run < MaxRuns /\ uses < MaxUses /\ uses' = uses + 1

\* CDnn::SetAutoRestartMode.
SetAutoRestartMode ==
    /\ May
    /\ autoRestart' = ~autoRestart
    /\ UNCHANGED <<net, gpu, repeat, reverse, reshapeAsked, inPlace, run, training, reuse, length, steps,
                   callVars, linkVars, blobVars, diffVars>>

\* CDnn::RestartSequence: the back links start again, from zero.
RestartSequence ==
    /\ May
    /\ first' = BackLinks
    /\ captured' = [c \in Captures |-> Zero]
    /\ state' = [b \in BackLinks |-> Zero]
    /\ UNCHANGED <<userVars, run, training, reuse, length, steps, callVars, capturedDiff,
                   carried, blobVars, diffVars>>

\* CRecurrentLayer::SetState of a recurrent layer that has run.
SetState ==
    /\ May /\ run > 0
    /\ captured' = [c \in Captures |-> UserState]
    /\ state' = [b \in BackLinks |-> UserState]
    /\ UNCHANGED <<userVars, run, training, reuse, length, steps, callVars, first, capturedDiff,
                   carried, blobVars, diffVars>>

SetReverseSequence ==
    /\ May
    /\ reverse' = ~reverse
    /\ reshapeAsked' = TRUE
    /\ UNCHANGED <<net, gpu, repeat, autoRestart, inPlace, run, training, reuse, length, steps,
                   callVars, linkVars, blobVars, diffVars>>

\* A back link that has an input for every position takes it once.
SetRepeatCount(count) ==
    /\ May /\ count # repeat
    /\ \A b \in BackLinks \cap DOMAIN net : \A i \in DOMAIN net[b] : net[b][i] \in OneItem
    /\ repeat' = count
    /\ reshapeAsked' = TRUE
    /\ UNCHANGED <<net, gpu, reverse, autoRestart, inPlace, run, training, reuse, length, steps,
                   callVars, linkVars, blobVars, diffVars>>

\* RunOnce, or RunAndBackwardOnce if `train', of the outer network with sequences of length len,
\* up to the loop over the positions: the sequence is restarted, what has changed is reshaped and
\* the sources are given the blobs of the inputs.
Begin(train, len) ==
    /\ phase = "idle" /\ run < MaxRuns
    /\ phase' = "forward" /\ step' = 0 /\ at' = 1 /\ todo' = {}
    /\ run' = run + 1 /\ uses' = 0
    /\ training' = train /\ length' = len /\ steps' = len * repeat
    /\ reuse' \in IF train THEN {gpu} ELSE BOOLEAN
    /\ reshapeAsked' = FALSE
    /\ inPlace' \in {S \in SUBSET (InPlaceLayers \cap DOMAIN net) :
          \A l \in InPlaceLayers \cap DOMAIN net : l \in S <=> InputsMayBeOverwritten(net, l, S, train)}
    /\ LET reshaped == train # training \/ len * repeat # steps
           dropped(l) == reshaped \/ (reshapeAsked /\ l \in inPlace) \/ l \in Sources
           items(s) == 0 .. ItemsOf(s, len) - 1
           inputs == {<<s, run + 1, 0>> : s \in Sources \cap DOMAIN net}
           firstItem(s) == <<s, run + 1, PositionOf(0, len * repeat) % ItemsOf(s, len)>>
       IN  /\ first' = IF reshaped \/ autoRestart THEN BackLinks ELSE first
           /\ captured' = IF autoRestart THEN [c \in Captures |-> Zero] ELSE captured
           /\ carried' = <<[b \in BackLinks |->
                 IF b \in DOMAIN net /\ (\/ Follows(b, len)
                                         \/ HasInitialInput(b, len) /\ (b \in first' \/ reverse))
                 THEN firstItem(net[b][1])
                 ELSE IF autoRestart \/ reverse THEN Zero
                 ELSE state[b]]>>
           /\ outBlobs' = [l \in Layers |-> IF dropped(l) THEN NoBlob ELSE outBlobs[l]]
           /\ inBlobs' = [l \in Layers |-> IF l \in DOMAIN net /\ dropped(l)
                                           THEN NoBlobs(Len(net[l])) ELSE inBlobs[l]]
           /\ sinkBlob' = IF reshaped THEN [l \in Layers |-> NoBlob] ELSE sinkBlob
           /\ content' = [b \in DOMAIN content \cup inputs |->
                 IF b \in inputs THEN [j \in items(b[1]) |-> <<b[1], run + 1, j>>] ELSE content[b]]
           /\ inputDiff' = [s \in Sources \cap DOMAIN net |-> [j \in items(s) |-> {}]]
    /\ outDiffs' = [l \in Layers |-> {}] /\ given' = [l \in Layers |-> <<>>]
    /\ UNCHANGED <<net, gpu, repeat, reverse, autoRestart, capturedDiff, state, result, paramDiff>>

User == \/ SetAutoRestartMode \/ RestartSequence \/ SetState \/ SetReverseSequence
        \/ \E count \in Repeats : SetRepeatCount(count)
        \/ \E train \in BOOLEAN, len \in Lengths : Begin(train, len)

-----------------------------------------------------------------------------
(* runOnce(): the layers in their order, position after position.          *)

Running(l) == phase = "forward" /\ at <= Len(Order[net]) /\ l = Order[net][at]

\* The blobs the layer takes from its inputs, and the item it reads in one of them.
Taken(l) == [i \in DOMAIN net[l] |-> outBlobs[net[l][i]]]
Read(l, i) == content[Taken(l)[i]][Item(Taken(l)[i], step)]

\* Mutant of MayFreeIoBlobs: the position does not matter.
MayFreeAnytime(l) == reuse

\* In training a layer that needs its blobs frees nothing before the last position.
MayFreeIoBlobs(l) ==
    /\ reuse
    /\ training /\ ~LastStep =>
          "in" \notin Needed(l) /\ (l \in inPlace => "out" \notin Needed(l))

\* Layer l drops the output of layer m.
Drops(l, m) ==
    /\ MayFreeIoBlobs(l)
    /\ IsLastUser(net, l, m)
    /\ "out" \notin Needed(m)

\* AllocateOutputBlobs of the layers: sinks have no output.
Allocated(l) ==
    IF l \in Sources THEN UserBlob(l)
    ELSE IF IsSink(net, l) \/ outBlobs[l] # NoBlob THEN outBlobs[l]
    ELSE IF l \in inPlace THEN Taken(l)[1]
    ELSE <<l, run, step>>

\* All that runOnce() of a layer does, its RunOnce() aside.
RunsOnce(l) ==
    /\ at' = at + 1
    /\ outBlobs' = [m \in Layers |-> IF m = l THEN Allocated(l)
                                     ELSE IF Drops(l, m) THEN NoBlob ELSE outBlobs[m]]
    /\ inBlobs' = [inBlobs EXCEPT ![l] =
          IF reuse /\ "in" \notin Needed(l) THEN NoBlobs(Len(@)) ELSE Taken(l)]
    /\ UNCHANGED <<userVars, runVars, phase, step, todo, result, diffVars>>

\* Blob b, new or not, when the item of this position is written.
Written(b, value) ==
    [c \in DOMAIN content \cup {b} |->
        IF c # b THEN content[c]
        ELSE [k \in 0 .. steps - 1 |-> IF k = Position(step) THEN value
                                       ELSE IF b \in DOMAIN content THEN content[b][k]
                                       ELSE Unspecified]]

RunSource(s) ==
    /\ s \in Sources /\ Running(s)
    /\ RunsOnce(s)
    /\ UNCHANGED <<linkVars, content, sinkBlob>>

\* CCaptureSinkLayer::RunOnce.
RunCapture(c) ==
    /\ c \in Captures /\ Running(c)
    /\ RunsOnce(c)
    /\ captured' = [captured EXCEPT ![c] = Read(c, 1)]
    /\ UNCHANGED <<first, capturedDiff, state, carried, content, sinkBlob>>

\* CCompositeSinkLayer::RunOnce: if the input is another blob now, the item is copied.
RunSink(s) ==
    /\ IsSink(net, s) /\ s \notin Captures /\ Running(s)
    /\ RunsOnce(s)
    /\ IF sinkBlob[s] \in {NoBlob, Taken(s)[1]} \/ step = 0
       THEN sinkBlob' = [sinkBlob EXCEPT ![s] = Taken(s)[1]] /\ UNCHANGED content
       ELSE content' = Written(sinkBlob[s], Read(s, 1)) /\ UNCHANGED sinkBlob
    /\ UNCHANGED linkVars

\* What a back link copies: the input in every position or in the first one, or what was captured.
Copied(b, kept, isFirst) ==
    IF Follows(b, length) \/ (HasInitialInput(b, length) /\ isFirst) THEN Read(b, 1) ELSE kept

\* Mutant of RunBackLink: a reversed sequence goes on where the last one ended.
RunBackLinkOn(b) ==
    /\ b \in BackLinks /\ Running(b)
    /\ RunsOnce(b)
    /\ content' = Written(Allocated(b), Copied(b, captured[CaptureOf[b]], b \in first))
    /\ first' = first \ {b}
    /\ capturedDiff' = IF LastStep /\ BackwardPerformed(b)
                       THEN [capturedDiff EXCEPT ![CaptureOf[b]] = {}] ELSE capturedDiff
    /\ UNCHANGED <<captured, state, carried, sinkBlob>>

\* Mutant of RunBackLink: the diff of the last training run remains.
RunBackLinkDiffKept(b) ==
    /\ b \in BackLinks /\ Running(b)
    /\ RunsOnce(b)
    /\ LET restart == reverse /\ step = 0
           kept == IF restart THEN Zero ELSE captured[CaptureOf[b]]
       IN  /\ captured' = [captured EXCEPT ![CaptureOf[b]] = kept]
           /\ content' = Written(Allocated(b), Copied(b, kept, restart \/ b \in first))
    /\ first' = first \ {b}
    /\ UNCHANGED <<capturedDiff, state, carried, sinkBlob>>

\* CBackLinkLayer::RunOnce.
RunBackLink(b) ==
    /\ b \in BackLinks /\ Running(b)
    /\ RunsOnce(b)
    /\ LET restart == reverse /\ step = 0
           kept == IF restart THEN Zero ELSE captured[CaptureOf[b]]
       IN  /\ captured' = [captured EXCEPT ![CaptureOf[b]] = kept]
           /\ content' = Written(Allocated(b), Copied(b, kept, restart \/ b \in first))
    /\ first' = first \ {b}
    /\ capturedDiff' = IF LastStep /\ BackwardPerformed(b)
                       THEN [capturedDiff EXCEPT ![CaptureOf[b]] = {}] ELSE capturedDiff
    /\ UNCHANGED <<state, carried, sinkBlob>>

\* Any other layer computes the item of this position.
RunLayer(l) ==
    /\ l \notin Sources \cup BackLinks /\ ~IsSink(net, l) /\ Running(l)
    /\ RunsOnce(l)
    /\ content' = Written(Allocated(l), <<l, run, step>>)
    /\ UNCHANGED <<linkVars, sinkBlob>>

PositionDone == phase = "forward" /\ at > Len(Order[net])

NextPosition ==
    /\ PositionDone /\ ~LastStep
    /\ step' = step + 1 /\ at' = 1
    /\ carried' = Append(carried, [b \in BackLinks |->
          IF b \notin DOMAIN net THEN Zero
          ELSE IF Follows(b, length) THEN Value(net[b][1], step + 1)
          ELSE Value(net[CaptureOf[b]][1], step)])
    /\ UNCHANGED <<userVars, runVars, phase, todo, first, captured, capturedDiff, state, blobVars,
                   diffVars>>

\* The end of CCompositeLayer::RunOnce.
EndForward ==
    /\ PositionDone /\ LastStep
    /\ result' = sinkBlob
    /\ IF reuse
       THEN /\ outBlobs' = [l \in Layers |-> IF l \in Sources THEN NoBlob ELSE outBlobs[l]]
            /\ sinkBlob' = [l \in Layers |-> NoBlob]
       ELSE UNCHANGED <<outBlobs, sinkBlob>>
    /\ IF training
       THEN phase' = "backward" /\ todo' = Trains(net)
       ELSE phase' = "idle" /\ UNCHANGED todo
    /\ state' = [b \in BackLinks |->
          IF b \in DOMAIN net THEN Value(net[CaptureOf[b]][1], step) ELSE Zero]
    /\ UNCHANGED <<userVars, runVars, step, at, first, captured, capturedDiff, carried, inBlobs,
                   content, diffVars>>

-----------------------------------------------------------------------------
(* backwardRunAndLearnOnce(), position after position from the last one.   *)

RunningBack(l) == phase = "backward" /\ l \in todo /\ Readers(net, l) \cap todo = {}

\* The terms layer l passes to its input i.
Passed(l, i) ==
    IF l \in Captures THEN capturedDiff[l]
    ELSE IF l \in BackLinks /\ step > 0 THEN {}
    ELSE {<<l, i, run, step>>}

\* All that backwardRunAndLearnOnce() of a layer does, except what CRecurrentLayer's own layers
\* and the learning do.
RunsBack(l) ==
    /\ RunningBack(l)
    /\ todo' = todo \ {l}
    /\ outDiffs' = [m \in Layers |->
          IF m = l THEN {}
          ELSE IF BackwardPerformed(l) /\ m \in DOMAIN net /\ m \in Trains(net)
          THEN outDiffs[m] \cup UNION {Passed(k[1], k[2]) : k \in {c \in Links(net, m) : c[1] = l}}
          ELSE outDiffs[m]]
    /\ IF reuse /\ step = 0
       THEN /\ inBlobs' = [inBlobs EXCEPT ![l] = NoBlobs(Len(@))]
            /\ outBlobs' = [outBlobs EXCEPT ![l] = NoBlob]
       ELSE UNCHANGED <<inBlobs, outBlobs>>
    /\ UNCHANGED <<userVars, runVars, phase, step, at, first, captured, state, carried, content,
                   sinkBlob, result>>

\* Mutant of BackSource: the item of the step, also of a reversed sequence.
BackSourceForward(s) ==
    /\ s \in Sources /\ RunsBack(s)
    /\ inputDiff' = [inputDiff EXCEPT ![s][step % ItemsOf(s, length)] = @ \cup outDiffs[s]]
    /\ UNCHANGED <<capturedDiff, paramDiff, given>>

\* CCompositeSourceLayer::BackwardOnce adds to the item of this position.
BackSource(s) ==
    /\ s \in Sources /\ RunsBack(s)
    /\ inputDiff' = [inputDiff EXCEPT ![s][Position(step) % ItemsOf(s, length)] = @ \cup outDiffs[s]]
    /\ UNCHANGED <<capturedDiff, paramDiff, given>>

\* CBackLinkLayer::BackwardOnce.
BackBackLink(b) ==
    /\ b \in BackLinks /\ RunsBack(b)
    /\ capturedDiff' = [capturedDiff EXCEPT ![CaptureOf[b]] = {<<b, 0, run, step>>}]
    /\ UNCHANGED <<paramDiff, given, inputDiff>>

\* Mutant of Learn: the solver is given the diffs where the backward pass begins.
LearnAtLast(l) ==
    LET sum == paramDiff[l] \cup {<<run, step>>}
    IN  IF LastStep
        THEN /\ given' = [given EXCEPT ![l] = Append(@, sum)]
             /\ paramDiff' = [paramDiff EXCEPT ![l] = {}]
        ELSE paramDiff' = [paramDiff EXCEPT ![l] = sum] /\ UNCHANGED given

\* LearnOnce(): the solver is given the sum over the positions in the last one to be visited.
Learn(l) ==
    LET sum == paramDiff[l] \cup {<<run, step>>}
    IN  IF step = 0
        THEN /\ given' = [given EXCEPT ![l] = Append(@, sum)]
             /\ paramDiff' = [paramDiff EXCEPT ![l] = {}]
        ELSE paramDiff' = [paramDiff EXCEPT ![l] = sum] /\ UNCHANGED given

BackLayer(l) ==
    /\ l \notin Sources \cup BackLinks /\ RunsBack(l)
    /\ IF l \in Learnable THEN Learn(l) ELSE UNCHANGED <<paramDiff, given>>
    /\ UNCHANGED <<capturedDiff, inputDiff>>

PositionDoneBack == phase = "backward" /\ todo = {}

NextPositionBack ==
    /\ PositionDoneBack /\ step > 0
    /\ step' = step - 1 /\ todo' = Trains(net)
    /\ UNCHANGED <<userVars, runVars, phase, at, linkVars, blobVars, diffVars>>

EndBackward ==
    /\ PositionDoneBack /\ step = 0
    /\ phase' = "idle"
    /\ UNCHANGED <<userVars, runVars, step, at, todo, linkVars, blobVars, diffVars>>

Forward == \/ NextPosition \/ EndForward
           \/ \E l \in Layers : \/ RunSource(l) \/ RunCapture(l) \/ RunSink(l)
                                \/ RunBackLink(l) \/ RunLayer(l)
Backward == \/ NextPositionBack \/ EndBackward
            \/ \E l \in Layers : BackSource(l) \/ BackBackLink(l) \/ BackLayer(l)

Next == User \/ Forward \/ Backward

Spec == Init /\ [][Next]_vars

-----------------------------------------------------------------------------
(* Properties                                                              *)

\* In every position a layer reads what its inputs should compute there: a back link what was
\* captured in the position before, and in the first one zero, the initial state, the state the
\* user set or the state the last run left; whatever was freed or is in place of what (runOnce,
\* CBackLinkLayer::RunOnce, RestartSequence).
StepsReadTheirInputs ==
    \A l \in DOMAIN net : Running(l) =>
        \A i \in DOMAIN net[l] : Holds(outBlobs[net[l][i]], step, Value(net[l][i], step))

\* The outputs of the recurrent layer hold all the items of the sequence, in the place of the
\* input they were computed from, also when a layer frees its blobs position by position
\* (CCompositeSinkLayer::RunOnce, setOutputBlobs).
OutputsComplete ==
    phase = "backward" \/ (PositionDone /\ LastStep) =>
        \A s \in {l \in DOMAIN net : IsSink(net, l)} \ Captures : \A k \in 0 .. steps - 1 :
            Holds(IF phase = "backward" THEN result[s] ELSE sinkBlob[s], k, Value(net[s][1], k))

\* Does the last user of layer m keep what it has for all the positions?
LastUserKeeps(m) ==
    "out" \notin Needed(m) =>
        \A c \in DOMAIN net : IsLastUser(net, c, m) =>
            "in" \in Needed(c) \/ (c \in inPlace /\ "out" \in Needed(c))

\* "If layer needs its inputs or outputs for training then it needs them for all the steps of the
\* recurrent part" (BaseLayer.cpp:649): they are there in every step of the backward pass, with
\* what was in them in that step of the forward pass; except that with reuse of memory it is the
\* last user alone that decides.
BackwardHasItsBlobs ==
    \A l \in DOMAIN net : RunningBack(l) /\ l \notin Sources \cup BackLinks =>
        /\ "in" \in Needed(l) =>
              \A i \in DOMAIN net[l] : LET m == net[l][i]
                                      IN  (reuse => LastUserKeeps(m))
                                          => Holds(inBlobs[l][i], step, Value(m, step))
        /\ "out" \in Needed(l) /\ ~IsSink(net, l) => Holds(outBlobs[l], step, Value(l, step))

\* A layer is run back in a position with the sum of what its readers have passed there and, for
\* a layer that is captured, of what the back link has passed in the next position, none in the
\* last: nothing from another position or from another run (transferDiffBlob, CaptureSinkLayer).
DiffsThroughTime ==
    \A l \in DOMAIN net : RunningBack(l) =>
        outDiffs[l] =
            {<<k[1], k[2], run, step>> : k \in {c \in Links(net, l) :
                 c[1] \notin Captures /\ (c[1] \in BackLinks => step = 0)}}
            \cup {<<b, 0, run, step + 1>> : b \in {c \in BackLinks :
                 ~LastStep /\ CaptureOf[c] \in Readers(net, l)}}

\* A training run gives the solver the diffs of each layer that learns once, summed over all the
\* positions and none of an earlier run, and gives the layers outside, for each item of the
\* inputs, the diffs of all the positions that have read it and nothing else; except that a back
\* link passes its diff to its input in the first position only, also when it has read the input
\* in every position (AddDiff, SetDiffBlob, CBackLinkLayer::BackwardOnce).
TrainingComplete ==
    PositionDoneBack /\ step = 0 =>
        /\ \A l \in Learnable \cap DOMAIN net :
              given[l] = <<{run} \X (0 .. steps - 1)>> /\ paramDiff[l] = {}
        /\ \A s \in Sources \cap Trains(net) : \A j \in DOMAIN inputDiff[s] :
              inputDiff[s][j] =
                  {<<k[1][1], k[1][2], run, k[2]>> :
                      k \in {c \in Links(net, s) \X (0 .. steps - 1) :
                          /\ Position(c[2]) % ItemsOf(s, length) = j
                          /\ c[1][1] \in BackLinks => c[2] = 0}}
=============================================================================
