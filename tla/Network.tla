------------------------------ MODULE Network ------------------------------
(***************************************************************************)
(* CDnn and CBaseLayer (NeoML/src/Dnn/Dnn.cpp, BaseLayer.cpp): a graph of  *)
(* layers that is built, reshaped, run and trained by functions that call  *)
(* themselves for the inputs of a layer.  One thread runs it; what is hard *)
(* is that the outcome of a run is read by the next one: blobs are kept or *)
(* dropped by the last user, layers compute in place of their inputs, only *)
(* what changed is reshaped, counts are reset behind the recursion, and an *)
(* exception may leave the recursion anywhere.                             *)
(*                                                                         *)
(* The recursion is explicit: stack holds the layers that are being called *)
(* and the input each of them is at.  A step enters a layer (or finds that *)
(* it has nothing to do), or does the rest of a call when its inputs have  *)
(* returned.                                                               *)
(***************************************************************************)
EXTENDS LayerGraph, Integers

CONSTANTS
    Layers,             \* layers, numbered in the order they were added
    Networks,           \* networks made of them
    Learnable,          \* layers with isLearnable
    BackwardForced,     \* layers with isBackwardForced
    InPlaceLayers,      \* layers whose Reshape() asks InputsMayBeOverwritten()
    FixedOutput,        \* layers whose output size does not depend on the input's
    BlobsForBackward,   \* of each layer, what BackwardOnce() needs of {"in", "out"}
    BlobsForLearn,      \* of each layer, what LearnOnce() needs
    Sizes,              \* sizes of blobs
    BigSizes,           \* those that make a network large (MinReuseMemoryModeNetSize)
    Uses,               \* what users do between runs
    MayFail,            \* the layers that may throw in each phase
    Careful,            \* users keep to the rule stated at Begin
    MaxCalls, MaxUses   \* bounds on calls and uses

ASSUME NetworkAssumption ==
    /\ Layers \subseteq Nat \ {0} /\ IsFiniteSet(Layers)
    /\ \A n \in Networks : DOMAIN n \subseteq Layers /\ IsNetwork(n)
    /\ \A n \in Networks : \A l \in DOMAIN n : n[l] \in Seq(Layers \X (Nat \ {0}))
    /\ BlobsForBackward \in [Layers -> SUBSET {"in", "out"}]
    /\ BlobsForLearn \in [Layers -> SUBSET {"in", "out"}]
    /\ Learnable \cup BackwardForced \cup InPlaceLayers \cup FixedOutput \subseteq Layers
    /\ MayFail \in [{"reshape", "forward", "backward"} -> SUBSET Layers]
    /\ Sizes \subseteq Nat \ {0} /\ Careful \in BOOLEAN
    /\ MaxCalls \in Nat /\ MaxUses \in Nat
    /\ \A n \in Networks : \A l \in InPlaceLayers \cap DOMAIN n :
          n[l] # <<>> /\ OutputCount(n, l) <= Len(n[l])

VARIABLES
    \* what the user has set
    net,                \* inputs of the layers in the network
    rebuildNeeded,      \* isRebuildNeeded
    userSize,           \* size of the blob the user gave to each source layer
    learningOn,         \* layers with isLearningEnabled
    relearned,          \* history: learningOn has changed since all layers were forced
    netLearning,        \* CDnn::isLearningEnabled
    gpu,                \* the engine is a GPU or distributed
    \* CDnn
    runNumber, backward, reuse,   \* runNumber, isBackwardPerformed, isReuseMemoryMode
    calls, uses,        \* history: calls of RunOnce() and RunAndBackwardOnce(), and
                        \* other calls of the user since the last of them
    phase,              \* at rest ("idle", "failed", "broken") or what is being done
    sink,               \* the last sink layer called in this phase
    stack,              \* the calls in progress
    \* CBaseLayer, the order
    lastUser,           \* lastOutputUser, empty if not built
    \* CBaseLayer, the shape
    backwardNeeded,     \* layers with isBackwardNeeded = BS_NeedsBackward
    forced, stale,      \* layers with forcedReshape, with isReshapeNeeded
    inSizes, outSizes,  \* inputDescs, outputDescs
    inPlace, needed,    \* isInPlace, blobsNeededForBackward
    \* CBaseLayer, the blobs
    lastRun,            \* lastRunNumber
    inBlobs, outBlobs,  \* inputBlobs, outputBlobs
    content,            \* what was last written to each blob
    result,             \* CSinkLayer::blob
    ran,                \* history: layers whose RunOnce() has returned in this run
    \* CBaseLayer, the diffs
    ready,              \* readyOutputDiffs
    outDiffs,           \* the terms of each of outputDiffBlobs
    inDiffs,            \* layers with a nonempty inputDiffBlobs
    trained             \* history: the layers that were trained in this run

userVars == <<net, rebuildNeeded, userSize, learningOn, relearned, netLearning, gpu>>
dnnVars == <<runNumber, backward, reuse, calls, uses>>
netVars == <<runNumber, backward, reuse, calls>>
callVars == <<phase, sink, stack>>
shapeVars == <<backwardNeeded, forced, stale, inSizes, outSizes, inPlace, needed>>
blobVars == <<lastRun, inBlobs, outBlobs, content, result, ran>>
diffVars == <<ready, outDiffs, inDiffs, trained>>
vars == <<userVars, dnnVars, callVars, lastUser, shapeVars, blobVars, diffVars>>

-----------------------------------------------------------------------------
NoBlob == <<>>
NoBlobs(n) == [i \in 1 .. n |-> NoBlob]

\* lastOutputUser holds a layer, nullptr, or the value that disables processing in place.
Nobody == 0
Disabled == -1

\* Blob <<l, o, n>> was created for output o of layer l in run n; for a source
\* layer it is the user's blob of size n.  Its content is named in the same way.
Created(l, o) == <<l, o, runNumber>>
UserBlob(l) == <<l, 1, userSize[l]>>
Unspecified == <<0, 0, 0>>

\* What output o of layer m should hold in this run.
Value(m, o) == IF IsSource(net, m) THEN UserBlob(m) ELSE Created(m, o)

LearningNeeded(l) == l \in Learnable \cap learningOn /\ netLearning
LearningPerformed(l) == LearningNeeded(l) /\ backward
BackwardPerformed(l) == l \in backwardNeeded /\ backward
Trains(l) == BackwardPerformed(l) \/ LearningPerformed(l)

NeededNow(l) == (IF BackwardPerformed(l) THEN BlobsForBackward[l] ELSE {})
                \cup (IF LearningPerformed(l) THEN BlobsForLearn[l] ELSE {})

Init ==
    /\ net \in Networks /\ rebuildNeeded = TRUE
    /\ userSize \in [Layers -> Sizes] /\ (\A l, m \in Layers : userSize[l] = userSize[m])
    /\ learningOn = Layers /\ relearned = FALSE /\ netLearning = TRUE /\ gpu \in BOOLEAN
    /\ runNumber = 0 /\ backward = FALSE /\ reuse = FALSE /\ calls = 0 /\ uses = 0
    /\ phase = "idle" /\ sink = 0 /\ stack = <<>>
    /\ lastUser = [l \in Layers |-> <<>>]
    /\ backwardNeeded = {} /\ forced = Layers /\ stale = Layers
    /\ inSizes = [l \in Layers |-> <<>>] /\ outSizes = [l \in Layers |-> 0]
    /\ inPlace = {} /\ needed = [l \in Layers |-> {}]
    /\ lastRun = [l \in Layers |-> 0]
    /\ inBlobs = [l \in Layers |-> <<>>] /\ outBlobs = [l \in Layers |-> <<>>]
    /\ content = <<>> /\ result = [l \in Layers |-> NoBlob] /\ ran = {}
    /\ ready = [l \in Layers |-> <<>>] /\ outDiffs = [l \in Layers |-> <<>>]
    /\ inDiffs = {} /\ trained = {}

-----------------------------------------------------------------------------
(* What the user does between the runs. *)

AtRest == phase \in {"idle", "failed", "broken"}
May(use) == /\ AtRest /\ use \in Uses
            /\ calls < MaxCalls /\ uses < MaxUses /\ uses' = uses + 1

\* CSourceLayer::SetBlob with a blob of another size.
SetBlob(l, size) ==
    /\ May("resize")
    /\ IsSource(net, l) /\ size # userSize[l]
    /\ userSize' = [userSize EXCEPT ![l] = size]
    /\ IF outSizes[l] = 0
       THEN UNCHANGED <<outSizes, forced, stale>>
       ELSE /\ outSizes' = [outSizes EXCEPT ![l] = size]
            /\ forced' = forced \cup {l}
            /\ stale' = stale \cup DOMAIN net
    /\ outBlobs' = [outBlobs EXCEPT ![l] = NoBlobs(Len(@))]
    /\ UNCHANGED <<net, rebuildNeeded, learningOn, relearned, netLearning, gpu, netVars, callVars,
                   lastUser, backwardNeeded, inSizes, inPlace, needed,
                   lastRun, inBlobs, content, result, ran, diffVars>>

\* EnableLearning, DisableLearning of a layer.  ForceReshape forces this layer only,
\* although other layers may need other blobs for the backward pass now.
ToggleLearning(l) ==
    /\ May("layerLearning") /\ l \in Learnable
    /\ learningOn' = IF l \in learningOn THEN learningOn \ {l} ELSE learningOn \cup {l}
    /\ relearned' = TRUE
    /\ forced' = forced \cup {l}
    /\ stale' = stale \cup DOMAIN net
    /\ UNCHANGED <<net, rebuildNeeded, userSize, netLearning, gpu, netVars, callVars, lastUser,
                   backwardNeeded, inSizes, outSizes, inPlace, needed, blobVars, diffVars>>

\* Mutant of ToggleNetLearning: only what is stale is reshaped.
ToggleNetLearningUnforced ==
    /\ May("netLearning")
    /\ netLearning' = ~netLearning
    /\ relearned' = FALSE
    /\ stale' = stale \cup DOMAIN net
    /\ UNCHANGED <<net, rebuildNeeded, userSize, learningOn, gpu, netVars, callVars, lastUser,
                   backwardNeeded, forced, inSizes, outSizes, inPlace, needed, blobVars, diffVars>>

\* CDnn::EnableLearning, CDnn::DisableLearning: every layer is forced.
ToggleNetLearning ==
    /\ May("netLearning")
    /\ netLearning' = ~netLearning
    /\ relearned' = FALSE
    /\ forced' = forced \cup DOMAIN net
    /\ stale' = stale \cup DOMAIN net
    /\ UNCHANGED <<net, rebuildNeeded, userSize, learningOn, gpu, netVars, callVars, lastUser,
                   backwardNeeded, inSizes, outSizes, inPlace, needed, blobVars, diffVars>>

\* CDnn::CleanUp: the layers drop their blobs and keep their shapes.
CleanUp ==
    /\ May("cleanUp")
    /\ inBlobs' = [l \in Layers |-> IF l \in DOMAIN net THEN NoBlobs(Len(inSizes[l])) ELSE inBlobs[l]]
    /\ outBlobs' = [l \in Layers |-> IF l \in DOMAIN net /\ outSizes[l] # 0
                                     THEN NoBlobs(OutputCount(net, l)) ELSE outBlobs[l]]
    /\ UNCHANGED <<userVars, netVars, callVars, lastUser, shapeVars,
                   lastRun, content, result, ran, diffVars>>

\* DeleteLayer of some layers and AddLayer of new ones.  A layer that stays keeps
\* its inputs, which cannot be changed in a network; a new one is added last.
Cleared(f, S) == [l \in Layers |-> IF l \in S THEN <<>> ELSE f[l]]
Edit(new) ==
    /\ May("edit") /\ new # net
    /\ \A l \in DOMAIN net \cap DOMAIN new : net[l] = new[l]
    /\ \A l \in DOMAIN new \ DOMAIN net : \A m \in DOMAIN net : m < l
    /\ LET moved == (DOMAIN net \ DOMAIN new) \cup (DOMAIN new \ DOMAIN net)
       IN  /\ lastRun' = [l \in Layers |-> IF l \in DOMAIN new \ DOMAIN net
                                           THEN runNumber ELSE lastRun[l]]
           /\ inBlobs' = Cleared(inBlobs, moved) /\ outBlobs' = Cleared(outBlobs, moved)
           /\ lastUser' = Cleared(lastUser, moved)
           /\ ready' = Cleared(ready, moved) /\ outDiffs' = Cleared(outDiffs, moved)
           /\ inDiffs' = inDiffs \ moved
    /\ net' = new
    /\ rebuildNeeded' = TRUE
    /\ UNCHANGED <<userSize, learningOn, relearned, netLearning, gpu, netVars, callVars,
                   shapeVars, content, result, ran, trained>>

\* RunOnce and RunAndBackwardOnce, up to the call of reshape(); if the network is
\* to be rebuilt, unlink() and link() of every layer.  Careful users have the
\* network rebuilt after an exception in Reshape() or in the backward pass.
Begin(train) ==
    /\ AtRest /\ calls < MaxCalls /\ calls' = calls + 1 /\ uses' = 0
    /\ Careful /\ phase = "broken" => rebuildNeeded
    /\ backward' = train
    /\ sink' = 0 /\ stack' = <<>>
    /\ IF rebuildNeeded
       THEN /\ phase' = "build"
            /\ inBlobs' = Cleared(inBlobs, DOMAIN net) /\ outBlobs' = Cleared(outBlobs, DOMAIN net)
            /\ lastUser' = Cleared(lastUser, DOMAIN net)
            /\ ready' = Cleared(ready, DOMAIN net) /\ outDiffs' = Cleared(outDiffs, DOMAIN net)
            /\ inDiffs' = inDiffs \ DOMAIN net
       ELSE /\ phase' = "recheck"
            /\ UNCHANGED <<inBlobs, outBlobs, lastUser, ready, outDiffs, inDiffs>>
    /\ rebuildNeeded' = FALSE
    /\ forced' = IF train # backward THEN forced \cup DOMAIN net ELSE forced
    /\ stale' = IF train # backward \/ rebuildNeeded THEN stale \cup DOMAIN net ELSE stale
    /\ relearned' = (relearned /\ train = backward /\ ~rebuildNeeded)
    /\ UNCHANGED <<net, userSize, learningOn, netLearning, gpu, runNumber, reuse,
                   backwardNeeded, inSizes, outSizes, inPlace, needed,
                   lastRun, content, result, ran, trained>>

User == \/ \E l \in DOMAIN net : \E size \in Sizes : SetBlob(l, size)
        \/ \E l \in DOMAIN net : ToggleLearning(l)
        \/ ToggleNetLearning
        \/ CleanUp
        \/ \E new \in Networks : Edit(new)
        \/ \E train \in BOOLEAN : Begin(train)

-----------------------------------------------------------------------------
(* The recursion, common to all phases. *)

Top == stack[Len(stack)]

\* Mutant of SinksLeft: the sink that has been called is called again.
SinksLeftAgain == {l \in DOMAIN net : IsSink(net, l) /\ l >= sink}

SinksLeft == {l \in DOMAIN net : IsSink(net, l) /\ l > sink}

\* Layer l is called: by the loop over the sink layers, or for the next input of Top.
Calls(l) == IF stack = <<>>
            THEN l \in SinksLeft /\ (\A m \in SinksLeft : l <= m)
            ELSE Top.next \in DOMAIN net[Top.layer] /\ net[Top.layer][Top.next][1] = l

\* All the calls for the inputs of layer l have returned.
Returned(l) == stack # <<>> /\ Top.layer = l /\ Top.next > Len(net[l])

PhaseOver == stack = <<>> /\ SinksLeft = {}

Advance(s) == IF s = <<>> THEN s ELSE [s EXCEPT ![Len(s)].next = @ + 1]
CalledSink(l) == IF stack = <<>> THEN l ELSE sink

EnterAt(l, input) == /\ stack' = Append(stack, [layer |-> l, next |-> input])
                     /\ sink' = CalledSink(l)
                     /\ UNCHANGED phase
Enter(l) == EnterAt(l, 1)
Skip(l) == stack' = Advance(stack) /\ sink' = CalledSink(l) /\ UNCHANGED phase
Leave == stack' = Advance(SubSeq(stack, 1, Len(stack) - 1)) /\ UNCHANGED <<phase, sink>>

StartPhase(p) == phase' = p /\ sink' = 0 /\ stack' = <<>>

-----------------------------------------------------------------------------
(* buildOrder: a layer is built after its inputs, and becomes their last user *)
(* unless a sink has used them before.                                        *)

BuildEnter(l) ==
    /\ phase = "build" /\ Calls(l) /\ lastUser[l] = <<>>
    /\ Enter(l)
    /\ UNCHANGED <<userVars, dnnVars, lastUser, shapeVars, blobVars, diffVars>>

BuildSkip(l) ==
    /\ phase = "build" /\ Calls(l) /\ lastUser[l] # <<>>
    /\ Skip(l)
    /\ UNCHANGED <<userVars, dnnVars, lastUser, shapeVars, blobVars, diffVars>>

\* Mutant of NextUser: the first user remains.
FirstUser(l, user) == IF IsSink(net, l) THEN Disabled ELSE IF user = Nobody THEN l ELSE user

\* Mutant of NextUser: a sink is a user like others.
NextUserOrSink(l, user) == l

\* The last user of an output after user, if layer l reads it next.
NextUser(l, user) ==
    IF user = Disabled \/ IsSink(net, l) THEN Disabled ELSE l

BuildLayer(l) ==
    /\ phase = "build" /\ Returned(l)
    /\ Leave
    /\ lastUser' = [m \in Layers |->
          IF m = l THEN [o \in Outputs(net, l) |-> Nobody]
          ELSE [o \in DOMAIN lastUser[m] |->
                  IF \E i \in DOMAIN net[l] : net[l][i] = <<m, o>>
                  THEN NextUser(l, lastUser[m][o]) ELSE lastUser[m][o]]]
    /\ UNCHANGED <<userVars, dnnVars, shapeVars, blobVars, diffVars>>

\* rebuild() ends with RequestReshape( true ).
EndBuild ==
    /\ phase = "build" /\ PhaseOver
    /\ StartPhase("recheck")
    /\ forced' = forced \cup DOMAIN net
    /\ stale' = stale \cup DOMAIN net
    /\ UNCHANGED <<userVars, dnnVars, lastUser, backwardNeeded, inSizes, outSizes, inPlace, needed,
                   blobVars, diffVars>>

-----------------------------------------------------------------------------
(* reshape *)

\* The layers that a layer with something to train comes before; recheckBackwardNeeded
\* of all layers computes the smallest set that this leads into.
NeedsBackward(S) ==
    {l \in DOMAIN net : \/ l \in BackwardForced
                        \/ \E i \in DOMAIN net[l] : \/ net[l][i][1] \in S
                                                    \/ LearningNeeded(net[l][i][1])}

Recheck ==
    /\ phase = "recheck"
    /\ StartPhase("reshape")
    /\ backwardNeeded' = {l \in DOMAIN net :
          \A S \in SUBSET DOMAIN net : NeedsBackward(S) \subseteq S => l \in S}
    /\ ready' = [l \in Layers |->
          IF l \in DOMAIN net /\ ready[l] = <<>> /\ (l \in backwardNeeded' \/ LearningNeeded(l))
          THEN [o \in Outputs(net, l) |-> 0]
          ELSE ready[l]]
    /\ UNCHANGED <<userVars, dnnVars, lastUser, forced, stale, inSizes, outSizes, inPlace, needed,
                   blobVars, outDiffs, inDiffs, trained>>

\* Mutant of InputsMayBeOverwritten: nobody asks what the previous layers need.
InputsUnused(l) ==
    \A i \in DOMAIN net[l] \cap Outputs(net, l) :
        /\ ~IsSource(net, net[l][i][1])
        /\ lastUser[net[l][i][1]][net[l][i][2]] = l
        /\ backward => Cardinality(Consumers(net, net[l][i])) = 1

InputsMayBeOverwritten(l) ==
    \A i \in DOMAIN net[l] \cap Outputs(net, l) :
        LET m == net[l][i][1]
            o == net[l][i][2]
        IN  /\ ~IsSource(net, m)
            /\ lastUser[m][o] = l
            /\ backward => Cardinality(Consumers(net, <<m, o>>)) = 1
            /\ "out" \notin needed[m]
            /\ m \in inPlace => "in" \notin needed[m]

SizesOfInputs(l) == [i \in DOMAIN net[l] |-> outSizes[net[l][i][1]]]

OutSize(l) == IF IsSource(net, l) THEN userSize[l]
              ELSE IF l \in FixedOutput THEN 1
              ELSE outSizes[net[l][1][1]]

\* The sizes are compared for as many inputs as there are input blobs.
MustReshape(l) ==
    \/ l \in forced
    \/ Len(inSizes[l]) # Len(net[l])
    \/ l \in inPlace
    \/ \E i \in DOMAIN inBlobs[l] : inSizes[l][i] # SizesOfInputs(l)[i]

ReshapeEnter(l) ==
    /\ phase = "reshape" /\ Calls(l) /\ l \in forced \cup stale
    /\ Enter(l)
    /\ stale' = stale \ {l}
    /\ UNCHANGED <<userVars, dnnVars, lastUser, backwardNeeded, forced, inSizes, outSizes, inPlace,
                   needed, blobVars, diffVars>>

ReshapeSkip(l) ==
    /\ phase = "reshape" /\ Calls(l) /\ l \notin forced \cup stale
    /\ Skip(l)
    /\ UNCHANGED <<userVars, dnnVars, lastUser, shapeVars, blobVars, diffVars>>

KeepShape(l) ==
    /\ phase = "reshape" /\ Returned(l) /\ ~MustReshape(l)
    /\ Leave
    /\ inSizes' = [inSizes EXCEPT ![l] = SizesOfInputs(l)]
    /\ UNCHANGED <<userVars, dnnVars, lastUser, backwardNeeded, forced, stale, outSizes, inPlace,
                   needed, blobVars, diffVars>>

ReshapeLayer(l) ==
    /\ phase = "reshape" /\ Returned(l) /\ MustReshape(l)
    /\ Leave
    /\ inSizes' = [inSizes EXCEPT ![l] = SizesOfInputs(l)]
    /\ outSizes' = [outSizes EXCEPT ![l] = OutSize(l)]
    /\ forced' = forced \ {l}
    /\ inPlace' = IF l \in InPlaceLayers /\ InputsMayBeOverwritten(l)
                  THEN inPlace \cup {l} ELSE inPlace \ {l}
    /\ needed' = [needed EXCEPT ![l] = NeededNow(l)]
    /\ inBlobs' = [inBlobs EXCEPT ![l] = NoBlobs(Len(net[l]))]
    /\ outBlobs' = [outBlobs EXCEPT ![l] = NoBlobs(OutputCount(net, l))]
    /\ outDiffs' = [outDiffs EXCEPT ![l] = <<>>]
    /\ inDiffs' = inDiffs \ {l}
    /\ UNCHANGED <<userVars, dnnVars, lastUser, backwardNeeded, stale,
                   lastRun, content, result, ran, ready, trained>>

\* Reshape() finds a mistake.  The layer has lost its blobs and is not forced any
\* more; the layers that were waiting for it have lost the sizes of their inputs.
ReshapeThrows(l) ==
    /\ phase = "reshape" /\ Returned(l) /\ MustReshape(l) /\ l \in MayFail["reshape"]
    /\ StartPhase("broken")
    /\ forced' = forced \ {l}
    /\ inPlace' = inPlace \ {l}
    /\ inSizes' = [m \in Layers |->
          IF m = l THEN SizesOfInputs(l)
          ELSE IF \A k \in DOMAIN stack : stack[k].layer # m THEN inSizes[m]
          ELSE [i \in DOMAIN net[m] |->
                  IF \E k \in DOMAIN stack : stack[k].layer = m /\ i < stack[k].next
                  THEN SizesOfInputs(m)[i] ELSE 0]]
    /\ inBlobs' = [inBlobs EXCEPT ![l] = <<>>]
    /\ outBlobs' = [outBlobs EXCEPT ![l] = <<>>]
    /\ outDiffs' = [outDiffs EXCEPT ![l] = <<>>]
    /\ inDiffs' = inDiffs \ {l}
    /\ UNCHANGED <<userVars, dnnVars, lastUser, backwardNeeded, stale, outSizes, needed,
                   lastRun, content, result, ran, ready, trained>>

\* The mode of memory is chosen and runOnce( 0 ) begins.
EndReshape ==
    /\ phase = "reshape" /\ PhaseOver
    /\ StartPhase("forward")
    /\ reuse' = IF backward THEN gpu ELSE \E l \in DOMAIN net : outSizes[l] \in BigSizes
    /\ runNumber' = runNumber + 1
    /\ ran' = {} /\ trained' = {}
    /\ UNCHANGED <<userVars, backward, calls, uses, lastUser, shapeVars,
                   lastRun, inBlobs, outBlobs, content, result, ready, outDiffs, inDiffs>>

-----------------------------------------------------------------------------
(* runOnce *)

RunEnter(l) ==
    /\ phase = "forward" /\ Calls(l) /\ lastRun[l] # runNumber
    /\ Enter(l)
    /\ lastRun' = [lastRun EXCEPT ![l] = runNumber]
    /\ UNCHANGED <<userVars, dnnVars, lastUser, shapeVars,
                   inBlobs, outBlobs, content, result, ran, diffVars>>

RunSkip(l) ==
    /\ phase = "forward" /\ Calls(l) /\ lastRun[l] = runNumber
    /\ Skip(l)
    /\ UNCHANGED <<userVars, dnnVars, lastUser, shapeVars, blobVars, diffVars>>

\* The blobs the layer takes from its inputs.
Taken(l) == [i \in DOMAIN inBlobs[l] |-> outBlobs[net[l][i][1]][net[l][i][2]]]

\* The last user of an output drops it from the layer that computed it.
Drops(l, m, o) == /\ reuse
                  /\ \E i \in DOMAIN inBlobs[l] : net[l][i] = <<m, o>>
                  /\ lastUser[m][o] = l
                  /\ "out" \notin needed[m]

\* AllocateOutputBlobs: the user's blob, the blobs of the inputs, or new ones
\* where there are none from an earlier run.
Allocated(l) ==
    IF IsSource(net, l) THEN <<UserBlob(l)>>
    ELSE IF l \in inPlace
         THEN IF outBlobs[l] # <<>> /\ outBlobs[l][1] = NoBlob
              THEN [o \in DOMAIN outBlobs[l] |-> Taken(l)[o]]
              ELSE outBlobs[l]
    ELSE [o \in DOMAIN outBlobs[l] |->
            IF outBlobs[l][o] = NoBlob THEN Created(l, o) ELSE outBlobs[l][o]]

OutBlobsAfter(l) ==
    [m \in Layers |-> IF m = l THEN Allocated(l)
                      ELSE [o \in DOMAIN outBlobs[m] |->
                              IF Drops(l, m, o) THEN NoBlob ELSE outBlobs[m][o]]]

\* The blobs bs of layer l are written; a source layer leaves them to the user.
Written(l, bs, written) ==
    [b \in DOMAIN content \cup {bs[o] : o \in DOMAIN bs} |->
        IF \E o \in DOMAIN bs : bs[o] = b
        THEN IF IsSource(net, l) THEN b
             ELSE IF written THEN Created(l, CHOOSE o \in DOMAIN bs : bs[o] = b)
             ELSE Unspecified
        ELSE content[b]]

RunLayer(l) ==
    /\ phase = "forward" /\ Returned(l)
    /\ Leave
    /\ outBlobs' = OutBlobsAfter(l)
    /\ content' = Written(l, Allocated(l), TRUE)
    /\ inBlobs' = [inBlobs EXCEPT ![l] =
          IF reuse /\ "in" \notin needed[l] THEN NoBlobs(Len(@)) ELSE Taken(l)]
    /\ result' = IF IsSink(net, l) THEN [result EXCEPT ![l] = Taken(l)[1]] ELSE result
    /\ ran' = ran \cup {l}
    /\ UNCHANGED <<userVars, dnnVars, lastUser, shapeVars, lastRun, diffVars>>

\* RunOnce() of the layer throws: what it has written is of no use.
RunThrows(l) ==
    /\ phase = "forward" /\ Returned(l) /\ l \in MayFail["forward"]
    /\ StartPhase("failed")
    /\ outBlobs' = OutBlobsAfter(l)
    /\ content' = Written(l, Allocated(l), FALSE)
    /\ inBlobs' = [inBlobs EXCEPT ![l] = Taken(l)]
    /\ UNCHANGED <<userVars, dnnVars, lastUser, shapeVars, lastRun, result, ran, diffVars>>

\* Mutant of EndForward: the last sinks may be left out.
EndForwardEarly ==
    /\ phase = "forward" /\ stack = <<>> /\ sink # 0
    /\ StartPhase(IF backward THEN "backward" ELSE "idle")
    /\ UNCHANGED <<userVars, dnnVars, lastUser, shapeVars, blobVars, diffVars>>

EndForward ==
    /\ phase = "forward" /\ PhaseOver
    /\ StartPhase(IF backward THEN "backward" ELSE "idle")
    /\ UNCHANGED <<userVars, dnnVars, lastUser, shapeVars, blobVars, diffVars>>

-----------------------------------------------------------------------------
(* backwardRunAndLearnOnce *)

DiffsReady(l) ==
    \A o \in DOMAIN ready[l] : ready[l][o] >= Cardinality(Consumers(net, <<l, o>>))

BackSkip(l) ==
    /\ phase = "backward" /\ Calls(l) /\ ~DiffsReady(l)
    /\ Skip(l)
    /\ UNCHANGED <<userVars, dnnVars, lastUser, shapeVars, blobVars, diffVars>>

\* The inputs of layer l that are connected to output o of layer m.
InputsFrom(l, m, o) == {i \in DOMAIN net[l] : net[l][i] = <<m, o>>}

\* transferDiffBlob for each input: the only consumer of an output gives its blob,
\* the first one copies, the others add.
Transferred(l, m) ==
    [o \in Outputs(net, m) |->
        LET sent == {<<l, i, runNumber>> : i \in InputsFrom(l, m, o)}
            old == IF outDiffs[m] = <<>> THEN {} ELSE outDiffs[m][o]
        IN  IF sent = {} THEN old
            ELSE IF Cardinality(Consumers(net, <<m, o>>)) = 1 \/ ready[m][o] = 0 THEN sent
            ELSE old \cup sent]

BackLayer(l) ==
    /\ phase = "backward" /\ Calls(l) /\ DiffsReady(l)
    /\ BackwardPerformed(l) => l \notin inDiffs
    /\ trained' = IF Trains(l) THEN trained \cup {l} ELSE trained
    /\ IF BackwardPerformed(l)
       THEN LET passed == {net[l][i][1] : i \in DOMAIN net[l]} \cap {m \in DOMAIN net : Trains(m)}
            IN  /\ EnterAt(l, 1)
                /\ outDiffs' = [m \in Layers |-> IF m = l THEN <<>>
                                                 ELSE IF m \in passed THEN Transferred(l, m)
                                                 ELSE outDiffs[m]]
                /\ ready' = [m \in Layers |->
                      IF m \in passed
                      THEN [o \in DOMAIN ready[m] |-> ready[m][o] + Cardinality(InputsFrom(l, m, o))]
                      ELSE ready[m]]
       ELSE /\ EnterAt(l, Len(net[l]) + 1)
            /\ outDiffs' = [outDiffs EXCEPT ![l] = <<>>]
            /\ UNCHANGED ready
    /\ UNCHANGED <<userVars, dnnVars, lastUser, shapeVars, blobVars, inDiffs>>

\* The assertion that inputDiffBlobs is empty fails, or the layer throws in
\* BackwardOnce or LearnOnce.
BackThrows(l) ==
    /\ phase = "backward" /\ Calls(l) /\ DiffsReady(l) /\ Trains(l)
    /\ \/ l \in MayFail["backward"]
       \/ BackwardPerformed(l) /\ l \in inDiffs
    /\ StartPhase("broken")
    /\ inDiffs' = IF BackwardPerformed(l) THEN inDiffs \cup {l} ELSE inDiffs
    /\ UNCHANGED <<userVars, dnnVars, lastUser, shapeVars, blobVars, ready, outDiffs, trained>>

\* Mutant of BackReset: the counts go on.
BackResetBlobs(l) ==
    /\ phase = "backward" /\ Returned(l)
    /\ Leave
    /\ IF reuse
       THEN /\ inBlobs' = [inBlobs EXCEPT ![l] = NoBlobs(Len(@))]
            /\ outBlobs' = [outBlobs EXCEPT ![l] = NoBlobs(Len(@))]
       ELSE UNCHANGED <<inBlobs, outBlobs>>
    /\ UNCHANGED <<userVars, dnnVars, lastUser, shapeVars,
                   lastRun, content, result, ran, ready, outDiffs, inDiffs, trained>>

\* The end of the call: the counts start again and the blobs are freed.
BackReset(l) ==
    /\ phase = "backward" /\ Returned(l)
    /\ Leave
    /\ ready' = [ready EXCEPT ![l] = [o \in DOMAIN @ |-> 0]]
    /\ IF reuse
       THEN /\ inBlobs' = [inBlobs EXCEPT ![l] = NoBlobs(Len(@))]
            /\ outBlobs' = [outBlobs EXCEPT ![l] = NoBlobs(Len(@))]
       ELSE UNCHANGED <<inBlobs, outBlobs>>
    /\ UNCHANGED <<userVars, dnnVars, lastUser, shapeVars,
                   lastRun, content, result, ran, outDiffs, inDiffs, trained>>

EndBackward ==
    /\ phase = "backward" /\ PhaseOver
    /\ StartPhase("idle")
    /\ UNCHANGED <<userVars, dnnVars, lastUser, shapeVars, blobVars, diffVars>>

-----------------------------------------------------------------------------
BuildStep == EndBuild \/ \E l \in Layers : BuildEnter(l) \/ BuildSkip(l) \/ BuildLayer(l)
ReshapeStep == Recheck \/ EndReshape
               \/ \E l \in Layers : \/ ReshapeEnter(l) \/ ReshapeSkip(l) \/ KeepShape(l)
                                    \/ ReshapeLayer(l) \/ ReshapeThrows(l)
ForwardStep == EndForward
               \/ \E l \in Layers : RunEnter(l) \/ RunSkip(l) \/ RunLayer(l) \/ RunThrows(l)
BackwardStep == EndBackward
                \/ \E l \in Layers : BackSkip(l) \/ BackLayer(l) \/ BackThrows(l) \/ BackReset(l)

Step == BuildStep \/ ReshapeStep \/ ForwardStep \/ BackwardStep

Next == User \/ Step

Spec == Init /\ [][Next]_vars

\* The thread that called RunOnce() is scheduled; users need not call anything.
FairSpec == Spec /\ WF_vars(Step)
-----------------------------------------------------------------------------
(* Properties *)

Phases == {"idle", "failed", "broken", "build", "recheck", "reshape", "forward", "backward"}
BlobNames == (Layers \cup {0}) \X Nat \X Nat

\* The state variables have their types (members of CDnn and CBaseLayer).
TypeOK ==
    /\ net \in Networks /\ rebuildNeeded \in BOOLEAN /\ userSize \in [Layers -> Sizes]
    /\ learningOn \subseteq Layers /\ relearned \in BOOLEAN /\ netLearning \in BOOLEAN /\ gpu \in BOOLEAN
    /\ runNumber \in 0 .. calls /\ calls \in 0 .. MaxCalls /\ uses \in 0 .. MaxUses
    /\ backward \in BOOLEAN /\ reuse \in BOOLEAN
    /\ phase \in Phases /\ sink \in DOMAIN net \cup {0}
    /\ stack \in Seq([layer : DOMAIN net, next : Nat \ {0}])
    /\ lastUser \in [Layers -> Seq(Layers \cup {Nobody, Disabled})]
    /\ backwardNeeded \subseteq Layers /\ forced \subseteq Layers /\ stale \subseteq Layers
    /\ inSizes \in [Layers -> Seq(Sizes \cup {0, 1})] /\ outSizes \in [Layers -> Sizes \cup {0, 1}]
    /\ inPlace \subseteq InPlaceLayers /\ needed \in [Layers -> SUBSET {"in", "out"}]
    /\ lastRun \in [Layers -> Nat]
    /\ inBlobs \in [Layers -> Seq(BlobNames \cup {NoBlob})]
    /\ outBlobs \in [Layers -> Seq(BlobNames \cup {NoBlob})]
    /\ DOMAIN content \subseteq BlobNames /\ (\A b \in DOMAIN content : content[b] \in BlobNames)
    /\ result \in [Layers -> BlobNames \cup {NoBlob}]
    /\ ran \subseteq Layers
    /\ ready \in [Layers -> Seq(Nat)]
    /\ \A l \in Layers : \A o \in DOMAIN outDiffs[l] : outDiffs[l][o] \subseteq Layers \X Nat \X Nat
    /\ inDiffs \subseteq Layers /\ trained \subseteq Layers

Holds(b, value) == b \in DOMAIN content /\ content[b] = value

\* Layer l is about to compute, or to propagate back and learn.
AboutToRun(l) == phase = "forward" /\ Returned(l)
AboutToTrain(l) == phase = "backward" /\ Calls(l) /\ DiffsReady(l) /\ Trains(l)

\* What a layer reads when it computes is what the layers it is connected to have
\* written in this run, whatever was dropped by a last user, computed in place or
\* kept from an earlier run (runOnce, buildOrder, InputsMayBeOverwritten).
InputsCurrent ==
    \A l \in Layers : AboutToRun(l) =>
        /\ Len(inBlobs[l]) = Len(net[l])
        /\ \A i \in DOMAIN net[l] : LET m == net[l][i][1]
                                       o == net[l][i][2]
                                   IN  Holds(outBlobs[m][o], Value(m, o))

\* The blobs that BackwardOnce and LearnOnce say they need are there when they are
\* called, and no layer computing in place has overwritten them since (setAllocatedBlobs,
\* InputsMayBeOverwritten; Dnn.h: "Blob types required for the correct work of
\* BackwardOnce"), unless the user has switched the learning of a single layer since all
\* layers were last forced: the layers around it are not reshaped then (EnableLearning).
NeededBlobsHeld ==
    ~relearned => \A l \in Layers : AboutToTrain(l) =>
        /\ "in" \in NeededNow(l) =>
              \A i \in DOMAIN net[l] : Holds(inBlobs[l][i], Value(net[l][i][1], net[l][i][2]))
        /\ "out" \in NeededNow(l) =>
              \A o \in Outputs(net, l) : Holds(outBlobs[l][o], Value(l, o))

\* A layer is trained once in a run, with the sum of the diffs of all the inputs its
\* outputs are connected to, each of them counted once and none from an earlier run
\* (backwardRunAndLearnOnce, transferDiffBlob).
GradientsComplete ==
    \A l \in Layers : AboutToTrain(l) =>
        /\ l \notin trained /\ l \notin inDiffs
        /\ \A o \in Outputs(net, l) : outDiffs[l][o] = {<<k[1], k[2], runNumber>> : k \in Consumers(net, <<l, o>>)}

\* What a sink layer gave to the user stays as it was computed, until the next run
\* (buildOrder forbids to compute in place of it).
ResultsIntact ==
    phase \in {"forward", "backward"} =>
        \A l \in ran : IsSink(net, l) => Holds(result[l], Value(net[l][1][1], net[l][1][2]))

\* The run goes with the shapes that Reshape() of every layer would choose now: the
\* sizes, and the blobs kept for the backward pass, unless the learning of a single layer
\* has been switched since all layers were last forced (reshape, RequestReshape).
ShapesCurrent ==
    phase \in {"forward", "backward"} =>
        \A l \in DOMAIN net : /\ inSizes[l] = SizesOfInputs(l)
                              /\ outSizes[l] = OutSize(l)
                              /\ relearned \/ needed[l] = NeededNow(l)

\* A run is a pass of Dataflow: history variables and the stack aside, the layers
\* compute once after their inputs, and are trained once after their consumers.
Pass ==
    IF phase \in {"forward", "backward"}
    THEN [mode |-> phase, network |-> net, todo |-> {l \in DOMAIN net : Trains(l)},
          computed |-> ran, trained |-> trained]
    ELSE [mode |-> IF phase \in {"failed", "broken"} THEN "failed" ELSE "idle"]
Abstract == INSTANCE Dataflow WITH pass <- Pass
ImplementsDataflow == Abstract!Spec

\* Every call of RunOnce or RunAndBackwardOnce ends: the recursion of each phase
\* returns to its caller, whatever it skips, or throws.
NetworkRunsEnd == ~AtRest ~> AtRest
=============================================================================
