------------------------- MODULE DistributedTraining -------------------------
(***************************************************************************)
(* CDistributedTraining (NeoML/src/Dnn/DnnDistributed.cpp) with the        *)
(* solvers of its networks (NeoML/src/Dnn/DnnSolver.cpp): copies of one    *)
(* network, one per thread, that are initialised by a Broadcast, run on    *)
(* batches of their own and averaged by AllReduce after each training      *)
(* step.                                                                   *)
(*                                                                         *)
(* An operation of the trainer runs a function on every thread of its pool *)
(* and returns when all have finished.  A collective call is the meeting   *)
(* of all the threads that Communicator implements; Abort breaks it.       *)
(* After an error the trainer is not used again.                           *)
(***************************************************************************)
EXTENDS Integers, FiniteSets, FiniteSetsExt

CONSTANTS Threads,
          Root,         \* thread 0
          LayerCount,   \* layers with parameters, in the order of the network
          Batches,      \* the sizes SetInputBatch may return
          Careful,      \* no empty batch for a solver that has seen no gradient
          MayFail,      \* may a dataset or a network throw?
          MaxOps        \* bound: operations of the trainer

ASSUME TrainingAssumption ==
    /\ IsFiniteSet(Threads) /\ Root \in Threads
    /\ LayerCount \in Nat \ {0}
    /\ Batches \subseteq Nat /\ 0 \in Batches /\ Batches # {0}
    /\ Careful \in BOOLEAN /\ MayFail \in BOOLEAN
    /\ MaxOps \in Nat

Layers == 1 .. LayerCount

VARIABLES
    op,             \* the operation of the trainer, "none" between two
    pc,             \* where thread t is in the function of the operation
    batchSize,
    totalBatch,     \* the local of Train
    isFirstRun,
    errorMessage,   \* is it set?
    isAbort,        \* the communicator's flag
    initialized,    \* the layers of network t that have parameters
    reduceOrder,    \* the layers in the reduceOrder of solver t
    hasDiff,        \* does solver t hold gradients?
    layer,          \* the layer of the Broadcast or AllReduce of t
    param,          \* param[t][l]: who computed it, at which step
    step,           \* history: the number of Train calls begun
    fed,            \* history: what SetInputBatch gave t since the last Train
    ops             \* history: operations begun

solverVars == <<reduceOrder, hasDiff>>
netVars == <<initialized, layer, param>>
trainerVars == <<op, totalBatch, step, ops>>
vars == <<trainerVars, pc, batchSize, isFirstRun, errorMessage, isAbort, solverVars,
          netVars, fed>>

Total(size) == MapThenSumSet(LAMBDA t : size[t], Threads)

All == "all"      \* a parameter that is the average of all the threads
NoParam == <<0, "none">>

Init ==
    /\ op = "none"
    /\ pc = [t \in Threads |-> "done"]
    /\ batchSize = [t \in Threads |-> 0]
    /\ totalBatch = 0
    /\ isFirstRun = TRUE
    /\ errorMessage = FALSE
    /\ isAbort = FALSE
    /\ \E trained \in BOOLEAN :     \* does the network come with parameters?
          /\ initialized = [t \in Threads |-> IF trained THEN LayerCount ELSE 0]
          /\ param = [t \in Threads |->
                        [l \in Layers |-> IF trained THEN <<0, All>> ELSE NoParam]]
    /\ reduceOrder = [t \in Threads |-> 0]
    /\ hasDiff = [t \in Threads |-> FALSE]
    /\ layer = [t \in Threads |-> 0]
    /\ step = 0
    /\ fed = [t \in Threads |-> 0]
    /\ ops = 0

-----------------------------------------------------------------------------
(* The caller.                                                             *)

Begin(o) ==
    /\ op = "none"
    /\ ~errorMessage
    /\ ops < MaxOps
    /\ op' = o
    /\ ops' = ops + 1
    /\ pc' = [t \in Threads |-> "start"]
    /\ layer' = [t \in Threads |-> 0]
    /\ UNCHANGED <<batchSize, isFirstRun, errorMessage, isAbort, solverVars, initialized,
                   param, fed>>

\* RunOnce and RunAndBackwardOnce
BeginRun ==
    /\ Begin("RunOnce") \/ Begin("RunAndBackwardOnce")
    /\ UNCHANGED <<totalBatch, step>>

BeginTrain ==
    /\ ~isFirstRun
    /\ Begin("Train")
    /\ totalBatch' = Total(batchSize)
    /\ step' = step + 1

\* SetSolver: new solvers, read from an archive.
SetSolver ==
    /\ op = "none"
    /\ ~errorMessage
    /\ reduceOrder' = [t \in Threads |-> 0]
    /\ hasDiff' = [t \in Threads |-> FALSE]
    /\ UNCHANGED <<trainerVars, pc, batchSize, isFirstRun, errorMessage, isAbort,
                   netVars, fed>>

\* ExecuteTasks returns; CheckArchitecture throws if there is an error message.
Return ==
    /\ op # "none"
    /\ \A t \in Threads : pc[t] = "done"
    /\ op' = "none"
    /\ fed' = IF op = "Train" THEN [t \in Threads |-> 0] ELSE fed
    /\ UNCHANGED <<pc, batchSize, totalBatch, isFirstRun, errorMessage, isAbort,
                   solverVars, netVars, step, ops>>

Goto(t, where) == pc' = [pc EXCEPT ![t] = where]

-----------------------------------------------------------------------------
(* The function of RunOnce and of RunAndBackwardOnce.                      *)

Running(t, where) == op \in {"RunOnce", "RunAndBackwardOnce"} /\ pc[t] = where

\* The dataset gives thread t a batch of size b.  With Careful a dataset has data for
\* every thread until the solvers have seen gradients of all the networks.
Gives(t, b) ==
    Careful => b > 0 \/ (~isFirstRun /\ (op = "RunAndBackwardOnce" => reduceOrder[t] > 0))

SetInputBatch(t) ==
    /\ Running(t, "start")
    /\ \E b \in Batches :
          /\ Gives(t, b)
          /\ batchSize' = [batchSize EXCEPT ![t] = @ + b]
          /\ fed' = [fed EXCEPT ![t] = @ + b]
          /\ Goto(t, IF b > 0 THEN "forward"
                     ELSE IF isFirstRun THEN "catch"     \* NeoAssert throws
                     ELSE "end")
    /\ UNCHANGED <<trainerVars, isFirstRun, errorMessage, isAbort, solverVars, netVars>>

\* CDnnDistributedInitializer: the first thread initialises the parameters of the next
\* layer; all call Broadcast.
InitializeLayerParams(t) ==
    /\ Running(t, "forward")
    /\ initialized[t] < LayerCount
    /\ layer' = [layer EXCEPT ![t] = initialized[t] + 1]
    /\ param' = IF t = Root THEN [param EXCEPT ![t][layer'[t]] = <<0, Root>>] ELSE param
    /\ Goto(t, "waiting")
    /\ UNCHANGED <<trainerVars, batchSize, isFirstRun, errorMessage, isAbort, solverVars,
                   initialized, fed>>

\* Mutant of AddDiff: the layers the solver knows are added again.
AddDiffAgain(t) == reduceOrder' = [reduceOrder EXCEPT ![t] = @ + LayerCount]

\* A layer that the solver does not know yet is added to reduceOrder.
AddDiff(t) == reduceOrder' = [reduceOrder EXCEPT ![t] = LayerCount]

\* The forward pass, and the backward pass if it was asked for.
RunNetwork(t) ==
    /\ Running(t, "forward")
    /\ initialized[t] = LayerCount
    /\ IF op = "RunAndBackwardOnce"
       THEN AddDiff(t) /\ hasDiff' = [hasDiff EXCEPT ![t] = TRUE]
       ELSE UNCHANGED solverVars
    /\ Goto(t, "end")
    /\ UNCHANGED <<trainerVars, batchSize, isFirstRun, errorMessage, isAbort, netVars, fed>>

FinishRun(t) ==
    /\ Running(t, "end")
    /\ isFirstRun' = FALSE
    /\ Goto(t, "done")
    /\ UNCHANGED <<trainerVars, batchSize, errorMessage, isAbort, solverVars, netVars, fed>>

-----------------------------------------------------------------------------
(* The function of Train: CDnnSolver::Train and allReduce.                 *)

Training(t, where) == op = "Train" /\ pc[t] = where

\* TrainLayer for every layer with gradients.
TrainLayers(t) ==
    /\ Training(t, "start")
    /\ param' = IF hasDiff[t] THEN [param EXCEPT ![t] = [l \in Layers |-> <<step, t>>]]
                ELSE param
    /\ hasDiff' = [hasDiff EXCEPT ![t] = FALSE]
    /\ Goto(t, "reduce")
    /\ UNCHANGED <<trainerVars, batchSize, isFirstRun, errorMessage, isAbort, reduceOrder,
                   initialized, layer, fed>>

\* fabsf( distributedCoeff - 1 ) >= FLT_EPSILON: false for the NaN of an empty total.
IsCoeffNontrivial(t) == totalBatch > 0 /\ batchSize[t] * Cardinality(Threads) # totalBatch

\* Mutant of LayersToReduce: the last layer is left out.
AllButOneLayer(t) == IF reduceOrder[t] = 0 THEN 0 ELSE reduceOrder[t] - 1

\* Mutant of LayersToReduce: a thread that had no data in this step has nothing to average.
LayersIfData(t) == IF batchSize[t] = 0 THEN 0 ELSE reduceOrder[t]

LayersToReduce(t) == reduceOrder[t]

\* The next layer of reduceOrder is weighted and AllReduce is called.
AllReduce(t) ==
    /\ Training(t, "reduce")
    /\ layer[t] < LayersToReduce(t)
    /\ layer' = [layer EXCEPT ![t] = @ + 1]
    /\ param' = IF IsCoeffNontrivial(t) /\ layer'[t] \in Layers
                THEN [param EXCEPT ![t][layer'[t]] = <<step, t>>] ELSE param
    /\ Goto(t, "waiting")
    /\ UNCHANGED <<trainerVars, batchSize, isFirstRun, errorMessage, isAbort, solverVars,
                   initialized, fed>>

\* Mutant of ResetBatch: the sizes of all the threads are reset.
ResetAllBatches(t) == batchSize' = [u \in Threads |-> 0]

ResetBatch(t) == batchSize' = [batchSize EXCEPT ![t] = 0]

FinishTrain(t) ==
    /\ Training(t, "reduce")
    /\ layer[t] = LayersToReduce(t)
    /\ ResetBatch(t)
    /\ Goto(t, "done")
    /\ UNCHANGED <<trainerVars, isFirstRun, errorMessage, isAbort, solverVars, netVars, fed>>

-----------------------------------------------------------------------------
(* Collective calls and errors.                                            *)

\* All the threads are in their call: Broadcast copies the parameter of the root,
\* AllReduce averages.
Meet ==
    /\ op # "none"
    /\ \A t \in Threads : pc[t] = "waiting"
    /\ param' = [t \in Threads |-> [l \in Layers |->
                    IF l # layer[t] THEN param[t][l]
                    ELSE IF op = "Train" THEN <<step, All>> ELSE param[Root][l]]]
    /\ initialized' = IF op = "Train" THEN initialized ELSE layer
    /\ pc' = [t \in Threads |-> IF op = "Train" THEN "reduce" ELSE "forward"]
    /\ UNCHANGED <<trainerVars, batchSize, isFirstRun, errorMessage, isAbort, solverVars,
                   layer, fed>>

\* A thread that waits in a barrier is thrown out.
ThrownOut(t) ==
    /\ pc[t] = "waiting"
    /\ isAbort
    /\ Goto(t, "catch")
    /\ UNCHANGED <<trainerVars, batchSize, isFirstRun, errorMessage, isAbort, solverVars,
                   netVars, fed>>

\* The dataset, the network or the solver throws.
Fail(t) ==
    /\ MayFail
    /\ op # "none"
    /\ pc[t] \in {"start", "forward", "reduce"}
    /\ Goto(t, "catch")
    /\ UNCHANGED <<trainerVars, batchSize, isFirstRun, errorMessage, isAbort, solverVars,
                   netVars, fed>>

\* The first part of the catch block: if( errorMessage.IsEmpty() ) errorMessage = ...
SetErrorMessage(t) ==
    /\ pc[t] = "catch"
    /\ errorMessage' = TRUE
    /\ Goto(t, "aborting")
    /\ UNCHANGED <<trainerVars, batchSize, isFirstRun, isAbort, solverVars, netVars, fed>>

\* The second: AbortDistributed.
AbortDistributed(t) ==
    /\ pc[t] = "aborting"
    /\ isAbort' = TRUE
    /\ Goto(t, "done")
    /\ UNCHANGED <<trainerVars, batchSize, isFirstRun, errorMessage, solverVars, netVars,
                   fed>>

ThreadStep(t) ==
    \/ SetInputBatch(t) \/ InitializeLayerParams(t) \/ RunNetwork(t) \/ FinishRun(t)
    \/ TrainLayers(t) \/ AllReduce(t) \/ FinishTrain(t)
    \/ ThrownOut(t) \/ SetErrorMessage(t) \/ AbortDistributed(t)

Next ==
    \/ BeginRun \/ BeginTrain \/ SetSolver \/ Return \/ Meet
    \/ \E t \in Threads : ThreadStep(t) \/ Fail(t)

Spec == Init /\ [][Next]_vars

\* The threads of the pool are scheduled, calls that all have made return, and so does
\* the operation.
FairSpec ==
    Spec /\ WF_vars(Meet) /\ WF_vars(Return) /\ \A t \in Threads : WF_vars(ThreadStep(t))

-----------------------------------------------------------------------------
(* Properties.                                                             *)

PCs == {"start", "forward", "waiting", "end", "reduce", "catch", "aborting", "done"}
Origins == Threads \cup {All, "none"}

\* The type invariant of the trainer.
TypeOK ==
    /\ op \in {"none", "RunOnce", "RunAndBackwardOnce", "Train"}
    /\ pc \in [Threads -> PCs]
    /\ batchSize \in [Threads -> Nat] /\ fed \in [Threads -> Nat]
    /\ totalBatch \in Nat /\ step \in Nat /\ ops \in 0 .. MaxOps
    /\ isFirstRun \in BOOLEAN /\ errorMessage \in BOOLEAN /\ isAbort \in BOOLEAN
    /\ initialized \in [Threads -> 0 .. LayerCount]
    /\ reduceOrder \in [Threads -> {0, LayerCount}]
    /\ hasDiff \in [Threads -> BOOLEAN]
    /\ layer \in [Threads -> 0 .. LayerCount]
    /\ param \in [Threads -> [Layers -> Nat \X Origins]]

\* Between two operations all the networks have the same parameters, so that the first
\* one stands for all when it is saved, unless there was an error.
ParamsAgree ==
    op = "none" /\ ~errorMessage => \A t, u \in Threads : param[t] = param[u]

\* The weights of a training step are the shares of the threads in the data since the
\* last step: no thread sees a size that another one has already reset.
WeightsSumToOne ==
    op = "Train" => /\ totalBatch = Total(fed)
                    /\ \A t \in Threads : pc[t] # "done" => batchSize[t] = fed[t]

\* No thread waits for one that will not come: unless an error is about to throw it out of its
\* barrier, every thread is in the same collective call or is still on its way to it.
CollectiveCallsMatch ==
    (\A t \in Threads : pc[t] \notin {"catch", "aborting"}) /\ ~isAbort =>
        \A t, u \in Threads : pc[t] = "waiting" =>
            /\ pc[u] = "waiting" => layer[u] = layer[t]
            /\ pc[u] \in {"forward", "reduce"} => layer[u] < layer[t]
            /\ pc[u] \notin {"end", "done"}

\* An error of a thread reaches the caller: nothing is left waiting in a collective call
\* and every operation returns.
OperationsReturn == op # "none" ~> op = "none"
=============================================================================
