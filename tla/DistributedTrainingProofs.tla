---------------------- MODULE DistributedTrainingProofs ----------------------
(***************************************************************************)
(* Proofs about DistributedTraining for every number of threads, layers,   *)
(* batch sizes and operations: the networks have the same parameters       *)
(* between two operations (ParamsAgree), if no solver that has seen no     *)
(* gradient is given an empty batch, and the weights of a training step    *)
(* are the shares of the threads in the data (WeightsSumToOne).            *)
(* Nobody waits for a thread that will not come (CollectiveCallsMatch).    *)
(*                                                                         *)
(* As long as no thread has failed the threads are in lock step: they have *)
(* completed the same number of collective calls.                          *)
(***************************************************************************)
EXTENDS DistributedTraining, TLAPS

Runs == {"RunOnce", "RunAndBackwardOnce"}

\* TypeOK but for totalBatch, a sum over the threads.
TypeI ==
    /\ op \in {"none", "RunOnce", "RunAndBackwardOnce", "Train"}
    /\ pc \in [Threads -> PCs]
    /\ batchSize \in [Threads -> Nat] /\ fed \in [Threads -> Nat]
    /\ step \in Nat
    /\ isFirstRun \in BOOLEAN /\ errorMessage \in BOOLEAN /\ isAbort \in BOOLEAN
    /\ initialized \in [Threads -> 0 .. LayerCount]
    /\ reduceOrder \in [Threads -> {0, LayerCount}]
    /\ hasDiff \in [Threads -> BOOLEAN]
    /\ layer \in [Threads -> 0 .. LayerCount]
    /\ param \in [Threads -> [Layers -> Nat \X Origins]]

\* Where a thread can be in each operation, and what its place says of errors.
PlacesI ==
    /\ isAbort => errorMessage
    /\ \A t \in Threads :
          /\ pc[t] = "aborting" => errorMessage
          /\ op = "none" => pc[t] = "done"
          /\ pc[t] \in {"forward", "end"} => op \in Runs
          /\ pc[t] = "reduce" => op = "Train"
          /\ pc[t] = "start" => op # "none"

\* All the networks are initialised to the same layer.
InitializedI ==
    /\ \A t, u \in Threads : initialized[t] = initialized[u]
    /\ \A t \in Threads :
          /\ pc[t] = "waiting" /\ op \in Runs => layer[t] = initialized[t] + 1

\* A thread leaves a run when its network is initialised or an error is about to free the others.
LeavesI ==
    /\ errorMessage => isAbort \/ \E t \in Threads : pc[t] = "aborting"
    /\ ~isFirstRun => \A t \in Threads : initialized[t] = LayerCount
    /\ \A t \in Threads :
          /\ pc[t] = "start" => layer[t] = 0
          /\ pc[t] = "forward" => layer[t] <= initialized[t]
          /\ pc[t] = "end" => initialized[t] = LayerCount
          /\ pc[t] = "done" /\ op \in Runs => ~isFirstRun \/ isAbort

\* The sizes and what the datasets have given.
SizesI ==
    /\ op \in Runs => batchSize = fed
    /\ op = "none" /\ ~errorMessage => batchSize = fed
    /\ op = "Train" => totalBatch = Total(fed)
    /\ op = "Train" => \A t \in Threads : pc[t] # "done" => batchSize[t] = fed[t]
    /\ op = "Train" => \A t \in Threads : pc[t] = "done" => batchSize[t] = 0 \/ errorMessage

\* No thread has failed in this operation.
Well == ~errorMessage /\ \A t \in Threads : pc[t] # "catch"

\* The solvers know the same layers before a training step.
SolversI ==
    /\ \A t \in Threads : hasDiff[t] => reduceOrder[t] = LayerCount
    /\ Well /\ op # "RunAndBackwardOnce" =>
          \A t, u \in Threads : reduceOrder[t] = reduceOrder[u]
    /\ Well /\ op = "RunAndBackwardOnce" =>
          \A t \in Threads : pc[t] \in {"end", "done"} => reduceOrder[t] = LayerCount

\* The collective calls that thread t has completed in Train.
Completed(t) == IF pc[t] = "waiting" THEN layer[t] - 1 ELSE layer[t]

TrainPlacesI ==
    op = "Train" => \A t \in Threads :
       /\ pc[t] = "start" => layer[t] = 0
       /\ pc[t] = "waiting" => layer[t] > 0
       /\ layer[t] <= reduceOrder[t]
       /\ pc[t] = "done" /\ ~errorMessage => layer[t] = reduceOrder[t]

LockStepI ==
    Well /\ op = "Train" => \A t, u \in Threads : Completed(t) = Completed(u)

\* The layers that have been averaged, or that nobody trains, agree.
TrainedI ==
    Well /\ op = "Train" => \A t, u \in Threads : \A l \in Layers :
       /\ l <= Completed(t) => param[t][l] = <<step, All>>
       /\ reduceOrder[t] = 0 => param[t][l] = param[u][l]

\* Outside Train only a layer that the root is about to broadcast differs.
AgreeI ==
    Well /\ op # "Train" => \A t, u \in Threads : \A l \in Layers :
       param[t][l] = param[u][l] \/ (pc[Root] = "waiting" /\ l = layer[Root])

Inv ==
    /\ TypeI /\ PlacesI /\ InitializedI /\ SizesI
    /\ SolversI /\ TrainPlacesI /\ LockStepI /\ TrainedI /\ AgreeI

\* The types are preserved by every step.
LEMMA TypeStep ==
    TypeI /\ [Next]_vars => TypeI'
<1> SUFFICES ASSUME TypeI, [Next]_vars PROVE TypeI'
  OBVIOUS
<1> USE TrainingAssumption
<1>1. CASE UNCHANGED vars
  BY <1>1 DEF TypeI, PCs, Origins, Layers, vars, trainerVars, netVars, solverVars
<1>2. CASE BeginRun
  <2> SUFFICES ASSUME NEW o \in Runs, Begin(o), UNCHANGED <<totalBatch, step>>
               PROVE  TypeI'
    BY <1>2 DEF BeginRun, Runs
  <2>1. op' = o /\ pc' \in [Threads -> PCs] /\ layer' \in [Threads -> 0 .. LayerCount]
    BY DEF Begin, PCs
  <2> QED
    BY <2>1 DEF TypeI, Begin, Runs, solverVars
<1>3. CASE BeginTrain
  BY <1>3 DEF TypeI, PCs, Origins, Layers, BeginTrain, Begin, solverVars
<1>4. CASE SetSolver
  BY <1>4 DEF TypeI, PCs, Origins, Layers, SetSolver, trainerVars, netVars
<1>5. CASE Return
  BY <1>5 DEF TypeI, PCs, Origins, Layers, Return, netVars, solverVars
<1>6. CASE Meet
  <2>1. pc' \in [Threads -> PCs] /\ initialized' \in [Threads -> 0 .. LayerCount]
    BY <1>6 DEF TypeI, Meet, PCs
  <2>2. param' \in [Threads -> [Layers -> Nat \X Origins]]
    <3>1. ASSUME NEW t \in Threads, NEW l \in Layers
          PROVE  (IF l # layer[t] THEN param[t][l]
                  ELSE IF op = "Train" THEN <<step, All>> ELSE param[Root][l])
                 \in Nat \X Origins
      BY DEF TypeI, Origins
    <3> QED
      BY <1>6, <3>1 DEF Meet
  <2> QED
    BY <1>6, <2>1, <2>2 DEF TypeI, Meet, vars, trainerVars, netVars, solverVars
<1>7. ASSUME NEW t \in Threads, SetInputBatch(t) PROVE TypeI'
  <2> PICK b \in Batches : /\ batchSize' = [batchSize EXCEPT ![t] = @ + b]
                          /\ fed' = [fed EXCEPT ![t] = @ + b]
                          /\ Goto(t, IF b > 0 THEN "forward"
                                     ELSE IF isFirstRun THEN "catch" ELSE "end")
    BY <1>7 DEF SetInputBatch
  <2>1. b \in Nat /\ batchSize[t] + b \in Nat /\ fed[t] + b \in Nat
    BY DEF TypeI
  <2>2. batchSize' \in [Threads -> Nat] /\ fed' \in [Threads -> Nat]
    BY <2>1 DEF TypeI
  <2>3. pc' \in [Threads -> PCs]
    BY DEF TypeI, Goto, PCs
  <2> QED
    BY <1>7, <2>2, <2>3 DEF TypeI, SetInputBatch, vars, trainerVars, netVars, solverVars
<1>8. ASSUME NEW t \in Threads, InitializeLayerParams(t) PROVE TypeI'
  <2>1. initialized[t] + 1 \in 0 .. LayerCount
    BY <1>8 DEF TypeI, InitializeLayerParams
  <2>2. layer' \in [Threads -> 0 .. LayerCount]
    BY <1>8, <2>1 DEF TypeI, InitializeLayerParams
  <2>3. param' \in [Threads -> [Layers -> Nat \X Origins]]
    BY <1>8 DEF TypeI, InitializeLayerParams, Origins
  <2>4. pc' \in [Threads -> PCs]
    BY <1>8 DEF TypeI, InitializeLayerParams, Goto, PCs
  <2> QED
    BY <1>8, <2>2, <2>3, <2>4 DEF TypeI, InitializeLayerParams, vars, trainerVars,
     netVars, solverVars
<1>9. ASSUME NEW t \in Threads, RunNetwork(t) PROVE TypeI'
  BY <1>9 DEF TypeI, PCs, Origins, Layers, RunNetwork, Running, Goto, AddDiff,
     trainerVars, netVars, solverVars
<1>10. ASSUME NEW t \in Threads, FinishRun(t) PROVE TypeI'
  BY <1>10 DEF TypeI, PCs, Origins, Layers, FinishRun, Running, Goto, trainerVars,
     netVars, solverVars
<1>11. ASSUME NEW t \in Threads, TrainLayers(t) PROVE TypeI'
  BY <1>11 DEF TypeI, PCs, Origins, Layers, TrainLayers, Training, Goto, trainerVars
<1>12. ASSUME NEW t \in Threads, AllReduce(t) PROVE TypeI'
  <2>1. layer[t] + 1 \in 0 .. LayerCount
    BY <1>12, SMTT(30) DEF TypeI, AllReduce, LayersToReduce
  <2>2. layer' \in [Threads -> 0 .. LayerCount]
    BY <1>12, <2>1 DEF TypeI, AllReduce
  <2>3. param' \in [Threads -> [Layers -> Nat \X Origins]]
    BY <1>12 DEF TypeI, AllReduce, Origins
  <2>4. pc' \in [Threads -> PCs]
    BY <1>12 DEF TypeI, AllReduce, Goto, PCs
  <2> QED
    BY <1>12, <2>2, <2>3, <2>4 DEF TypeI, AllReduce, vars, trainerVars, netVars,
     solverVars
<1>13. ASSUME NEW t \in Threads, FinishTrain(t) PROVE TypeI'
  BY <1>13 DEF TypeI, PCs, Origins, Layers, FinishTrain, Training, Goto, ResetBatch,
     LayersToReduce, trainerVars, netVars, solverVars
<1>14. ASSUME NEW t \in Threads, ThrownOut(t) PROVE TypeI'
  BY <1>14 DEF TypeI, PCs, Origins, Layers, ThrownOut, Goto, trainerVars, netVars,
     solverVars
<1>15. ASSUME NEW t \in Threads, SetErrorMessage(t) PROVE TypeI'
  BY <1>15 DEF TypeI, PCs, Origins, Layers, SetErrorMessage, Goto, trainerVars,
     netVars, solverVars
<1>16. ASSUME NEW t \in Threads, AbortDistributed(t) PROVE TypeI'
  BY <1>16 DEF TypeI, PCs, Origins, Layers, AbortDistributed, Goto, trainerVars,
     netVars, solverVars
<1>17. ASSUME NEW t \in Threads, Fail(t) PROVE TypeI'
  BY <1>17 DEF TypeI, PCs, Origins, Layers, Fail, Goto, trainerVars, netVars, solverVars
<1>18. QED
  BY <1>1, <1>2, <1>3, <1>4, <1>5, <1>6, <1>7, <1>8, <1>9, <1>10, <1>11, <1>12, <1>13,
     <1>14, <1>15, <1>16, <1>17 DEF Next, ThreadStep

\* So are the places.
LEMMA PlacesStep ==
    TypeI /\ PlacesI /\ [Next]_vars => PlacesI'
<1> SUFFICES ASSUME TypeI /\ PlacesI, [Next]_vars
             PROVE  PlacesI'
  OBVIOUS
<1> USE TrainingAssumption
<1>1. CASE UNCHANGED vars
  BY <1>1 DEF TypeI, PlacesI, Runs, PCs, vars, trainerVars, netVars, solverVars
<1>2. CASE BeginRun
  BY <1>2 DEF TypeI, PlacesI, Runs, PCs, BeginRun, Begin, solverVars
<1>3. CASE BeginTrain
  BY <1>3 DEF TypeI, PlacesI, Runs, PCs, BeginTrain, Begin, solverVars
<1>4. CASE SetSolver
  BY <1>4 DEF TypeI, PlacesI, Runs, PCs, SetSolver, trainerVars, netVars
<1>5. CASE Return
  BY <1>5 DEF TypeI, PlacesI, Runs, PCs, Return, netVars, solverVars
<1>6. CASE Meet
  BY <1>6 DEF TypeI, PlacesI, Runs, PCs, Meet, trainerVars, solverVars
<1>7. ASSUME NEW t \in Threads, SetInputBatch(t) PROVE PlacesI'
  BY <1>7 DEF TypeI, PlacesI, Runs, PCs, SetInputBatch, Running, Goto, trainerVars,
     netVars, solverVars
<1>8. ASSUME NEW t \in Threads, InitializeLayerParams(t) PROVE PlacesI'
  BY <1>8 DEF TypeI, PlacesI, Runs, PCs, InitializeLayerParams, Running, Goto,
     trainerVars, solverVars
<1>9. ASSUME NEW t \in Threads, RunNetwork(t) PROVE PlacesI'
  BY <1>9 DEF TypeI, PlacesI, Runs, PCs, RunNetwork, Running, Goto, AddDiff,
     trainerVars, netVars, solverVars
<1>10. ASSUME NEW t \in Threads, FinishRun(t) PROVE PlacesI'
  BY <1>10 DEF TypeI, PlacesI, Runs, PCs, FinishRun, Running, Goto, trainerVars,
     netVars, solverVars
<1>11. ASSUME NEW t \in Threads, TrainLayers(t) PROVE PlacesI'
  BY <1>11 DEF TypeI, PlacesI, Runs, PCs, TrainLayers, Training, Goto, trainerVars
<1>12. ASSUME NEW t \in Threads, AllReduce(t) PROVE PlacesI'
  BY <1>12 DEF TypeI, PlacesI, Runs, PCs, AllReduce, Training, Goto, LayersToReduce,
     trainerVars, solverVars
<1>13. ASSUME NEW t \in Threads, FinishTrain(t) PROVE PlacesI'
  BY <1>13 DEF TypeI, PlacesI, Runs, PCs, FinishTrain, Training, Goto, ResetBatch,
     LayersToReduce, trainerVars, netVars, solverVars
<1>14. ASSUME NEW t \in Threads, ThrownOut(t) PROVE PlacesI'
  BY <1>14 DEF TypeI, PlacesI, Runs, PCs, ThrownOut, Goto, trainerVars, netVars,
     solverVars
<1>15. ASSUME NEW t \in Threads, SetErrorMessage(t) PROVE PlacesI'
  BY <1>15 DEF TypeI, PlacesI, Runs, PCs, SetErrorMessage, Goto, trainerVars, netVars,
     solverVars
<1>16. ASSUME NEW t \in Threads, AbortDistributed(t) PROVE PlacesI'
  BY <1>16 DEF TypeI, PlacesI, Runs, PCs, AbortDistributed, Goto, trainerVars, netVars,
     solverVars
<1>17. ASSUME NEW t \in Threads, Fail(t) PROVE PlacesI'
  BY <1>17 DEF TypeI, PlacesI, Runs, PCs, Fail, Goto, trainerVars, netVars, solverVars
<1>18. QED
  BY <1>1, <1>2, <1>3, <1>4, <1>5, <1>6, <1>7, <1>8, <1>9, <1>10, <1>11, <1>12, <1>13,
     <1>14, <1>15, <1>16, <1>17 DEF Next, ThreadStep

\* Initialisation goes on in lock step.
LEMMA InitializedStep ==
    TypeI /\ PlacesI /\ InitializedI /\ [Next]_vars => InitializedI'
<1> SUFFICES ASSUME TypeI /\ PlacesI /\ InitializedI, [Next]_vars
             PROVE  InitializedI'
  OBVIOUS
<1> USE TrainingAssumption
<1>1. CASE UNCHANGED vars
  BY <1>1 DEF TypeI, PlacesI, InitializedI, Runs, PCs, vars, trainerVars, netVars,
     solverVars
<1>2. CASE BeginRun
  BY <1>2 DEF TypeI, PlacesI, InitializedI, Runs, PCs, BeginRun, Begin, solverVars
<1>3. CASE BeginTrain
  BY <1>3 DEF TypeI, PlacesI, InitializedI, Runs, PCs, BeginTrain, Begin, solverVars
<1>4. CASE SetSolver
  BY <1>4 DEF TypeI, PlacesI, InitializedI, Runs, PCs, SetSolver, trainerVars, netVars
<1>5. CASE Return
  BY <1>5 DEF TypeI, PlacesI, InitializedI, Runs, PCs, Return, netVars, solverVars
<1>6. CASE Meet
  BY <1>6 DEF TypeI, PlacesI, InitializedI, Runs, PCs, Meet, trainerVars, solverVars
<1>7. ASSUME NEW t \in Threads, SetInputBatch(t) PROVE InitializedI'
  BY <1>7 DEF TypeI, PlacesI, InitializedI, Runs, PCs, SetInputBatch, Running, Goto,
     trainerVars, netVars, solverVars
<1>8. ASSUME NEW t \in Threads, InitializeLayerParams(t) PROVE InitializedI'
  BY <1>8 DEF TypeI, PlacesI, InitializedI, Runs, PCs, InitializeLayerParams, Running,
     Goto, trainerVars, solverVars
<1>9. ASSUME NEW t \in Threads, RunNetwork(t) PROVE InitializedI'
  BY <1>9 DEF TypeI, PlacesI, InitializedI, Runs, PCs, RunNetwork, Running, Goto,
     AddDiff, trainerVars, netVars, solverVars
<1>10. ASSUME NEW t \in Threads, FinishRun(t) PROVE InitializedI'
  BY <1>10 DEF TypeI, PlacesI, InitializedI, Runs, PCs, FinishRun, Running, Goto,
     trainerVars, netVars, solverVars
<1>11. ASSUME NEW t \in Threads, TrainLayers(t) PROVE InitializedI'
  BY <1>11 DEF TypeI, PlacesI, InitializedI, Runs, PCs, TrainLayers, Training, Goto,
     trainerVars
<1>12. ASSUME NEW t \in Threads, AllReduce(t) PROVE InitializedI'
  BY <1>12 DEF TypeI, PlacesI, InitializedI, Runs, PCs, AllReduce, Training, Goto,
     LayersToReduce, trainerVars, solverVars
<1>13. ASSUME NEW t \in Threads, FinishTrain(t) PROVE InitializedI'
  BY <1>13 DEF TypeI, PlacesI, InitializedI, Runs, PCs, FinishTrain, Training, Goto,
     ResetBatch, LayersToReduce, trainerVars, netVars, solverVars
<1>14. ASSUME NEW t \in Threads, ThrownOut(t) PROVE InitializedI'
  BY <1>14 DEF TypeI, PlacesI, InitializedI, Runs, PCs, ThrownOut, Goto, trainerVars,
     netVars, solverVars
<1>15. ASSUME NEW t \in Threads, SetErrorMessage(t) PROVE InitializedI'
  BY <1>15 DEF TypeI, PlacesI, InitializedI, Runs, PCs, SetErrorMessage, Goto,
     trainerVars, netVars, solverVars
<1>16. ASSUME NEW t \in Threads, AbortDistributed(t) PROVE InitializedI'
  BY <1>16 DEF TypeI, PlacesI, InitializedI, Runs, PCs, AbortDistributed, Goto,
     trainerVars, netVars, solverVars
<1>17. ASSUME NEW t \in Threads, Fail(t) PROVE InitializedI'
  BY <1>17 DEF TypeI, PlacesI, InitializedI, Runs, PCs, Fail, Goto, trainerVars,
     netVars, solverVars
<1>18. QED
  BY <1>1, <1>2, <1>3, <1>4, <1>5, <1>6, <1>7, <1>8, <1>9, <1>10, <1>11, <1>12, <1>13,
     <1>14, <1>15, <1>16, <1>17 DEF Next, ThreadStep

\* Nobody leaves a run before the others can.
LEMMA LeavesStep ==
    TypeI /\ PlacesI /\ InitializedI /\ LeavesI /\ [Next]_vars => LeavesI'
<1> SUFFICES ASSUME TypeI /\ PlacesI /\ InitializedI /\ LeavesI, [Next]_vars
             PROVE  LeavesI'
  OBVIOUS
<1> USE TrainingAssumption
<1>1. CASE UNCHANGED vars
  BY <1>1 DEF TypeI, PlacesI, InitializedI, LeavesI, Runs, PCs, vars, trainerVars, netVars,
     solverVars
<1>2. CASE BeginRun
  BY <1>2 DEF TypeI, PlacesI, InitializedI, LeavesI, Runs, PCs, BeginRun, Begin, solverVars
<1>3. CASE BeginTrain
  BY <1>3 DEF TypeI, PlacesI, InitializedI, LeavesI, Runs, PCs, BeginTrain, Begin, solverVars
<1>4. CASE SetSolver
  BY <1>4 DEF TypeI, PlacesI, InitializedI, LeavesI, Runs, PCs, SetSolver, trainerVars, netVars
<1>5. CASE Return
  BY <1>5 DEF TypeI, PlacesI, InitializedI, LeavesI, Runs, PCs, Return, netVars, solverVars
<1>6. CASE Meet
  BY <1>6 DEF TypeI, PlacesI, InitializedI, LeavesI, Runs, PCs, Meet, trainerVars, solverVars
<1>7. ASSUME NEW t \in Threads, SetInputBatch(t) PROVE LeavesI'
  BY <1>7 DEF TypeI, PlacesI, InitializedI, LeavesI, Runs, PCs, SetInputBatch, Running, Goto,
     trainerVars, netVars, solverVars
<1>8. ASSUME NEW t \in Threads, InitializeLayerParams(t) PROVE LeavesI'
  BY <1>8 DEF TypeI, PlacesI, InitializedI, LeavesI, Runs, PCs, InitializeLayerParams, Running,
     Goto, trainerVars, solverVars
<1>9. ASSUME NEW t \in Threads, RunNetwork(t) PROVE LeavesI'
  BY <1>9 DEF TypeI, PlacesI, InitializedI, LeavesI, Runs, PCs, RunNetwork, Running, Goto,
     AddDiff, trainerVars, netVars, solverVars
<1>10. ASSUME NEW t \in Threads, FinishRun(t) PROVE LeavesI'
  BY <1>10 DEF TypeI, PlacesI, InitializedI, LeavesI, Runs, PCs, FinishRun, Running, Goto,
     trainerVars, netVars, solverVars
<1>11. ASSUME NEW t \in Threads, TrainLayers(t) PROVE LeavesI'
  BY <1>11 DEF TypeI, PlacesI, InitializedI, LeavesI, Runs, PCs, TrainLayers, Training, Goto,
     trainerVars
<1>12. ASSUME NEW t \in Threads, AllReduce(t) PROVE LeavesI'
  BY <1>12 DEF TypeI, PlacesI, InitializedI, LeavesI, Runs, PCs, AllReduce, Training, Goto,
     LayersToReduce, trainerVars, solverVars
<1>13. ASSUME NEW t \in Threads, FinishTrain(t) PROVE LeavesI'
  BY <1>13 DEF TypeI, PlacesI, InitializedI, LeavesI, Runs, PCs, FinishTrain, Training, Goto,
     ResetBatch, LayersToReduce, trainerVars, netVars, solverVars
<1>14. ASSUME NEW t \in Threads, ThrownOut(t) PROVE LeavesI'
  BY <1>14 DEF TypeI, PlacesI, InitializedI, LeavesI, Runs, PCs, ThrownOut, Goto, trainerVars,
     netVars, solverVars
<1>15. ASSUME NEW t \in Threads, SetErrorMessage(t) PROVE LeavesI'
  BY <1>15 DEF TypeI, PlacesI, InitializedI, LeavesI, Runs, PCs, SetErrorMessage, Goto,
     trainerVars, netVars, solverVars
<1>16. ASSUME NEW t \in Threads, AbortDistributed(t) PROVE LeavesI'
  BY <1>16 DEF TypeI, PlacesI, InitializedI, LeavesI, Runs, PCs, AbortDistributed, Goto,
     trainerVars, netVars, solverVars
<1>17. ASSUME NEW t \in Threads, Fail(t) PROVE LeavesI'
  BY <1>17 DEF TypeI, PlacesI, InitializedI, LeavesI, Runs, PCs, Fail, Goto, trainerVars,
     netVars, solverVars
<1>18. QED
  BY <1>1, <1>2, <1>3, <1>4, <1>5, <1>6, <1>7, <1>8, <1>9, <1>10, <1>11, <1>12, <1>13,
     <1>14, <1>15, <1>16, <1>17 DEF Next, ThreadStep

\* The sizes and what the datasets have given stay together.
LEMMA SizesStep ==
    TypeI /\ PlacesI /\ SizesI /\ [Next]_vars => SizesI'
<1> SUFFICES ASSUME TypeI /\ PlacesI /\ SizesI, [Next]_vars
             PROVE  SizesI'
  OBVIOUS
<1> USE TrainingAssumption
<1>1. CASE UNCHANGED vars
  BY <1>1 DEF TypeI, PlacesI, SizesI, Runs, PCs, vars, trainerVars, netVars, solverVars
<1>2. CASE BeginRun
  BY <1>2 DEF TypeI, PlacesI, SizesI, Runs, PCs, BeginRun, Begin, solverVars
<1>3. CASE BeginTrain
  BY <1>3 DEF TypeI, PlacesI, SizesI, Runs, PCs, BeginTrain, Begin, solverVars
<1>4. CASE SetSolver
  BY <1>4 DEF TypeI, PlacesI, SizesI, Runs, PCs, SetSolver, trainerVars, netVars
<1>5. CASE Return
  BY <1>5 DEF TypeI, PlacesI, SizesI, Runs, PCs, Return, netVars, solverVars
<1>6. CASE Meet
  BY <1>6 DEF TypeI, PlacesI, SizesI, Runs, PCs, Meet, trainerVars, solverVars
<1>7. ASSUME NEW t \in Threads, SetInputBatch(t) PROVE SizesI'
  BY <1>7 DEF TypeI, PlacesI, SizesI, Runs, PCs, SetInputBatch, Running, Goto,
     trainerVars, netVars, solverVars
<1>8. ASSUME NEW t \in Threads, InitializeLayerParams(t) PROVE SizesI'
  BY <1>8 DEF TypeI, PlacesI, SizesI, Runs, PCs, InitializeLayerParams, Running, Goto,
     trainerVars, solverVars
<1>9. ASSUME NEW t \in Threads, RunNetwork(t) PROVE SizesI'
  BY <1>9 DEF TypeI, PlacesI, SizesI, Runs, PCs, RunNetwork, Running, Goto, AddDiff,
     trainerVars, netVars, solverVars
<1>10. ASSUME NEW t \in Threads, FinishRun(t) PROVE SizesI'
  BY <1>10 DEF TypeI, PlacesI, SizesI, Runs, PCs, FinishRun, Running, Goto,
     trainerVars, netVars, solverVars
<1>11. ASSUME NEW t \in Threads, TrainLayers(t) PROVE SizesI'
  BY <1>11 DEF TypeI, PlacesI, SizesI, Runs, PCs, TrainLayers, Training, Goto, trainerVars
<1>12. ASSUME NEW t \in Threads, AllReduce(t) PROVE SizesI'
  BY <1>12 DEF TypeI, PlacesI, SizesI, Runs, PCs, AllReduce, Training, Goto,
     LayersToReduce, trainerVars, solverVars
<1>13. ASSUME NEW t \in Threads, FinishTrain(t) PROVE SizesI'
  BY <1>13 DEF TypeI, PlacesI, SizesI, Runs, PCs, FinishTrain, Training, Goto,
     ResetBatch, LayersToReduce, trainerVars, netVars, solverVars
<1>14. ASSUME NEW t \in Threads, ThrownOut(t) PROVE SizesI'
  BY <1>14 DEF TypeI, PlacesI, SizesI, Runs, PCs, ThrownOut, Goto, trainerVars,
     netVars, solverVars
<1>15. ASSUME NEW t \in Threads, SetErrorMessage(t) PROVE SizesI'
  BY <1>15 DEF TypeI, PlacesI, SizesI, Runs, PCs, SetErrorMessage, Goto, trainerVars,
     netVars, solverVars
<1>16. ASSUME NEW t \in Threads, AbortDistributed(t) PROVE SizesI'
  BY <1>16 DEF TypeI, PlacesI, SizesI, Runs, PCs, AbortDistributed, Goto, trainerVars,
     netVars, solverVars
<1>17. ASSUME NEW t \in Threads, Fail(t) PROVE SizesI'
  BY <1>17 DEF TypeI, PlacesI, SizesI, Runs, PCs, Fail, Goto, trainerVars, netVars,
     solverVars
<1>18. QED
  BY <1>1, <1>2, <1>3, <1>4, <1>5, <1>6, <1>7, <1>8, <1>9, <1>10, <1>11, <1>12, <1>13,
     <1>14, <1>15, <1>16, <1>17 DEF Next, ThreadStep

\* A failure is remembered until the end of the operation.
LEMMA WellStep ==
    PlacesI /\ [Next]_vars => (Well' => Well)
<1> SUFFICES ASSUME PlacesI, [Next]_vars PROVE (Well' => Well)
  OBVIOUS
<1> USE TrainingAssumption
<1>1. CASE UNCHANGED vars
  BY <1>1 DEF PlacesI, Well, Runs, vars, trainerVars, netVars, solverVars
<1>2. CASE BeginRun
  BY <1>2 DEF PlacesI, Well, Runs, BeginRun, Begin, solverVars
<1>3. CASE BeginTrain
  BY <1>3 DEF PlacesI, Well, Runs, BeginTrain, Begin, solverVars
<1>4. CASE SetSolver
  BY <1>4 DEF PlacesI, Well, Runs, SetSolver, trainerVars, netVars
<1>5. CASE Return
  BY <1>5 DEF PlacesI, Well, Runs, Return, netVars, solverVars
<1>6. CASE Meet
  BY <1>6 DEF PlacesI, Well, Runs, Meet, trainerVars, solverVars
<1>7. ASSUME NEW t \in Threads, SetInputBatch(t) PROVE (Well' => Well)
  BY <1>7 DEF PlacesI, Well, Runs, SetInputBatch, Running, Goto, trainerVars, netVars,
     solverVars
<1>8. ASSUME NEW t \in Threads, InitializeLayerParams(t) PROVE (Well' => Well)
  BY <1>8 DEF PlacesI, Well, Runs, InitializeLayerParams, Running, Goto, trainerVars,
     solverVars
<1>9. ASSUME NEW t \in Threads, RunNetwork(t) PROVE (Well' => Well)
  BY <1>9 DEF PlacesI, Well, Runs, RunNetwork, Running, Goto, AddDiff, trainerVars,
     netVars, solverVars
<1>10. ASSUME NEW t \in Threads, FinishRun(t) PROVE (Well' => Well)
  BY <1>10 DEF PlacesI, Well, Runs, FinishRun, Running, Goto, trainerVars, netVars,
     solverVars
<1>11. ASSUME NEW t \in Threads, TrainLayers(t) PROVE (Well' => Well)
  BY <1>11 DEF PlacesI, Well, Runs, TrainLayers, Training, Goto, trainerVars
<1>12. ASSUME NEW t \in Threads, AllReduce(t) PROVE (Well' => Well)
  BY <1>12 DEF PlacesI, Well, Runs, AllReduce, Training, Goto, LayersToReduce,
     trainerVars, solverVars
<1>13. ASSUME NEW t \in Threads, FinishTrain(t) PROVE (Well' => Well)
  BY <1>13 DEF PlacesI, Well, Runs, FinishTrain, Training, Goto, ResetBatch,
     LayersToReduce, trainerVars, netVars, solverVars
<1>14. ASSUME NEW t \in Threads, ThrownOut(t) PROVE (Well' => Well)
  BY <1>14 DEF PlacesI, Well, Runs, ThrownOut, Goto, trainerVars, netVars, solverVars
<1>15. ASSUME NEW t \in Threads, SetErrorMessage(t) PROVE (Well' => Well)
  BY <1>15 DEF PlacesI, Well, Runs, SetErrorMessage, Goto, trainerVars, netVars,
     solverVars
<1>16. ASSUME NEW t \in Threads, AbortDistributed(t) PROVE (Well' => Well)
  BY <1>16 DEF PlacesI, Well, Runs, AbortDistributed, Goto, trainerVars, netVars,
     solverVars
<1>17. ASSUME NEW t \in Threads, Fail(t) PROVE (Well' => Well)
  BY <1>17 DEF PlacesI, Well, Runs, Fail, Goto, trainerVars, netVars, solverVars
<1>18. QED
  BY <1>1, <1>2, <1>3, <1>4, <1>5, <1>6, <1>7, <1>8, <1>9, <1>10, <1>11, <1>12, <1>13,
     <1>14, <1>15, <1>16, <1>17 DEF Next, ThreadStep

\* So do the solvers, if no empty batch comes before the first gradient.
LEMMA SolversStep ==
    TypeI /\ PlacesI /\ SolversI /\ Careful /\ [Next]_vars
        => SolversI'
<1> SUFFICES ASSUME TypeI /\ PlacesI /\ SolversI /\ Careful, [Next]_vars
             PROVE  SolversI'
  OBVIOUS
<1> USE TrainingAssumption
<1>1. CASE UNCHANGED vars
  BY <1>1 DEF TypeI, PlacesI, SolversI, Well, Runs, PCs, vars, trainerVars, netVars,
     solverVars
<1>2. CASE BeginRun
  BY <1>2 DEF TypeI, PlacesI, SolversI, Well, Runs, PCs, BeginRun, Begin, solverVars
<1>3. CASE BeginTrain
  BY <1>3 DEF TypeI, PlacesI, SolversI, Well, Runs, PCs, BeginTrain, Begin, solverVars
<1>4. CASE SetSolver
  BY <1>4 DEF TypeI, PlacesI, SolversI, Well, Runs, PCs, SetSolver, trainerVars, netVars
<1>5. CASE Return
  BY <1>5 DEF TypeI, PlacesI, SolversI, Well, Runs, PCs, Return, netVars, solverVars
<1>6. CASE Meet
  BY <1>6 DEF TypeI, PlacesI, SolversI, Well, Runs, PCs, Meet, trainerVars, solverVars
<1>7. ASSUME NEW t \in Threads, SetInputBatch(t) PROVE SolversI'
  BY <1>7 DEF TypeI, PlacesI, SolversI, Well, Runs, PCs, Gives, SetInputBatch, Running,
     Goto, trainerVars, netVars, solverVars
<1>8. ASSUME NEW t \in Threads, InitializeLayerParams(t) PROVE SolversI'
  BY <1>8 DEF TypeI, PlacesI, SolversI, Well, Runs, PCs, InitializeLayerParams,
     Running, Goto, trainerVars, solverVars
<1>9. ASSUME NEW t \in Threads, RunNetwork(t) PROVE SolversI'
  BY <1>9 DEF TypeI, PlacesI, SolversI, Well, Runs, PCs, RunNetwork, Running, Goto,
     AddDiff, trainerVars, netVars, solverVars
<1>10. ASSUME NEW t \in Threads, FinishRun(t) PROVE SolversI'
  BY <1>10 DEF TypeI, PlacesI, SolversI, Well, Runs, PCs, FinishRun, Running, Goto,
     trainerVars, netVars, solverVars
<1>11. ASSUME NEW t \in Threads, TrainLayers(t) PROVE SolversI'
  BY <1>11 DEF TypeI, PlacesI, SolversI, Well, Runs, PCs, TrainLayers, Training, Goto,
     trainerVars
<1>12. ASSUME NEW t \in Threads, AllReduce(t) PROVE SolversI'
  BY <1>12 DEF TypeI, PlacesI, SolversI, Well, Runs, PCs, AllReduce, Training, Goto,
     LayersToReduce, trainerVars, solverVars
<1>13. ASSUME NEW t \in Threads, FinishTrain(t) PROVE SolversI'
  BY <1>13 DEF TypeI, PlacesI, SolversI, Well, Runs, PCs, FinishTrain, Training, Goto,
     ResetBatch, LayersToReduce, trainerVars, netVars, solverVars
<1>14. ASSUME NEW t \in Threads, ThrownOut(t) PROVE SolversI'
  BY <1>14 DEF TypeI, PlacesI, SolversI, Well, Runs, PCs, ThrownOut, Goto, trainerVars,
     netVars, solverVars
<1>15. ASSUME NEW t \in Threads, SetErrorMessage(t) PROVE SolversI'
  BY <1>15 DEF TypeI, PlacesI, SolversI, Well, Runs, PCs, SetErrorMessage, Goto,
     trainerVars, netVars, solverVars
<1>16. ASSUME NEW t \in Threads, AbortDistributed(t) PROVE SolversI'
  BY <1>16 DEF TypeI, PlacesI, SolversI, Well, Runs, PCs, AbortDistributed, Goto,
     trainerVars, netVars, solverVars
<1>17. ASSUME NEW t \in Threads, Fail(t) PROVE SolversI'
  BY <1>17 DEF TypeI, PlacesI, SolversI, Well, Runs, PCs, Fail, Goto, trainerVars,
     netVars, solverVars
<1>18. QED
  BY <1>1, <1>2, <1>3, <1>4, <1>5, <1>6, <1>7, <1>8, <1>9, <1>10, <1>11, <1>12, <1>13,
     <1>14, <1>15, <1>16, <1>17 DEF Next, ThreadStep

\* The number of collective calls made is at most the number of layers to reduce.
LEMMA TrainPlacesStep ==
    TypeI /\ PlacesI /\ TrainPlacesI /\ [Next]_vars => TrainPlacesI'
<1> SUFFICES ASSUME TypeI /\ PlacesI /\ TrainPlacesI, [Next]_vars
             PROVE  TrainPlacesI'
  OBVIOUS
<1> USE TrainingAssumption
<1>1. CASE UNCHANGED vars
  BY <1>1 DEF TypeI, PlacesI, TrainPlacesI, Runs, PCs, vars, trainerVars, netVars,
     solverVars
<1>2. CASE BeginRun
  BY <1>2 DEF TypeI, PlacesI, TrainPlacesI, Runs, PCs, BeginRun, Begin, solverVars
<1>3. CASE BeginTrain
  BY <1>3 DEF TypeI, PlacesI, TrainPlacesI, Runs, PCs, BeginTrain, Begin, solverVars
<1>4. CASE SetSolver
  BY <1>4 DEF TypeI, PlacesI, TrainPlacesI, Runs, PCs, SetSolver, trainerVars, netVars
<1>5. CASE Return
  BY <1>5 DEF TypeI, PlacesI, TrainPlacesI, Runs, PCs, Return, netVars, solverVars
<1>6. CASE Meet
  BY <1>6 DEF TypeI, PlacesI, TrainPlacesI, Runs, PCs, Meet, trainerVars, solverVars
<1>7. ASSUME NEW t \in Threads, SetInputBatch(t) PROVE TrainPlacesI'
  BY <1>7 DEF TypeI, PlacesI, TrainPlacesI, Runs, PCs, SetInputBatch, Running, Goto,
     trainerVars, netVars, solverVars
<1>8. ASSUME NEW t \in Threads, InitializeLayerParams(t) PROVE TrainPlacesI'
  BY <1>8 DEF TypeI, PlacesI, TrainPlacesI, Runs, PCs, InitializeLayerParams, Running,
     Goto, trainerVars, solverVars
<1>9. ASSUME NEW t \in Threads, RunNetwork(t) PROVE TrainPlacesI'
  BY <1>9 DEF TypeI, PlacesI, TrainPlacesI, Runs, PCs, RunNetwork, Running, Goto,
     AddDiff, trainerVars, netVars, solverVars
<1>10. ASSUME NEW t \in Threads, FinishRun(t) PROVE TrainPlacesI'
  BY <1>10 DEF TypeI, PlacesI, TrainPlacesI, Runs, PCs, FinishRun, Running, Goto,
     trainerVars, netVars, solverVars
<1>11. ASSUME NEW t \in Threads, TrainLayers(t) PROVE TrainPlacesI'
  BY <1>11 DEF TypeI, PlacesI, TrainPlacesI, Runs, PCs, TrainLayers, Training, Goto,
     trainerVars
<1>12. ASSUME NEW t \in Threads, AllReduce(t) PROVE TrainPlacesI'
  <2> SUFFICES ASSUME NEW u \in Threads
               PROVE  /\ pc'[u] = "start" => layer'[u] = 0
                      /\ pc'[u] = "waiting" => layer'[u] > 0
                      /\ layer'[u] <= reduceOrder[u]
                      /\ pc'[u] = "done" /\ ~errorMessage => layer'[u] = reduceOrder[u]
    BY <1>12 DEF AllReduce, TrainPlacesI, trainerVars, solverVars
  <2>1. /\ layer[u] \in Nat /\ reduceOrder[u] \in Nat
        /\ pc' = [pc EXCEPT ![t] = "waiting"] /\ layer' = [layer EXCEPT ![t] = @ + 1]
        /\ layer[t] < reduceOrder[t]
    BY <1>12, SMTT(30) DEF TypeI, AllReduce, LayersToReduce, Goto
  <2>2. CASE u = t
    BY <2>1, <2>2 DEF TypeI
  <2>3. CASE u # t
    BY <2>1, <2>3, <1>12 DEF TypeI, TrainPlacesI, AllReduce, Training
  <2> QED
    BY <2>2, <2>3
<1>13. ASSUME NEW t \in Threads, FinishTrain(t) PROVE TrainPlacesI'
  BY <1>13 DEF TypeI, PlacesI, TrainPlacesI, Runs, PCs, FinishTrain, Training, Goto,
     ResetBatch, LayersToReduce, trainerVars, netVars, solverVars
<1>14. ASSUME NEW t \in Threads, ThrownOut(t) PROVE TrainPlacesI'
  BY <1>14 DEF TypeI, PlacesI, TrainPlacesI, Runs, PCs, ThrownOut, Goto, trainerVars,
     netVars, solverVars
<1>15. ASSUME NEW t \in Threads, SetErrorMessage(t) PROVE TrainPlacesI'
  BY <1>15 DEF TypeI, PlacesI, TrainPlacesI, Runs, PCs, SetErrorMessage, Goto,
     trainerVars, netVars, solverVars
<1>16. ASSUME NEW t \in Threads, AbortDistributed(t) PROVE TrainPlacesI'
  BY <1>16 DEF TypeI, PlacesI, TrainPlacesI, Runs, PCs, AbortDistributed, Goto,
     trainerVars, netVars, solverVars
<1>17. ASSUME NEW t \in Threads, Fail(t) PROVE TrainPlacesI'
  BY <1>17 DEF TypeI, PlacesI, TrainPlacesI, Runs, PCs, Fail, Goto, trainerVars,
     netVars, solverVars
<1>18. QED
  BY <1>1, <1>2, <1>3, <1>4, <1>5, <1>6, <1>7, <1>8, <1>9, <1>10, <1>11, <1>12, <1>13,
     <1>14, <1>15, <1>16, <1>17 DEF Next, ThreadStep

\* The threads stay in lock step.
LEMMA LockStepStep ==
    TypeI /\ PlacesI /\ TrainPlacesI /\ LockStepI /\ [Next]_vars
        => LockStepI'
<1> SUFFICES ASSUME (TypeI /\ PlacesI /\ TrainPlacesI /\ LockStepI),
     [Next]_vars PROVE LockStepI'
  OBVIOUS
<1> USE TrainingAssumption
<1>1. CASE UNCHANGED vars
  BY <1>1 DEF TypeI, PlacesI, TrainPlacesI, LockStepI, Completed, Well, Runs, PCs,
     vars, trainerVars, netVars, solverVars
<1>2. CASE BeginRun
  BY <1>2 DEF TypeI, PlacesI, TrainPlacesI, LockStepI, Completed, Well, Runs, PCs,
     BeginRun, Begin, solverVars
<1>3. CASE BeginTrain
  BY <1>3 DEF TypeI, PlacesI, TrainPlacesI, LockStepI, Completed, Well, Runs, PCs,
     BeginTrain, Begin, solverVars
<1>4. CASE SetSolver
  BY <1>4 DEF TypeI, PlacesI, TrainPlacesI, LockStepI, Completed, Well, Runs, PCs,
     SetSolver, trainerVars, netVars
<1>5. CASE Return
  BY <1>5 DEF TypeI, PlacesI, TrainPlacesI, LockStepI, Completed, Well, Runs, PCs,
     Return, netVars, solverVars
<1>6. CASE Meet
  <2> SUFFICES ASSUME op = "Train", Well', NEW t \in Threads, NEW u \in Threads
               PROVE  Completed(t)' = Completed(u)'
    BY <1>6 DEF LockStepI, Meet, trainerVars
  <2>1. Well /\ pc[t] = "waiting" /\ pc[u] = "waiting"
    BY <1>6 DEF Meet, Well
  <2>2. layer[t] - 1 = layer[u] - 1 /\ layer[t] \in Nat /\ layer[u] \in Nat
    BY <2>1 DEF LockStepI, Completed, TypeI
  <2>3. pc'[t] = "reduce" /\ pc'[u] = "reduce" /\ layer' = layer
    BY <1>6 DEF Meet
  <2> QED
    BY <2>2, <2>3 DEF Completed
<1>7. ASSUME NEW t \in Threads, SetInputBatch(t) PROVE LockStepI'
  BY <1>7 DEF TypeI, PlacesI, TrainPlacesI, LockStepI, Completed, Well, Runs, PCs,
     SetInputBatch, Running, Goto, trainerVars, netVars, solverVars
<1>8. ASSUME NEW t \in Threads, InitializeLayerParams(t) PROVE LockStepI'
  BY <1>8 DEF TypeI, PlacesI, TrainPlacesI, LockStepI, Completed, Well, Runs, PCs,
     InitializeLayerParams, Running, Goto, trainerVars, solverVars
<1>9. ASSUME NEW t \in Threads, RunNetwork(t) PROVE LockStepI'
  BY <1>9 DEF TypeI, PlacesI, TrainPlacesI, LockStepI, Completed, Well, Runs, PCs,
     RunNetwork, Running, Goto, AddDiff, trainerVars, netVars, solverVars
<1>10. ASSUME NEW t \in Threads, FinishRun(t) PROVE LockStepI'
  BY <1>10 DEF TypeI, PlacesI, TrainPlacesI, LockStepI, Completed, Well, Runs, PCs,
     FinishRun, Running, Goto, trainerVars, netVars, solverVars
<1>11. ASSUME NEW t \in Threads, TrainLayers(t) PROVE LockStepI'
  BY <1>11 DEF TypeI, PlacesI, TrainPlacesI, LockStepI, Completed, Well, Runs, PCs,
     TrainLayers, Training, Goto, trainerVars
<1>12. ASSUME NEW t \in Threads, AllReduce(t) PROVE LockStepI'
  BY <1>12 DEF TypeI, PlacesI, TrainPlacesI, LockStepI, Completed, Well, Runs, PCs,
     AllReduce, Training, Goto, LayersToReduce, trainerVars, solverVars
<1>13. ASSUME NEW t \in Threads, FinishTrain(t) PROVE LockStepI'
  BY <1>13 DEF TypeI, PlacesI, TrainPlacesI, LockStepI, Completed, Well, Runs, PCs,
     FinishTrain, Training, Goto, ResetBatch, LayersToReduce, trainerVars, netVars, solverVars
<1>14. ASSUME NEW t \in Threads, ThrownOut(t) PROVE LockStepI'
  BY <1>14 DEF TypeI, PlacesI, TrainPlacesI, LockStepI, Completed, Well, Runs, PCs,
     ThrownOut, Goto, trainerVars, netVars, solverVars
<1>15. ASSUME NEW t \in Threads, SetErrorMessage(t) PROVE LockStepI'
  BY <1>15 DEF TypeI, PlacesI, TrainPlacesI, LockStepI, Completed, Well, Runs, PCs,
     SetErrorMessage, Goto, trainerVars, netVars, solverVars
<1>16. ASSUME NEW t \in Threads, AbortDistributed(t) PROVE LockStepI'
  BY <1>16 DEF TypeI, PlacesI, TrainPlacesI, LockStepI, Completed, Well, Runs, PCs,
     AbortDistributed, Goto, trainerVars, netVars, solverVars
<1>17. ASSUME NEW t \in Threads, Fail(t) PROVE LockStepI'
  BY <1>17 DEF TypeI, PlacesI, TrainPlacesI, LockStepI, Completed, Well, Runs, PCs,
     Fail, Goto, trainerVars, netVars, solverVars
<1>18. QED
  BY <1>1, <1>2, <1>3, <1>4, <1>5, <1>6, <1>7, <1>8, <1>9, <1>10, <1>11, <1>12, <1>13,
     <1>14, <1>15, <1>16, <1>17 DEF Next, ThreadStep

\* Each collective call of Train makes the networks agree on one more layer.
LEMMA TrainedStep ==
    TypeI /\ PlacesI /\ SolversI /\ TrainPlacesI /\ LockStepI /\ AgreeI /\
    TrainedI /\ [Next]_vars
        => TrainedI'
<1> SUFFICES ASSUME TypeI /\ PlacesI /\ SolversI /\ TrainPlacesI /\ LockStepI /\
                    AgreeI /\ TrainedI, [Next]_vars
             PROVE  TrainedI'
  OBVIOUS
<1> USE TrainingAssumption
<1>1. CASE UNCHANGED vars
  BY <1>1 DEF TypeI, PlacesI, SolversI, TrainPlacesI, LockStepI, AgreeI, TrainedI,
     Completed, Well, Runs, PCs, vars,
     trainerVars, netVars, solverVars
<1>2. CASE BeginRun
  BY <1>2 DEF TypeI, PlacesI, SolversI, TrainPlacesI, LockStepI, AgreeI, TrainedI,
     Completed, Well, Runs, PCs, BeginRun, Begin, solverVars
<1>3. CASE BeginTrain
  <2> SUFFICES ASSUME NEW t \in Threads, NEW u \in Threads, NEW l \in Layers
               PROVE  ~(l <= Completed(t)') /\ param'[t][l] = param'[u][l]
    BY <1>3 DEF TrainedI
  <2>1. Completed(t)' = 0 /\ ~(l <= 0)
    BY <1>3 DEF BeginTrain, Begin, Completed, Layers
  <2>2. Well /\ op = "none" /\ pc[Root] = "done" /\ param' = param
    BY <1>3 DEF BeginTrain, Begin, Well, PlacesI
  <2> QED
    BY <2>1, <2>2 DEF AgreeI
<1>4. CASE SetSolver
  BY <1>4 DEF TypeI, PlacesI, SolversI, TrainPlacesI, LockStepI, AgreeI, TrainedI,
     Completed, Well, Runs, PCs, SetSolver, trainerVars, netVars
<1>5. CASE Return
  BY <1>5 DEF TypeI, PlacesI, SolversI, TrainPlacesI, LockStepI, AgreeI, TrainedI,
     Completed, Well, Runs, PCs, Return, netVars, solverVars
<1>6. CASE Meet
  <2>0. op' = op /\ step' = step /\ reduceOrder' = reduceOrder
    BY <1>6 DEF Meet, trainerVars, solverVars
  <2> SUFFICES ASSUME op = "Train", Well', NEW t \in Threads, NEW u \in Threads,
                      NEW l \in Layers
               PROVE  /\ l <= Completed(t)' => param'[t][l] = <<step, All>>
                      /\ reduceOrder[t] = 0 => param'[t][l] = param'[u][l]
    BY <2>0 DEF TrainedI
  <2>1. Well /\ pc[t] = "waiting"
    BY <1>6 DEF Meet, Well
  <2>2. PICK n \in Nat \ {0} : n = layer[t]
    BY <2>1 DEF TrainPlacesI, TypeI
  <2>3. reduceOrder[t] # 0
    BY <2>1, <2>2 DEF TrainPlacesI, TypeI
  <2>4. Completed(t)' = n
    BY <2>2, <1>6 DEF Meet, Completed
  <2>5. ASSUME l <= n, l # n
        PROVE  param[t][l] = <<step, All>>
    <3>1. Completed(t) = n - 1 /\ l <= n - 1
      BY <2>1, <2>2, <2>5 DEF Completed, Layers
    <3> QED
      BY <2>1, <3>1 DEF TrainedI
  <2>6. param'[t][l] = IF l # n THEN param[t][l] ELSE <<step, All>>
    BY <2>2, <1>6 DEF Meet
  <2> QED
    BY <2>3, <2>4, <2>5, <2>6
<1>7. ASSUME NEW t \in Threads, SetInputBatch(t) PROVE TrainedI'
  BY <1>7 DEF TypeI, PlacesI, SolversI, TrainPlacesI, LockStepI, AgreeI, TrainedI,
     Completed, Well, Runs, PCs, SetInputBatch, Running, Goto,
     trainerVars, netVars, solverVars
<1>8. ASSUME NEW t \in Threads, InitializeLayerParams(t) PROVE TrainedI'
  BY <1>8 DEF TypeI, PlacesI, SolversI, TrainPlacesI, LockStepI, AgreeI, TrainedI,
     Completed, Well, Runs, PCs, InitializeLayerParams, Running, Goto,
     trainerVars, solverVars
<1>9. ASSUME NEW t \in Threads, RunNetwork(t) PROVE TrainedI'
  BY <1>9 DEF TypeI, PlacesI, SolversI, TrainPlacesI, LockStepI, AgreeI, TrainedI,
     Completed, Well, Runs, PCs, RunNetwork, Running, Goto, AddDiff,
     trainerVars, netVars, solverVars
<1>10. ASSUME NEW t \in Threads, FinishRun(t) PROVE TrainedI'
  BY <1>10 DEF TypeI, PlacesI, SolversI, TrainPlacesI, LockStepI, AgreeI, TrainedI,
     Completed, Well, Runs, PCs, FinishRun, Running, Goto,
     trainerVars, netVars, solverVars
<1>11. ASSUME NEW t \in Threads, TrainLayers(t) PROVE TrainedI'
  <2> SUFFICES ASSUME Well', NEW u \in Threads, NEW v \in Threads, NEW l \in Layers
               PROVE  /\ l <= Completed(u)' => param'[u][l] = <<step, All>>
                      /\ reduceOrder[u] = 0 => param'[u][l] = param'[v][l]
    BY <1>11 DEF TrainedI, TrainLayers, trainerVars
  <2>1. Well /\ op = "Train"
    BY <1>11, WellStep DEF TrainLayers, Training, Next, ThreadStep
  <2>2. layer[t] = 0 /\ Completed(t) = 0
    BY <1>11 DEF TrainPlacesI, TrainLayers, Training, Completed
  <2>3. Completed(u) = 0 /\ Completed(u)' = 0
    BY <2>1, <2>2, <1>11 DEF LockStepI, TrainLayers, Training, Goto, Completed, TypeI
  <2>4. ~(l <= 0)
    BY DEF Layers
  <2>5. ASSUME reduceOrder[u] = 0
        PROVE  param' = param
    <3>1. reduceOrder[t] = 0 /\ ~hasDiff[t]
      BY <2>1, <2>5 DEF SolversI
    <3> QED
      BY <3>1, <1>11 DEF TrainLayers
  <2> QED
    BY <2>1, <2>3, <2>4, <2>5 DEF TrainedI
<1>12. ASSUME NEW t \in Threads, AllReduce(t) PROVE TrainedI'
  BY <1>12 DEF TypeI, PlacesI, SolversI, TrainPlacesI, LockStepI, AgreeI, TrainedI,
     Completed, Well, Runs, PCs, AllReduce, Training, Goto, LayersToReduce,
     trainerVars, solverVars
<1>13. ASSUME NEW t \in Threads, FinishTrain(t) PROVE TrainedI'
  BY <1>13 DEF TypeI, PlacesI, SolversI, TrainPlacesI, LockStepI, AgreeI, TrainedI,
     Completed, Well, Runs, PCs, FinishTrain, Training, Goto, ResetBatch, LayersToReduce,
     trainerVars, netVars, solverVars
<1>14. ASSUME NEW t \in Threads, ThrownOut(t) PROVE TrainedI'
  BY <1>14 DEF TypeI, PlacesI, SolversI, TrainPlacesI, LockStepI, AgreeI, TrainedI,
     Completed, Well, Runs, PCs, ThrownOut, Goto,
     trainerVars, netVars, solverVars
<1>15. ASSUME NEW t \in Threads, SetErrorMessage(t) PROVE TrainedI'
  BY <1>15 DEF TypeI, PlacesI, SolversI, TrainPlacesI, LockStepI, AgreeI, TrainedI,
     Completed, Well, Runs, PCs, SetErrorMessage, Goto,
     trainerVars, netVars, solverVars
<1>16. ASSUME NEW t \in Threads, AbortDistributed(t) PROVE TrainedI'
  BY <1>16 DEF TypeI, PlacesI, SolversI, TrainPlacesI, LockStepI, AgreeI, TrainedI,
     Completed, Well, Runs, PCs, AbortDistributed, Goto,
     trainerVars, netVars, solverVars
<1>17. ASSUME NEW t \in Threads, Fail(t) PROVE TrainedI'
  BY <1>17 DEF TypeI, PlacesI, SolversI, TrainPlacesI, LockStepI, AgreeI, TrainedI,
     Completed, Well, Runs, PCs, Fail, Goto,
     trainerVars, netVars, solverVars
<1>18. QED
  BY <1>1, <1>2, <1>3, <1>4, <1>5, <1>6, <1>7, <1>8, <1>9, <1>10, <1>11, <1>12, <1>13,
     <1>14, <1>15, <1>16, <1>17 DEF Next, ThreadStep

\* Outside Train the networks agree but for the layer that is broadcast.
LEMMA AgreeStep ==
    TypeI /\ PlacesI /\ InitializedI /\ SolversI /\ TrainPlacesI /\ TrainedI /\
    AgreeI /\ [Next]_vars
        => AgreeI'
<1> SUFFICES ASSUME TypeI /\ PlacesI /\ InitializedI /\ SolversI /\ TrainPlacesI /\
                    TrainedI /\ AgreeI, [Next]_vars
             PROVE  AgreeI'
  OBVIOUS
<1> USE TrainingAssumption
<1>1. CASE UNCHANGED vars
  BY <1>1 DEF TypeI, PlacesI, InitializedI, SolversI, TrainPlacesI, TrainedI, AgreeI,
     Completed, Well, Runs, PCs, Layers, vars,
     trainerVars, netVars, solverVars
<1>2. CASE BeginRun
  <2>1. Well /\ op = "none" /\ pc[Root] = "done" /\ param' = param
    BY <1>2 DEF BeginRun, Begin, Well, PlacesI
  <2> QED
    BY <2>1 DEF AgreeI
<1>3. CASE BeginTrain
  BY <1>3 DEF TypeI, PlacesI, InitializedI, SolversI, TrainPlacesI, TrainedI, AgreeI,
     Completed, Well, Runs, PCs, Layers, BeginTrain, Begin, solverVars
<1>4. CASE SetSolver
  BY <1>4 DEF TypeI, PlacesI, InitializedI, SolversI, TrainPlacesI, TrainedI, AgreeI,
     Completed, Well, Runs, PCs, Layers, SetSolver, trainerVars, netVars
<1>5. CASE Return
  <2> SUFFICES ASSUME Well', NEW t \in Threads, NEW u \in Threads, NEW l \in Layers
               PROVE  param[t][l] = param[u][l]
    BY <1>5 DEF AgreeI, Return, netVars
  <2>1. Well /\ pc[t] = "done" /\ pc[u] = "done" /\ pc[Root] = "done"
    BY <1>5 DEF Return, Well
  <2>2. CASE op # "Train"
    BY <2>1, <2>2 DEF AgreeI
  <2>3. CASE op = "Train" /\ reduceOrder[t] = 0
    BY <2>1, <2>3 DEF TrainedI
  <2>4. CASE op = "Train" /\ reduceOrder[t] # 0
    <3>1. reduceOrder[t] = LayerCount /\ reduceOrder[u] = LayerCount
      BY <2>1, <2>4 DEF SolversI, TypeI
    <3>2. layer[t] = LayerCount /\ layer[u] = LayerCount
      BY <2>1, <2>4, <3>1 DEF TrainPlacesI, Well
    <3>3. l <= Completed(t) /\ l <= Completed(u)
      BY <2>1, <3>2 DEF Completed, Layers
    <3> QED
      BY <2>1, <2>4, <3>3 DEF TrainedI
  <2> QED
    BY <2>2, <2>3, <2>4
<1>6. CASE Meet
  <2> SUFFICES ASSUME op # "Train", Well', NEW t \in Threads, NEW u \in Threads,
                      NEW l \in Layers
               PROVE  param'[t][l] = param'[u][l]
    BY <1>6 DEF AgreeI, Meet, trainerVars
  <2>1. Well /\ op \in Runs /\ \A v \in Threads : pc[v] = "waiting"
    BY <1>6 DEF Meet, Well, TypeI, Runs
  <2>2. layer[t] = layer[Root] /\ layer[u] = layer[Root]
    BY <2>1 DEF InitializedI
  <2>3. \A v \in {t, u} : param'[v][l] = IF l # layer[v] THEN param[v][l] ELSE param[Root][l]
    BY <1>6 DEF Meet
  <2>4. l # layer[Root] => param[t][l] = param[u][l]
    BY <2>1 DEF AgreeI
  <2> QED
    BY <2>2, <2>3, <2>4
<1>7. ASSUME NEW t \in Threads, SetInputBatch(t) PROVE AgreeI'
  <2>1. (Well' => Well) /\ op' = op /\ UNCHANGED netVars
    BY <1>7, WellStep DEF SetInputBatch, Next, ThreadStep, trainerVars
  <2>2. op # "Train" => pc[t] # "waiting" /\ \A u \in Threads : u # t => pc'[u] = pc[u]
    BY <1>7 DEF SetInputBatch, Running, Goto, TypeI
  <2>3. pc[Root] = "waiting" /\ op # "Train" => pc'[Root] = "waiting"
    BY <2>2
  <2> QED
    BY <2>1, <2>3 DEF AgreeI, netVars
<1>8. ASSUME NEW t \in Threads, InitializeLayerParams(t) PROVE AgreeI'
  <2> SUFFICES ASSUME Well', NEW u \in Threads, NEW v \in Threads, NEW l \in Layers
               PROVE  \/ param'[u][l] = param'[v][l]
                      \/ pc'[Root] = "waiting" /\ l = layer'[Root]
    BY <1>8 DEF AgreeI
  <2>1. Well /\ op # "Train"
    BY <1>8, WellStep DEF InitializeLayerParams, Running, Next, ThreadStep
  <2>2. param[u][l] = param[v][l] \/ (pc[Root] = "waiting" /\ l = layer[Root])
    BY <2>1 DEF AgreeI
  <2>3. CASE t = Root
    BY <1>8, <2>2, <2>3 DEF InitializeLayerParams, Running, Goto, TypeI
  <2>4. CASE t # Root
    BY <1>8, <2>2, <2>4 DEF InitializeLayerParams, Goto, TypeI
  <2> QED
    BY <2>3, <2>4
<1>9. ASSUME NEW t \in Threads, RunNetwork(t) PROVE AgreeI'
  <2>1. (Well' => Well) /\ op' = op /\ UNCHANGED netVars
    BY <1>9, WellStep DEF RunNetwork, Next, ThreadStep, trainerVars
  <2>2. op # "Train" => pc[t] # "waiting" /\ \A u \in Threads : u # t => pc'[u] = pc[u]
    BY <1>9 DEF RunNetwork, Running, Goto, TypeI
  <2>3. pc[Root] = "waiting" /\ op # "Train" => pc'[Root] = "waiting"
    BY <2>2
  <2> QED
    BY <2>1, <2>3 DEF AgreeI, netVars
<1>10. ASSUME NEW t \in Threads, FinishRun(t) PROVE AgreeI'
  <2>1. (Well' => Well) /\ op' = op /\ UNCHANGED netVars
    BY <1>10, WellStep DEF FinishRun, Next, ThreadStep, trainerVars
  <2>2. op # "Train" => pc[t] # "waiting" /\ \A u \in Threads : u # t => pc'[u] = pc[u]
    BY <1>10 DEF FinishRun, Running, Goto, TypeI
  <2>3. pc[Root] = "waiting" /\ op # "Train" => pc'[Root] = "waiting"
    BY <2>2
  <2> QED
    BY <2>1, <2>3 DEF AgreeI, netVars
<1>11. ASSUME NEW t \in Threads, TrainLayers(t) PROVE AgreeI'
  BY <1>11 DEF TypeI, PlacesI, InitializedI, SolversI, TrainPlacesI, TrainedI, AgreeI,
     Completed, Well, Runs, PCs, Layers, TrainLayers, Training, Goto, trainerVars
<1>12. ASSUME NEW t \in Threads, AllReduce(t) PROVE AgreeI'
  BY <1>12 DEF TypeI, PlacesI, InitializedI, SolversI, TrainPlacesI, TrainedI, AgreeI,
     Completed, Well, Runs, PCs, Layers, AllReduce, Training, Goto, LayersToReduce,
     trainerVars, solverVars
<1>13. ASSUME NEW t \in Threads, FinishTrain(t) PROVE AgreeI'
  BY <1>13 DEF TypeI, PlacesI, InitializedI, SolversI, TrainPlacesI, TrainedI, AgreeI,
     Completed, Well, Runs, PCs, Layers, FinishTrain, Training, Goto, ResetBatch, LayersToReduce,
     trainerVars, netVars, solverVars
<1>14. ASSUME NEW t \in Threads, ThrownOut(t) PROVE AgreeI'
  BY <1>14 DEF TypeI, PlacesI, InitializedI, SolversI, TrainPlacesI, TrainedI, AgreeI,
     Completed, Well, Runs, PCs, Layers, ThrownOut, Goto,
     trainerVars, netVars, solverVars
<1>15. ASSUME NEW t \in Threads, SetErrorMessage(t) PROVE AgreeI'
  BY <1>15 DEF TypeI, PlacesI, InitializedI, SolversI, TrainPlacesI, TrainedI, AgreeI,
     Completed, Well, Runs, PCs, Layers, SetErrorMessage, Goto,
     trainerVars, netVars, solverVars
<1>16. ASSUME NEW t \in Threads, AbortDistributed(t) PROVE AgreeI'
  BY <1>16 DEF TypeI, PlacesI, InitializedI, SolversI, TrainPlacesI, TrainedI, AgreeI,
     Completed, Well, Runs, PCs, Layers, AbortDistributed, Goto,
     trainerVars, netVars, solverVars
<1>17. ASSUME NEW t \in Threads, Fail(t) PROVE AgreeI'
  BY <1>17 DEF TypeI, PlacesI, InitializedI, SolversI, TrainPlacesI, TrainedI, AgreeI,
     Completed, Well, Runs, PCs, Layers, Fail, Goto,
     trainerVars, netVars, solverVars
<1>18. QED
  BY <1>1, <1>2, <1>3, <1>4, <1>5, <1>6, <1>7, <1>8, <1>9, <1>10, <1>11, <1>12, <1>13,
     <1>14, <1>15, <1>16, <1>17 DEF Next, ThreadStep

\* Init establishes the invariant.
LEMMA InitInv ==
    Init => Inv
<1> SUFFICES ASSUME Init PROVE Inv
  OBVIOUS
<1> USE TrainingAssumption
<1>1. TypeI
  <2>1. initialized \in [Threads -> 0 .. LayerCount]
    BY DEF Init
  <2>2. param \in [Threads -> [Layers -> Nat \X Origins]]
    BY DEF Init, Origins, NoParam
  <2>3. /\ op = "none" /\ step \in Nat /\ pc \in [Threads -> PCs]
        /\ isFirstRun \in BOOLEAN /\ errorMessage \in BOOLEAN /\ isAbort \in BOOLEAN
    BY DEF Init, PCs
  <2>4. /\ batchSize \in [Threads -> Nat] /\ fed \in [Threads -> Nat]
        /\ reduceOrder \in [Threads -> {0, LayerCount}]
        /\ hasDiff \in [Threads -> BOOLEAN]
        /\ layer \in [Threads -> 0 .. LayerCount]
    BY DEF Init
  <2> QED
    BY <2>1, <2>2, <2>3, <2>4 DEF TypeI
<1>2. PlacesI /\ InitializedI /\ SizesI
  BY DEF Init, PlacesI, InitializedI, SizesI, Runs
<1>3. SolversI /\ TrainPlacesI /\ LockStepI /\ TrainedI
  BY DEF Init, SolversI, TrainPlacesI, LockStepI, TrainedI
<1>4. AgreeI
  BY DEF Init, AgreeI
<1> QED
  BY <1>1, <1>2, <1>3, <1>4 DEF Inv

\* Every step preserves it.
LEMMA NextInv ==
    ASSUME Careful
    PROVE  Inv /\ [Next]_vars => Inv'
  BY TypeStep, PlacesStep, InitializedStep, SizesStep, SolversStep, TrainPlacesStep,
     LockStepStep, TrainedStep, AgreeStep DEF Inv

\* Between two operations all the networks have the same parameters, if no solver that
\* has seen no gradient is given an empty batch: CDistributedTraining saves the first
\* network for all of them.
THEOREM NetworksAgree ==
    ASSUME Careful
    PROVE  Spec => []ParamsAgree
<1>1. Inv => ParamsAgree
  <2> SUFFICES ASSUME Inv, op = "none", ~errorMessage, NEW t \in Threads, NEW u \in Threads
               PROVE  param[t] = param[u]
    BY DEF ParamsAgree
  <2>1. Well /\ pc[Root] = "done"
    BY TrainingAssumption DEF Inv, PlacesI, Well
  <2>2. \A l \in Layers : param[t][l] = param[u][l]
    BY <2>1 DEF Inv, AgreeI
  <2>3. param[t] \in [Layers -> Nat \X Origins] /\ param[u] \in [Layers -> Nat \X Origins]
    BY DEF Inv, TypeI
  <2> QED
    BY <2>2, <2>3
<1> QED
  BY <1>1, InitInv, NextInv, PTL DEF Spec

\* The parts of the invariant that do not need Careful.
SizesInv == TypeI /\ PlacesI /\ SizesI

\* The weights of a training step are the shares of the threads in the data since the
\* last step, although every thread resets its size as soon as it is done.
THEOREM WeightsCorrect ==
    Spec => []WeightsSumToOne
<1>1. Init => SizesInv
  BY InitInv DEF Inv, SizesInv
<1>2. SizesInv /\ [Next]_vars => SizesInv'
  BY TypeStep, PlacesStep, SizesStep DEF SizesInv
<1>3. SizesInv => WeightsSumToOne
  BY DEF SizesInv, SizesI, WeightsSumToOne
<1> QED
  BY <1>1, <1>2, <1>3, PTL DEF Spec
\* What the meeting of the threads needs.
CallsInv == Inv /\ LeavesI

\* As long as no thread has failed, a thread that is in a collective call waits for nobody who
\* will not come, if no solver that has seen no gradient is given an empty batch; if one has, the
\* abort that throws it out has been called or is about to be.
THEOREM CallsMatch ==
    ASSUME Careful
    PROVE  Spec => []CollectiveCallsMatch
<1>1. Init => CallsInv
  <2> SUFFICES ASSUME Init PROVE LeavesI
    BY InitInv DEF CallsInv
  <2> QED
    BY TrainingAssumption DEF Init, LeavesI, Runs
<1>2. CallsInv /\ [Next]_vars => CallsInv'
  BY NextInv, LeavesStep DEF CallsInv, Inv
<1>3. CallsInv => CollectiveCallsMatch
  <2> SUFFICES ASSUME CallsInv, \A t \in Threads : pc[t] \notin {"catch", "aborting"}, ~isAbort,
                      NEW t \in Threads, NEW u \in Threads, pc[t] = "waiting"
               PROVE  /\ pc[u] = "waiting" => layer[u] = layer[t]
                      /\ pc[u] \in {"forward", "reduce"} => layer[u] < layer[t]
                      /\ pc[u] \notin {"end", "done"}
    BY DEF CollectiveCallsMatch
  <2>1. TypeI /\ PlacesI /\ InitializedI /\ LeavesI /\ SolversI /\ TrainPlacesI /\ LockStepI
    BY DEF CallsInv, Inv
  <2>2. ~errorMessage /\ Well
    BY <2>1 DEF LeavesI, Well
  <2>3. /\ op \in Runs \cup {"Train"} /\ LayerCount \in Nat
        /\ layer[t] \in 0 .. LayerCount /\ layer[u] \in 0 .. LayerCount
        /\ initialized[t] \in 0 .. LayerCount
    BY <2>1, TrainingAssumption DEF TypeI, PlacesI, Runs
  <2>4. CASE op \in Runs
    <3>1. layer[t] = initialized[t] + 1 /\ initialized[t] = initialized[u] /\ initialized[t] < LayerCount
      BY <2>1, <2>3, <2>4 DEF InitializedI
    <3>2. pc[u] # "end" /\ pc[u] # "done"
      BY <2>1, <2>3, <2>4, <3>1 DEF LeavesI
    <3>3. pc[u] # "reduce"
      BY <2>1, <2>4 DEF PlacesI, Runs
    <3>4. pc[u] = "waiting" => layer[u] = layer[t]
      BY <2>1, <2>4, <3>1 DEF InitializedI
    <3>5. pc[u] = "forward" => layer[u] < layer[t]
      BY <2>1, <2>3, <3>1 DEF LeavesI
    <3> QED
      BY <3>2, <3>3, <3>4, <3>5
  <2>5. CASE op = "Train"
    <3>1. pc[u] \notin {"forward", "end"}
      BY <2>1, <2>5 DEF PlacesI, Runs
    <3>2. Completed(u) = layer[t] - 1
      BY <2>1, <2>2, <2>5 DEF LockStepI, Completed
    <3>3. pc[u] # "done"
      <4>1. layer[t] <= reduceOrder[u]
        BY <2>1, <2>2, <2>5 DEF TrainPlacesI, SolversI
      <4> QED
        BY <2>1, <2>2, <2>3, <2>5, <3>2, <4>1 DEF TrainPlacesI, Completed
    <3> QED
      BY <2>3, <3>1, <3>2, <3>3 DEF Completed
  <2> QED
    BY <2>3, <2>4, <2>5
<1> QED
  BY <1>1, <1>2, <1>3, PTL DEF Spec
=============================================================================
