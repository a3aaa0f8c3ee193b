------------------------- MODULE ParallelReduction -------------------------
(***************************************************************************)
(* The parallel loops of the machine learning algorithms: a task of        *)
(* ParallelRun (GradientBoostThreadTask.cpp, Svm.cpp, KMeansClustering.cpp,*)
(* Function.cpp in NeoML/src/TraditionalML) divides its elements among the *)
(* threads of a pool, each thread adds up its own in a place of its own,   *)
(* and the caller adds these up when ExecuteTasks has returned.            *)
(*                                                                         *)
(* What is added up is how often each element was met.                     *)
(***************************************************************************)
EXTENDS ThreadPool, TaskPartition

CONSTANTS Tasks,        \* the work of a task: its form, the sizes and alignments along the axes
          MinTasks      \* MultiThreadMinTasksCount

\* The pool is used by ParallelRun only.
ASSUME ReductionAssumption ==
    /\ Uses = {"ExecuteTasks", "Delete"}
    /\ Tasks # {}
    /\ Tasks \subseteq [form : {"interval", "box"}, full : [Dims -> Nat], align : [Dims -> Nat \ {0}]]
    /\ \A t \in Tasks : t.form = "interval" => \A d \in {2, 3} : t.full[d] = 1
    /\ MinTasks \in Nat

VARIABLES
    stage,      \* stage[c]: "none", "running" or "reduced"
    work,       \* the work of the task of c
    partial,    \* partial[c][w]: what thread w of the task of c has added up
    merged,     \* merged[c]: the threads whose sums the reduction has added
    result      \* result[c]: the sum of the reduction

reductionVars == <<stage, work, partial, merged, result>>

\* All elements of a task, those of thread w, and those of all tasks.
Whole(t) == Cells([d \in Dims |-> [index |-> 0, count |-> t.full[d]]])
PartOf(t, w) ==
    CASE t.form = "interval" ->
             Items(TaskIndexAndCount(NumThreads, w, t.full[1], t.align[1])) \X {0} \X {0}
      [] t.form = "box" ->
             Cells(TaskIndexAndCount3D(t.full, t.align, NumThreads, w))
Elements == UNION {Whole(t) : t \in Tasks}
Nothing == [i \in Elements |-> 0]

RInit ==
    /\ Init
    /\ stage = [c \in Clients |-> "none"]
    /\ work = [c \in Clients |-> CHOOSE t \in Tasks : TRUE]
    /\ partial = [c \in Clients |-> [w \in Workers |-> Nothing]]
    /\ merged = [c \in Clients |-> 0]
    /\ result = [c \in Clients |-> Nothing]

\* What is added up after the elements of a part were met.
Met(sum, part) == [i \in Elements |-> IF i \in part THEN sum[i] + 1 ELSE sum[i]]

\* A task is run by the threads of the pool, or by the caller if it is small.
Divided(t) == t.form = "box" \/ t.full[1] >= MinTasks

\* ParallelRun with a task object just created.
ParallelRun(c, t) ==
    /\ stage[c] # "running" /\ cpc[c] = "idle" /\ ~Deleting
    /\ work' = [work EXCEPT ![c] = t]
    /\ stage' = [stage EXCEPT ![c] = "running"]
    /\ merged' = [merged EXCEPT ![c] = 0]
    /\ result' = [result EXCEPT ![c] = Nothing]
    /\ IF Divided(t)
       THEN BeginExecuteTasks(c) /\ partial' = [partial EXCEPT ![c] = [w \in Workers |-> Nothing]]
       ELSE /\ partial' = [partial EXCEPT ![c] = [w \in Workers |->
                               IF w = 0 THEN Met(Nothing, Whole(t)) ELSE Nothing]]
            /\ UNCHANGED vars

\* RunSplittedByThreads
RunPart(w) ==
    LET c == task[w].client IN
    /\ RunTask(w)
    /\ partial' = [partial EXCEPT ![c][w] = Met(@, PartOf(work[c], w))]
    /\ UNCHANGED <<stage, work, merged, result>>

\* Mutant of Reduce: the caller does not wait for the threads.
ReduceEarly(c) ==
    /\ stage[c] = "running" /\ cpc[c] \in {"idle", "waiting"}
    /\ result' = [result EXCEPT ![c] = [i \in Elements |-> @[i] + partial[c][merged[c]][i]]]
    /\ merged' = [merged EXCEPT ![c] = @ + 1]
    /\ stage' = [stage EXCEPT ![c] = IF merged'[c] = NumThreads THEN "reduced" ELSE @]
    /\ UNCHANGED <<vars, work, partial>>

\* One step of the loop of Reduction, when ExecuteTasks has returned.
Reduce(c) ==
    /\ stage[c] = "running" /\ cpc[c] = "idle"
    /\ result' = [result EXCEPT ![c] = [i \in Elements |-> @[i] + partial[c][merged[c]][i]]]
    /\ merged' = [merged EXCEPT ![c] = @ + 1]
    /\ stage' = [stage EXCEPT ![c] = IF merged'[c] = NumThreads THEN "reduced" ELSE @]
    /\ UNCHANGED <<vars, work, partial>>

-----------------------------------------------------------------------------
RWorkerStep(w) ==
    \/ RunPart(w)
    \/ (LeaveLoop(w) \/ TakeTask(w) \/ FinishTask(w) \/ GoToSleep(w)) /\ UNCHANGED reductionVars

RClientStep(c) == \/ Reduce(c)
                  \/ ClientStep(c) /\ UNCHANGED reductionVars

RNext ==
    \/ \E w \in Workers : RWorkerStep(w) \/ (SpuriousWorkerWakeup(w) /\ UNCHANGED reductionVars)
    \/ \E c \in Clients : \/ \E t \in Tasks : ParallelRun(c, t)
                          \/ RClientStep(c)
                          \/ SpuriousClientWakeup(c) /\ UNCHANGED reductionVars
    \/ (\A c \in Clients : stage[c] # "running") /\ BeginDelete /\ UNCHANGED reductionVars
    \/ DeleteStep /\ UNCHANGED reductionVars

RSpec == RInit /\ [][RNext]_<<vars, reductionVars>>

RFairSpec ==
    /\ RSpec
    /\ \A w \in Workers : WF_<<vars, reductionVars>>(RWorkerStep(w))
    /\ \A c \in Clients : WF_<<vars, reductionVars>>(RClientStep(c))
    /\ WF_<<vars, reductionVars>>(DeleteStep /\ UNCHANGED reductionVars)

-----------------------------------------------------------------------------
(* Properties. *)

\* "Combine results of each thread in 1 answer": every element is in the answer of
\* ParallelRun once, however the threads were scheduled and woken and however the work
\* was divided (GetTaskIndexAndCount, GetTaskIndexAndCount3D, ExecuteTasks).
ElementsReducedOnce ==
    \A c \in Clients : stage[c] = "reduced" =>
        \A i \in Elements : result[c][i] = IF i \in Whole(work[c]) THEN 1 ELSE 0

\* Every task that runs is reduced.
ParallelRunReturns == \A c \in Clients : stage[c] = "running" ~> stage[c] = "reduced"
=============================================================================
