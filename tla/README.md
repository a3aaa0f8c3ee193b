# TLA+ verification of NeoML

NeoML is a machine-learning library in C++. `NeoMathEngine` is the arithmetic
engine (memory, threads, kernels for CPU and GPU), `NeoML` the networks and the
training algorithms built on it, `NeoOnnx` and `NeoProxy` import and wrap them.
This directory holds TLA+ models of the parts whose correctness depends on the
order in which things happen, the TLC runs that check them on small instances and
the TLAPS proofs that carry the main results over to every instance.

Contents

1. [The system](#1-the-system)
2. [The modules](#2-the-modules)
3. [The runs](#3-the-runs)
4. [Bounds](#4-bounds)
5. [Fairness](#5-fairness)
6. [What is proved](#6-what-is-proved)
7. [Disagreements between the code and its comments](#7-disagreements-between-the-code-and-its-comments)
8. [What is only model-checked, and what is not modelled](#8-what-is-only-model-checked-and-what-is-not-modelled)
9. [Plan](#9-plan)
10. [How to run](#10-how-to-run)

## 1. The system

### 1.1 Components

"Correct when" is what the properties of a model of the component are, or would be.

| Component (source) | State | Operations | Hard behaviour | Correct when | Model |
|---|---|---|---|---|---|
| **Thread pool** (`NeoMathEngine/src/ThreadPool.cpp`, `ThreadPool.h`) | one queue, mutex, condition variable and `Stopped` flag per worker | `AddTask`, `ExecuteTasks`, `WaitAllTask`, destructor | workers run tasks with the mutex released; workers and waiting callers share a condition variable; notifications can be missed | a task is executed once, in order; a wait covers what was submitted before it; calls return | `ThreadPool` |
| **Partition of tasks** (`ThreadPool.h`) | none | `GetTaskIndexAndCount`, its 2D and 3D forms | rounding, empty parts, `int` products | the parts cover the work exactly once | `TaskPartition` |
| **Parallel loops of the algorithms** (`TraditionalML/GradientBoostThreadTask.cpp`, `Svm.cpp`, `KMeansClustering.cpp`, `Function.cpp`) | a place per thread for its sums | `ParallelRun`, `RunSplittedByThreads`, `Reduction` | the caller adds up without a lock what the threads have written | every element is in the result once | `ParallelReduction` |
| **CPU communicator** (`CPU/CpuMathEngineDnnDistributed.cpp`) | atomic counter, atomic flag, atomic abort flag, array of buffer addresses | `AllReduce`, `Broadcast`, `Abort` | spinning barrier with two separate stores in its release; exceptions thrown out of it | nobody passes a barrier early; the buffers read and written are those of the same call; a failure frees everybody | `Barrier`, `Communicator` |
| **Memory pool** (`MemoryPool.cpp`) | free lists per thread and size, map of the blocks in use, three counters, a limit | `Alloc` (with clean-up and retry), `Free`, `CleanUp`, `SetReuseMemoryMode`, `TransferHandleToThisThread` | a block allocated by one thread is freed, transferred and reused by others while modes change | each block has one owner and its true size; the counters are right; nothing leaks | `MemoryPool` |
| **Stack allocators** (`MathEngineDeviceStackAllocator.cpp` and its host twin) | per thread: a list of blocks, current and largest size | `Alloc`, `Free`, `CleanUp` | blocks come and go with the nesting of the calls; `int` differences; the heap may fail half way | every handle is freed from its own block; handles do not overlap; a settled thread uses one block | `StackAllocator` |
| **Network graph** (`Dnn/Dnn.cpp`, `Dnn/BaseLayer.cpp`) | layers, links, run numbers, blobs, counts of output diffs | `RunOnce`, `RunAndBackwardOnce`, rebuild, reshape, what users change in between | recursive runs guarded by run numbers; outputs dropped by the last user; in-place layers; partial reshapes; exceptions in the middle | each layer runs once per run after its inputs, on their current values; each gradient is summed once | `Network` |
| **Distributed training** (`NeoML/src/Dnn/DnnDistributed.cpp`, `DnnInitializer.cpp`) | one network, solver and batch size per thread; error message, first-run flag | `RunOnce`, `RunAndBackwardOnce`, `Train`, `RunAndLearnOnce`, `SetSolver`, `Serialize` | collective calls that every thread must make equally often; errors of one thread | the copies agree between operations; weights are the shares of data; operations return | `DistributedTraining` |
| **Solvers** (`DnnSolver.cpp`) | summed gradients, `reduceOrder`, history per layer | `AddDiff`, `Train`, `Reset` | `reduceOrder` decides how many collective calls a thread makes | the same layers are reduced by all threads | in `DistributedTraining`, as far as it meets other threads |
| **CUDA device slots** (`GPU/CUDA/CudaDevice.cpp`) | a file of process ids and slots shared by processes | capture, release, usage | crashed processes, pids used again, locks with a timeout | slots have one owner, none is lost; the locks are held inside calls only | `CudaDeviceSlots` |
| **Math engine, singletons** (`MathEngine.cpp`, `CPU/CpuMathEngine.cpp`) | the mutex over heap and stacks, the default engine | `HeapAlloc`, `StackAlloc`, `CleanUp`, `SetMathEngine...` | stack blocks taken from the heap under one mutex | stack blocks are live heap blocks | no: each function is one critical section around the calls that `MemoryPool` and `StackAllocator` model |
| **Composite, recurrent and back-link layers** (`Dnn/Layers/CompositeLayer.cpp`, `RecurrentLayer.cpp`, `BackLinkLayer.cpp`) | an inner network, a position in the sequence, a captured state and its diff per back link | inner run per position, forward and backward; `RestartSequence`, `SetState`, the settings between runs | the windows of blobs move with the position; blobs dropped or computed in place position by position; diffs carried to the position before; a state that outlives runs | every position reads, keeps and passes back what it should; the outputs hold all the items; the solver is given the sum over the positions, once | `Recurrent` |
| **Blobs** (`Dnn/DnnBlob.cpp`) | device memory, a window into a parent blob | `ShiftParentPos`, `TransferDataToThisThread`, buffers | a window outlives or misses its parent | windows stay inside their parent | no: a transfer is `TransferHandleToThisThread` of `MemoryPool`, the rest is sequential |
| **CUDA communicator** (`GPU/CUDA/CudaMathEngineDnnDistributed.cpp`) | an NCCL communicator per device, an abort flag | as on the CPU | everything hard is NCCL's | | no |
| **Loader of shared libraries** (`DllLoader.cpp`) | four link counts under one mutex | load, free | one critical section per operation | | no |
| **GPU engines** (CUDA, Metal, Vulkan) | command buffers, kernels | arithmetic | data-parallel arithmetic | | no |
| **CPU kernels** (`NeoMathEngine/src/CPU`) | none but a cache of generated code with its own lock | arithmetic | floating point | | no |
| **Layers** (`Dnn/Layers`) | parameters, runtime blobs | reshape, run, backward, learn | numerical | | as constants of `Network`: which blobs they need, whether they compute in place |
| **Optimization of networks, LoRA, rowwise** | | rewriting of graphs | numerical equality of results | | no |
| **Traditional machine learning** (`TraditionalML`) | models, training problems | training | numerical; its threads are the parallel loops above | | no |
| **Containers, strings, archives** (`FineObjLite`) | | sequential data structures | | | no |
| **ONNX import, proxies, bindings** | | one-pass translation, wrappers | | | no |

### 1.2 How they interact

* A `CDistributedTraining` owns a thread pool, a communicator and one network per
  thread. Each of its operations is one `ExecuteTasks`: the caller pushes a task for
  every worker and waits. In a task, worker *i* runs its network *i*.
* A training algorithm of `TraditionalML` owns a thread pool. Its loops are one
  `ExecuteTasks` each; a task divides the work by `GetTaskIndexAndCount` and the caller
  reduces what the threads have written.
* A network asks its engine for memory: the heap for blobs, the stack of the calling
  thread for temporary buffers. The stack takes its blocks from the heap. Both run under
  `CCpuMathEngine::mutex`.
* Initialisers call `Broadcast`, solvers call `AllReduce`, on the communicator of the
  engine. All threads must make the same calls in the same order.
* An exception in a task is caught in the task. The handler stores a message and calls
  `AbortDistributed`, which throws the others out of the barriers they wait in. When all
  the tasks have returned the caller throws.
* Blobs change threads through `TransferHandleToThisThread` of the memory pool, and the
  pools of a thread stay when the thread has ended.
* Processes that use a GPU divide its memory through the file of slots.

The models mirror this: `DistributedTraining` takes a collective call as one meeting of
all threads, a run of a network as one step, and an operation as a function on all threads
that returns when all have finished; `Recurrent` takes the recursions of a run of its inner
network by their order. `Communicator` shows that the first is what the
communicator implements (as the refinement of `Collective`), `Network` the second (of
`Dataflow`), `ThreadPool` the third (of `TaskExecution`), and `ParallelReduction`, which
is composed with the pool itself, that the calls of `ExecuteTasks` return.

### 1.3 Hazards

`PROJECT.json` lists the places in the code that are hard to test, each with the
properties that cover it, or with the reason why none does. The properties of the modules
were chosen from that list.

## 2. The modules

| Module | What it is |
|---|---|
| `TaskExecution` | abstract: what `IThreadPool` promises |
| `ThreadPool` | `CThreadPool`; refines `TaskExecution` |
| `TaskPartition` | `GetTaskIndexAndCount` and its forms for boxes: pure arithmetic |
| `ParallelReduction` | the parallel loops, composed of `ThreadPool` and `TaskPartition` |
| `Barrier` | `barrier()` and `Abort()` of the communicator, one atomic access per step |
| `Collective` | abstract: what `AllReduce` and `Broadcast` promise |
| `Communicator` | the calls over `Barrier`; refines `Collective` |
| `MemoryPool` | `CMemoryPool` |
| `StackAllocator` | `CDeviceStackAllocator` of one thread |
| `LayerGraph` | the graph of a network: links, outputs, sinks |
| `Dataflow` | abstract: what a run of a network promises |
| `Network` | `CDnn` and `CBaseLayer`; refines `Dataflow` |
| `Recurrent` | `CRecurrentLayer` with its inner network, over the positions of a sequence |
| `DistributedTraining` | `CDistributedTraining` with what solvers and initialisers share |
| `CudaDeviceSlots` | the file of slots of a CUDA device |
| `MC*` | instances for TLC |
| `*Proofs` | lemmas and theorems |

In each module the definitions that start with "Mutant of" are deliberate mistakes.
They are used by no action; each replaces the definition that it names to show that some
property notices.

### 2.1 ThreadPool

State: `queue[w]` and `stopped[w]` are `params[w]->Queue` and `->Stopped`; `wpc`, `task`
are the place and the local `task` of worker *w* in `threadEntry`; `cpc`, `idx` the place
and loop index of a client in its call. `calls`, `given`, `log`, `covered` are history.

The mutex is not a variable: a critical section that does not release the mutex half way
is one action. A section that calls `wait` ends there (program counter "asleep"), and the
thread goes on in another action once it was notified. So the worker has five actions:

| Action | `threadEntry` |
|---|---|
| `LeaveLoop` | `while( !Stopped )` is false |
| `TakeTask` | front task copied, mutex released |
| `RunTask` | the function is called without the mutex |
| `FinishTask` | mutex taken, `pop`, `notify_all`, **`wait`** |
| `GoToSleep` | queue empty: `wait` |

`FinishTask` goes to sleep without a look at the queue or at `Stopped`, because the code
does: the `wait` at line 175 is common to both branches. `NotifyWorker` and `WakeClients`
are `notify_all` on the variable that workers and clients share: each side also wakes the
other. `SpuriousWorkerWakeup` and `SpuriousClientWakeup` are the wakeups C++ permits.

The client's `AddTask`, `AddNext` (an iteration of `ExecuteTasks`), `WaitNext`,
`WaitSleep` (one queue of `WaitAllTask`) and `SetStopped`, `NotifyStopped`, `Join`
(`stopAndWait`, whose notification comes after the mutex is released) are the rest. `Uses`
names the entry points clients may call, so that a run can be about the fork-join use that
the library itself makes, or about the interface as it is declared. A pool is deleted when
no other client is in a call: the destructor of any object asks as much.

### 2.2 Barrier and Communicator

`Barrier` has one action for each access to an atomic of `barrier()`: the load of the flag
(`Enter`), the decrement (`Arrive`), the reset of the counter (`ResetCounter`), the store
of the flag (`FlipFlag`), the load that ends or continues the loop (`SpinEnd`, `SpinOn`),
the look at `isAbort` (`Throw`, `Yield`). The model interleaves these accesses, while the
code loads the two flags with `memory_order_acquire` and stores them with
`memory_order_release`; only the counter has the default order. The interleavings are still
all there is: acquire loads and release stores keep the order of a thread's accesses except
for a store that a later load overtakes, the only such store inside the barrier is that of
`FlipFlag`, and what the thread accesses next in the next barrier is the same flag, then
the counter with a sequentially consistent decrement, which publishes the store. A store of
`isAbort` that is seen late is an `Abort` that comes late. `arrived`, `departed` and
`rounds` are history.

`Communicator` extends it with the calls. A buffer is cut into one slice per thread as
`AllReduce` does (line 56ff.), a slice holds the set of contributions averaged in it
rather than floats. `Collect` is the entry of a call: the address goes into the common
array. `Gather` and `Settle` are steps inside the first and the second barrier. `Reduce`
averages the slice of the thread in all buffers and writes it to all; `CopyRoot` is
`Broadcast`. `Fail` is an exception in the code between two calls with the `Abort` of its
handler (`DnnDistributed.cpp:317-321`), a thread that a barrier throws out has the same
handler. `Restart` is the next operation of the trainer on the same communicator: calls are
counted over all the runs. After an aborted run the counter of the barrier keeps what the
threads thrown out had left there, so the properties are about the runs that no aborted one
precedes (`spoilt`).

`Reduce` is one action though it is many reads and writes: slices are disjoint, and every
write of one thread to a slice is separated from every other access to it by a barrier.
`BuffersHeld` is the property that says so.

### 2.3 MemoryPool

Every operation is one action because `CCpuMathEngine` takes its mutex around each.
`Pool[t][b]` are the free buffers of size *b* of thread *t*, `usedMap` and `info` are the
map of the blocks in use with their `CUsedInfo`: the size of a plain block, or the pool
that owns it. `raw` is the raw memory manager: the true size of the block at an address.
`asked` is history.

`Alloc` is four alternatives that follow `tryAlloc`: a buffer of the pool (`Reuse`), a new
block (`AllocNew`), a new block after the clean-up of the calling thread's pools
(`AllocAfterCleanUp`), or a null handle after that clean-up (`AllocFails`). The raw manager
may fail within the limit (`RawMayFail`). `FreeBuffer` returns a buffer to the pool of its
owner, whichever thread calls; `FreePlain` returns the block to the raw manager.
What a clean-up subtracts from `allocatedMemory` is counted by the sizes of the pools
(`MemoryInPools`), what the blocks really take is in `raw`.
`TransferHandleToThisThread` gives a buffer to the calling thread: if its pools are on the
buffer gets a new owner, if they are off it becomes a plain block of the size of the pool.

### 2.4 StackAllocator

`blocks` is the list of blocks from the first to `head`; a block has its buffer, size and
how much is given out. `below` and `level`, `settledMax` and `handles` are history. `Count`
is the beginning of `Alloc`; then the first block is made or made anew
(`AllocFirstBlock`), the head has room (`AllocInHead`), or a block is put on top
(`AllocNewBlock`). `Free` subtracts pointers: the difference is an `int` (`ToInt`), sizes
are `size_t` (`ToSize`). A null handle from the heap is kept in a block exactly as the code
keeps it.

The user frees the newest handle first: this is what the interface requires and what the
RAII wrappers of the engine do.

### 2.5 DistributedTraining

A program counter per thread follows the function each operation runs: `SetInputBatch`,
then, layer by layer, `InitializeLayerParams` (with its `Broadcast`), `RunNetwork`
(forward, and backward with `AddDiff`), `FinishRun`; in `Train` `TrainLayers`, then an
`AllReduce` for each layer of `reduceOrder`, `FinishTrain`. `Meet` completes a collective
call when all the threads are in theirs, `ThrownOut` is the exception an abort raises.
`Fail` lets any thread throw at any place outside the calls. `SetErrorMessage` and
`AbortDistributed` are the two halves of the catch block; other threads move in between.

A parameter is the pair of the step in which it was computed and who computed it, a
thread or all the threads together: two networks agree when the pairs are equal.

`Careful` restricts the datasets: no empty batch before the solver of that thread has seen
a gradient. The code does not demand it, section 7 shows what happens without. After an
error the trainer is not used again (`Begin`): `errorMessage` is never cleared, so each
later operation throws in the end. `Communicator` with `MaxRuns = 2` looks at what a
communicator does when it is used again all the same.

### 2.6 LayerGraph, Dataflow and Network

The network is a function from layers to the sequences of their inputs, an input is
connected to a port <<layer, output>> (`LayerGraph`). The layers themselves are constants:
which of them learn, want to compute in place (`InPlaceLayers`: their `Reshape` asks
`InputsMayBeOverwritten`), and which blobs they say they need (`BlobsForBackward`,
`BlobsForLearn`).

The functions of `CBaseLayer` that call themselves for the inputs of a layer
(`buildOrder`, `recheckBackwardNeeded`, `reshape`, `runOnce`,
`backwardRunAndLearnOnce`) share one explicit stack of calls. `Calls(l)` says that the
call at the top, or the loop over the sink layers, comes to layer *l* next. What follows is
an `...Enter` action (the call goes on to the inputs of *l*), an `...Skip` action (the call
finds nothing to do and returns) or, when the inputs have returned, the rest of the call:
`BuildLayer`, `ReshapeLayer` or `KeepShape`, `RunLayer`, `BackReset`. The backward pass does
its work first and calls the inputs afterwards, so `BackLayer` is the beginning of a call.
`recheckBackwardNeeded` alone is one action (`Recheck`): it computes a set.

A blob is the name <<layer, output, run>> of its creation, and `content` says what was last
written to it in the same terms: an output that is overwritten in place, or kept from an
earlier run and not written again, is seen by the name it should hold (`Value`). Diffs are
sets of <<layer, input, run>>. `readyOutputDiffs` is `ready`, `outputDiffBlobs` is
`outDiffs`.

Users act between runs: another size of a source blob, learning of a layer or of the
network switched, `CleanUp`, layers deleted and added. Any layer may throw in `Reshape`,
`RunOnce` and `BackwardOnce` (`ReshapeThrows`, `RunThrows`, `BackThrows`).

`Careful` is the one thing this code asks of its users without a check: after an exception in
`Reshape` or in the backward pass the network is rebuilt. Otherwise a layer that has not been
reshaped keeps its empty blobs, and one that has left its `inputDiffBlobs` fails the assertion
of `BaseLayer.cpp:583` in every later run.

`relearned` is history: the learning of a single layer has been switched since all the layers
were last forced to reshape. `ForceReshape` forces that layer and no other, so the layers
around it still keep the blobs that their last `Reshape` asked for (section 7). All but two
properties are claimed for such runs too: what is read, gradients, results, the order of the
calls. `ShapesCurrent` exempts the sets of needed blobs, `NeededBlobsHeld` the run.

`Dataflow` knows none of this: a pass computes each layer once after those it reads, then
trains each layer once after those that read it, or is abandoned.

### 2.7 CudaDeviceSlots

State is the file, the mutex of each process, the `flock`, and the place of every thread of
every process in `captureDeviceSlots`, `releaseDeviceSlots` or `getDeviceUsage`. `Start` and
`Crash` are the system's: a process gets a pid that is free (perhaps one that was used
before), and dies anywhere, which frees its locks and leaves its entries. `LockMutex`,
`LockFile`, `OpenFails`, `OpenThrows` are `CDeviceFile::Open` with its two locks of five
seconds. `OpenFails` is a file that cannot be opened, or a lock that is not free in time.
`OpenThrows` are the assertions on a file that cannot be filled: both locks are taken and `fd`
is not set yet, so the destructor frees neither (`leaked` is history: who has left them so).
`IOThrows` is an entry that cannot be read or written later: there `fd` is set, and the
destructor (`Unlock`) frees both. An assertion in `releaseDeviceSlots` ends the process, since a
destructor calls it: that is a `Crash`.
`CheckSlot` one step of the loop that counts, `Decide` the comparison after it,
`CaptureSlot` and `WriteTime` the two writes of an entry. `Unreadable` are the processes
whose `/proc/<pid>/stat` the code cannot parse (a space in the name of the program): their
start time reads as 0. `kill( pid, 0 )` is modelled for processes of one user: for a living
process of another user it fails with `EPERM`, and the code takes that process for dead.

### 2.8 TaskPartition and ParallelReduction

`TaskPartition` is the arithmetic of `ThreadPool.h`. `GreatestCommonFactor` is a recursive
function on pairs, not a `RECURSIVE` operator, so that it can be proved about. Integers are
mathematical; the theorem `NoOverflow` says when `int` is enough.

`ParallelReduction` extends both `ThreadPool` and `TaskPartition`: `ParallelRun` begins an
`ExecuteTasks`, `RunPart` is `RunTask` of the pool with the loop over the elements of the
thread, `Reduce` one step of the loop of `Reduction`. A task below `MinTasks` is run by the
caller alone and leaves the pool's variables unchanged. The sums count how often each
element was met.

### 2.9 Recurrent

A recurrent layer is a composite layer: it runs its inner network once for each position of
the sequence, forward, and in training once more for each position, from the last to the
first. A blob holds all the positions; a layer sees its window on the current one
(`Position`, reversed if asked). `outBlobs[l]` and `inBlobs[l]` are `outputBlobs[0]` and
`inputBlobs` of a layer, `content` says for each item of a blob which layer wrote it in which
step of which run. A back link copies in each step what its capture sink holds (`captured`),
which is the output of the position before; its `BackwardOnce` puts a diff into the sink
(`capturedDiff`), which passes it on in the position before. `first` are the back links with
`isProcessingFirstPosition`.

| Action | Code |
|---|---|
| `Begin` | `CDnn::RunOnce` or `RunAndBackwardOnce` up to `RunInternalDnn`: restart, reshape, the blobs of the inputs |
| `RunSource`, `RunCapture`, `RunSink`, `RunBackLink`, `RunLayer` | `CBaseLayer::runOnce` of a layer with its `RunOnce`: outputs allocated, inputs dropped by their last user, the item of this position written |
| `NextPosition`, `EndForward` | the loop of `RunInternalDnn`, the end of `CCompositeLayer::RunOnce` |
| `BackSource`, `BackBackLink`, `BackLayer` | `backwardRunAndLearnOnce` of a layer: diffs passed to its inputs, parameter diffs summed and given to the solver in the first position |
| `NextPositionBack`, `EndBackward` | the loop of `RunInternalDnnBackward` |
| `SetState`, `SetReverseSequence`, `SetRepeatCount`, `RestartSequence`, `SetAutoRestartMode` | what the user calls between the runs |

The recursions that `Network` spells out are taken by their result. Forward, the layers are
visited in the order `Order[n]`: TLC is given that of `runOnce` (an `ASSUME` of `MCRecurrent`
checks it), the theorems hold for each order in which a layer comes after those it reads.
Backward, any layer may be next whose readers are done. Every layer has one output.
`BackwardNeeded` is the least set, as `recheckBackwardNeeded` computes it.

`carried` and `state` are history: what each back link should pass on in every step, written
down from the interface (zero, the initial state, the state the user set, or the one the last
run left; then what was captured) and not from the flags by which the code decides it. `SetState`
copies the user's state in the model. In the code the back link keeps the user's blob itself
(`BackLinkLayer.cpp:120`), which the next run writes to: what the user reads in it afterwards is
not modelled.

A capture sink is assumed to read what is computed from its back link (`NetsAssumption`).
The recurrent layers of the library are built so, for `CBackLinkLayer::Connect` gives the sink
the output of a layer of the loop, but nothing checks it: a sink that is not downstream of its
link may run first, and then the link passes on the current position instead of the one before.

Not modelled: exceptions and edits of the inner network between runs (as in `Network`),
composites within composites, and the window arithmetic of blobs with several items per
position.

## 3. The runs

| Run | Shows | Distinct states |
|---|---|---|
| `pool_safety` | two clients mix all entry points on two workers: tasks run once and in order (`ExecutedInOrder`), a wait covers what its caller submitted (`NoTaskOutlivesItsWait`), the pool refines `TaskExecution` (`ImplementsService`) | 400 932 |
| `pool_forkjoin` | parallel reductions and the destructor, the library's own use, on four workers: no worker sleeps on work (`NoWorkerSleepsOnWork`), every element is in the result once (`ElementsReducedOnce`), every reduction and the destructor return | 36 694 |
| `pool_queue` | *violation*: with `AddTask` a worker sleeps while a task is queued and `WaitAllTask` never returns | |
| `comm` | two threads and two runs of `Broadcast` then `AllReduce` on one communicator, failures between calls: a thread reads the handles of its own call (`HandlesCollected`), nobody leaves a call while another works on the buffers (`BuffersHeld`), the calls refine `Collective` (`ImplementsCollective`), until a run begins after an aborted one; all runs end and an abort frees every waiting thread, also then, when the counter is wrong | 11 888 |
| `heap_safety` | two threads, three addresses, two pool sizes under a limit: blocks, requests, counters, no leak | 40 804 (up to symmetry) |
| `stack_safety` | up to four nested buffers of three sizes: the top block is the right one, handles are disjoint, counters agree, one block when settled | 6 582 (up to symmetry) |
| `train` | three networks, two layers, four operations in any order, empty batches where careful, errors anywhere: networks agree, weights are shares, nobody waits for a thread that will not come (`CollectiveCallsMatch`), operations return | 533 624 |
| `train_hang` | *violation*: a solver without gradients skips its `AllReduce` calls and the others wait for ever | |
| `network` | two runs of three networks, with two calls of the user before each, exceptions in every phase: inputs are current (`InputsCurrent`), what the backward pass needs is held (`NeededBlobsHeld`), gradients are complete (`GradientsComplete`), results stay (`ResultsIntact`), shapes are those of the mode (`ShapesCurrent`), a run is a pass of `Dataflow` (`ImplementsDataflow`), the recursions return (`NetworkRunsEnd`) | 274 446 |
| `network_overwrite` | *violation*: the elementwise product overwrites the input that its backward pass needs | |
| `recurrent` | two runs of five recurrent layers, forward or training, with or without reuse of memory, reversed or repeated, with a call of the user before each: what each step reads (`StepsReadTheirInputs`), the outputs (`OutputsComplete`), what the backward pass needs (`BackwardHasItsBlobs`), the diffs through time (`DiffsThroughTime`), what is learned and passed to the inputs (`TrainingComplete`) | 427 465 |
| `cuda_slots` | three callers in two processes, crashes, exceptions, pids used again, timeouts: slots have one owner (`SlotsExclusive`), a capture gets what it counted (`CaptureComplete`), none is lost (`NoSlotLost`), a lock belongs to a call that goes on or to an `Open` that has thrown (`LocksHeldInCalls`) | 1 558 804 |

A passing run checks its invariants and properties on all reachable states of the
instance. `CHECK_DEADLOCK FALSE` is given throughout because these systems may stop: the
bound of calls is reached, the pool is deleted, all runs are over. That nothing stops too
early is the business of the liveness properties.

## 4. Bounds

* `ThreadPool`: `MaxCalls` calls per client. The lost wakeups and the overtaking of a
  waiting client by another need two clients, two workers and two calls.
* `ParallelReduction`: four workers have two before or after any loop index, divide a box
  in two dimensions and leave a remainder; intervals of 1 and 6 elements with alignments 1
  and 2 give empty, cut and whole parts; boxes with sides that are divided evenly, with a
  remainder and not at all. `MinTasks` 2 makes the interval of one element a small task.
  `MaxCalls` counts the calls of `ExecuteTasks`: two show that nothing is left of the first.
* `Barrier`, `Communicator`: two threads, of which one may be ahead by a barrier; two calls
  in each of two runs are eight barriers. `MaxBarriers` is the number of barriers of the runs
  and cuts nothing. `MaxRuns = 2` has one run after a good one and one after an abort. The
  theorems are about any number of threads, calls and runs.
* `MemoryPool`: limit 9 holds two large buffers, or one and two small ones, and not three
  large ones; requests 1, 3, 5 fall into the small pool, the large one and none.
  No counter is bounded: the limit bounds them.
* `StackAllocator`: `MaxHandles` 4 and `MaxAlloc` 26 permit three blocks on top of the
  first and a first block that is too small the next time. Blocks are multiples of 4,
  alignment is 2, so requests 1 and 3 are really rounded. `IntHalf` 32 keeps the `int` out
  of the way in `stack_safety`, as 2 GB does for most users, and the heap does not fail there;
  the theorems have the exact condition (`Regular`).
* `DistributedTraining`: `MaxOps` 4 is enough for a forward run, a training run, a step and
  one more in any order. Batch sizes 0 and 1 give trivial, nontrivial and NaN weights.
* `Network`: `MaxCalls` 2 runs, because what is hard is what the second finds of the first;
  `MaxUses` 2 calls of the user before each. The chain has two layers in place after one
  another, `TwoSinks` an output shared with a sink, `Diamond` several outputs, an input
  connected twice and a sink that is built before a consumer. Two sizes, of which one makes
  the network large enough for the mode that drops blobs.
* `Recurrent`: sequences of 1 and 3 items, also taken twice, so that a first, a middle and a
  last position differ and the length changes between runs; two runs for what a run leaves,
  `MaxUses` 1 call before each. The five inner networks are a cell, a decoder with an initial
  state and two outputs, two gated states with one layer read twice, teacher forcing, and an
  output read by a fully connected layer and by an activation (the case that `LastUserKeeps`
  exempts).
* `CudaDeviceSlots`: two slots are the least that two captures can compete for; two pids and
  three callers have two threads in one process against another process; `MaxStarts` 3
  permits that a process dies between the count and the capture of another and that a third
  gets its pid, `MaxCalls` 2 a capture and its release. One of the pids is unreadable.

## 5. Fairness

Fairness is weak and only on what a scheduler does: every thread inside a call goes on.

* `ThreadPool`, `ParallelReduction`: each worker, each client inside a call (the reduction
  after it included), the destructor. Nobody must begin a call, and no spurious wakeup is
  promised. Weak fairness on a mutex-protected section is enough for the properties because
  no section is competed for without end.
* `Communicator`: each thread's steps, including the code between two calls (which ends,
  or fails), and the following of a run that another thread has begun: the tasks of one
  operation are pushed for all workers. Failing is never fair.
* `DistributedTraining`: each thread's steps, `Meet` (which is what `Communicator` and
  `RunsEnd` provide: calls all have made return) and `Return` (`ParallelRunReturns`).
* `Recurrent` has safety properties only and states no fairness.
* `Network`: the one thread that runs the network (`WF_vars(Step)`). Users need not call
  anything, exceptions are never fair.
* `CudaDeviceSlots` has safety properties only and states no fairness. That calls return would
  say nothing of the locks, because who waits five seconds in vain leaves: `LocksHeldInCalls` is
  about the locks themselves.

## 6. What is proved

All for every value of the constants within the named assumptions, by TLAPS with Z3,
Zenon and the LS4 temporal prover. Each theorem is `Init => Inv`,
`Inv /\ [Next]_vars => Inv'` and `Inv => property` for the inductive invariant below.

**ThreadPool** (`ThreadPoolProofs`). `TypeCorrect`, `OrderCorrect`, `WaitSound`: any
number of workers, clients, calls, any mix of entry points. `TaskInHand` is needed because
the front task is copied at one time and popped at another: in between it must still be the
front. `CallsNumbered` and `WaitProgress` are needed for the waits: a client that has gone
past worker *w* left none of its own tasks there, and while it waits it adds none, though
others do. `ServiceImplemented` (`Spec => ImplementsService`) maps each step to a step of
`TaskExecution` or to none. `NoWakeupLost` is about the library's own use (`ForkJoin`: one
client, `ExecuteTasks` and the destructor): its invariant says that between two calls every
queue is empty and that a worker with a task is awake or will be woken by a notification
that is still due.

**TaskPartition and ParallelReduction** (in `ThreadPoolProofs`). `IntervalsPartition` and
`BoxesPartition`: the parts of the threads give every item, or every cell of a box, to
exactly one thread, for all sizes, alignments and numbers of threads. The box needs that
the Euclidean algorithm returns a common divisor: the prover has no induction over data,
so the argument is that of the least counterexample, from the well-foundedness of the natural
numbers as a fact on a set (`WFMin`). `NoOverflow` bounds the products by the largest `int`.
`ReductionCorrect` composes this with the invariant of the pool: in a state in which the
caller reduces, the log of every worker has its task of this call, once.

**Barrier** (in `CommunicatorProofs`). `BarrierTypeCorrect`, `BarrierCorrect`, from the
assumption of `Barrier` alone, if `~Reuse`: no thread comes back after an exception. The
invariant places every thread in history (`Place`): it is to arrive at the current barrier,
waits in it with `wait` equal to the flag, or has not yet seen the release of the previous one,
with `wait` the negation of the flag; and it says what the counter counts (`Count`), also
between the two stores of the release. With `Reuse` both fail, see section 7.

**Communicator** (`CommunicatorProofs`, on top of the invariant of the barrier).
`CommTypeCorrect`, `CommBarrierCorrect`, `HandlesCorrect`, `BuffersCorrect`, `Refinement` (`Spec
=> ImplementsCollective`), for any number of threads, of calls and of runs, with failures
anywhere outside the calls, until a run begins after an aborted one (`~spoilt`). `Phase` counts
the barriers of a thread against its calls. `AbortI` is the key of the error case: an abort
comes from somebody who failed *outside* a call, so that the barrier the others are in can never
complete, and nobody works on buffers from which a thread was thrown out. A run that begins
without an error finds each thread where the last one left it, between two calls, so the counts
of `Phase` go on from run to run. The refinement adds what a buffer holds at each moment
(`BufferI`). `CommAlways` carries the invariant over spoilt runs: what it says is "as long as no
run is spoilt".

**MemoryPool** (`MemoryPoolProofs`). `BlocksCorrect`, `RequestsCorrect`. `SizeI` says that
the size of a block in use follows from its request: the pool of the request while a pool
owns it, the same or the exact size afterwards. Without it a transferred buffer could go
back with a wrong size. On top of it `CountI` gives `TypeCorrect`, `AccountingCorrect` and
`NothingLeaks`: the counters are the sums of the blocks, do not wrap around, and keep to the
limit. A sum over blocks is the number of their bytes (`Bytes`, `IdleBytes`), so that what
the library proves of finite sets is enough to add and subtract.

**StackAllocator** (`StackAllocatorProofs`). `TypeCorrect`, `PointerCorrect`,
`HandlesCorrect`, `SizesCorrect`, `OneBlockCorrect`, assuming `Regular`: the heap does not
fail and a thread holds at most 2 GB (`MaxAlloc <= IntHalf`). The invariant says that the
handles tile the blocks without gaps from the beginning of the first to the end of the last
(`HandlesI`, with `Adjacent`), which makes the offset alone determine block and size; that
block sizes add up to the counter (`CountI`), and why a second block means new need
(`RoomI`). Both halves of `Regular` are needed, see section 7.

**CudaDeviceSlots** (`CudaDeviceSlotsProofs`). `TypeCorrect`, `ExclusiveCorrect`,
`SlotsComeBack`, `CaptureCorrect`, `LocksCorrect`: any number of processes, threads, slots,
crashes, exceptions and timeouts. The invariant ties the locks to the places of their holders
(so that at most one caller of all processes is between `LockFile` and `Close`), the entries of
the file to the handles, and the start times in the file to a clock that never gives one twice;
the entry that is half written belongs to the holder of the lock or to a process that has died.
Where the lock of each caller is said by `LockI`, `HeldI` says whose each lock is: the holder of
a mutex is a caller that is past `LockMutex`, or one whose `Open` has thrown.

**DistributedTraining** (`DistributedTrainingProofs`). `NetworksAgree` and `CallsMatch` (assuming
`Careful`), `WeightsCorrect`: any number of threads, layers, operations, any batches,
errors anywhere. The heart of the invariant is `LockStepI`: as long as no thread has
failed, all have completed the same number of collective calls, because solvers that make
different numbers of them are excluded (`SolversI`); then `TrainedI` (the layers already
reduced agree) and `AgreeI` (outside a step only a layer that is about to be broadcast may
differ). `CallsMatch` is the safety half of
`OperationsReturn`: no thread waits for one that is past the call or has left. In `Train` it
follows from `LockStepI`; in a run `LeavesI` adds that a thread leaves only when its network is
initialised, and then all are, or with an abort that is called or about to be.

**Network** (`NetworkProofs`). `GradientsAreComplete` and `DataflowImplemented` (`Spec =>
ImplementsDataflow`): any number of networks without cycles, of any size, edited, resized,
run and trained in any order, with exceptions anywhere, assuming `Careful`. The invariant
`NetworkI` says that the calls in progress are a path from a sink towards the sources, so
that no layer calls itself (`CallI`). Forward, a layer bears the number of the run if and only
if it has computed or is being called (`ForwardI`). Backward, the counts and diffs of a
layer are those of the inputs connected to it whose layers were trained (`CountI`,
`DiffsI`), and a layer that has all of them is either trained or still to be called by one
of the calls in progress (`PendingI`): that is what a pass would lose if it stopped at a
layer that is not ready. Between the passes all counts are zero and there are no diffs
(`SettledI`), which is where a rebuild after an exception is needed. A greatest and a least
layer in the order of the graph come from the well-foundedness of the natural numbers
(`LeastNumber`, `GreatestNumber`, `TopLayer`).

`ShapesAreCurrent`, under the same assumption, has an invariant of its own, `ShapesI`. A layer
that is not forced has the shape that `Reshape` would choose for the sizes it last saw (`FitI`),
and needs the blobs it would choose now, unless the learning of a single layer has been switched
since all were forced (`relearned`). Outside `reshape()` either all layers are stale or all have
seen the sizes of now (`StaleI`), and within it the layers whose calls have returned are
current, and so are their inputs (`ReshapeI`): a change of size forces every consumer before it
can be called current. `backwardNeeded` is the least set the graph allows, unless every layer is
forced or a layer was relearned (`LeastI`).

`InputsAreCurrent`, `ResultsAreIntact` and `NeededBlobsAreHeld` are about the blobs. Source
layers and layers that compute in place have one output at most (`SingleOutput`); for the second
theorem sinks have an input (`SinksRead`), for the third no layer that computes in place asks
for its inputs in the backward pass (`InPlaceForgets`: without it the third is false, that is
the product in place of section 7), and it is not about runs after `relearned`. The argument has
three parts.

* The recursion of `buildOrder` and that of `runOnce` are one sequence of moves that the graph
  alone determines (`Moves`, `Reached`, `OneBefore`), whatever each of them marks the visited
  layers with. So the last user of an output, the layer that met it last in the build, is the
  last to run of those that read it (`LastUserIn`, `LastRuns`): what it drops, or computes in
  place of, nobody reads later. What a sink reads has no last user (`SinksDisable`).
* A blob bears the name of the port it was created for and is passed on along chains of ports,
  each computed in place of the one before (`Over`, `Up`). Such chains do not fork, because the
  layer in place is the last user of its input (`OverI`), so two layers that hold the same blob
  are in one chain, also when the blob is left from an earlier run (`NameI`, `RenameI`).
* In a pass a port that nothing has been computed in place of (`Fresh`) has its value in its
  blob, for those who still read it, for the user and for the backward pass (`RunI`, `BackI`).
  A layer that writes spoils only ports that are before it in its chain (`NotWritten`), and
  these are not fresh any more.

**Recurrent** (`RecurrentProofs`). All five properties of the run `recurrent`, for any set of
inner networks of any size, any number of back links, lengths, repeat counts, runs and calls
between them. The theorems on the backward pass rest on `DiffI` (`CloseI`, `SumI`, `LinkDiffI`)
and `TrainI` (`DiffI`, `ParamI`, `InputDiffI`):

* `CloseI`: a layer is run back after all its readers. `SumI`: what it has received are the
  terms of the readers that were run back in this position (`Arrived`) and, if a back link
  captures it, that link's term of the position after. `LinkDiffI`: the diff a capture sink
  holds is of the position its back link was last run back in, and is cleared when the link
  runs in the last position of the forward pass. It is used before it is replaced because the
  sink is downstream of its link: that some path leads there is not known by a bound, so the
  proof takes the set of all layers that a layer not yet run back is upstream of, and
  `ClosedBack` does the rest.
* `ParamI` and `InputDiffI` say what the positions done so far have left in `paramDiff`, `given`
  and `inputDiff`: in `inputDiff` the terms of all the readers of an item in the positions that
  have read it, but those of a back link in the first position alone.

The theorems on what is read and kept rest on `BlobI`:

* Layers share a blob along a line: a layer, the one it computes in place of, and so on
  (`Line`). Only the last user of an output computes in place of it, so lines do not fork
  (`LinesMeet`): of two layers that hold the same blob one is upstream of the other. `OwnI`
  says that a layer holds a blob of its line, with an item for each position.
* A layer whose last user neither writes over it nor drops it before the last position (`Solid`)
  keeps all the items of the positions done (`SolidI`); what is dropped in the last position is
  not needed any more (`Gone`). The inputs of the composite sinks are such since a sink disables
  the last user (`SinkI`), which gives `OutputsAreComplete`; the blobs needed by the backward
  pass are (`InI`, `BackI`), which gives `BackwardHasItsBlobsCorrect`. The latter exempts, with
  reuse of memory, the inputs whose last user does not keep them (`LastUserKeeps`, section 7),
  and assumes `InPlaceForgets`, as `NeededBlobsAreHeld` of `Network` does and for the same
  reason.
* What a layer has computed in this position is there as long as somebody is to read it
  (`ReadI`); a back link copies what its history says (`LinkI`, `Due`).

Assumptions on the constants are the `ASSUME`s of the modules. They are evaluated by TLC
in the runs. `Careful`, `Regular`, `ForkJoin`, `InPlaceForgets` and the like are
hypotheses of single theorems and stand in their statements.

## 7. Disagreements between the code and its comments

Three runs are expected to violate one property each; `PROJECT.json` quotes the lines.

* **Lost wakeup** (`pool_queue`). `threadEntry` waits at `ThreadPool.cpp:175` after each
  task without a look at its queue. A task pushed for the same worker while it was running
  the previous one stays queued until the next notification; `WaitAllTask`, which "waits
  for all tasks to complete", does not return. For the same reason a stop that is requested
  while a task runs is not seen, and `join` does not return. The library itself only calls
  `ExecuteTasks`, from one thread, and never queues two tasks for a worker; it returns when
  the queues are empty, and a worker pops its task and begins to wait in one critical
  section. So its use is safe, which `pool_forkjoin` checks and `NoWakeupLost` proves.
* **Training hang** (`train_hang`). A thread may have no data, says `DnnDistributed.h:30`,
  except on the first run. If it has none in the first *training* run its solver knows no
  layers and makes no `AllReduce` call. The same after `SetSolver`.
* **Product in place** (`network_overwrite`). `CEltwiseBaseLayer::Reshape` makes the
  elementwise layers compute in place when their inputs may be overwritten, the product too,
  whose `BackwardOnce` multiplies by the inputs. With inputs that nobody else needs and a
  layer to train before it the gradient of the second factor is wrong.

Other places where the code asks more than it says became assumptions of the models:

* a communicator used after an aborted run keeps the arrivals of the threads thrown out, and
  nothing resets its counter: the theorems on it end with the run that follows (`spoilt`), the
  run `comm` still shows that nobody hangs;
* `CDeviceStackBlock` does not look whether the heap returned null; the block stays on top of
  the stack after `StackAlloc` has thrown, and the handle that is freed next is not from it. A
  handle 2 GB above the beginning of its block has a negative `int` offset. In both cases
  `PointerBelongsToHead` fails: the two halves of `Regular`;
* after an exception in `Reshape` or in the backward pass only a rebuild clears the state that is
  left: `Careful` of `Network`;
* `EnableLearning` of one layer reshapes only that layer. If the layers after it take part in the
  backward pass from then on, they have still the blobs of before: in a network of two fully
  connected layers with `CHSwishLayer` between them, with learning of the first one switched on
  after a run without it, the activation has dropped the input that its `BackwardOnce` reads
  (`Dnn.h:293`). `NeededBlobsHeld` and `ShapesCurrent` exempt what follows such a call
  (`relearned`);
* "If layer needs its inputs or outputs for training then it needs them for all the steps of
  the recurrent part", says `BaseLayer.cpp:649`; with reuse of memory the last user of an output
  alone decides whether it is dropped before the last position, so another layer that needs it
  loses the blob of the earlier ones: the exception `LastUserKeeps` in `BackwardHasItsBlobs`.
  It takes an inner layer that needs its input, a later reader of that input which does not,
  and a training run on a GPU or distributed engine;
* a back link that follows its input in every position (teacher forcing) passes its diff to that
  input in the first position only (`BackLinkLayer.cpp:108`): the sum that `TrainingComplete`
  demands has the terms of a back link in that position and no others;
* `CDeviceFile::Open` sets `fd` last. The assertions before (`CudaDevice.cpp:249-254`: the file
  has not its length and cannot be filled) throw with the mutex of the process and the lock of
  the file held, and the destructor frees nothing when `fd` is not set. Both stay until the
  process ends, and every other call, of any process, times out: the exception `leaked` in
  `LocksHeldInCalls`;
* a release of slots that cannot open the file in time forgets them (`forgotten`), and a
  start time that cannot be parsed makes a dead process look alive: the exceptions in
  `NoSlotLost`.

## 8. What is only model-checked, and what is not modelled

Only model-checked:

* liveness (`ParallelRunReturns`, `DeleteCompletes`, `RunsEnd`, `NetworkRunsEnd`, `AbortFrees`,
  `OperationsReturn`): the prover does not reach fairness and `ENABLED`;
* a communicator that is used after an aborted run (that it does not hang).

Neither checked nor proved, though the models have it:

* a stack whose heap fails, or that holds 2 GB or more (`Regular`), and a network that is used
  without a rebuild after an exception in `Reshape` or in the backward pass (`Careful`);
* the exceptions of section 7.

Abstracted in the models:

* floating-point numbers: contributions, origins and counts stand for them;
* a run of a network is one step in `DistributedTraining`; gradient accumulation, which
  does not touch other threads, is the flag `hasDiff`;
* the weights of the layers: a run reads them and writes none. `CDnn`'s recurrent mode is not in
  `Network` but in `Recurrent`, which in turn has no exceptions and no edits;
* data races that do not reach the state of a model: the two handlers that may assign
  `errorMessage` at a time, the out-of-bounds read before the assertion of
  `MemoryPool.cpp:200`;
* the order of `reduceOrder`, of which the model has the number of layers (all copies are made of
  one network and train it in the order of one recursion), and that
  the batch of a `RunOnce` counts in the weights of the next `Train`, which is taken as the rule;
* the blob that `SetState` shares with the caller;
* the choice among several devices and the Windows semaphores of `CudaDevice.cpp`;
* saving and loading, logging, counters of performance.

Components that are not modelled are in the table of section 1.1, with the reason in
`PROJECT.json`. Most of the repository is arithmetic: kernels for five kinds of devices (and
vendored `mlas` and `xbyak`), a hundred layers, the training algorithms and their models. It
is sequential or data-parallel, and correct when its numbers are right, which is not a
question for a model checker. The protocols of the code are in the modules above.

## 9. Plan

The order was: the pool on which all parallel code runs; the communicator with its
lock-free barrier; the two allocators under every computation; the trainer that uses them
all; the network graph that every run goes through; the slots shared by processes; the
parallel loops with the partition of their work; the recurrent layers. What could still be added:

1. Heap and the stacks of several threads composed under the mutex of the engine: stack
   blocks are live heap blocks, a failure reaches the caller.
2. The composition of `DistributedTraining` with `Communicator` (the meeting implemented by
   the calls).

## 10. How to run

In this directory, with TLC and the TLA+ community modules on the path:

    tlc -config MCThreadPool_safety.cfg MCThreadPool
    tlapm ThreadPoolProofs.tla

The name of a configuration starts with the module it belongs to.
