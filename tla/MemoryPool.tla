----------------------------- MODULE MemoryPool -----------------------------
(***************************************************************************)
(* CMemoryPool (NeoMathEngine/src/MemoryPool.cpp): the heap of a math      *)
(* engine.  Every thread has pools of free buffers, one pool per buffer    *)
(* size; a buffer in use belongs to a pool of some thread and returns to   *)
(* it, whichever thread frees it.                                          *)
(*                                                                         *)
(* Every operation runs under CCpuMathEngine::mutex and is one action.     *)
(* A pool is a set: the order of its list decides only which of the equal  *)
(* buffers is taken.  The pools of a thread exist from the beginning,      *)
(* empty, where the code creates them on first use.                        *)
(***************************************************************************)
EXTENDS Integers, FiniteSets

CONSTANTS Threads,
          Addresses,         \* where the raw memory manager may put a block
          BufferSizes,       \* the sizes of the pools
          Requests,          \* the sizes the user asks for
          memoryLimit,
          defaultReuseMemoryMode,
          RawMayFail         \* may the raw memory manager fail within the limit?

ASSUME MemoryPoolAssumption ==
    /\ IsFiniteSet(Addresses)
    /\ BufferSizes \subseteq Nat \ {0} /\ IsFiniteSet(BufferSizes) /\ BufferSizes # {}
    /\ Requests \subseteq Nat \ {0}
    /\ memoryLimit \in Nat
    /\ defaultReuseMemoryMode \in BOOLEAN
    /\ RawMayFail \in BOOLEAN

VARIABLES
    Enabled,            \* CThreadData::Enabled of every thread
    Pool,               \* Pool[t][b]: the free buffers of size b of thread t
    usedMap,            \* the addresses in usedMap
    info,               \* their CUsedInfo: a size, or the OwnerPool of a buffer
    allocatedMemory,
    freeMemorySize,
    peakMemoryUsage,
    raw,                \* external: the size of the block at an address, 0 if none
    asked,              \* history: the size the user of an address asked for
    destroyed           \* has ~CMemoryPool run?

counters == <<allocatedMemory, freeMemorySize, peakMemoryUsage>>
vars == <<Enabled, Pool, usedMap, info, counters, raw, asked, destroyed>>

NoPool == <<>>
Pools == Threads \X BufferSizes

\* CUsedInfo( size ) and CUsedInfo( buffer )
PlainInfo(size) == [size |-> size, owner |-> NoPool]
BufferInfo(t, b) == [size |-> 0, owner |-> <<t, b>>]

\* Mutant of PoolSize: the buffer may be one byte short.
PoolSizeShort(size) ==
    CHOOSE b \in BufferSizes : b + 1 >= size /\ \A c \in BufferSizes : c + 1 >= size => b <= c

\* The smallest pool that is large enough.
PoolSize(size) ==
    CHOOSE b \in BufferSizes : b >= size /\ \A c \in BufferSizes : c >= size => b <= c

HasPool(size) == \E b \in BufferSizes : b >= size

Pooled(t, size) == Enabled[t] /\ HasPool(size)

\* What tryAlloc asks of alloc.
Needed(t, size) == IF Pooled(t, size) THEN PoolSize(size) ELSE size

\* The limit that alloc checks.
Fits(allocated, size) == size <= memoryLimit /\ allocated <= memoryLimit - size

\* The free buffers of thread t.
Idle(t) == UNION {Pool[t][b] : b \in BufferSizes}

\* The memory in the pools of the threads in T: every free buffer counts for as many
\* bytes as the size of its pool.
IdleBytes(T) == UNION {{p} \X Pool[p[1]][p[2]] \X (1 .. p[2]) : p \in T \X BufferSizes}
MemoryInPools(T) == Cardinality(IdleBytes(T))

EmptyPools == [b \in BufferSizes |-> {}]

Larger(x, y) == IF x >= y THEN x ELSE y

Init ==
    /\ Enabled = [t \in Threads |-> defaultReuseMemoryMode]
    /\ Pool = [t \in Threads |-> EmptyPools]
    /\ usedMap = {}
    /\ info = [a \in Addresses |-> PlainInfo(0)]
    /\ allocatedMemory = 0
    /\ freeMemorySize = memoryLimit
    /\ peakMemoryUsage = 0
    /\ raw = [a \in Addresses |-> 0]
    /\ asked = [a \in Addresses |-> 0]
    /\ destroyed = FALSE

SetReuseMemoryMode(t, enable) ==
    /\ Enabled' = [Enabled EXCEPT ![t] = enable]
    /\ UNCHANGED <<Pool, usedMap, info, counters, raw, asked, destroyed>>

\* The bookkeeping of a successful tryAlloc.
GiveOut(t, size, a) ==
    /\ usedMap' = usedMap \cup {a}
    /\ info' = [info EXCEPT ![a] = IF Pooled(t, size) THEN BufferInfo(t, PoolSize(size))
                                   ELSE PlainInfo(size)]
    /\ freeMemorySize' = freeMemorySize - Needed(t, size)
    /\ asked' = [asked EXCEPT ![a] = size]
    /\ UNCHANGED <<Enabled, destroyed>>

\* Alloc from the pool.
Reuse(t, size, a) ==
    /\ Pooled(t, size)
    /\ a \in Pool[t][PoolSize(size)]
    /\ Pool' = [Pool EXCEPT ![t][PoolSize(size)] = @ \ {a}]
    /\ GiveOut(t, size, a)
    /\ UNCHANGED <<allocatedMemory, peakMemoryUsage, raw>>

NothingToReuse(t, size) == Pooled(t, size) => Pool[t][PoolSize(size)] = {}

\* Alloc of a new block, when the first tryAlloc succeeds.
AllocNew(t, size, a) ==
    LET needed == Needed(t, size) IN
    /\ NothingToReuse(t, size)
    /\ Fits(allocatedMemory, needed)
    /\ raw[a] = 0
    /\ raw' = [raw EXCEPT ![a] = needed]
    /\ allocatedMemory' = allocatedMemory + needed
    /\ peakMemoryUsage' = Larger(peakMemoryUsage, allocatedMemory')
    /\ GiveOut(t, size, a)
    /\ UNCHANGED Pool

\* Both tryAlloc of Alloc look for memory; between them the pools of the calling
\* thread are freed.
FirstTryFails(t, size) ==
    /\ NothingToReuse(t, size)
    /\ RawMayFail \/ ~Fits(allocatedMemory, Needed(t, size))

RawWithout(freed) == [a \in Addresses |-> IF a \in freed THEN 0 ELSE raw[a]]

AllocAfterCleanUp(t, size, a) ==
    LET needed == Needed(t, size)
        kept == allocatedMemory - MemoryInPools({t}) IN
    /\ FirstTryFails(t, size)
    /\ Fits(kept, needed)
    /\ RawWithout(Idle(t))[a] = 0
    /\ raw' = [RawWithout(Idle(t)) EXCEPT ![a] = needed]
    /\ Pool' = [Pool EXCEPT ![t] = EmptyPools]
    /\ allocatedMemory' = kept + needed
    /\ peakMemoryUsage' = Larger(peakMemoryUsage, allocatedMemory')
    /\ GiveOut(t, size, a)

\* The free buffers of the threads in T go back to the raw memory manager.
FreePools(T) ==
    /\ raw' = RawWithout(UNION {Idle(t) : t \in T})
    /\ Pool' = [t \in Threads |-> IF t \in T THEN EmptyPools ELSE Pool[t]]
    /\ allocatedMemory' = allocatedMemory - MemoryInPools(T)
    /\ UNCHANGED <<Enabled, usedMap, info, freeMemorySize, peakMemoryUsage, asked>>

AllocFails(t, size) ==
    /\ FirstTryFails(t, size)
    /\ RawMayFail \/ ~Fits(allocatedMemory - MemoryInPools({t}), Needed(t, size))
    /\ FreePools({t})
    /\ UNCHANGED destroyed

Alloc(t) ==
    \E size \in Requests :
        \/ \E a \in Addresses :
              Reuse(t, size, a) \/ AllocNew(t, size, a) \/ AllocAfterCleanUp(t, size, a)
        \/ AllocFails(t, size)

\* Mutant of FreeBuffer: the size that was asked for is given back.
FreeBufferAsked(a) ==
    /\ a \in usedMap
    /\ info[a].owner # NoPool
    /\ LET t == info[a].owner[1]
           b == info[a].owner[2] IN
       /\ Pool' = [Pool EXCEPT ![t][b] = @ \cup {a}]
       /\ freeMemorySize' = freeMemorySize + asked[a]
    /\ usedMap' = usedMap \ {a}
    /\ UNCHANGED <<Enabled, info, allocatedMemory, peakMemoryUsage, raw, asked, destroyed>>

\* Free of a buffer, by any thread: it returns to its owner's pool.
FreeBuffer(a) ==
    /\ a \in usedMap
    /\ info[a].owner # NoPool
    /\ LET t == info[a].owner[1]
           b == info[a].owner[2] IN
       /\ Pool' = [Pool EXCEPT ![t][b] = @ \cup {a}]
       /\ freeMemorySize' = freeMemorySize + b
    /\ usedMap' = usedMap \ {a}
    /\ UNCHANGED <<Enabled, info, allocatedMemory, peakMemoryUsage, raw, asked, destroyed>>

\* Free of memory that no pool owns.
FreePlain(a) ==
    /\ a \in usedMap
    /\ info[a].owner = NoPool
    /\ allocatedMemory' = allocatedMemory - info[a].size
    /\ freeMemorySize' = freeMemorySize + info[a].size
    /\ raw' = [raw EXCEPT ![a] = 0]
    /\ usedMap' = usedMap \ {a}
    /\ UNCHANGED <<Enabled, Pool, info, peakMemoryUsage, asked, destroyed>>

\* Mutant of TransferHandleToThisThread: a buffer that leaves the pools keeps the
\* size that was asked for.
TransferAskedSize(t, a) ==
    /\ a \in usedMap
    /\ info[a].owner # NoPool
    /\ info' = [info EXCEPT ![a] = IF Enabled[t] THEN BufferInfo(t, info[a].owner[2])
                                   ELSE PlainInfo(asked[a])]
    /\ UNCHANGED <<Enabled, Pool, usedMap, counters, raw, asked, destroyed>>

\* TransferHandleToThisThread of a buffer, with the pools of t on or off.
TransferHandleToThisThread(t, a) ==
    /\ a \in usedMap
    /\ info[a].owner # NoPool
    /\ LET size == info[a].owner[2] IN
       info' = [info EXCEPT ![a] = IF Enabled[t] THEN BufferInfo(t, size) ELSE PlainInfo(size)]
    /\ UNCHANGED <<Enabled, Pool, usedMap, counters, raw, asked, destroyed>>

CleanUp(t) ==
    /\ FreePools({t})
    /\ UNCHANGED destroyed

ResetPeakMemoryUsage ==
    /\ peakMemoryUsage' = allocatedMemory
    /\ UNCHANGED <<Enabled, Pool, usedMap, info, allocatedMemory, freeMemorySize, raw,
                   asked, destroyed>>

\* Mutant of Destroy: the pools of one thread are forgotten.
DestroyAllButOne ==
    /\ FreePools(Threads \ {CHOOSE t \in Threads : TRUE})
    /\ destroyed' = TRUE

\* ~CMemoryPool
Destroy ==
    /\ FreePools(Threads)
    /\ destroyed' = TRUE

Next ==
    /\ ~destroyed
    /\ \/ \E t \in Threads :
             \/ \E enable \in BOOLEAN : SetReuseMemoryMode(t, enable)
             \/ Alloc(t)
             \/ \E a \in Addresses : TransferHandleToThisThread(t, a)
             \/ CleanUp(t)
       \/ \E a \in Addresses : FreeBuffer(a) \/ FreePlain(a)
       \/ ResetPeakMemoryUsage
       \/ Destroy

Spec == Init /\ [][Next]_vars

-----------------------------------------------------------------------------
(* Properties.                                                             *)

\* The memory of the blocks in S, byte by byte.
Bytes(S) == UNION {{a} \X (1 .. raw[a]) : a \in S}
Total(S) == Cardinality(Bytes(S))

\* What freeMemory will subtract when the memory at a goes back.
Accounted(a) == IF info[a].owner = NoPool THEN info[a].size ELSE info[a].owner[2]

\* The type invariant of the heap; the unsigned counters never wrap around.
TypeOK ==
    /\ Enabled \in [Threads -> BOOLEAN]
    /\ Pool \in [Threads -> [BufferSizes -> SUBSET Addresses]]
    /\ usedMap \subseteq Addresses
    /\ info \in [Addresses -> [size : Nat, owner : Pools \cup {NoPool}]]
    /\ allocatedMemory \in 0 .. memoryLimit
    /\ freeMemorySize \in 0 .. memoryLimit
    /\ peakMemoryUsage \in allocatedMemory .. memoryLimit
    /\ raw \in [Addresses -> Nat]
    /\ asked \in [Addresses -> Nat]
    /\ destroyed \in BOOLEAN

\* Every block is in one place: in use, or free in one pool; and it goes back with
\* the size it was allocated with, however often it changed its thread.
BlocksOwned ==
    /\ \A a \in Addresses :
          raw[a] > 0 <=> a \in usedMap \/ \E t \in Threads : a \in Idle(t)
    /\ \A t \in Threads, b \in BufferSizes : \A a \in Pool[t][b] :
          /\ raw[a] = b
          /\ a \notin usedMap
          /\ \A u \in Threads, c \in BufferSizes : a \in Pool[u][c] => u = t /\ c = b
    /\ \A a \in usedMap : raw[a] = Accounted(a)

\* A block in use has room for what was asked, and its request passes the
\* assertions of TransferHandleToThisThread.
RequestsHonoured ==
    \A a \in usedMap :
        /\ asked[a] <= raw[a]
        /\ info[a].owner = NoPool =>
            \/ asked[a] = info[a].size
            \/ HasPool(asked[a]) /\ PoolSize(asked[a]) = info[a].size

BlocksCounted ==
    /\ allocatedMemory = Total(Addresses)
    /\ freeMemorySize = memoryLimit - Total(usedMap)

\* The counters: allocatedMemory is what the raw manager gave out, freeMemorySize
\* the limit without the memory in use, and the peak has never been above the limit.
Accounting == BlocksCounted /\ peakMemoryUsage \in allocatedMemory .. memoryLimit

\* The destructor returns all the memory that is not in use.
NoLeak == destroyed => allocatedMemory = Total(usedMap)
=============================================================================
