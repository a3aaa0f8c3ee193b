--------------------------- MODULE StackAllocator ---------------------------
(***************************************************************************)
(* CDeviceStackAllocator (NeoMathEngine/src/                               *)
(* MathEngineDeviceStackAllocator.cpp): memory for the temporary buffers   *)
(* of one thread, given and taken back strictly in LIFO order.             *)
(*                                                                         *)
(* The memory comes in blocks from the heap.  A block remembers only how   *)
(* much of it is in use, so a handle is recognised by its offset alone,    *)
(* and it is the caller's order that makes it belong to the top block.     *)
(* Stacks of different threads share nothing but the heap; the host twin   *)
(* (MathEngineHostStackAllocator.cpp) differs in the type of a handle.     *)
(***************************************************************************)
EXTENDS Integers, Sequences

CONSTANTS Addresses,           \* the buffers of the heap
          NoBuffer,            \* the null handle
          Requests,            \* the sizes the user asks for
          memoryAlignment,
          StackBlockQuantum,
          MaxAlloc,            \* bound: the memory the user holds at a time
          MaxHandles,          \* bound: the handles the user holds at a time
          IntHalf,             \* 2^31: an int is in -IntHalf .. IntHalf - 1
          SizeModulus,         \* 2^64: a size_t is in 0 .. SizeModulus - 1
          HeapMayFail          \* may the heap run out of memory?

ASSUME StackAssumption ==
    /\ NoBuffer \notin Addresses
    /\ Requests \subseteq Nat \ {0}
    /\ memoryAlignment \in Nat \ {0}
    /\ StackBlockQuantum \in Nat \ {0}
    /\ MaxAlloc \in Nat /\ MaxHandles \in Nat
    /\ IntHalf \in Nat /\ SizeModulus \in Nat
    /\ MaxAlloc < 2 * IntHalf /\ 4 * IntHalf < SizeModulus
    /\ HeapMayFail \in BOOLEAN

VARIABLES
    blocks,             \* from the first block to head
    maxAllocSize,
    curAllocSize,
    handles,            \* history: the handles the user holds, the newest last
    settledMax          \* history: maxAllocSize when the user last held none

vars == <<blocks, maxAllocSize, curAllocSize, handles, settledMax>>

LastOf(s) == s[Len(s)]
AllButLast(s) == SubSeq(s, 1, Len(s) - 1)

head == LastOf(blocks)

\* The difference of two handles: operator- returns an int.
ToInt(x) == IF x < IntHalf THEN x ELSE x - 2 * IntHalf

\* Arithmetic of size_t.
ToSize(x) == IF x < 0 THEN x + SizeModulus
             ELSE IF x < SizeModulus THEN x ELSE x - SizeModulus

RoundUp(size, unit) == ((size + unit - 1) \div unit) * unit

Aligned(size) == RoundUp(size, memoryAlignment)

Larger(x, y) == IF x >= y THEN x ELSE y

\* A new block whose first bytes are given out; history: what the blocks below hold.
Block(buffer, size, used, below) ==
    [buffer |-> buffer, blockSize |-> RoundUp(size, StackBlockQuantum),
     allocSize |-> used, below |-> below]

Handle(buffer, offset, size, level) ==
    [buffer |-> buffer, offset |-> offset, size |-> size, level |-> level]

\* Mutant of Fits: the end of the block is not looked at.
FitsAnyhow(block, size) == block.allocSize <= block.blockSize

\* The test of TryAlloc.
Fits(block, size) == ToSize(block.allocSize + size) <= block.blockSize

IsNull(buffer, offset) == buffer = NoBuffer /\ offset = 0

\* The buffers the heap may give to a new block when it holds those of bs.
HeapResults(bs) ==
    (Addresses \ {bs[i].buffer : i \in DOMAIN bs}) \cup (IF HeapMayFail THEN {NoBuffer} ELSE {})

Init ==
    /\ blocks = <<>>
    /\ maxAllocSize = 0
    /\ curAllocSize = 0
    /\ handles = <<>>
    /\ settledMax = 0

\* StackAlloc throws when the handle is null; the user never sees it.
GiveOut(buffer, offset, size, level) ==
    handles' = IF IsNull(buffer, offset) THEN handles
               ELSE Append(handles, Handle(buffer, offset, size, level))

\* The counters at the beginning of Alloc.
Count(size) ==
    /\ curAllocSize' = ToSize(curAllocSize + size)
    /\ maxAllocSize' = Larger(maxAllocSize, curAllocSize')

\* Mutant of MustReplace: a first block that is too small stays.
MustReplaceNever(max) == blocks = <<>>

\* Is the first block to be made, or made anew because it is too small?
MustReplace(max) ==
    \/ blocks = <<>>
    \/ Len(blocks) = 1 /\ head.blockSize < max /\ head.allocSize = 0

\* Alloc that makes one block for all the memory ever needed.
AllocFirstBlock(size) ==
    /\ MustReplace(maxAllocSize')
    /\ \E buffer \in HeapResults(<<>>) :
          /\ blocks' = <<Block(buffer, maxAllocSize', size, 0)>>
          /\ GiveOut(buffer, 0, size, 1)

\* TryAlloc on the current block.
AllocInHead(size) ==
    /\ ~MustReplace(maxAllocSize')
    /\ Fits(head, size)
    /\ ~IsNull(head.buffer, head.allocSize)
    /\ blocks' = [blocks EXCEPT ![Len(blocks)].allocSize = ToSize(@ + size)]
    /\ GiveOut(head.buffer, head.allocSize, size, Len(blocks))

\* TryAlloc fails and a new block is put on top.  A block without a buffer that holds
\* nothing returns a null handle for success: the size is counted in it all the same.
AllocNewBlock(size) ==
    /\ ~MustReplace(maxAllocSize')
    /\ Fits(head, size) => IsNull(head.buffer, head.allocSize)
    /\ LET tried == IF Fits(head, size)
                    THEN [blocks EXCEPT ![Len(blocks)].allocSize = ToSize(@ + size)]
                    ELSE blocks
       IN \E buffer \in HeapResults(blocks) :
             /\ blocks' = Append(tried, Block(buffer, size, size, curAllocSize))
             /\ GiveOut(buffer, 0, size, Len(blocks) + 1)

Alloc(size) ==
    /\ Len(handles) < MaxHandles
    /\ curAllocSize + size <= MaxAlloc
    /\ Count(size)
    /\ AllocFirstBlock(size) \/ AllocInHead(size) \/ AllocNewBlock(size)
    /\ UNCHANGED settledMax

\* Mutant of Pop: an empty block stays on top.
PopNever(bs) == bs

\* The top block goes when it is empty and not the only one.
Pop(bs) == IF LastOf(bs).allocSize = 0 /\ Len(bs) > 1 THEN AllButLast(bs) ELSE bs

\* Mutant of Released: the size of what remains.
ReleasedRest(diff) == diff

\* What CDeviceStackBlock::Free returns.
Released(diff) == ToSize(head.allocSize - diff)

\* Free of the newest handle: the order the interface asks for.
Free ==
    /\ handles # <<>>
    /\ blocks # <<>>
    /\ LET diff == ToInt(LastOf(handles).offset) IN
       /\ blocks' = Pop([blocks EXCEPT ![Len(blocks)].allocSize = ToSize(diff)])
       /\ curAllocSize' = ToSize(curAllocSize - Released(diff))
    /\ handles' = AllButLast(handles)
    /\ settledMax' = IF Len(handles) = 1 THEN maxAllocSize ELSE settledMax
    /\ UNCHANGED maxAllocSize

\* CleanUp of a thread that holds no handle.
CleanUp ==
    /\ handles = <<>>
    /\ blocks' = <<>>
    /\ maxAllocSize' = 0
    /\ curAllocSize' = 0
    /\ settledMax' = 0
    /\ UNCHANGED handles

Next ==
    \/ \E request \in Requests : Alloc(Aligned(request))
    \/ Free
    \/ CleanUp

Spec == Init /\ [][Next]_vars

-----------------------------------------------------------------------------
(* Properties.                                                             *)

BlockType ==
    [buffer : Addresses \cup {NoBuffer}, blockSize : Nat, allocSize : Nat, below : Nat]
HandleType ==
    [buffer : Addresses \cup {NoBuffer}, offset : Nat, size : Nat, level : Nat \ {0}]

\* The type invariant of the stack of a thread; the counters are ordered.
TypeOK ==
    /\ blocks \in Seq(BlockType)
    /\ handles \in Seq(HandleType)
    /\ curAllocSize \in 0 .. maxAllocSize
    /\ maxAllocSize \in 0 .. MaxAlloc
    /\ settledMax \in 0 .. maxAllocSize

\* "the pointer belongs to this block": the handle that Free takes next is the last
\* one given out from head, so that its offset finds its place and its size.
PointerBelongsToHead ==
    handles # <<>> =>
        LET h == LastOf(handles) IN
        /\ blocks # <<>>
        /\ h.buffer = head.buffer
        /\ 0 <= ToInt(h.offset) /\ ToInt(h.offset) < head.blockSize
        /\ h.offset + h.size = head.allocSize

\* The memory of a handle is in a block of the stack that has a buffer, within what
\* the block gave out, and no two handles overlap.
HandlesDisjoint ==
    /\ \A i \in DOMAIN handles : LET h == handles[i] IN
          /\ h.level \in DOMAIN blocks
          /\ LET block == blocks[h.level] IN
             /\ h.buffer = block.buffer /\ h.buffer # NoBuffer
             /\ h.offset + h.size <= block.allocSize
             /\ block.allocSize <= block.blockSize
    /\ \A i, j \in DOMAIN handles :
          i < j /\ handles[i].buffer = handles[j].buffer =>
              handles[i].offset + handles[i].size <= handles[j].offset

\* The counters agree with the blocks: curAllocSize is what the blocks gave out, and
\* a thread without handles has at most one block, an empty one (CleanUp presumes it).
SizesAgree ==
    /\ blocks # <<>> => curAllocSize = head.below + head.allocSize
    /\ handles = <<>> => /\ curAllocSize = 0
                         /\ Len(blocks) <= 1
                         /\ blocks # <<>> => head.allocSize = 0

\* "Tries to keep all allocated memory in one block": a second block is made only
\* when the thread needs more than it ever did before it last held no memory.
OneBlockForSettledUse == Len(blocks) > 1 => maxAllocSize > settledMax
=============================================================================
