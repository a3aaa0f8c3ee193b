------------------------ MODULE StackAllocatorProofs ------------------------
(***************************************************************************)
(* Proofs about StackAllocator for a heap that does not fail and stacks    *)
(* of less than 2 GB, where the difference of two handles is exact.        *)
(***************************************************************************)
EXTENDS StackAllocator, SequenceTheorems, TLAPS

\* The condition of the theorems.
Regular == ~HeapMayFail /\ MaxAlloc <= IntHalf

-----------------------------------------------------------------------------
(* Sequences and sizes.                                                    *)

\* The blocks or handles without the last one.
LEMMA AllButLastFacts ==
    ASSUME NEW S, NEW s \in Seq(S), s # <<>>
    PROVE  /\ AllButLast(s) \in Seq(S)
           /\ Len(AllButLast(s)) = Len(s) - 1
           /\ \A i \in 1 .. Len(s) - 1 : AllButLast(s)[i] = s[i]
           /\ LastOf(s) \in S
           /\ Len(s) \in Nat \ {0}
<1>1. Len(s) \in Nat \ {0}
  OBVIOUS
<1>2. LastOf(s) \in S
  BY <1>1 DEF LastOf
<1>3. \A i \in 1 .. Len(s) - 1 : s[i] \in S
  BY <1>1
<1>4. /\ AllButLast(s) \in Seq(S)
      /\ Len(AllButLast(s)) = IF 1 <= Len(s) - 1 THEN Len(s) - 1 - 1 + 1 ELSE 0
      /\ \A i \in 1 .. Len(s) - 1 - 1 + 1 : AllButLast(s)[i] = s[1 + i - 1]
  BY <1>1, <1>3, SubSeqProperties DEF AllButLast
<1>5. Len(AllButLast(s)) = Len(s) - 1
  <2>1. CASE Len(s) = 1
    BY <1>4, <2>1
  <2>2. CASE Len(s) > 1
    BY <1>1, <1>4, <2>2
  <2>3. Len(s) = 1 \/ Len(s) > 1
    <3>1. PICK n \in Nat \ {0} : n = Len(s)
      BY <1>1
    <3>2. n = 1 \/ n > 1
      OBVIOUS
    <3> QED
      BY <3>1, <3>2
  <2> QED
    BY <2>1, <2>2, <2>3
<1>6. \A i \in 1 .. Len(s) - 1 : AllButLast(s)[i] = s[i]
  <2>1. TAKE i \in 1 .. Len(s) - 1
  <2>2. i \in 1 .. Len(s) - 1 - 1 + 1 /\ 1 + i - 1 = i
    BY <1>1
  <2> QED
    BY <1>4, <2>2
<1> QED
  BY <1>1, <1>2, <1>4, <1>5, <1>6

LEMMA AppendFacts ==
    ASSUME NEW S, NEW s \in Seq(S), NEW e \in S
    PROVE  /\ Append(s, e) \in Seq(S)
           /\ Len(Append(s, e)) = Len(s) + 1
           /\ \A i \in 1 .. Len(s) : Append(s, e)[i] = s[i]
           /\ Append(s, e)[Len(s) + 1] = e
           /\ LastOf(Append(s, e)) = e
           /\ Append(s, e) # <<>>
  BY DEF LastOf

\* Rounding up to a multiple never gives less.
LEMMA RoundUpIsLarger ==
    ASSUME NEW size \in Nat, NEW unit \in Nat \ {0}
    PROVE  RoundUp(size, unit) \in Nat /\ RoundUp(size, unit) >= size
<1> DEFINE x == size + unit - 1
           q == x \div unit
<1>1. x \in Nat
  OBVIOUS
<1>2. q \in Nat /\ x = q * unit + (x % unit) /\ x % unit \in 0 .. unit - 1
  BY <1>1, Z3
<1>3. q * unit \in Nat
  BY <1>2
<1> QED
  BY <1>1, <1>2, <1>3 DEF RoundUp

-----------------------------------------------------------------------------
(***************************************************************************)
(* The inductive invariant.  BlocksI: the blocks are stacked without gaps  *)
(* in what they count.  HandlesI: so are the handles, from the beginning   *)
(* of the first block to the end of the last one.  CountI ties the         *)
(* counters to the blocks, RoomI says why a second block means new need.   *)
(***************************************************************************)
BlocksI ==
    /\ \A i \in 1 .. Len(blocks) :
          /\ blocks[i].buffer # NoBuffer
          /\ blocks[i].allocSize <= blocks[i].blockSize
          /\ i > 1 => blocks[i].allocSize > 0
    /\ \A i, j \in 1 .. Len(blocks) : i # j => blocks[i].buffer # blocks[j].buffer
    /\ blocks # <<>> => blocks[1].below = 0
    /\ \A i \in 1 .. Len(blocks) :
          i > 1 => blocks[i].below = blocks[i - 1].below + blocks[i - 1].allocSize

End(h) == h.offset + h.size

HandleInBlock(bs, h) ==
    /\ h.size > 0
    /\ h.level \in 1 .. Len(bs)
    /\ h.buffer = bs[h.level].buffer
    /\ End(h) <= bs[h.level].allocSize

Before(g, h) ==
    \/ g.level < h.level
    \/ g.level = h.level /\ End(g) <= h.offset

\* h was given out right after g.
Adjacent(bs, g, h) ==
    \/ g.level = h.level /\ End(g) = h.offset
    \/ /\ h.offset = 0 /\ g.level = h.level - 1
       /\ End(g) = bs[g.level].allocSize

HandlesIn(bs, hs) ==
    /\ \A i \in 1 .. Len(hs) : HandleInBlock(bs, hs[i])
    /\ \A i, j \in 1 .. Len(hs) : i < j => Before(hs[i], hs[j])
    /\ \A i \in 1 .. Len(hs) : i > 1 => Adjacent(bs, hs[i - 1], hs[i])
    /\ hs # <<>> =>
          /\ hs[1].offset = 0 /\ hs[1].level = 1
          /\ hs[Len(hs)].level = Len(bs)
          /\ End(hs[Len(hs)]) = bs[Len(bs)].allocSize
    /\ hs = <<>> => Len(bs) <= 1 /\ (bs # <<>> => bs[1].allocSize = 0)

HandlesI == HandlesIn(blocks, handles)

CountI ==
    /\ blocks = <<>> => curAllocSize = 0
    /\ blocks # <<>> =>
          curAllocSize = blocks[Len(blocks)].below + blocks[Len(blocks)].allocSize

RoomI ==
    /\ handles # <<>> => blocks[1].blockSize >= settledMax
    /\ Len(blocks) > 1 => maxAllocSize > settledMax

Inv == TypeOK /\ BlocksI /\ HandlesI /\ CountI /\ RoomI

\* The sizes that the user's requests become.
LEMMA AlignedIsPositive ==
    ASSUME NEW request \in Requests
    PROVE  Aligned(request) \in Nat \ {0}
<1>1. request \in Nat \ {0} /\ memoryAlignment \in Nat \ {0}
  BY StackAssumption
<1> QED
  BY <1>1, RoundUpIsLarger DEF Aligned

LEMMA InvInit ==
    ASSUME Init
    PROVE  Inv
<1>1. blocks = <<>> /\ handles = <<>> /\ Len(blocks) = 0 /\ Len(handles) = 0
  BY DEF Init
<1>2. TypeOK
  BY StackAssumption, <1>1 DEF Init, TypeOK
<1>3. BlocksI /\ HandlesI
  BY <1>1 DEF BlocksI, HandlesI, HandlesIn
<1>4. CountI /\ RoomI
  BY <1>1 DEF CountI, RoomI, Init
<1> QED
  BY <1>2, <1>3, <1>4 DEF Inv

\* The counters of Alloc are exact.
LEMMA CountFacts ==
    ASSUME TypeOK, NEW size \in Nat \ {0}, curAllocSize + size <= MaxAlloc, Count(size)
    PROVE  /\ curAllocSize' = curAllocSize + size
           /\ maxAllocSize' \in 0 .. MaxAlloc
           /\ maxAllocSize' >= maxAllocSize /\ maxAllocSize' >= curAllocSize'
           /\ settledMax <= maxAllocSize'
<1>1. curAllocSize \in Nat /\ MaxAlloc \in Nat /\ MaxAlloc < SizeModulus
      /\ maxAllocSize \in 0 .. MaxAlloc /\ settledMax \in 0 .. maxAllocSize
      /\ SizeModulus \in Nat
  BY StackAssumption DEF TypeOK
<1>2. curAllocSize' = curAllocSize + size
  BY <1>1 DEF Count, ToSize
<1> QED
  BY <1>1, <1>2 DEF Count, Larger

\* The fields of a new block and of a new handle.
LEMMA BlockTypeFacts ==
    ASSUME NEW buffer \in Addresses \cup {NoBuffer}, NEW size \in Nat, NEW used \in Nat,
           NEW below \in Nat
    PROVE  /\ Block(buffer, size, used, below) \in BlockType
           /\ Block(buffer, size, used, below).buffer = buffer
           /\ Block(buffer, size, used, below).blockSize >= size
           /\ Block(buffer, size, used, below).blockSize \in Nat
           /\ Block(buffer, size, used, below).allocSize = used
           /\ Block(buffer, size, used, below).below = below
<1>1. RoundUp(size, StackBlockQuantum) \in Nat /\ RoundUp(size, StackBlockQuantum) >= size
  BY StackAssumption, RoundUpIsLarger
<1> QED
  BY <1>1 DEF Block, BlockType

LEMMA HandleTypeFacts ==
    ASSUME NEW buffer \in Addresses \cup {NoBuffer}, NEW offset \in Nat,
           NEW size \in Nat, NEW level \in Nat \ {0}
    PROVE  /\ Handle(buffer, offset, size, level) \in HandleType
           /\ Handle(buffer, offset, size, level).buffer = buffer
           /\ Handle(buffer, offset, size, level).offset = offset
           /\ Handle(buffer, offset, size, level).size = size
           /\ Handle(buffer, offset, size, level).level = level
  BY DEF Handle, HandleType

-----------------------------------------------------------------------------
(* Alloc.                                                                  *)

\* Until the first handle, there is no block, or one that is empty.
LEMMA FirstBlockStep ==
    ASSUME Regular, Inv, NEW size \in Nat \ {0}, curAllocSize + size <= MaxAlloc,
           Count(size), AllocFirstBlock(size), UNCHANGED settledMax
    PROVE  Inv'
<1>1. /\ blocks \in Seq(BlockType) /\ handles \in Seq(HandleType)
      /\ curAllocSize \in Nat /\ settledMax \in Nat
      /\ MaxAlloc \in Nat
  BY StackAssumption DEF Inv, TypeOK
<1>2. /\ curAllocSize' = curAllocSize + size /\ maxAllocSize' \in 0 .. MaxAlloc
      /\ maxAllocSize' >= curAllocSize' /\ settledMax' = settledMax
      /\ settledMax <= maxAllocSize'
  BY CountFacts DEF Inv
<1>3. PICK buffer \in HeapResults(<<>>) :
          /\ blocks' = <<Block(buffer, maxAllocSize', size, 0)>>
          /\ GiveOut(buffer, 0, size, 1)
  BY DEF AllocFirstBlock
<1>4. buffer \in Addresses /\ buffer # NoBuffer
  BY <1>3, StackAssumption DEF HeapResults, Regular
<1>5. blocks = <<>> \/ (Len(blocks) = 1 /\ blocks[1].allocSize = 0)
  <2>1. MustReplace(maxAllocSize')
    BY DEF AllocFirstBlock
  <2>2. blocks = <<>> \/ (Len(blocks) = 1 /\ blocks[Len(blocks)].allocSize = 0)
    BY <2>1 DEF MustReplace, head, LastOf
  <2> QED
    BY <2>2
<1>6. handles = <<>>
  <2>1. SUFFICES ASSUME handles # <<>> PROVE FALSE
    OBVIOUS
  <2>2. Len(handles) \in Nat \ {0} /\ handles[Len(handles)] \in HandleType
    BY <1>1, <2>1
  <2>3. HandleInBlock(blocks, handles[Len(handles)])
    BY <2>2 DEF Inv, HandlesI, HandlesIn
  <2>4. Len(blocks) = 1
    BY <1>5, <2>3 DEF HandleInBlock
  <2>5. blocks[1].allocSize = 0
    BY <1>5, <2>4
  <2> QED
    BY <2>2, <2>3, <2>4, <2>5 DEF HandleInBlock, End, HandleType
<1>7. curAllocSize = 0
  <2>1. CASE blocks = <<>>
    BY <2>1 DEF Inv, CountI
  <2>2. CASE Len(blocks) = 1 /\ blocks[1].allocSize = 0
    BY <2>2 DEF Inv, CountI, BlocksI
  <2> QED
    BY <1>5, <2>1, <2>2
<1> DEFINE b == Block(buffer, maxAllocSize', size, 0)
           h == Handle(buffer, 0, size, 1)
<1>8. /\ b \in BlockType /\ b.buffer = buffer /\ b.blockSize >= maxAllocSize'
      /\ b.blockSize \in Nat /\ b.allocSize = size /\ b.below = 0
  BY <1>2, <1>4, BlockTypeFacts
<1>9. /\ h \in HandleType /\ h.buffer = buffer /\ h.offset = 0 /\ h.size = size
      /\ h.level = 1
  BY <1>4, HandleTypeFacts
<1>10. blocks' = <<b>> /\ handles' = <<h>>
  BY <1>3, <1>4, <1>6 DEF GiveOut, IsNull
<1> HIDE DEF b, h
<1>11. /\ Len(blocks') = 1 /\ Len(handles') = 1 /\ blocks'[1] = b /\ handles'[1] = h
       /\ blocks' # <<>> /\ handles' # <<>>
  BY <1>10
<1>12. TypeOK'
  BY <1>2, <1>1, <1>8, <1>9, <1>10 DEF TypeOK
<1>13. BlocksI'
  BY <1>2, <1>4, <1>7, <1>8, <1>11 DEF BlocksI
<1>14. HandlesI'
  BY <1>8, <1>9, <1>11 DEF HandlesI, HandlesIn, HandleInBlock, End
<1>15. CountI' /\ RoomI'
  BY <1>1, <1>2, <1>7, <1>8, <1>11 DEF CountI, RoomI
<1> QED
  BY <1>12, <1>13, <1>14, <1>15 DEF Inv

\* A handle pushed on the last block, which may be a new one, keeps the order.
LEMMA PushKeepsOrder ==
    ASSUME NEW bs \in Seq(BlockType), NEW cs \in Seq(BlockType),
           NEW hs \in Seq(HandleType), NEW h \in HandleType,
           HandlesIn(bs, hs), bs # <<>>, h.size > 0,
           h.level = Len(cs), h.buffer = cs[Len(cs)].buffer,
           End(h) = cs[Len(cs)].allocSize,
           \A i \in 1 .. Len(bs) : cs[i].buffer = bs[i].buffer,
           \A i \in 1 .. Len(bs) : i < Len(cs) => cs[i].allocSize = bs[i].allocSize,
           \/ Len(cs) = Len(bs) /\ h.offset = bs[Len(bs)].allocSize
           \/ Len(cs) = Len(bs) + 1 /\ h.offset = 0 /\ hs # <<>>
    PROVE  HandlesIn(cs, Append(hs, h))
<1>1. PICK n \in Nat \ {0} : n = Len(bs)
  OBVIOUS
<1>2. PICK l \in Nat \ {0} : l = Len(cs)
  BY <1>1
<1>3. PICK m \in Nat : m = Len(hs)
  OBVIOUS
<1>4. n <= l
  BY <1>1, <1>2
<1> DEFINE ks == Append(hs, h)
<1>5. /\ Len(ks) = m + 1 /\ ks # <<>> /\ ks[m + 1] = h
      /\ \A i \in 1 .. m : ks[i] = hs[i]
  BY <1>3, AppendFacts
<1> HIDE DEF ks
<1>6. \A i \in 1 .. n : bs[i] \in BlockType
  BY <1>1
<1>7. \A i \in 1 .. l : cs[i] \in BlockType
  BY <1>2
<1>8. \A i \in 1 .. m : hs[i] \in HandleType /\ HandleInBlock(bs, hs[i])
  BY <1>3 DEF HandlesIn
<1>9. h.offset \in Nat /\ h.size \in Nat /\ h.offset + h.size = cs[l].allocSize
  BY <1>2 DEF HandleType, End
\* No block holds less than before.
<1>10. \A i \in 1 .. n : bs[i].allocSize <= cs[i].allocSize
  <2>1. TAKE i \in 1 .. n
  <2>2. bs[i].allocSize \in Nat
    BY <1>6 DEF BlockType
  <2>3. CASE i < l
    BY <2>2, <2>3, <1>1, <1>2
  <2>4. CASE i = l
    BY <2>2, <2>4, <1>1, <1>2, <1>4, <1>9
  <2> QED
    BY <2>3, <2>4, <1>4
<1>11. \A i \in 1 .. m :
          /\ hs[i].level \in 1 .. n /\ hs[i].size > 0
          /\ hs[i].buffer = bs[hs[i].level].buffer
          /\ End(hs[i]) \in Nat /\ End(hs[i]) <= bs[hs[i].level].allocSize
  BY <1>1, <1>8, SMTT(30) DEF HandleInBlock, End, HandleType
<1>12. ASSUME NEW i \in 1 .. m + 1
       PROVE  HandleInBlock(cs, ks[i])
  <2>1. CASE i = m + 1
    <3>1. /\ ks[i] = h /\ h.level \in 1 .. Len(cs) /\ h.buffer = cs[h.level].buffer
          /\ End(h) = cs[h.level].allocSize /\ cs[h.level].allocSize \in Nat
      BY <2>1, <1>2, <1>5, <1>7, SMTT(30) DEF BlockType
    <3> QED
      BY <3>1 DEF HandleInBlock
  <2>2. CASE i \in 1 .. m
    <3>1. PICK level \in 1 .. n : level = hs[i].level
      BY <2>2, <1>11
    <3>2. End(hs[i]) <= bs[level].allocSize /\ bs[level].allocSize <= cs[level].allocSize
      BY <2>2, <3>1, <1>10, <1>11
    <3>3. bs[level].allocSize \in Nat /\ cs[level].allocSize \in Nat /\ End(hs[i]) \in Nat
      <4>1. level \in 1 .. l
        BY <3>1, <1>4
      <4>2. bs[level] \in BlockType /\ cs[level] \in BlockType
        BY <3>1, <4>1, <1>6, <1>7
      <4> QED
        BY <2>2, <4>2, <1>11 DEF BlockType
    <3>4. End(hs[i]) <= cs[level].allocSize
      BY <3>2, <3>3, SMTT(30)
    <3>5. hs[i].buffer = cs[level].buffer /\ hs[i].size > 0
      BY <2>2, <3>1, <1>1, <1>11
    <3> QED
      BY <2>2, <3>1, <3>4, <3>5, <1>2, <1>4, <1>5 DEF HandleInBlock
  <2> QED
    BY <2>1, <2>2
\* The handles of the last block end before h begins.
<1>13. ASSUME NEW i \in 1 .. m
       PROVE  Before(hs[i], h)
  <2>1. CASE l = n /\ h.offset = bs[n].allocSize
    <3>1. PICK level \in 1 .. n : level = hs[i].level
      BY <1>11
    <3>2. level = n => End(hs[i]) <= h.offset
      BY <2>1, <3>1, <1>11
    <3>3. level < n \/ level = n
      BY <3>1
    <3>4. h.level = n
      BY <2>1, <1>2
    <3> QED
      BY <3>1, <3>2, <3>3, <3>4 DEF Before
  <2>2. CASE l = n + 1
    BY <2>2, <1>1, <1>2, <1>11 DEF Before
  <2> QED
    BY <2>1, <2>2, <1>1, <1>2
<1>14. ASSUME NEW i \in 1 .. m + 1, NEW j \in 1 .. m + 1, i < j
       PROVE  Before(ks[i], ks[j])
  <2>1. i \in 1 .. m
    BY <1>14
  <2>2. CASE j = m + 1
    BY <2>1, <2>2, <1>5, <1>13
  <2>3. CASE j \in 1 .. m
    BY <2>1, <2>3, <1>3, <1>5, <1>14 DEF HandlesIn
  <2> QED
    BY <2>2, <2>3
<1>15. ASSUME NEW i \in 1 .. m + 1, i > 1
       PROVE  Adjacent(cs, ks[i - 1], ks[i])
  <2>1. i - 1 \in 1 .. m /\ ks[i - 1] = hs[i - 1]
    BY <1>5, <1>15
  <2>2. CASE i \in 1 .. m
    <3>1. Adjacent(bs, hs[i - 1], hs[i])
      BY <2>2, <1>3, <1>15 DEF HandlesIn
    <3>2. hs[i - 1].level \in 1 .. n /\ hs[i].level \in 1 .. n
      BY <2>1, <2>2, <1>11
    <3>3. hs[i - 1].level = hs[i].level - 1 =>
             cs[hs[i - 1].level].allocSize = bs[hs[i - 1].level].allocSize
      <4>1. PICK p \in 1 .. n : p = hs[i - 1].level
        BY <3>2
      <4>2. PICK q \in 1 .. n : q = hs[i].level
        BY <3>2
      <4>3. p = q - 1 => p < l
        BY <1>4
      <4> QED
        BY <4>1, <4>2, <4>3, <1>1, <1>2
    <3> QED
      BY <2>1, <2>2, <3>1, <3>3, <1>5 DEF Adjacent
  <2>3. CASE i = m + 1
    <3>1. m >= 1 /\ hs # <<>>
      BY <2>1, <1>3
    <3>2. hs[m].level = n /\ End(hs[m]) = bs[n].allocSize
      BY <3>1, <1>1, <1>3 DEF HandlesIn
    <3>3. ks[i] = h /\ ks[i - 1] = hs[m] /\ h.level = l
      BY <2>1, <2>3, <1>2, <1>5
    <3>4. CASE l = n /\ h.offset = bs[n].allocSize
      BY <3>2, <3>3, <3>4 DEF Adjacent
    <3>5. CASE l = n + 1 /\ h.offset = 0
      <4>1. cs[n].allocSize = bs[n].allocSize
        BY <3>5, <1>1, <1>2
      <4> QED
        BY <3>2, <3>3, <3>5, <4>1 DEF Adjacent
    <3> QED
      BY <3>4, <3>5, <1>1, <1>2
  <2> QED
    BY <2>2, <2>3
<1>16. ks[1].offset = 0 /\ ks[1].level = 1
  <2>1. CASE m = 0
    <3>1. hs = <<>> /\ n = 1 /\ bs[1].allocSize = 0
      BY <2>1, <1>1, <1>3 DEF HandlesIn
    <3>2. ks[1] = h
      BY <2>1, <1>5
    <3>3. Len(cs) = Len(bs) /\ h.offset = bs[Len(bs)].allocSize
      BY <3>1
    <3> QED
      BY <3>1, <3>2, <3>3, <1>1
  <2>2. CASE m > 0
    BY <2>2, <1>3, <1>5 DEF HandlesIn
  <2> QED
    BY <2>1, <2>2
<1>17. HandlesIn(cs, ks)
  BY <1>2, <1>5, <1>12, <1>14, <1>15, <1>16 DEF HandlesIn
<1> QED
  BY <1>17 DEF ks

\* The new handle follows the last one in its block.
LEMMA InHeadStep ==
    ASSUME Regular, Inv, NEW size \in Nat \ {0}, curAllocSize + size <= MaxAlloc,
           Count(size), AllocInHead(size), UNCHANGED settledMax
    PROVE  Inv'
<1>1. /\ blocks \in Seq(BlockType) /\ handles \in Seq(HandleType)
      /\ curAllocSize \in Nat /\ settledMax \in Nat /\ maxAllocSize \in Nat
      /\ MaxAlloc \in Nat /\ SizeModulus \in Nat /\ MaxAlloc < SizeModulus
  BY StackAssumption DEF Inv, TypeOK
<1>2. /\ curAllocSize' = curAllocSize + size /\ maxAllocSize' \in 0 .. MaxAlloc
      /\ maxAllocSize' >= curAllocSize' /\ settledMax' = settledMax
      /\ settledMax <= maxAllocSize' /\ maxAllocSize' >= maxAllocSize
  BY CountFacts DEF Inv
<1>3. blocks # <<>>
  <2>1. ~MustReplace(maxAllocSize')
    BY DEF AllocInHead
  <2> QED
    BY <2>1 DEF MustReplace
<1>4. PICK n \in Nat \ {0} : n = Len(blocks)
  BY <1>1, <1>3
<1>5. PICK b \in BlockType : b = blocks[n]
  BY <1>1, <1>4
<1>6. PICK used \in Nat : used = b.allocSize
  BY <1>5 DEF BlockType
<1>7. head = b
  BY <1>4, <1>5 DEF head, LastOf
<1>8. curAllocSize = b.below + used
  BY <1>3, <1>4, <1>5, <1>6 DEF Inv, CountI
<1>9. /\ b.below \in Nat /\ b.blockSize \in Nat
      /\ b.buffer \in Addresses \cup {NoBuffer} /\ b.buffer # NoBuffer
  BY <1>4, <1>5 DEF BlockType, Inv, BlocksI
<1>10. used + size \in Nat /\ ToSize(used + size) = used + size
  <2>1. used + size <= MaxAlloc
    BY <1>1, <1>8, <1>9
  <2> QED
    BY <2>1, <1>1 DEF ToSize
<1>11. used + size <= b.blockSize
  BY <1>6, <1>7, <1>10 DEF AllocInHead, Fits
<1> DEFINE h == Handle(b.buffer, used, size, n)
           c == [b EXCEPT !.allocSize = used + size]
<1>12. /\ h \in HandleType /\ h.buffer = b.buffer /\ h.offset = used
       /\ h.size = size /\ h.level = n
  BY <1>9, HandleTypeFacts
<1>13. /\ c \in BlockType /\ c.allocSize = used + size /\ c.buffer = b.buffer
       /\ c.blockSize = b.blockSize /\ c.below = b.below
  BY <1>5, <1>10 DEF BlockType
<1>14. blocks' = [blocks EXCEPT ![n] = c]
  BY <1>1, <1>4, <1>5, <1>6, <1>10 DEF AllocInHead
<1>15. handles' = Append(handles, h)
  BY <1>4, <1>6, <1>7, <1>9 DEF AllocInHead, GiveOut, IsNull
<1> HIDE DEF h, c
<1>16. /\ blocks' \in Seq(BlockType) /\ Len(blocks') = n /\ blocks' # <<>>
       /\ \A i \in 1 .. n : i # n => blocks'[i] = blocks[i]
       /\ blocks'[n] = c
  BY <1>1, <1>4, <1>13, <1>14
<1>17. /\ handles' \in Seq(HandleType) /\ Len(handles') = Len(handles) + 1
       /\ \A i \in 1 .. Len(handles) : handles'[i] = handles[i]
       /\ handles'[Len(handles) + 1] = h /\ handles' # <<>>
  BY <1>1, <1>12, <1>15, AppendFacts, SMTT(30)
<1>18. PICK m \in Nat : m = Len(handles)
  BY <1>1
<1>19. \A i \in 1 .. m : /\ handles[i] \in HandleType
                         /\ HandleInBlock(blocks, handles[i])
  BY <1>1, <1>18 DEF Inv, HandlesI, HandlesIn
<1>20. TypeOK'
  BY <1>1, <1>2, <1>16, <1>17 DEF TypeOK
<1>21. BlocksI'
  <2>1. \A i \in 1 .. n : blocks'[i].buffer = blocks[i].buffer
    BY <1>5, <1>13, <1>16
  <2>2. \A i \in 1 .. n : blocks'[i].below = blocks[i].below
    BY <1>5, <1>13, <1>16
  <2>3. \A i \in 1 .. n : i > 1 => i - 1 \in 1 .. n /\ i - 1 # n
    BY <1>4
  <2>4. \A i \in 1 .. n : i > 1 => blocks'[i - 1] = blocks[i - 1]
    BY <2>3, <1>16
  <2>5. \A i \in 1 .. n : /\ blocks[i].buffer # NoBuffer
                          /\ blocks[i].allocSize <= blocks[i].blockSize
                          /\ i > 1 => blocks[i].allocSize > 0
    BY <1>4 DEF Inv, BlocksI
  <2>6. \A i \in 1 .. n : /\ blocks'[i].buffer # NoBuffer
                          /\ blocks'[i].allocSize <= blocks'[i].blockSize
                          /\ i > 1 => blocks'[i].allocSize > 0
    BY <2>5, <1>9, <1>10, <1>11, <1>13, <1>16
  <2>7. \A i, j \in 1 .. n : i # j => blocks'[i].buffer # blocks'[j].buffer
    BY <2>1, <1>4 DEF Inv, BlocksI
  <2>8. blocks'[1].below = 0
    BY <2>2, <1>3, <1>4 DEF Inv, BlocksI
  <2>9. \A i \in 1 .. n :
           i > 1 => blocks'[i].below = blocks'[i - 1].below + blocks'[i - 1].allocSize
    BY <2>2, <2>4, <1>4 DEF Inv, BlocksI
  <2> QED
    BY <2>6, <2>7, <2>8, <2>9, <1>16 DEF BlocksI
<1>22. HandlesI'
  <2>1. \A i \in 1 .. Len(blocks) : blocks'[i].buffer = blocks[i].buffer
    BY <1>4, <1>5, <1>13, <1>16
  <2>2. \A i \in 1 .. Len(blocks) :
           i < Len(blocks') => blocks'[i].allocSize = blocks[i].allocSize
    BY <1>4, <1>16
  <2>3. End(h) = blocks'[Len(blocks')].allocSize
    BY <1>12, <1>13, <1>16 DEF End
  <2>4. h.offset = blocks[Len(blocks)].allocSize /\ Len(blocks') = Len(blocks)
    BY <1>4, <1>5, <1>6, <1>12, <1>16
  <2>5. h.level = Len(blocks') /\ h.buffer = blocks'[Len(blocks')].buffer /\ h.size > 0
    BY <1>12, <1>13, <1>16
  <2>6. HandlesIn(blocks', Append(handles, h))
    BY <1>1, <1>3, <1>12, <1>16, <2>1, <2>2, <2>3, <2>4, <2>5, PushKeepsOrder
       DEF Inv, HandlesI
  <2> QED
    BY <2>6, <1>15 DEF HandlesI
<1>23. CountI'
  <2>1. curAllocSize' = b.below + (used + size)
    BY <1>1, <1>2, <1>8, <1>9
  <2> QED
    BY <2>1, <1>13, <1>16 DEF CountI
<1>24. RoomI'
  <2>1. blocks'[1].blockSize = blocks[1].blockSize
    BY <1>4, <1>5, <1>13, <1>16
  <2>2. blocks[1].blockSize >= settledMax
    <3>1. CASE handles # <<>>
      BY <3>1 DEF Inv, RoomI
    <3>2. CASE handles = <<>>
      <4>1. n = 1 /\ used = 0
        BY <3>2, <1>3, <1>4, <1>5, <1>6 DEF Inv, HandlesI, HandlesIn
      <4>2. ~(b.blockSize < maxAllocSize')
        BY <4>1, <1>4, <1>6, <1>7 DEF AllocInHead, MustReplace
      <4> QED
        BY <4>1, <4>2, <1>1, <1>2, <1>5, <1>9
    <3> QED
      BY <3>1, <3>2
  <2>3. n > 1 => maxAllocSize' > settledMax
    BY <1>1, <1>2, <1>4 DEF Inv, RoomI
  <2> QED
    BY <2>1, <2>2, <2>3, <1>2, <1>16 DEF RoomI
<1> QED
  BY <1>20, <1>21, <1>22, <1>23, <1>24 DEF Inv

\* A second block is put on top only when the handles fill the first one.
LEMMA NewBlockStep ==
    ASSUME Regular, Inv, NEW size \in Nat \ {0}, curAllocSize + size <= MaxAlloc,
           Count(size), AllocNewBlock(size), UNCHANGED settledMax
    PROVE  Inv'
<1>1. /\ blocks \in Seq(BlockType) /\ handles \in Seq(HandleType)
      /\ curAllocSize \in Nat /\ settledMax \in Nat /\ maxAllocSize \in Nat
      /\ MaxAlloc \in Nat /\ SizeModulus \in Nat /\ MaxAlloc < SizeModulus
  BY StackAssumption DEF Inv, TypeOK
<1>2. /\ curAllocSize' = curAllocSize + size /\ maxAllocSize' \in 0 .. MaxAlloc
      /\ maxAllocSize' >= curAllocSize' /\ settledMax' = settledMax
      /\ settledMax <= maxAllocSize' /\ maxAllocSize' >= maxAllocSize
  BY CountFacts DEF Inv
<1>3. blocks # <<>>
  <2>1. ~MustReplace(maxAllocSize')
    BY DEF AllocNewBlock
  <2> QED
    BY <2>1 DEF MustReplace
<1>4. PICK n \in Nat \ {0} : n = Len(blocks)
  BY <1>1, <1>3
<1>5. PICK b \in BlockType : b = blocks[n]
  BY <1>1, <1>4
<1>6. PICK used \in Nat : used = b.allocSize
  BY <1>5 DEF BlockType
<1>7. head = b
  BY <1>4, <1>5 DEF head, LastOf
<1>8. curAllocSize = b.below + used
  BY <1>3, <1>4, <1>5, <1>6 DEF Inv, CountI
<1>9. /\ b.below \in Nat /\ b.blockSize \in Nat
      /\ b.buffer \in Addresses \cup {NoBuffer} /\ b.buffer # NoBuffer
  BY <1>4, <1>5 DEF BlockType, Inv, BlocksI
<1>10. used + size \in Nat /\ ToSize(used + size) = used + size
  <2>1. used + size <= MaxAlloc
    BY <1>1, <1>8, <1>9
  <2> QED
    BY <2>1, <1>1 DEF ToSize
<1>11. ~Fits(head, size)
  BY <1>7, <1>9 DEF AllocNewBlock, IsNull
<1>12. used + size > b.blockSize
  BY <1>6, <1>7, <1>9, <1>10, <1>11 DEF Fits
<1>13. handles # <<>>
  <2>1. SUFFICES ASSUME handles = <<>> PROVE FALSE
    OBVIOUS
  <2>2. n = 1 /\ used = 0
    BY <2>1, <1>3, <1>4, <1>5, <1>6 DEF Inv, HandlesI, HandlesIn
  <2>3. ~(b.blockSize < maxAllocSize')
    BY <2>2, <1>4, <1>6, <1>7 DEF AllocNewBlock, MustReplace
  <2> QED
    BY <2>2, <2>3, <1>1, <1>2, <1>9, <1>12
<1>14. PICK buffer \in HeapResults(blocks) :
          /\ blocks' = Append(blocks, Block(buffer, size, size, curAllocSize))
          /\ GiveOut(buffer, 0, size, Len(blocks) + 1)
  BY <1>11 DEF AllocNewBlock
<1>15. /\ buffer \in Addresses /\ buffer # NoBuffer
       /\ \A i \in 1 .. n : blocks[i].buffer # buffer
  BY <1>4, <1>14, StackAssumption DEF HeapResults, Regular
<1> DEFINE c == Block(buffer, size, size, curAllocSize)
           h == Handle(buffer, 0, size, n + 1)
<1>16. /\ c \in BlockType /\ c.buffer = buffer /\ c.blockSize >= size
       /\ c.blockSize \in Nat /\ c.allocSize = size /\ c.below = curAllocSize
  <2>1. size \in Nat
    OBVIOUS
  <2>2. buffer \in Addresses \cup {NoBuffer}
    BY <1>15
  <2>3. curAllocSize \in Nat
    BY <1>1
  <2> HIDE DEF h
  <2> QED
    BY <2>1, <2>2, <2>3, BlockTypeFacts
<1>17. /\ h \in HandleType /\ h.buffer = buffer /\ h.offset = 0 /\ h.size = size
       /\ h.level = n + 1
  BY <1>4, <1>15, HandleTypeFacts
<1>18. blocks' = Append(blocks, c) /\ handles' = Append(handles, h)
  BY <1>4, <1>14, <1>15 DEF GiveOut, IsNull
<1> HIDE DEF c, h
<1>19. /\ blocks' \in Seq(BlockType) /\ Len(blocks') = n + 1 /\ blocks' # <<>>
       /\ \A i \in 1 .. n : blocks'[i] = blocks[i]
       /\ blocks'[n + 1] = c
  BY <1>1, <1>4, <1>16, <1>18, AppendFacts
<1>20. handles' \in Seq(HandleType) /\ handles' # <<>>
  BY <1>1, <1>17, <1>18, AppendFacts
<1>21. TypeOK'
  BY <1>1, <1>2, <1>19, <1>20 DEF TypeOK
<1>22. BlocksI'
  <2>1. \A i \in 1 .. n : /\ blocks[i].buffer # NoBuffer
                          /\ blocks[i].allocSize <= blocks[i].blockSize
                          /\ i > 1 => blocks[i].allocSize > 0
    BY <1>4 DEF Inv, BlocksI
  <2>2. \A i \in 1 .. n + 1 : /\ blocks'[i].buffer # NoBuffer
                              /\ blocks'[i].allocSize <= blocks'[i].blockSize
                              /\ i > 1 => blocks'[i].allocSize > 0
    <3>1. TAKE i \in 1 .. n + 1
    <3>2. CASE i \in 1 .. n
      BY <2>1, <3>2, <1>19
    <3>3. CASE i = n + 1
      BY <3>3, <1>15, <1>16, <1>19
    <3> QED
      BY <3>2, <3>3
  <2>3. \A i, j \in 1 .. n + 1 : i # j => blocks'[i].buffer # blocks'[j].buffer
    <3>1. \A i, j \in 1 .. n : i # j => blocks[i].buffer # blocks[j].buffer
      BY <1>4 DEF Inv, BlocksI
    <3>2. \A i \in 1 .. n : blocks'[i].buffer = blocks[i].buffer
      BY <1>19
    <3>3. blocks'[n + 1].buffer = buffer
      BY <1>16, <1>19
    <3> QED
      BY <3>1, <3>2, <3>3, <1>15
  <2>4. blocks'[1].below = 0
    BY <1>3, <1>4, <1>19 DEF Inv, BlocksI
  <2>5. ASSUME NEW i \in 1 .. n + 1, i > 1
        PROVE  blocks'[i].below = blocks'[i - 1].below + blocks'[i - 1].allocSize
    <3>1. i - 1 \in 1 .. n /\ blocks'[i - 1] = blocks[i - 1]
      BY <2>5, <1>19
    <3>2. CASE i \in 1 .. n
      BY <2>5, <3>1, <3>2, <1>4, <1>19 DEF Inv, BlocksI
    <3>3. CASE i = n + 1
      BY <3>1, <3>3, <1>5, <1>6, <1>8, <1>16, <1>19
    <3> QED
      BY <3>2, <3>3
  <2> QED
    BY <2>2, <2>3, <2>4, <2>5, <1>19 DEF BlocksI
<1>23. HandlesI'
  <2>1. End(h) = blocks'[Len(blocks')].allocSize
    BY <1>16, <1>17, <1>19 DEF End
  <2>2. h.level = Len(blocks') /\ h.buffer = blocks'[Len(blocks')].buffer /\ h.size > 0
    BY <1>16, <1>17, <1>19
  <2>3. /\ \A i \in 1 .. Len(blocks) : blocks'[i].buffer = blocks[i].buffer
        /\ \A i \in 1 .. Len(blocks) :
              i < Len(blocks') => blocks'[i].allocSize = blocks[i].allocSize
    BY <1>4, <1>19
  <2>4. HandlesIn(blocks', Append(handles, h))
    BY <1>1, <1>3, <1>4, <1>13, <1>17, <1>19, <2>1, <2>2, <2>3, PushKeepsOrder
       DEF Inv, HandlesI
  <2> QED
    BY <2>4, <1>18 DEF HandlesI
<1>24. CountI'
  BY <1>2, <1>16, <1>19 DEF CountI
<1>25. RoomI'
  <2>1. blocks[1].blockSize >= settledMax /\ blocks'[1] = blocks[1]
    BY <1>4, <1>13, <1>19 DEF Inv, RoomI
  <2>2. maxAllocSize' > settledMax
    <3>1. CASE n = 1
      <4>1. b.below = 0
        BY <3>1, <1>3, <1>5 DEF Inv, BlocksI
      <4> QED
        BY <3>1, <4>1, <2>1, <1>1, <1>2, <1>5, <1>8, <1>9, <1>12
    <3>2. CASE n > 1
      BY <3>2, <1>1, <1>2, <1>4 DEF Inv, RoomI
    <3> QED
      BY <3>1, <3>2
  <2> QED
    BY <2>1, <2>2, <1>2 DEF RoomI
<1> QED
  BY <1>21, <1>22, <1>23, <1>24, <1>25 DEF Inv

-----------------------------------------------------------------------------
(* Free.                                                                   *)

\* Without its newest handle, and without its last block if that one is empty and not
\* the only one, a stack is still in order.
LEMMA PopKeepsOrder ==
    ASSUME NEW bs \in Seq(BlockType), NEW cs \in Seq(BlockType),
           NEW hs \in Seq(HandleType), hs # <<>>, bs # <<>>, HandlesIn(bs, hs),
           NEW off \in Nat, off = hs[Len(hs)].offset,
           \A i \in 1 .. Len(bs) : i < Len(bs) => cs[i] = bs[i],
           \/ /\ Len(cs) = Len(bs) /\ (off > 0 \/ Len(bs) = 1)
              /\ cs[Len(bs)].buffer = bs[Len(bs)].buffer
              /\ cs[Len(bs)].allocSize = off
           \/ Len(cs) = Len(bs) - 1 /\ off = 0 /\ Len(bs) > 1
    PROVE  HandlesIn(cs, AllButLast(hs))
<1>1. PICK n \in Nat \ {0} : n = Len(bs)
  OBVIOUS
<1>2. PICK l \in Nat \ {0} : l = Len(cs)
  BY <1>1
<1>3. PICK m \in Nat \ {0} : m = Len(hs)
  OBVIOUS
<1> DEFINE ks == AllButLast(hs)
<1>4. Len(ks) = m - 1 /\ \A i \in 1 .. m - 1 : ks[i] = hs[i]
  BY <1>3, AllButLastFacts
<1>5. ks \in Seq(HandleType) /\ (ks = <<>> <=> m = 1)
  <2>1. ks \in Seq(HandleType) /\ Len(ks) = m - 1
    BY <1>3, <1>4, AllButLastFacts
  <2> QED
    BY <2>1
<1> HIDE DEF ks
<1>6. \A i \in 1 .. m : hs[i] \in HandleType /\ HandleInBlock(bs, hs[i])
  BY <1>3 DEF HandlesIn
<1>7. \A i \in 1 .. m :
          /\ hs[i].level \in 1 .. n /\ hs[i].size \in Nat /\ hs[i].size > 0
          /\ hs[i].offset \in Nat /\ hs[i].buffer = bs[hs[i].level].buffer
          /\ End(hs[i]) = hs[i].offset + hs[i].size
          /\ End(hs[i]) <= bs[hs[i].level].allocSize
  BY <1>1, <1>6 DEF HandleInBlock, End, HandleType
<1>8. hs[m].level = n /\ hs[m].offset = off
  BY <1>1, <1>3 DEF HandlesIn
<1>9. \/ l = n /\ (off > 0 \/ n = 1) /\ cs[n].buffer = bs[n].buffer /\ cs[n].allocSize = off
      \/ l = n - 1 /\ off = 0 /\ n > 1
  BY <1>1, <1>2
<1>10. \A i \in 1 .. n : i < n => cs[i] = bs[i] /\ i \in 1 .. l
  BY <1>1, <1>9
<1>11. ASSUME NEW i \in 1 .. m - 1
       PROVE  HandleInBlock(cs, hs[i])
  <2>1. i \in 1 .. m /\ i < m /\ m \in 1 .. m
    OBVIOUS
  <2>2. Before(hs[i], hs[m])
    BY <2>1, <1>3 DEF HandlesIn
  <2>3. PICK level \in 1 .. n : level = hs[i].level
    BY <2>1, <1>7
  <2>4. /\ hs[i].size \in Nat /\ hs[i].size > 0 /\ hs[i].offset \in Nat
        /\ hs[i].buffer = bs[level].buffer
        /\ End(hs[i]) = hs[i].offset + hs[i].size
        /\ End(hs[i]) <= bs[level].allocSize
    BY <2>1, <2>3, <1>7
  <2>5. CASE level < n
    <3>1. cs[level] = bs[level] /\ level \in 1 .. l
      BY <2>5, <1>10
    <3> QED
      BY <2>3, <2>4, <3>1, <1>2 DEF HandleInBlock
  <2>6. CASE level = n
    <3>1. End(hs[i]) <= off
      BY <2>2, <2>3, <2>6, <1>8 DEF Before
    <3>2. off > 0
      BY <2>4, <3>1, SMTT(30)
    <3>3. l = n /\ cs[n].buffer = bs[n].buffer /\ cs[n].allocSize = off
      BY <3>2, <1>9
    <3> QED
      BY <2>3, <2>4, <2>6, <3>1, <3>3, <1>2 DEF HandleInBlock
  <2> QED
    BY <2>5, <2>6
<1>12. \A i, j \in 1 .. m - 1 : i < j => Before(ks[i], ks[j])
  <2>1. \A i, j \in 1 .. m : i < j => Before(hs[i], hs[j])
    BY <1>3 DEF HandlesIn
  <2>2. \A i \in 1 .. m - 1 : i \in 1 .. m
    OBVIOUS
  <2> QED
    BY <2>1, <2>2, <1>4
<1>13. ASSUME NEW i \in 1 .. m - 1, i > 1
       PROVE  Adjacent(cs, ks[i - 1], ks[i])
  <2>1. i - 1 \in 1 .. m - 1 /\ ks[i] = hs[i] /\ ks[i - 1] = hs[i - 1]
    BY <1>4, <1>13
  <2>2. Adjacent(bs, hs[i - 1], hs[i])
    BY <1>3, <1>13 DEF HandlesIn
  <2>3. i - 1 \in 1 .. m /\ i \in 1 .. m
    BY <2>1
  <2>4. PICK p \in 1 .. n : p = hs[i - 1].level
    BY <2>3, <1>7
  <2>5. PICK q \in 1 .. n : q = hs[i].level
    BY <2>3, <1>7
  <2>6. p = q - 1 => cs[p] = bs[p]
    BY <1>10
  <2> QED
    BY <2>1, <2>2, <2>4, <2>5, <2>6 DEF Adjacent
<1>14. CASE m = 1
  <2>1. n = 1 /\ off = 0
    BY <1>1, <1>3, <1>8, <1>14 DEF HandlesIn
  <2>2. l = 1 /\ cs[1].allocSize = 0
    BY <2>1, <1>9
  <2>3. HandlesIn(cs, ks)
    <3>1. ks = <<>> /\ 1 .. Len(ks) = {}
      BY <1>4, <1>5, <1>14
    <3>2. Len(cs) <= 1
      <4>1. Len(cs) = 1
        BY <2>2, <1>2
      <4> QED
        BY <4>1
    <3> QED
      BY <2>2, <3>1, <3>2, Zenon DEF HandlesIn
  <2> QED
    BY <2>3 DEF ks
<1>15. CASE m > 1
  <2>1. ks[1].offset = 0 /\ ks[1].level = 1
    BY <1>3, <1>4, <1>15 DEF HandlesIn
  <2>2. Adjacent(bs, hs[m - 1], hs[m]) /\ m - 1 \in 1 .. m
    BY <1>3, <1>15 DEF HandlesIn
  <2>3. hs[m - 1].level = l /\ End(hs[m - 1]) = cs[l].allocSize
    <3>1. CASE hs[m - 1].level = n /\ End(hs[m - 1]) = off
      <4>1. off > 0
        <5>1. End(hs[m - 1]) = hs[m - 1].offset + hs[m - 1].size
              /\ hs[m - 1].offset \in Nat /\ hs[m - 1].size \in Nat /\ hs[m - 1].size > 0
          BY <2>2, <1>7
        <5> QED
          BY <3>1, <5>1
      <4> QED
        BY <3>1, <4>1, <1>9
    <3>2. CASE off = 0 /\ hs[m - 1].level = n - 1 /\ End(hs[m - 1]) = bs[n - 1].allocSize
      <4>1. n > 1
        BY <2>2, <3>2, <1>7
      <4>2. l = n - 1 /\ n - 1 \in 1 .. n /\ n - 1 < n
        BY <3>2, <4>1, <1>9
      <4> QED
        BY <3>2, <4>2, <1>10
    <3> QED
      BY <2>2, <3>1, <3>2, <1>8 DEF Adjacent
  <2>4. ks[m - 1] = hs[m - 1]
    BY <1>4, <1>15
  <2>5. \A i \in 1 .. m - 1 : HandleInBlock(cs, ks[i])
    BY <1>4, <1>11
  <2>6. HandlesIn(cs, ks)
    BY <2>1, <2>3, <2>4, <2>5, <1>2, <1>4, <1>5, <1>12, <1>13, <1>15 DEF HandlesIn
  <2> QED
    BY <2>6 DEF ks
<1> QED
  BY <1>14, <1>15

\* The newest handle is the end of what the last block gave out.
LEMMA NewestHandle ==
    ASSUME Regular, Inv, handles # <<>>
    PROVE  \E n \in Nat \ {0}, m \in Nat \ {0}, b \in BlockType, h \in HandleType :
              /\ n = Len(blocks) /\ b = blocks[n] /\ head = b
              /\ m = Len(handles) /\ h = handles[m] /\ LastOf(handles) = h
              /\ h.level = n /\ h.buffer = b.buffer
              /\ h.size > 0 /\ h.offset + h.size = b.allocSize
              /\ b.allocSize <= b.blockSize
              /\ curAllocSize = b.below + b.allocSize
              /\ h.offset < IntHalf
<1>1. PICK m \in Nat \ {0} : m = Len(handles)
  BY DEF Inv, TypeOK
<1>2. PICK h \in HandleType : h = handles[m]
  BY <1>1 DEF Inv, TypeOK
<1>3. HandleInBlock(blocks, h) /\ h.level = Len(blocks)
      /\ End(h) = blocks[Len(blocks)].allocSize
  BY <1>1, <1>2 DEF Inv, HandlesI, HandlesIn
<1>4. PICK n \in Nat \ {0} : n = Len(blocks)
  BY <1>3 DEF HandleInBlock, Inv, TypeOK
<1>5. PICK b \in BlockType : b = blocks[n]
  BY <1>4 DEF Inv, TypeOK
<1>6. blocks # <<>>
  BY <1>4
<1>7. curAllocSize = b.below + b.allocSize
  BY <1>4, <1>5, <1>6 DEF Inv, CountI
<1>8. b.allocSize <= b.blockSize
  BY <1>4, <1>5 DEF Inv, BlocksI
<1>9. h.level = n /\ h.buffer = b.buffer /\ h.size > 0 /\ h.offset + h.size = b.allocSize
  BY <1>3, <1>4, <1>5 DEF HandleInBlock, End
<1>10. h.offset < IntHalf
  <2>1. curAllocSize <= MaxAlloc /\ curAllocSize \in Nat /\ MaxAlloc <= IntHalf
        /\ MaxAlloc \in Nat /\ IntHalf \in Nat
    BY StackAssumption DEF Inv, TypeOK, Regular
  <2>2. b.below \in Nat /\ b.allocSize \in Nat /\ h.offset \in Nat /\ h.size \in Nat
    BY DEF BlockType, HandleType
  <2> QED
    BY <2>1, <2>2, <1>7, <1>9
<1>11. head = b /\ LastOf(handles) = h
  BY <1>1, <1>2, <1>4, <1>5 DEF head, LastOf
<1> QED
  BY <1>1, <1>2, <1>4, <1>5, <1>7, <1>8, <1>9, <1>10, <1>11

LEMMA FreeStep ==
    ASSUME Regular, Inv, Free
    PROVE  Inv'
<1>1. /\ blocks \in Seq(BlockType) /\ handles \in Seq(HandleType)
      /\ curAllocSize \in Nat /\ settledMax \in Nat /\ maxAllocSize \in Nat
      /\ curAllocSize <= maxAllocSize /\ settledMax <= maxAllocSize
      /\ maxAllocSize <= MaxAlloc /\ MaxAlloc \in Nat
      /\ SizeModulus \in Nat /\ MaxAlloc < SizeModulus /\ IntHalf \in Nat
      /\ IntHalf < SizeModulus
  BY StackAssumption DEF Inv, TypeOK
<1>2. handles # <<>> /\ blocks # <<>>
  BY DEF Free
<1>3. PICK n \in Nat \ {0}, m \in Nat \ {0}, b \in BlockType, h \in HandleType :
          /\ n = Len(blocks) /\ b = blocks[n] /\ head = b
          /\ m = Len(handles) /\ h = handles[m] /\ LastOf(handles) = h
          /\ h.level = n /\ h.buffer = b.buffer
          /\ h.size > 0 /\ h.offset + h.size = b.allocSize
          /\ b.allocSize <= b.blockSize
          /\ curAllocSize = b.below + b.allocSize
          /\ h.offset < IntHalf
  BY <1>2, NewestHandle
<1>4. PICK off \in Nat : off = h.offset
  BY DEF HandleType
<1>5. /\ b.below \in Nat /\ b.allocSize \in Nat /\ h.size \in Nat /\ b.blockSize \in Nat
      /\ b.buffer \in Addresses \cup {NoBuffer} /\ b.buffer # NoBuffer
  BY <1>3 DEF BlockType, HandleType, Inv, BlocksI
<1>6. ToInt(LastOf(handles).offset) = off /\ ToSize(off) = off
  BY <1>1, <1>3, <1>4 DEF ToInt, ToSize
<1>7. b.allocSize - off = h.size
  BY <1>3, <1>4, <1>5
<1>8. h.size <= curAllocSize /\ curAllocSize - h.size = b.below + off
  <2>1. PICK below \in Nat, size \in Nat : below = b.below /\ size = h.size
    BY <1>5
  <2>2. curAllocSize = below + (off + size)
    BY <2>1, <1>3, <1>4
  <2> QED
    BY <2>1, <2>2
<1>9. Released(off) = h.size /\ ToSize(curAllocSize - h.size) = curAllocSize - h.size
  <2>1. h.size < SizeModulus /\ ~(h.size < 0) /\ ~(curAllocSize - h.size < 0)
        /\ curAllocSize - h.size < SizeModulus
    BY <1>1, <1>5, <1>8, SMTT(30)
  <2>2. ToSize(h.size) = h.size
    BY <2>1 DEF ToSize
  <2> QED
    BY <2>1, <2>2, <1>3, <1>7 DEF Released, ToSize
<1>10. curAllocSize' = b.below + off /\ maxAllocSize' = maxAllocSize
       /\ curAllocSize' \in Nat /\ curAllocSize' <= curAllocSize
  <2>1. curAllocSize' = ToSize(curAllocSize - Released(ToInt(LastOf(handles).offset)))
        /\ maxAllocSize' = maxAllocSize
    BY Zenon DEF Free
  <2>2. curAllocSize' = curAllocSize - h.size
    BY <2>1, <1>6, <1>9, Zenon
  <2> HIDE DEF Free
  <2>3. curAllocSize - h.size \in Nat /\ curAllocSize - h.size <= curAllocSize
    BY <1>1, <1>5, <1>8
  <2> QED
    BY <2>1, <2>2, <2>3, <1>8
<1> DEFINE c == [b EXCEPT !.allocSize = off]
           bs == [blocks EXCEPT ![n] = c]
<1>11. /\ c \in BlockType /\ c.allocSize = off /\ c.buffer = b.buffer
       /\ c.blockSize = b.blockSize /\ c.below = b.below
  BY DEF BlockType
<1>12. /\ bs \in Seq(BlockType) /\ Len(bs) = n /\ bs # <<>>
       /\ \A i \in 1 .. n : i # n => bs[i] = blocks[i]
       /\ bs[n] = c
  <2> HIDE DEF c
  <2> QED
    BY <1>1, <1>3, <1>11
<1>13. bs = [blocks EXCEPT ![Len(blocks)].allocSize = ToSize(off)]
  BY <1>1, <1>3, <1>6
<1>14. blocks' = Pop(bs)
  BY <1>6, <1>13 DEF Free
<1> HIDE DEF c, bs
<1>15. LastOf(bs) = c /\ c.allocSize = off
  BY <1>11, <1>12 DEF LastOf
\* Either the last block stays, with less in it, or it goes.
<1>16. \/ Len(blocks') = n /\ (off > 0 \/ n = 1) /\ blocks'[n] = c
       \/ Len(blocks') = n - 1 /\ off = 0 /\ n > 1
  <2>1. CASE off = 0 /\ n > 1
    <3>1. blocks' = AllButLast(bs)
      BY <2>1, <1>12, <1>14, <1>15 DEF Pop
    <3> QED
      BY <2>1, <3>1, <1>12, AllButLastFacts
  <2>2. CASE ~(off = 0 /\ n > 1)
    <3>1. blocks' = bs
      BY <2>2, <1>12, <1>14, <1>15 DEF Pop
    <3> QED
      BY <2>2, <3>1, <1>12
  <2> QED
    BY <2>1, <2>2
<1>17. /\ blocks' \in Seq(BlockType)
       /\ \A i \in 1 .. n : i < n => blocks'[i] = blocks[i]
  <2>1. \A i \in 1 .. n : i < n => bs[i] = blocks[i] /\ i \in 1 .. n - 1
    BY <1>12
  <2>2. CASE blocks' = AllButLast(bs)
    BY <2>1, <2>2, <1>12, AllButLastFacts
  <2>3. CASE blocks' = bs
    BY <2>1, <2>3, <1>12
  <2> QED
    BY <2>2, <2>3, <1>14 DEF Pop
<1>18. handles' \in Seq(HandleType) /\ (handles' = <<>> <=> m = 1)
  <2>1. handles' = AllButLast(handles)
    BY DEF Free
  <2>2. handles' \in Seq(HandleType) /\ Len(handles') = m - 1
    BY <2>1, <1>1, <1>2, <1>3, AllButLastFacts
  <2> QED
    BY <2>2
<1>19. settledMax' = IF m = 1 THEN maxAllocSize ELSE settledMax
  BY <1>3 DEF Free
<1>20. TypeOK'
  BY <1>1, <1>10, <1>17, <1>18, <1>19 DEF TypeOK
<1>21. HandlesI'
  <2>1. HandlesIn(blocks', AllButLast(handles))
    <3>1. HandlesIn(blocks, handles)
      BY DEF Inv, HandlesI
    <3>2. off = handles[Len(handles)].offset
      BY <1>3, <1>4
    <3>3. \A i \in 1 .. Len(blocks) : i < Len(blocks) => blocks'[i] = blocks[i]
      BY <1>3, <1>17
    <3>4. \/ /\ Len(blocks') = Len(blocks) /\ (off > 0 \/ Len(blocks) = 1)
             /\ blocks'[Len(blocks)].buffer = blocks[Len(blocks)].buffer
             /\ blocks'[Len(blocks)].allocSize = off
          \/ Len(blocks') = Len(blocks) - 1 /\ off = 0 /\ Len(blocks) > 1
      BY <1>3, <1>11, <1>16
    <3> QED
      BY <3>1, <3>2, <3>3, <3>4, <1>1, <1>2, <1>17, PopKeepsOrder
  <2> QED
    BY <2>1 DEF Free, HandlesI
<1>22. BlocksI'
  <2>1. PICK l \in Nat \ {0} : l = Len(blocks')
    BY <1>16
  <2>2. /\ l = n \/ l = n - 1
        /\ l = n => blocks'[n] = c /\ (off > 0 \/ n = 1)
    BY <2>1, <1>16
  <2>3. \A i \in 1 .. n : /\ blocks[i].buffer # NoBuffer
                          /\ blocks[i].allocSize <= blocks[i].blockSize
                          /\ i > 1 => blocks[i].allocSize > 0
    BY <1>3 DEF Inv, BlocksI
  <2>4. \A i \in 1 .. l : i \in 1 .. n /\ (i = n => l = n)
                          /\ (i # n => blocks'[i] = blocks[i])
    BY <2>2, <1>17
  <2>5. off <= b.blockSize
    BY <1>3, <1>4, <1>5
  <2>6. \A i \in 1 .. l : /\ blocks'[i].buffer # NoBuffer
                          /\ blocks'[i].allocSize <= blocks'[i].blockSize
                          /\ i > 1 => blocks'[i].allocSize > 0
    <3>1. TAKE i \in 1 .. l
    <3>2. CASE i # n
      BY <2>3, <2>4, <3>2
    <3>3. CASE i = n
      <4>1. blocks'[i] = c /\ (off > 0 \/ n = 1)
        BY <2>2, <2>4, <3>3
      <4> QED
        BY <2>5, <3>3, <4>1, <1>5, <1>11
    <3> QED
      BY <3>2, <3>3
  <2>7. \A i \in 1 .. l : blocks'[i].buffer = blocks[i].buffer
                          /\ blocks'[i].below = blocks[i].below
    BY <2>2, <2>4, <1>3, <1>11
  <2>8. \A i, j \in 1 .. l : i # j => blocks'[i].buffer # blocks'[j].buffer
    <3>1. \A i, j \in 1 .. n : i # j => blocks[i].buffer # blocks[j].buffer
      BY <1>3 DEF Inv, BlocksI
    <3> QED
      BY <2>4, <2>7, <3>1
  <2>9. blocks'[1].below = 0
    BY <2>7, <1>2 DEF Inv, BlocksI
  <2>10. ASSUME NEW i \in 1 .. l, i > 1
         PROVE  blocks'[i].below = blocks'[i - 1].below + blocks'[i - 1].allocSize
    <3>1. i \in 1 .. n /\ i - 1 \in 1 .. l /\ i - 1 # n
      BY <2>2, <2>10
    <3>2. blocks'[i - 1] = blocks[i - 1]
      BY <2>4, <3>1
    <3> QED
      BY <2>7, <2>10, <3>1, <3>2, <1>3 DEF Inv, BlocksI
  <2> QED
    BY <2>1, <2>6, <2>8, <2>9, <2>10 DEF BlocksI
<1>23. CountI'
  <2>1. CASE Len(blocks') = n /\ blocks'[n] = c
    BY <2>1, <1>10, <1>11 DEF CountI
  <2>2. CASE Len(blocks') = n - 1 /\ off = 0 /\ n > 1
    <3>1. blocks'[n - 1] = blocks[n - 1]
      BY <2>2, <1>17
    <3>2. b.below = blocks[n - 1].below + blocks[n - 1].allocSize
      BY <2>2, <1>3 DEF Inv, BlocksI
    <3>3. curAllocSize' = b.below
      BY <2>2, <1>5, <1>10
    <3> QED
      BY <2>2, <3>1, <3>2, <3>3 DEF CountI
  <2> QED
    BY <2>1, <2>2, <1>16
<1>24. RoomI'
  <2>1. m > 1 => blocks'[1].blockSize >= settledMax
    <3>1. blocks[1].blockSize >= settledMax
      BY <1>2 DEF Inv, RoomI
    <3>2. CASE n = 1
      <4>1. blocks'[1] = c /\ b = blocks[1]
        <5>1. ~(n > 1)
          BY <3>2
        <5>2. blocks'[n] = c
          BY <5>1, <1>16
        <5> QED
          BY <5>2, <3>2, <1>3
      <4> QED
        BY <3>1, <4>1, <1>11
    <3>3. CASE n > 1
      BY <3>1, <3>3, <1>17
    <3> QED
      BY <3>2, <3>3
  <2>2. Len(blocks') > 1 => n > 1
    BY <1>16
  <2>3. m = 1 => n = 1
    <3>1. handles[1].level = 1
      BY <1>2 DEF Inv, HandlesI, HandlesIn
    <3> QED
      BY <3>1, <1>3
  <2>4. n > 1 => maxAllocSize > settledMax
    BY <1>3 DEF Inv, RoomI
  <2>5. m = 1 \/ m > 1
    OBVIOUS
  <2> QED
    BY <2>1, <2>2, <2>3, <2>4, <2>5, <1>10, <1>18, <1>19 DEF RoomI
<1> QED
  BY <1>20, <1>21, <1>22, <1>23, <1>24 DEF Inv

-----------------------------------------------------------------------------
(* The theorems.                                                           *)

LEMMA CleanUpStep ==
    ASSUME Inv, CleanUp
    PROVE  Inv'
<1>1. /\ blocks' = <<>> /\ handles' = <<>> /\ Len(blocks') = 0 /\ Len(handles') = 0
      /\ maxAllocSize' = 0 /\ curAllocSize' = 0 /\ settledMax' = 0
  BY DEF CleanUp
<1>2. TypeOK'
  BY StackAssumption, <1>1 DEF TypeOK
<1>3. BlocksI' /\ HandlesI'
  BY <1>1 DEF BlocksI, HandlesI, HandlesIn
<1>4. CountI' /\ RoomI'
  BY <1>1 DEF CountI, RoomI
<1> QED
  BY <1>2, <1>3, <1>4 DEF Inv

LEMMA InvNext ==
    ASSUME Regular, Inv, [Next]_vars
    PROVE  Inv'
<1>1. ASSUME NEW request \in Requests, Alloc(Aligned(request))
      PROVE  Inv'
  <2>1. PICK size \in Nat \ {0} : size = Aligned(request)
    BY AlignedIsPositive
  <2>2. /\ curAllocSize + size <= MaxAlloc /\ Count(size) /\ UNCHANGED settledMax
        /\ AllocFirstBlock(size) \/ AllocInHead(size) \/ AllocNewBlock(size)
    BY <1>1, <2>1 DEF Alloc
  <2> QED
    BY <2>2, FirstBlockStep, InHeadStep, NewBlockStep
<1>2. CASE Free
  BY <1>2, FreeStep
<1>3. CASE CleanUp
  BY <1>3, CleanUpStep
<1>4. CASE UNCHANGED vars
  BY <1>4 DEF vars, Inv, TypeOK, BlocksI, HandlesI, CountI, RoomI
<1> QED
  BY <1>1, <1>2, <1>3, <1>4 DEF Next

\* The inductive invariant holds in every reachable state.
THEOREM InvCorrect == Regular => (Spec => []Inv)
<1> SUFFICES ASSUME Regular PROVE Spec => []Inv
  OBVIOUS
<1>1. Init => Inv
  BY InvInit
<1>2. Inv /\ [Next]_vars => Inv'
  BY InvNext
<1> QED
  BY <1>1, <1>2, PTL DEF Spec

\* The newest handle belongs to the top block, for every heap that does not fail.
THEOREM PointerCorrect == Regular => (Spec => []PointerBelongsToHead)
<1> SUFFICES ASSUME Regular PROVE Spec => []PointerBelongsToHead
  OBVIOUS
<1>1. ASSUME Inv, handles # <<>>
      PROVE  /\ blocks # <<>>
             /\ LastOf(handles).buffer = head.buffer
             /\ 0 <= ToInt(LastOf(handles).offset)
             /\ ToInt(LastOf(handles).offset) < head.blockSize
             /\ LastOf(handles).offset + LastOf(handles).size = head.allocSize
  <2>1. PICK n \in Nat \ {0}, m \in Nat \ {0}, b \in BlockType, h \in HandleType :
            /\ n = Len(blocks) /\ b = blocks[n] /\ head = b
            /\ m = Len(handles) /\ h = handles[m] /\ LastOf(handles) = h
            /\ h.level = n /\ h.buffer = b.buffer
            /\ h.size > 0 /\ h.offset + h.size = b.allocSize
            /\ b.allocSize <= b.blockSize
            /\ curAllocSize = b.below + b.allocSize
            /\ h.offset < IntHalf
    BY <1>1, NewestHandle
  <2>2. h.offset \in Nat /\ h.size \in Nat /\ b.allocSize \in Nat /\ b.blockSize \in Nat
    BY DEF BlockType, HandleType
  <2>3. ToInt(h.offset) = h.offset
    BY <2>1 DEF ToInt
  <2>4. h.offset < b.blockSize
    BY <2>1, <2>2
  <2> QED
    BY <2>1, <2>2, <2>3, <2>4
<1>2. Inv => PointerBelongsToHead
  BY <1>1 DEF PointerBelongsToHead
<1> QED
  BY <1>2, InvCorrect, PTL

\* Handles are in live blocks and never overlap.
THEOREM HandlesCorrect == Regular => (Spec => []HandlesDisjoint)
<1> SUFFICES ASSUME Regular PROVE Spec => []HandlesDisjoint
  OBVIOUS
<1>1. ASSUME Inv
      PROVE  HandlesDisjoint
  <2>1. /\ DOMAIN handles = 1 .. Len(handles) /\ DOMAIN blocks = 1 .. Len(blocks)
        /\ \A i \in 1 .. Len(handles) : handles[i] \in HandleType
        /\ \A i \in 1 .. Len(blocks) : blocks[i] \in BlockType
    BY <1>1 DEF Inv, TypeOK
  <2>2. \A i \in 1 .. Len(handles) : HandleInBlock(blocks, handles[i])
    BY <1>1 DEF Inv, HandlesI, HandlesIn
  <2>3. ASSUME NEW i \in DOMAIN handles, NEW j \in DOMAIN handles, i < j,
               handles[i].buffer = handles[j].buffer
        PROVE  handles[i].offset + handles[i].size <= handles[j].offset
    <3>1. Before(handles[i], handles[j])
      BY <1>1, <2>1, <2>3 DEF Inv, HandlesI, HandlesIn
    <3>2. handles[i].level = handles[j].level
      <4>1. PICK p \in 1 .. Len(blocks) :
               p = handles[i].level /\ handles[i].buffer = blocks[p].buffer
        BY <2>1, <2>2 DEF HandleInBlock
      <4>2. PICK q \in 1 .. Len(blocks) :
               q = handles[j].level /\ handles[j].buffer = blocks[q].buffer
        BY <2>1, <2>2 DEF HandleInBlock
      <4>3. p = q
        BY <1>1, <2>3, <4>1, <4>2 DEF Inv, BlocksI
      <4> QED
        BY <4>1, <4>2, <4>3
    <3>3. handles[i].level \in Int /\ handles[j].level \in Int
      BY <2>1 DEF HandleType
    <3> QED
      BY <3>1, <3>2, <3>3 DEF Before, End
  <2>4. ASSUME NEW i \in DOMAIN handles
        PROVE  /\ handles[i].level \in DOMAIN blocks
               /\ handles[i].buffer = blocks[handles[i].level].buffer
               /\ handles[i].buffer # NoBuffer
               /\ handles[i].offset + handles[i].size <= blocks[handles[i].level].allocSize
               /\ blocks[handles[i].level].allocSize <= blocks[handles[i].level].blockSize
    BY <1>1, <2>1, <2>2 DEF Inv, BlocksI, HandleInBlock, End
  <2> QED
    BY <2>3, <2>4 DEF HandlesDisjoint
<1> QED
  BY <1>1, InvCorrect, PTL

\* The counters agree with the blocks.
THEOREM SizesCorrect == Regular => (Spec => []SizesAgree)
<1> SUFFICES ASSUME Regular PROVE Spec => []SizesAgree
  OBVIOUS
<1>1. ASSUME Inv
      PROVE  SizesAgree
  <2>1. blocks # <<>> => curAllocSize = head.below + head.allocSize
    BY <1>1 DEF Inv, CountI, head, LastOf
  <2>2. CASE handles = <<>>
    <3>1. Len(blocks) <= 1 /\ Len(blocks) \in Nat /\ (blocks # <<>> => blocks[1].allocSize = 0)
      BY <1>1, <2>2 DEF Inv, TypeOK, HandlesI, HandlesIn
    <3>2. CASE blocks = <<>>
      BY <1>1, <2>1, <3>1, <3>2 DEF Inv, CountI, SizesAgree
    <3>3. CASE blocks # <<>>
      <4>1. Len(blocks) = 1
        <5>1. blocks \in Seq(BlockType)
          BY <1>1 DEF Inv, TypeOK
        <5>2. Len(blocks) # 0
          BY <5>1, <3>3
        <5> QED
          BY <5>2, <3>1
      <4>2. head = blocks[1] /\ head.allocSize = 0
        BY <3>1, <3>3, <4>1 DEF head, LastOf
      <4>3. head.below = 0
        BY <1>1, <3>3, <4>2 DEF Inv, BlocksI
      <4> QED
        BY <2>1, <3>1, <3>3, <4>2, <4>3 DEF SizesAgree
    <3> QED
      BY <3>2, <3>3
  <2>3. CASE handles # <<>>
    BY <2>1, <2>3 DEF SizesAgree
  <2> QED
    BY <2>2, <2>3
<1> QED
  BY <1>1, InvCorrect, PTL

\* Use that was seen before is served from one block.
THEOREM OneBlockCorrect == Regular => (Spec => []OneBlockForSettledUse)
<1> SUFFICES ASSUME Regular PROVE Spec => []OneBlockForSettledUse
  OBVIOUS
<1>1. Inv => OneBlockForSettledUse
  BY DEF Inv, RoomI, OneBlockForSettledUse
<1> QED
  BY <1>1, InvCorrect, PTL

\* Blocks, counters and handles keep their types: no size of CDeviceStackAllocator
\* becomes negative or leaves its width (Free, lines 66-76).
THEOREM TypeCorrect == Regular => (Spec => []TypeOK)
<1> SUFFICES ASSUME Regular PROVE Spec => []TypeOK
  OBVIOUS
<1>1. Inv => TypeOK
  BY DEF Inv
<1> QED
  BY <1>1, InvCorrect, PTL
=============================================================================
