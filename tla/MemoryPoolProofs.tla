-------------------------- MODULE MemoryPoolProofs --------------------------
(***************************************************************************)
(* Who owns a block of the heap, and with which size it goes back, for     *)
(* every number of threads, every set of pool sizes and every limit.       *)
(*                                                                         *)
(* BlocksOwned is inductive with what is known of the size of a block in   *)
(* use: it is the pool size of its request, or the request itself when the *)
(* pools were off.  That is what lets a block leave the pools with         *)
(* TransferHandleToThisThread and still be freed with its true size.       *)
(*                                                                         *)
(* Then the counters: what is subtracted when a block or the pools of a    *)
(* thread go back is the size of the blocks, because they are owned.       *)
(***************************************************************************)
EXTENDS MemoryPool, FiniteSetTheorems, WellFoundedInduction, TLAPS

TypeI ==
    /\ Enabled \in [Threads -> BOOLEAN]
    /\ Pool \in [Threads -> [BufferSizes -> SUBSET Addresses]]
    /\ usedMap \subseteq Addresses
    /\ info \in [Addresses -> [size : Nat, owner : Pools \cup {NoPool}]]
    /\ raw \in [Addresses -> Nat]
    /\ asked \in [Addresses -> Nat]

\* The size of a block in use follows from its request.
SizeI ==
    \A a \in usedMap :
        /\ asked[a] > 0
        /\ info[a].owner # NoPool =>
              HasPool(asked[a]) /\ info[a].owner[2] = PoolSize(asked[a])
        /\ info[a].owner = NoPool =>
              \/ asked[a] = info[a].size
              \/ HasPool(asked[a]) /\ PoolSize(asked[a]) = info[a].size

Inv == TypeI /\ BlocksOwned /\ SizeI

-----------------------------------------------------------------------------

\* The smallest pool that is large enough exists when a large enough one does.
LEMMA PoolSizeFits ==
    ASSUME NEW size \in Nat, HasPool(size)
    PROVE  PoolSize(size) \in BufferSizes /\ PoolSize(size) \in Nat /\ PoolSize(size) >= size
<1> DEFINE T == {b \in BufferSizes : b >= size}
<1>1. T \subseteq Nat /\ T # {}
    BY MemoryPoolAssumption DEF HasPool
<1> DEFINE less == {ss \in Nat \X Nat : ss[1] < ss[2]}
<1>2. IsWellFoundedOn(less, Nat)
    BY NatLessThanWellFounded DEF OpToRel
<1>3. PICK b \in T : \A c \in T : ~ (<<c, b>> \in less)
    BY <1>1, <1>2, WFMin
<1>4. ASSUME NEW c \in T PROVE b <= c
    <2>1. c \in Nat /\ b \in Nat /\ <<c, b>>[1] = c /\ <<c, b>>[2] = b
        BY <1>1
    <2>2. <<c, b>> \in Nat \X Nat
        BY <2>1
    <2>3. ~ (<<c, b>>[1] < <<c, b>>[2])
        BY <1>3, <2>2
    <2> QED
        BY <2>1, <2>3
<1>5. b \in BufferSizes /\ b >= size /\ \A c \in BufferSizes : c >= size => b <= c
    BY <1>4
<1> QED
    BY <1>5, MemoryPoolAssumption DEF PoolSize

LEMMA NeededFits ==
    ASSUME NEW t \in Threads, NEW size \in Requests
    PROVE  /\ size \in Nat /\ size > 0
           /\ Needed(t, size) \in Nat /\ Needed(t, size) >= size
           /\ Pooled(t, size) => HasPool(size) /\ PoolSize(size) \in BufferSizes
                                 /\ Needed(t, size) = PoolSize(size)
           /\ ~Pooled(t, size) => Needed(t, size) = size
    BY PoolSizeFits, MemoryPoolAssumption DEF Needed, Pooled

\* An owner is a pool, and not the mark of no pool.
LEMMA Owners ==
    ASSUME NEW t \in Threads, NEW b \in BufferSizes
    PROVE  /\ BufferInfo(t, b) \in [size : Nat, owner : Pools \cup {NoPool}]
           /\ BufferInfo(t, b).owner = <<t, b>> /\ BufferInfo(t, b).owner[2] = b
           /\ BufferInfo(t, b).owner # NoPool
    BY DEF BufferInfo, Pools, NoPool

LEMMA Plain ==
    ASSUME NEW size \in Nat
    PROVE  /\ PlainInfo(size) \in [size : Nat, owner : Pools \cup {NoPool}]
           /\ PlainInfo(size).owner = NoPool /\ PlainInfo(size).size = size
    BY DEF PlainInfo

LEMMA OwnerInPools ==
    ASSUME TypeI, NEW a \in Addresses, info[a].owner # NoPool
    PROVE  /\ info[a].owner[1] \in Threads /\ info[a].owner[2] \in BufferSizes
           /\ info[a].owner = <<info[a].owner[1], info[a].owner[2]>>
           /\ info[a].owner[2] \in Nat /\ info[a].owner[2] > 0
<1>1. info[a].owner \in Threads \X BufferSizes
    BY DEF TypeI, Pools
<1>2. PICK t \in Threads, b \in BufferSizes : info[a].owner = <<t, b>>
    BY <1>1
<1>3. b \in Nat /\ b > 0
    BY MemoryPoolAssumption
<1> QED
    BY <1>2, <1>3

LEMMA InIdle ==
    \A a : \A t \in Threads : a \in Idle(t) <=> \E b \in BufferSizes : a \in Pool[t][b]
    BY DEF Idle

LEMMA InitInv == Init => Inv
<1> SUFFICES ASSUME Init PROVE Inv
    OBVIOUS
<1>1. TypeI
    BY Plain, MemoryPoolAssumption DEF Init, TypeI, EmptyPools
<1>2. BlocksOwned
    BY InIdle DEF Init, BlocksOwned, EmptyPools
<1> QED
    BY <1>1, <1>2 DEF Init, Inv, SizeI

\* A block is given out: SizeI and the types, whatever happens to the pools.
LEMMA GivenOut ==
    ASSUME TypeI, SizeI, NEW t \in Threads, NEW size \in Requests, NEW a \in Addresses,
           GiveOut(t, size, a)
    PROVE  /\ SizeI'
           /\ usedMap' \subseteq Addresses
           /\ Enabled' \in [Threads -> BOOLEAN]
           /\ info' \in [Addresses -> [size : Nat, owner : Pools \cup {NoPool}]]
           /\ asked' \in [Addresses -> Nat]
           /\ Accounted(a)' = Needed(t, size)
           /\ \A x \in usedMap \ {a} : Accounted(x)' = Accounted(x)
<1> DEFINE i == IF Pooled(t, size) THEN BufferInfo(t, PoolSize(size)) ELSE PlainInfo(size)
<1>1. /\ size \in Nat /\ size > 0
      /\ info' = [info EXCEPT ![a] = i] /\ asked' = [asked EXCEPT ![a] = size]
      /\ usedMap' = usedMap \cup {a}
    BY NeededFits DEF GiveOut
<1>2. CASE Pooled(t, size)
    <2>1. /\ i.owner # NoPool /\ i.owner[2] = PoolSize(size) /\ HasPool(size)
          /\ i \in [size : Nat, owner : Pools \cup {NoPool}]
          /\ Needed(t, size) = PoolSize(size)
        BY <1>2, NeededFits, Owners
    <2>2. i = info'[a] /\ asked'[a] = size
        BY <1>1 DEF TypeI
    <2> HIDE DEF i
    <2>3. SizeI'
        BY <1>1, <2>1, <2>2 DEF TypeI, SizeI
    <2>4. info' \in [Addresses -> [size : Nat, owner : Pools \cup {NoPool}]]
        BY <1>1, <2>1 DEF TypeI
    <2> QED
        BY <1>1, <2>1, <2>2, <2>3, <2>4 DEF TypeI, GiveOut, Accounted
<1>3. CASE ~Pooled(t, size)
    <2>1. /\ i.owner = NoPool /\ i.size = size /\ Needed(t, size) = size
          /\ i \in [size : Nat, owner : Pools \cup {NoPool}]
        BY <1>1, <1>3, NeededFits, Plain
    <2>2. i = info'[a] /\ asked'[a] = size
        BY <1>1 DEF TypeI
    <2> HIDE DEF i
    <2>3. SizeI'
        BY <1>1, <2>1, <2>2 DEF TypeI, SizeI
    <2>4. info' \in [Addresses -> [size : Nat, owner : Pools \cup {NoPool}]]
        BY <1>1, <2>1 DEF TypeI
    <2> QED
        BY <1>1, <2>1, <2>2, <2>3, <2>4 DEF TypeI, GiveOut, Accounted
<1> QED
    BY <1>2, <1>3

-----------------------------------------------------------------------------
(* BlocksOwned, without the unions.                                        *)

SomePool(a) == \E t \in Threads, b \in BufferSizes : a \in Pool[t][b]

LiveI == \A a \in Addresses : raw[a] > 0 <=> a \in usedMap \/ SomePool(a)

PoolI ==
    \A t \in Threads, b \in BufferSizes : \A a \in Pool[t][b] :
        /\ raw[a] = b
        /\ a \notin usedMap
        /\ \A u \in Threads, c \in BufferSizes : a \in Pool[u][c] => u = t /\ c = b

UsedI == \A a \in usedMap : raw[a] = Accounted(a)

Owned == LiveI /\ PoolI /\ UsedI

LEMMA OwnedSame == BlocksOwned <=> Owned
<1>1. \A a : SomePool(a) <=> \E t \in Threads : a \in Idle(t)
    BY InIdle DEF SomePool
<1> QED
    BY <1>1 DEF BlocksOwned, Owned, LiveI, PoolI, UsedI

LEMMA OwnedSameNext == BlocksOwned' <=> Owned'
    BY OwnedSame, PTL

\* The pools in T are emptied; the rest stays.
LEMMA FreedPools ==
    ASSUME Inv, NEW T \in SUBSET Threads, FreePools(T)
    PROVE  Inv'
<1> DEFINE freed == UNION {Idle(t) : t \in T}
<1>1. TypeI /\ Owned /\ SizeI
    BY OwnedSame DEF Inv
<1>2. /\ raw' = [a \in Addresses |-> IF a \in freed THEN 0 ELSE raw[a]]
      /\ Pool' = [t \in Threads |-> IF t \in T THEN EmptyPools ELSE Pool[t]]
      /\ UNCHANGED <<Enabled, usedMap, info, asked>>
    BY DEF FreePools, RawWithout
<1>3. \A a : a \in freed <=> \E t \in T, b \in BufferSizes : a \in Pool[t][b]
    BY InIdle
<1> HIDE DEF freed
<1>4. \A t \in Threads, b \in BufferSizes : Pool'[t][b] = IF t \in T THEN {} ELSE Pool[t][b]
    BY <1>2 DEF EmptyPools
<1>5. TypeI'
    <2>1. EmptyPools \in [BufferSizes -> SUBSET Addresses]
        BY DEF EmptyPools
    <2> QED
        BY <1>1, <1>2, <2>1 DEF TypeI
<1>6. \A a \in usedMap : a \in Addresses /\ a \notin freed /\ raw'[a] = raw[a]
    BY <1>1, <1>2, <1>3 DEF Owned, PoolI, TypeI
<1>7. ASSUME NEW t \in Threads, NEW b \in BufferSizes, NEW a \in Pool'[t][b]
      PROVE  /\ t \notin T /\ a \in Pool[t][b] /\ a \in Addresses
             /\ a \notin freed /\ raw'[a] = raw[a]
    <2>1. t \notin T /\ a \in Pool[t][b] /\ a \in Addresses
        BY <1>1, <1>4 DEF TypeI
    <2>2. a \notin freed
        BY <1>1, <1>3, <2>1 DEF Owned, PoolI
    <2> QED
        BY <1>2, <2>1, <2>2
<1>8. PoolI'
    BY <1>1, <1>2, <1>7, SMTT(30) DEF Owned, PoolI
<1>9. UsedI'
    BY <1>1, <1>2, <1>6 DEF Owned, UsedI, Accounted
<1>10. LiveI'
    <2> SUFFICES ASSUME NEW a \in Addresses
                 PROVE  raw'[a] > 0 <=> a \in usedMap' \/ SomePool(a)'
        BY DEF LiveI
    <2>1. raw[a] > 0 <=> a \in usedMap \/ SomePool(a)
        BY <1>1 DEF Owned, LiveI
    <2>2. CASE a \in freed
        <3>1. raw'[a] = 0 /\ a \notin usedMap'
            BY <1>2, <1>6, <2>2
        <3>2. ~SomePool(a)'
            BY <1>7, <2>2 DEF SomePool
        <3> QED
            BY <3>1, <3>2
    <2>3. CASE a \notin freed
        <3>1. raw'[a] = raw[a] /\ usedMap' = usedMap
            BY <1>2, <2>3
        <3>2. SomePool(a)' <=> SomePool(a)
            BY <1>3, <1>4, <2>3 DEF SomePool
        <3> QED
            BY <2>1, <3>1, <3>2
    <2> QED
        BY <2>2, <2>3
<1>11. SizeI'
    BY <1>1, <1>2 DEF SizeI
<1> QED
    BY <1>5, <1>8, <1>9, <1>10, <1>11, OwnedSameNext DEF Inv, Owned

\* A new block at a, after the pools in T were emptied.
LEMMA NewBlock ==
    ASSUME Inv, NEW T \in SUBSET Threads,
           NEW t \in Threads, NEW size \in Requests, NEW a \in Addresses,
           NEW freed, freed = UNION {Idle(u) : u \in T},
           RawWithout(freed)[a] = 0,
           raw' = [RawWithout(freed) EXCEPT ![a] = Needed(t, size)],
           Pool' = [u \in Threads |-> IF u \in T THEN EmptyPools ELSE Pool[u]],
           GiveOut(t, size, a)
    PROVE  Inv'
<1>1. TypeI /\ Owned /\ SizeI
    BY OwnedSame DEF Inv
<1>2. \A x : x \in freed <=> \E u \in T, b \in BufferSizes : x \in Pool[u][b]
    BY InIdle
<1>3. \A u \in Threads, b \in BufferSizes : Pool'[u][b] = IF u \in T THEN {} ELSE Pool[u][b]
    BY DEF EmptyPools
<1>4. usedMap' = usedMap \cup {a} /\ Needed(t, size) \in Nat /\ Needed(t, size) > 0
    BY NeededFits DEF GiveOut
<1>5. /\ raw'[a] = Needed(t, size)
      /\ \A x \in Addresses \ {a} : raw'[x] = IF x \in freed THEN 0 ELSE raw[x]
      /\ raw' \in [Addresses -> Nat]
      /\ raw[a] = 0 \/ a \in freed
    BY <1>1, <1>4 DEF TypeI, RawWithout
<1>6. \A x \in usedMap : x \in Addresses /\ x \notin freed
    BY <1>1, <1>2 DEF Owned, PoolI, TypeI
<1>7. a \notin usedMap
    BY <1>1, <1>5, <1>6 DEF Owned, LiveI
<1>8. ASSUME NEW u \in Threads, NEW b \in BufferSizes, NEW x \in Pool'[u][b]
      PROVE  /\ u \notin T /\ x \in Pool[u][b] /\ x \in Addresses
             /\ x \notin freed /\ x # a /\ raw'[x] = raw[x] /\ x \notin usedMap'
    <2>1. u \notin T /\ x \in Pool[u][b] /\ x \in Addresses
        BY <1>1, <1>3 DEF TypeI
    <2>2. x \notin freed /\ x \notin usedMap /\ raw[x] = b /\ b > 0
        BY <1>1, <1>2, <2>1, MemoryPoolAssumption DEF Owned, PoolI
    <2>3. x # a
        BY <1>5, <2>2
    <2> QED
        BY <1>4, <1>5, <2>1, <2>2, <2>3
<1>9. TypeI'
    <2>1. EmptyPools \in [BufferSizes -> SUBSET Addresses]
        BY DEF EmptyPools
    <2>2. Pool' \in [Threads -> [BufferSizes -> SUBSET Addresses]]
        BY <1>1, <2>1 DEF TypeI
    <2> QED
        BY <1>1, <1>5, <2>2, GivenOut DEF TypeI
<1>10. PoolI'
    BY <1>1, <1>8 DEF Owned, PoolI
<1>11. UsedI'
    BY <1>1, <1>4, <1>5, <1>6, GivenOut DEF Owned, UsedI
<1>12. LiveI'
    <2> SUFFICES ASSUME NEW x \in Addresses
                 PROVE  raw'[x] > 0 <=> x \in usedMap' \/ SomePool(x)'
        BY DEF LiveI
    <2>1. CASE x = a
        BY <1>4, <1>5, <2>1
    <2>2. CASE x # a /\ x \in freed
        <3>1. raw'[x] = 0 /\ x \notin usedMap'
            BY <1>4, <1>5, <1>6, <2>2
        <3>2. ~SomePool(x)'
            BY <1>8, <2>2 DEF SomePool
        <3> QED
            BY <3>1, <3>2
    <2>3. CASE x # a /\ x \notin freed
        <3>1. raw'[x] = raw[x] /\ (x \in usedMap' <=> x \in usedMap)
            BY <1>4, <1>5, <2>3
        <3>2. SomePool(x)' <=> SomePool(x)
            BY <1>2, <1>3, <2>3 DEF SomePool
        <3> QED
            BY <1>1, <3>1, <3>2 DEF Owned, LiveI
    <2> QED
        BY <2>1, <2>2, <2>3
<1>13. SizeI'
    BY <1>1, GivenOut
<1> QED
    BY <1>9, <1>10, <1>11, <1>12, <1>13, OwnedSameNext DEF Inv, Owned

\* A buffer is taken from the pool of t.
LEMMA ReusedBlock ==
    ASSUME Inv, NEW t \in Threads, NEW size \in Requests, NEW a \in Addresses,
           Reuse(t, size, a)
    PROVE  Inv'
<1>1. TypeI /\ Owned /\ SizeI
    BY OwnedSame DEF Inv
<1> PICK p \in BufferSizes : p = PoolSize(size) /\ p = Needed(t, size)
    BY NeededFits DEF Reuse
<1>2. /\ a \in Pool[t][p] /\ Pool' = [Pool EXCEPT ![t][p] = @ \ {a}]
      /\ usedMap' = usedMap \cup {a} /\ raw' = raw /\ GiveOut(t, size, a)
    BY DEF Reuse, GiveOut
<1>3. raw[a] = p /\ a \notin usedMap
    BY <1>1, <1>2 DEF Owned, PoolI
<1>4. \A u \in Threads, b \in BufferSizes : Pool'[u][b] = Pool[u][b] \ {a}
    BY <1>1, <1>2 DEF TypeI, Owned, PoolI
<1>5. TypeI'
    BY <1>1, <1>2, GivenOut DEF TypeI
<1>6. PoolI'
    BY <1>1, <1>2, <1>4 DEF Owned, PoolI
<1>7. UsedI'
    BY <1>1, <1>2, <1>3, GivenOut DEF Owned, UsedI
<1>8. LiveI'
    BY <1>1, <1>2, <1>4 DEF Owned, LiveI, SomePool
<1>9. SizeI'
    BY <1>1, <1>2, GivenOut
<1> QED
    BY <1>5, <1>6, <1>7, <1>8, <1>9, OwnedSameNext DEF Inv, Owned

\* Blocks that are given back, to their owner's pool or to the raw memory manager.
LEMMA FreedBlock ==
    ASSUME Inv, NEW a \in Addresses, FreeBuffer(a) \/ FreePlain(a)
    PROVE  Inv'
<1>1. TypeI /\ Owned /\ SizeI
    BY OwnedSame DEF Inv
<1>2. /\ a \in usedMap /\ usedMap' = usedMap \ {a}
      /\ UNCHANGED <<Enabled, info, asked>>
    BY DEF FreeBuffer, FreePlain
<1>3. ~SomePool(a) /\ raw[a] = Accounted(a)
    BY <1>1, <1>2 DEF Owned, PoolI, UsedI, SomePool
<1>4. SizeI' /\ \A x : Accounted(x)' = Accounted(x)
    BY <1>1, <1>2 DEF SizeI, Accounted
<1>5. CASE FreeBuffer(a)
    <2> PICK t \in Threads, p \in BufferSizes :
            /\ p \in Nat /\ p > 0
            /\ Accounted(a) = p
            /\ Pool' = [Pool EXCEPT ![t][p] = @ \cup {a}]
        BY <1>1, <1>5, OwnerInPools DEF FreeBuffer, Accounted
    <2>1. raw' = raw
        BY <1>5 DEF FreeBuffer
    <2>2. \A u \in Threads, b \in BufferSizes :
              Pool'[u][b] = IF u = t /\ b = p THEN Pool[u][b] \cup {a} ELSE Pool[u][b]
        BY <1>1 DEF TypeI
    <2>3. TypeI'
        BY <1>1, <1>2, <2>1 DEF TypeI
    <2>4. PoolI'
        BY <1>1, <1>2, <1>3, <2>1, <2>2 DEF Owned, PoolI, SomePool
    <2>5. UsedI'
        BY <1>1, <1>2, <1>4, <2>1 DEF Owned, UsedI
    <2>6. LiveI'
        <3>1. SomePool(a)' /\ raw'[a] > 0
            BY <1>3, <2>1, <2>2 DEF SomePool
        <3>2. \A x \in Addresses \ {a} : SomePool(x)' <=> SomePool(x)
            BY <2>2 DEF SomePool
        <3> QED
            BY <1>1, <1>2, <2>1, <3>1, <3>2 DEF Owned, LiveI
    <2> QED
        BY <1>4, <2>3, <2>4, <2>5, <2>6, OwnedSameNext DEF Inv, Owned
<1>6. CASE FreePlain(a)
    <2>1. raw' = [raw EXCEPT ![a] = 0] /\ Pool' = Pool
        BY <1>6 DEF FreePlain
    <2>2. raw'[a] = 0 /\ \A x \in Addresses \ {a} : raw'[x] = raw[x]
        BY <1>1, <2>1 DEF TypeI
    <2>3. TypeI'
        BY <1>1, <1>2, <2>1 DEF TypeI
    <2>4. PoolI'
        BY <1>1, <1>2, <1>3, <2>1, <2>2 DEF TypeI, Owned, PoolI, SomePool
    <2>5. UsedI'
        BY <1>1, <1>2, <1>4, <2>2 DEF TypeI, Owned, UsedI
    <2>6. LiveI'
        BY <1>1, <1>2, <1>3, <2>1, <2>2 DEF Owned, LiveI, SomePool
    <2> QED
        BY <1>4, <2>3, <2>4, <2>5, <2>6, OwnedSameNext DEF Inv, Owned
<1> QED
    BY <1>5, <1>6

\* A buffer in use changes its owner, or leaves the pools with its true size.
LEMMA TransferredBlock ==
    ASSUME Inv, NEW t \in Threads, NEW a \in Addresses, TransferHandleToThisThread(t, a)
    PROVE  Inv'
<1>1. TypeI /\ Owned /\ SizeI
    BY OwnedSame DEF Inv
<1> DEFINE b == info[a].owner[2]
           i == IF Enabled[t] THEN BufferInfo(t, b) ELSE PlainInfo(b)
<1>2. /\ a \in usedMap /\ info[a].owner # NoPool
      /\ info' = [info EXCEPT ![a] = i]
      /\ UNCHANGED <<Enabled, Pool, usedMap, raw, asked>>
    BY DEF TransferHandleToThisThread
<1>3. b \in BufferSizes /\ b \in Nat
    BY <1>1, <1>2, OwnerInPools
<1>4. /\ i \in [size : Nat, owner : Pools \cup {NoPool}]
      /\ \/ i.owner # NoPool /\ i.owner[2] = b
         \/ i.owner = NoPool /\ i.size = b
    BY <1>3, Owners, Plain
<1>5. info'[a] = i /\ \A x \in Addresses \ {a} : info'[x] = info[x]
    BY <1>1, <1>2 DEF TypeI
<1>6. b = PoolSize(asked[a]) /\ HasPool(asked[a]) /\ Accounted(a) = b
    BY <1>1, <1>2 DEF SizeI, Accounted
<1> HIDE DEF i, b
<1>7. TypeI'
    BY <1>1, <1>2, <1>4 DEF TypeI
<1>8. SizeI'
    BY <1>1, <1>2, <1>4, <1>5, <1>6 DEF TypeI, SizeI
<1>9. \A x \in usedMap : Accounted(x)' = Accounted(x)
    BY <1>1, <1>4, <1>5, <1>6 DEF TypeI, Accounted
<1>10. UsedI' /\ PoolI' /\ LiveI'
    BY <1>1, <1>2, <1>9 DEF Owned, UsedI, PoolI, LiveI, SomePool
<1> QED
    BY <1>7, <1>8, <1>10, OwnedSameNext DEF Inv, Owned

LEMMA NextInv == Inv /\ [Next]_vars => Inv'
<1> SUFFICES ASSUME Inv, [Next]_vars PROVE Inv'
    OBVIOUS
<1>1. ASSUME NEW t \in Threads, NEW size \in Requests, NEW a \in Addresses,
             AllocNew(t, size, a)
      PROVE  Inv'
    <2>1. RawWithout({}) = raw /\ UNION {Idle(u) : u \in {}} = {}
        BY DEF RawWithout, Inv, TypeI
    <2>2. Pool' = [u \in Threads |-> IF u \in {} THEN EmptyPools ELSE Pool[u]]
        BY <1>1 DEF AllocNew, Inv, TypeI
    <2>3. {} \in SUBSET Threads
        OBVIOUS
    <2>4. raw[a] = 0 /\ raw' = [raw EXCEPT ![a] = Needed(t, size)] /\ GiveOut(t, size, a)
        BY <1>1 DEF AllocNew
    <2> QED
        BY <2>1, <2>2, <2>3, <2>4, NewBlock
<1>2. ASSUME NEW t \in Threads, NEW size \in Requests, NEW a \in Addresses,
             AllocAfterCleanUp(t, size, a)
      PROVE  Inv'
    <2>1. UNION {Idle(u) : u \in {t}} = Idle(t)
        OBVIOUS
    <2>2. Pool' = [u \in Threads |-> IF u \in {t} THEN EmptyPools ELSE Pool[u]]
        BY <1>2 DEF AllocAfterCleanUp, Inv, TypeI
    <2>3. {t} \in SUBSET Threads
        OBVIOUS
    <2>4. /\ RawWithout(Idle(t))[a] = 0
          /\ raw' = [RawWithout(Idle(t)) EXCEPT ![a] = Needed(t, size)]
          /\ GiveOut(t, size, a)
        BY <1>2 DEF AllocAfterCleanUp
    <2> QED
        BY <2>1, <2>2, <2>3, <2>4, NewBlock
<1>3. ASSUME NEW t \in Threads, NEW size \in Requests, AllocFails(t, size) PROVE Inv'
    BY <1>3, FreedPools, {t} \in SUBSET Threads DEF AllocFails
<1>4. ASSUME NEW t \in Threads, CleanUp(t) PROVE Inv'
    BY <1>4, FreedPools, {t} \in SUBSET Threads DEF CleanUp
<1>5. CASE Destroy
    BY <1>5, FreedPools, Threads \in SUBSET Threads DEF Destroy
<1>6. ASSUME UNCHANGED <<Pool, usedMap, info, raw, asked>>, Enabled' \in [Threads -> BOOLEAN]
      PROVE  Inv'
    <2>1. Owned' <=> Owned
        BY <1>6 DEF Owned, LiveI, PoolI, UsedI, SomePool, Accounted
    <2> QED
        BY <1>6, <2>1, OwnedSame, OwnedSameNext DEF Inv, TypeI, SizeI
<1>7. ASSUME NEW t \in Threads, NEW enable \in BOOLEAN, SetReuseMemoryMode(t, enable) PROVE Inv'
    BY <1>6, <1>7 DEF SetReuseMemoryMode, Inv, TypeI
<1>8. CASE ResetPeakMemoryUsage \/ UNCHANGED vars
    BY <1>6, <1>8 DEF ResetPeakMemoryUsage, vars, Inv, TypeI
<1> QED
    BY <1>1, <1>2, <1>3, <1>4, <1>5, <1>7, <1>8, ReusedBlock, FreedBlock, TransferredBlock
    DEF Next, Alloc

-----------------------------------------------------------------------------

\* Every block of the heap is in use or free in exactly one pool, and goes back
\* with its true size, for every number of threads and every set of sizes.
THEOREM BlocksCorrect == Spec => []BlocksOwned
<1>1. Inv => BlocksOwned
    BY DEF Inv
<1> QED
    BY <1>1, InitInv, NextInv, PTL DEF Spec

\* A block in use has room for its request, and the assertions of
\* TransferHandleToThisThread hold for it, whichever threads it belonged to.
THEOREM RequestsCorrect == Spec => []RequestsHonoured
<1>1. Inv => RequestsHonoured
    <2> SUFFICES ASSUME Inv, NEW a \in usedMap
                 PROVE  /\ asked[a] <= raw[a]
                        /\ info[a].owner = NoPool =>
                            \/ asked[a] = info[a].size
                            \/ HasPool(asked[a]) /\ PoolSize(asked[a]) = info[a].size
        BY DEF RequestsHonoured
    <2>1. raw[a] = Accounted(a) /\ asked[a] \in Nat
        BY DEF Inv, TypeI, BlocksOwned
    <2>2. HasPool(asked[a]) => PoolSize(asked[a]) >= asked[a]
        BY <2>1, PoolSizeFits
    <2> QED
        BY <2>1, <2>2 DEF Inv, TypeI, SizeI, Accounted
<1> QED
    BY <1>1, InitInv, NextInv, PTL DEF Spec

-----------------------------------------------------------------------------
(* The counters.  A sum over blocks is the number of their bytes, so that   *)
(* what is known of finite sets is enough to add and to subtract.           *)

BytesOf(size, S) == UNION {{a} \X (1 .. size[a]) : a \in S}
Sum(size, S) == Cardinality(BytesOf(size, S))

LEMMA SumIsTotal == \A S : Total(S) = Sum(raw, S)
    BY DEF Total, Bytes, Sum, BytesOf

LEMMA SumIsTotalNext == Total(Addresses)' = Sum(raw', Addresses) /\ Total(usedMap)' = Sum(raw', usedMap')
    BY DEF Total, Bytes, Sum, BytesOf

LEMMA InBytes ==
    ASSUME NEW size, NEW S
    PROVE  \A x : x \in BytesOf(size, S) <=> \E a \in S : \E k \in 1 .. size[a] : x = <<a, k>>
    BY DEF BytesOf

LEMMA SumType ==
    ASSUME NEW size \in [Addresses -> Nat], NEW S \in SUBSET Addresses
    PROVE  IsFiniteSet(BytesOf(size, S)) /\ Sum(size, S) \in Nat
<1> DEFINE parts == {{a} \X (1 .. size[a]) : a \in S}
           part == [a \in S |-> {a} \X (1 .. size[a])]
<1>1. IsFiniteSet(S)
    BY MemoryPoolAssumption, FS_Subset
<1>2. part \in Surjection(S, parts)
    BY DEF Surjection
<1>3. IsFiniteSet(parts)
    <2> HIDE DEF part, parts
    <2> QED
        BY <1>1, <1>2, FS_Surjection
<1>4. ASSUME NEW p \in parts PROVE IsFiniteSet(p)
    <2>1. PICK a \in S : p = {a} \X (1 .. size[a])
        OBVIOUS
    <2>2. size[a] \in Int
        OBVIOUS
    <2>3. IsFiniteSet(1 .. size[a])
        BY <2>2, 1 \in Int, FS_Interval
    <2>4. IsFiniteSet({a})
        BY FS_Singleton
    <2> QED
        BY <2>1, <2>3, <2>4, FS_Product
<1>5. IsFiniteSet(UNION parts)
    <2> HIDE DEF parts
    <2> QED
        BY <1>3, <1>4, FS_UNION
<1> QED
    BY <1>5, FS_CardinalityType DEF BytesOf, Sum

LEMMA SumSplit ==
    ASSUME NEW size \in [Addresses -> Nat], NEW S \in SUBSET Addresses, NEW T \in SUBSET S
    PROVE  Sum(size, S) = Sum(size, T) + Sum(size, S \ T)
<1>1. /\ IsFiniteSet(BytesOf(size, T)) /\ IsFiniteSet(BytesOf(size, S \ T))
      /\ Sum(size, T) \in Nat /\ Sum(size, S \ T) \in Nat
    BY SumType
<1>2. BytesOf(size, T) \cup BytesOf(size, S \ T) = BytesOf(size, S)
    BY InBytes
<1>3. BytesOf(size, T) \cap BytesOf(size, S \ T) = {}
    BY InBytes
<1>4. /\ Cardinality(BytesOf(size, T) \cap BytesOf(size, S \ T)) = 0
      /\ Cardinality(BytesOf(size, S)) = Cardinality(BytesOf(size, T)) + Cardinality(BytesOf(size, S \ T))
           - Cardinality(BytesOf(size, T) \cap BytesOf(size, S \ T))
    BY <1>1, <1>2, <1>3, FS_Union, FS_EmptySet
<1> QED
    BY <1>1, <1>4 DEF Sum

LEMMA SumSame ==
    ASSUME NEW size, NEW other, NEW S, \A a \in S : size[a] = other[a]
    PROVE  Sum(size, S) = Sum(other, S)
<1>1. \A a \in S : {a} \X (1 .. size[a]) = {a} \X (1 .. other[a])
    OBVIOUS
<1>2. BytesOf(size, S) = BytesOf(other, S)
    BY <1>1 DEF BytesOf
<1> QED
    BY <1>2 DEF Sum

LEMMA SumNone ==
    ASSUME NEW size, NEW S, \A a \in S : size[a] = 0
    PROVE  Sum(size, S) = 0
<1>1. BytesOf(size, S) = {}
    BY InBytes
<1> QED
    BY <1>1, FS_EmptySet DEF Sum

LEMMA SumOne ==
    ASSUME NEW size \in [Addresses -> Nat], NEW a \in Addresses
    PROVE  Sum(size, {a}) = size[a]
<1>1. BytesOf(size, {a}) = {a} \X (1 .. size[a])
    BY DEF BytesOf
<1>2. size[a] \in Nat /\ IsFiniteSet({a}) /\ Cardinality({a}) = 1
    BY FS_Singleton
<1>3. IsFiniteSet(1 .. size[a]) /\ Cardinality(1 .. size[a]) = size[a]
    BY <1>2, FS_Interval
<1>4. Cardinality({a} \X (1 .. size[a])) = Cardinality({a}) * Cardinality(1 .. size[a])
    BY <1>2, <1>3, FS_Product
<1>5. Cardinality(BytesOf(size, {a})) = 1 * size[a]
    BY <1>1, <1>2, <1>3, <1>4
<1> QED
    BY <1>2, <1>5 DEF Sum

\* Block a changes its size, the other blocks of S keep theirs.
LEMMA SumChange ==
    ASSUME NEW size \in [Addresses -> Nat], NEW other \in [Addresses -> Nat],
           NEW S \in SUBSET Addresses, NEW a \in S, \A x \in S \ {a} : size[x] = other[x]
    PROVE  Sum(other, S) = Sum(size, S) - size[a] + other[a]
<1>1. /\ Sum(size, S) = Sum(size, {a}) + Sum(size, S \ {a})
      /\ Sum(other, S) = Sum(other, {a}) + Sum(other, S \ {a})
    BY SumSplit
<1>2. Sum(size, S \ {a}) = Sum(other, S \ {a})
    BY SumSame
<1>3. Sum(size, {a}) = size[a] /\ Sum(other, {a}) = other[a]
    BY SumOne
<1>4. size[a] \in Nat /\ other[a] \in Nat /\ Sum(size, S \ {a}) \in Nat
    BY SumType
<1> QED
    BY <1>1, <1>2, <1>3, <1>4

\* The pools count the bytes of the buffers in them, because a buffer is in one pool.
LEMMA PoolsCount ==
    ASSUME TypeI, Owned, NEW T \in SUBSET Threads
    PROVE  MemoryInPools(T) = Sum(raw, UNION {Idle(t) : t \in T})
<1> DEFINE idle == UNION {Idle(t) : t \in T}
           f == [x \in IdleBytes(T) |-> <<x[2], x[3]>>]
<1>1. \A a : a \in idle <=> \E t \in T, b \in BufferSizes : a \in Pool[t][b]
    BY InIdle
<1>2. \A x : x \in IdleBytes(T) <=>
          \E t \in T, b \in BufferSizes : \E a \in Pool[t][b] : \E k \in 1 .. b : x = <<<<t, b>>, a, k>>
    BY DEF IdleBytes
<1>3. idle \in SUBSET Addresses
    BY <1>1 DEF TypeI
<1> HIDE DEF idle
<1>4. \A y : y \in BytesOf(raw, idle) <=>
          \E t \in T, b \in BufferSizes : \E a \in Pool[t][b] : \E k \in 1 .. b : y = <<a, k>>
    BY <1>1, InBytes DEF Owned, PoolI
<1>5. f \in [IdleBytes(T) -> BytesOf(raw, idle)]
    BY <1>2, <1>4
<1>6. ASSUME NEW y \in BytesOf(raw, idle) PROVE \E x \in IdleBytes(T) : f[x] = y
    <2>1. PICK t \in T, b \in BufferSizes : \E a \in Pool[t][b] : \E k \in 1 .. b : y = <<a, k>>
        BY <1>4
    <2>2. PICK a \in Pool[t][b], k \in 1 .. b : y = <<a, k>>
        BY <2>1
    <2>3. <<<<t, b>>, a, k>> \in IdleBytes(T)
        BY <1>2
    <2> QED
        BY <2>2, <2>3
<1>7. ASSUME NEW x \in IdleBytes(T), NEW z \in IdleBytes(T), f[x] = f[z] PROVE x = z
    <2>1. PICK t \in T, b \in BufferSizes : \E a \in Pool[t][b] : \E k \in 1 .. b : x = <<<<t, b>>, a, k>>
        BY <1>2
    <2>2. PICK a \in Pool[t][b], k \in 1 .. b : x = <<<<t, b>>, a, k>>
        BY <2>1
    <2>3. PICK u \in T, c \in BufferSizes : \E d \in Pool[u][c] : \E m \in 1 .. c : z = <<<<u, c>>, d, m>>
        BY <1>2
    <2>4. PICK d \in Pool[u][c], m \in 1 .. c : z = <<<<u, c>>, d, m>>
        BY <2>3
    <2>5. a = d /\ k = m
        BY <1>7, <2>2, <2>4
    <2>6. t = u /\ b = c
        BY <2>5 DEF Owned, PoolI
    <2> QED
        BY <2>2, <2>4, <2>5, <2>6
<1> HIDE DEF f
<1>8. f \in Bijection(IdleBytes(T), BytesOf(raw, idle))
    BY <1>5, <1>6, <1>7 DEF Bijection, Injection, Surjection, IsInjective
<1>9. IsFiniteSet(BytesOf(raw, idle))
    BY <1>3, SumType DEF TypeI
<1>10. f \in Injection(IdleBytes(T), BytesOf(raw, idle)) /\ f \in Surjection(IdleBytes(T), BytesOf(raw, idle))
    BY <1>8 DEF Bijection
<1>11. Cardinality(IdleBytes(T)) = Cardinality(BytesOf(raw, idle))
    BY <1>9, <1>10, FS_Injection
<1> QED
    BY <1>11 DEF MemoryInPools, Sum, idle

CountI ==
    /\ BlocksCounted
    /\ allocatedMemory \in 0 .. memoryLimit
    /\ peakMemoryUsage \in allocatedMemory .. memoryLimit
    /\ destroyed => \A t \in Threads : Idle(t) = {}

LEMMA InitCount == Init => CountI
<1> SUFFICES ASSUME Init PROVE CountI
    OBVIOUS
<1>1. Total(Addresses) = 0 /\ Total(usedMap) = 0
    BY SumIsTotal, SumNone DEF Init
<1> QED
    BY <1>1, MemoryPoolAssumption DEF Init, CountI, BlocksCounted

\* The pools in T are emptied: what the rest of the heap counts.
LEMMA FreedSum ==
    ASSUME TypeI, Owned, NEW T \in SUBSET Threads,
           NEW freed, freed = UNION {Idle(t) : t \in T}
    PROVE  /\ RawWithout(freed) \in [Addresses -> Nat]
           /\ Sum(RawWithout(freed), Addresses) = Total(Addresses) - MemoryInPools(T)
           /\ Sum(RawWithout(freed), usedMap) = Total(usedMap)
           /\ MemoryInPools(T) \in Nat
<1> DEFINE left == RawWithout(freed)
<1>1. \A a : a \in freed <=> \E t \in T, b \in BufferSizes : a \in Pool[t][b]
    BY InIdle
<1>2. freed \in SUBSET Addresses /\ usedMap \in SUBSET Addresses /\ \A a \in usedMap : a \notin freed
    BY <1>1 DEF TypeI, Owned, PoolI
<1>3. /\ raw \in [Addresses -> Nat] /\ left \in [Addresses -> Nat]
      /\ \A a \in freed : left[a] = 0
      /\ \A a \in Addresses \ freed : left[a] = raw[a]
    BY <1>2 DEF TypeI, RawWithout
<1> HIDE DEF left
<1>4. Sum(left, freed) = 0
    BY <1>3, SumNone
<1>5. Sum(left, Addresses \ freed) = Sum(raw, Addresses \ freed)
    BY <1>3, SumSame
<1>6. Sum(left, usedMap) = Sum(raw, usedMap)
    <2>1. \A a \in usedMap : left[a] = raw[a]
        BY <1>2, <1>3
    <2> QED
        BY <2>1, SumSame
<1>7. Addresses \in SUBSET Addresses
    OBVIOUS
<1>8. /\ Sum(left, Addresses) = Sum(left, freed) + Sum(left, Addresses \ freed)
      /\ Sum(raw, Addresses) = Sum(raw, freed) + Sum(raw, Addresses \ freed)
    BY <1>2, <1>3, <1>7, SumSplit
<1>9. Sum(raw, freed) \in Nat /\ Sum(raw, Addresses \ freed) \in Nat
    BY <1>2, <1>3, SumType
<1>10. MemoryInPools(T) = Sum(raw, freed)
    BY PoolsCount
<1> QED
    BY <1>3, <1>4, <1>5, <1>6, <1>8, <1>9, <1>10, SumIsTotal DEF left

LEMMA FreedCount ==
    ASSUME Inv, CountI, NEW T \in SUBSET Threads, FreePools(T),
           destroyed' => T = Threads
    PROVE  CountI'
<1>1. TypeI /\ Owned
    BY OwnedSame DEF Inv
<1> DEFINE freed == UNION {Idle(t) : t \in T}
<1>2. /\ raw' = RawWithout(freed) /\ usedMap' = usedMap
      /\ allocatedMemory' = allocatedMemory - MemoryInPools(T)
      /\ freeMemorySize' = freeMemorySize /\ peakMemoryUsage' = peakMemoryUsage
      /\ Pool' = [t \in Threads |-> IF t \in T THEN EmptyPools ELSE Pool[t]]
    BY DEF FreePools
<1>3. /\ Sum(raw', Addresses) = Total(Addresses) - MemoryInPools(T)
      /\ Sum(raw', usedMap) = Total(usedMap)
      /\ MemoryInPools(T) \in Nat /\ raw' \in [Addresses -> Nat]
    BY <1>1, <1>2, FreedSum
<1>4. Sum(raw', Addresses) \in Nat
    BY <1>3, SumType
<1>5. BlocksCounted'
    BY <1>2, <1>3, SumIsTotalNext DEF CountI, BlocksCounted
<1>6. allocatedMemory' \in 0 .. memoryLimit /\ peakMemoryUsage' \in allocatedMemory' .. memoryLimit
    <2>1. allocatedMemory' = Sum(raw', Addresses)
        BY <1>5, SumIsTotalNext DEF BlocksCounted
    <2> QED
        BY <1>2, <1>3, <1>4, <2>1, MemoryPoolAssumption DEF CountI
<1>7. destroyed' => (\A t \in Threads : Idle(t) = {})'
    BY <1>2 DEF Idle, EmptyPools
<1> QED
    BY <1>5, <1>6, <1>7 DEF CountI

\* Memory of a size that fits is counted once.
LEMMA FitsBounds ==
    ASSUME NEW allocated \in 0 .. memoryLimit, NEW size \in Nat, Fits(allocated, size)
    PROVE  allocated + size \in 0 .. memoryLimit
    BY MemoryPoolAssumption DEF Fits

\* A block is given out; before, the heap is left with the blocks in left.
LEMMA GivenCount ==
    ASSUME Inv, Inv', NEW t \in Threads, NEW size \in Requests, NEW a \in Addresses,
           NEW left \in [Addresses -> Nat],
           a \notin usedMap, Sum(left, usedMap) = Total(usedMap),
           freeMemorySize = memoryLimit - Total(usedMap),
           raw'[a] = Needed(t, size), \A x \in Addresses \ {a} : raw'[x] = left[x],
           GiveOut(t, size, a)
    PROVE  /\ freeMemorySize' = memoryLimit - Total(usedMap)'
           /\ Total(Addresses)' = Sum(left, Addresses) - left[a] + Needed(t, size)
<1>1. /\ usedMap \in SUBSET Addresses /\ usedMap' \in SUBSET Addresses
      /\ raw' \in [Addresses -> Nat] /\ usedMap' = usedMap \cup {a}
    BY DEF Inv, TypeI, GiveOut
<1>2. Sum(raw', usedMap') = Sum(raw', {a}) + Sum(raw', usedMap)
    <2>1. usedMap' \ {a} = usedMap /\ {a} \in SUBSET usedMap'
        BY <1>1
    <2> QED
        BY <1>1, <2>1, SumSplit
<1>3. Sum(raw', {a}) = Needed(t, size)
    BY <1>1, SumOne
<1>4. Sum(raw', usedMap) = Sum(left, usedMap)
    <2>1. \A x \in usedMap : raw'[x] = left[x]
        BY <1>1
    <2> QED
        BY <2>1, SumSame
<1>5. Sum(raw', Addresses) = Sum(left, Addresses) - left[a] + raw'[a]
    <2>1. \A x \in Addresses \ {a} : left[x] = raw'[x]
        OBVIOUS
    <2> QED
        BY <1>1, <2>1, Addresses \in SUBSET Addresses, SumChange
<1>6. Needed(t, size) \in Nat /\ Sum(left, usedMap) \in Nat
    BY <1>1, NeededFits, SumType
<1>7. freeMemorySize' = freeMemorySize - Needed(t, size)
    BY DEF GiveOut
<1> QED
    BY <1>2, <1>3, <1>4, <1>5, <1>6, <1>7, SumIsTotalNext, MemoryPoolAssumption

LEMMA NewCount ==
    ASSUME Inv, Inv', CountI, NEW T \in SUBSET Threads,
           NEW t \in Threads, NEW size \in Requests, NEW a \in Addresses,
           NEW freed, freed = UNION {Idle(u) : u \in T},
           RawWithout(freed)[a] = 0,
           raw' = [RawWithout(freed) EXCEPT ![a] = Needed(t, size)],
           Fits(allocatedMemory - MemoryInPools(T), Needed(t, size)),
           allocatedMemory' = allocatedMemory - MemoryInPools(T) + Needed(t, size),
           peakMemoryUsage' = Larger(peakMemoryUsage, allocatedMemory'),
           ~destroyed, GiveOut(t, size, a)
    PROVE  CountI'
<1>1. TypeI /\ Owned
    BY OwnedSame DEF Inv
<1> DEFINE left == RawWithout(freed)
<1>2. /\ left \in [Addresses -> Nat] /\ left[a] = 0
      /\ Sum(left, Addresses) = Total(Addresses) - MemoryInPools(T)
      /\ Sum(left, usedMap) = Total(usedMap)
      /\ MemoryInPools(T) \in Nat
    BY <1>1, FreedSum
<1>3. raw'[a] = Needed(t, size) /\ \A x \in Addresses \ {a} : raw'[x] = left[x]
    BY <1>2
<1> HIDE DEF left
<1>4. a \notin usedMap
    <2>1. CASE a \in freed
        BY <1>1, <2>1, InIdle DEF Owned, PoolI
    <2>2. CASE a \notin freed
        <3>1. raw[a] = 0
            BY <2>2 DEF RawWithout
        <3> QED
            BY <1>1, <3>1 DEF Owned, LiveI
    <2> QED
        BY <2>1, <2>2
<1>5. /\ freeMemorySize' = memoryLimit - Total(usedMap)'
      /\ Total(Addresses)' = Sum(left, Addresses) - left[a] + Needed(t, size)
    BY <1>2, <1>3, <1>4, GivenCount DEF CountI, BlocksCounted
<1>6. /\ Sum(left, Addresses) \in Nat /\ Needed(t, size) \in Nat
      /\ allocatedMemory = Total(Addresses)
    BY <1>2, Addresses \in SUBSET Addresses, SumType, NeededFits DEF CountI, BlocksCounted
<1>7. BlocksCounted'
    BY <1>2, <1>5, <1>6 DEF BlocksCounted
<1>8. allocatedMemory - MemoryInPools(T) \in 0 .. memoryLimit
    BY <1>2, <1>6, MemoryPoolAssumption DEF CountI
<1>9. allocatedMemory' \in 0 .. memoryLimit
    BY <1>6, <1>8, FitsBounds
<1>10. peakMemoryUsage' \in allocatedMemory' .. memoryLimit
    BY <1>9, MemoryPoolAssumption DEF CountI, Larger
<1>11. destroyed' = destroyed
    BY DEF GiveOut
<1> QED
    BY <1>7, <1>9, <1>10, <1>11 DEF CountI

LEMMA ReusedCount ==
    ASSUME Inv, Inv', CountI, NEW t \in Threads, NEW size \in Requests, NEW a \in Addresses,
           Reuse(t, size, a), ~destroyed
    PROVE  CountI'
<1>1. TypeI /\ Owned
    BY OwnedSame DEF Inv
<1>2. /\ raw[a] = Needed(t, size) /\ a \notin usedMap
    BY <1>1, NeededFits DEF Reuse, Owned, PoolI
<1>3. /\ raw' = raw /\ allocatedMemory' = allocatedMemory /\ peakMemoryUsage' = peakMemoryUsage
      /\ destroyed' = destroyed /\ GiveOut(t, size, a)
    BY DEF Reuse, GiveOut
<1>4. raw \in [Addresses -> Nat] /\ Sum(raw, usedMap) = Total(usedMap) /\ Needed(t, size) \in Nat
    BY <1>1, SumIsTotal, NeededFits DEF TypeI
<1>5. /\ freeMemorySize' = memoryLimit - Total(usedMap)'
      /\ Total(Addresses)' = Sum(raw, Addresses) - raw[a] + Needed(t, size)
    BY <1>2, <1>3, <1>4, GivenCount DEF CountI, BlocksCounted
<1>6. Sum(raw, Addresses) = Total(Addresses) /\ Sum(raw, Addresses) \in Nat
    BY <1>4, SumIsTotal, Addresses \in SUBSET Addresses, SumType
<1>7. BlocksCounted'
    BY <1>2, <1>3, <1>4, <1>5, <1>6 DEF CountI, BlocksCounted
<1> QED
    BY <1>3, <1>7 DEF CountI

LEMMA FreedBlockCount ==
    ASSUME Inv, Inv', CountI, NEW a \in Addresses, FreeBuffer(a) \/ FreePlain(a), ~destroyed
    PROVE  CountI'
<1>1. TypeI /\ Owned /\ raw' \in [Addresses -> Nat]
    BY OwnedSame DEF Inv, TypeI
<1>2. /\ a \in usedMap /\ usedMap' = usedMap \ {a} /\ raw[a] = Accounted(a)
      /\ peakMemoryUsage' = peakMemoryUsage /\ destroyed' = destroyed
    BY <1>1 DEF FreeBuffer, FreePlain, Owned, UsedI
<1>3. /\ raw \in [Addresses -> Nat] /\ usedMap \in SUBSET Addresses /\ {a} \in SUBSET usedMap
      /\ usedMap' \in SUBSET Addresses
    BY <1>1, <1>2 DEF TypeI
<1>4. Sum(raw, usedMap) = raw[a] + Sum(raw, usedMap \ {a})
    <2>1. Sum(raw, usedMap) = Sum(raw, {a}) + Sum(raw, usedMap \ {a})
        BY <1>3, SumSplit
    <2>2. Sum(raw, {a}) = raw[a]
        BY <1>3, SumOne
    <2> QED
        BY <2>1, <2>2
<1>5. \A x \in Addresses \ {a} : raw'[x] = raw[x]
    BY <1>3 DEF FreeBuffer, FreePlain
<1>6. Sum(raw', usedMap') = Sum(raw, usedMap \ {a})
    <2>1. \A x \in usedMap \ {a} : raw'[x] = raw[x]
        BY <1>3, <1>5
    <2> QED
        BY <1>2, <2>1, SumSame
<1>7. /\ Sum(raw, usedMap \ {a}) \in Nat /\ raw[a] \in Nat /\ Sum(raw, Addresses) \in Nat
      /\ Sum(raw', Addresses) \in Nat
    BY <1>1, <1>3, Addresses \in SUBSET Addresses, SumType
<1>8. freeMemorySize' = freeMemorySize + raw[a]
    BY <1>2 DEF FreeBuffer, FreePlain, Accounted
<1>9. freeMemorySize' = memoryLimit - Sum(raw', usedMap')
    BY <1>4, <1>6, <1>7, <1>8, SumIsTotal, MemoryPoolAssumption DEF CountI, BlocksCounted
<1>10. Sum(raw', Addresses) = Sum(raw, Addresses) - raw[a] + raw'[a]
    <2>1. \A x \in Addresses \ {a} : raw[x] = raw'[x]
        BY <1>5
    <2> QED
        BY <1>1, <1>3, <2>1, Addresses \in SUBSET Addresses, SumChange
<1>11. allocatedMemory = Sum(raw, Addresses)
    BY SumIsTotal DEF CountI, BlocksCounted
<1>12. allocatedMemory' = Sum(raw', Addresses) /\ allocatedMemory' <= allocatedMemory
    <2>1. CASE FreeBuffer(a)
        <3>1. raw' = raw /\ allocatedMemory' = allocatedMemory
            BY <2>1 DEF FreeBuffer
        <3> QED
            BY <1>7, <1>11, <3>1
    <2>2. CASE FreePlain(a)
        <3>1. raw'[a] = 0 /\ allocatedMemory' = allocatedMemory - raw[a]
            BY <1>2, <1>3, <2>2 DEF FreePlain, Accounted
        <3> QED
            BY <1>7, <1>10, <1>11, <3>1
    <2> QED
        BY <2>1, <2>2
<1>13. BlocksCounted'
    BY <1>9, <1>12, SumIsTotalNext DEF BlocksCounted
<1> QED
    BY <1>2, <1>7, <1>12, <1>13, MemoryPoolAssumption DEF CountI

LEMMA NextCount == Inv /\ CountI /\ [Next]_vars => CountI'
<1> SUFFICES ASSUME Inv, CountI, [Next]_vars PROVE CountI'
    OBVIOUS
<1>1. Inv'
    BY NextInv
<1>2. ASSUME ~destroyed, NEW t \in Threads, NEW size \in Requests, NEW a \in Addresses,
             AllocNew(t, size, a)
      PROVE  CountI'
    <2>1. RawWithout({}) = raw /\ UNION {Idle(u) : u \in {}} = {}
        BY DEF RawWithout, Inv, TypeI
    <2>2. IdleBytes({}) = {}
        BY DEF IdleBytes
    <2>3. MemoryInPools({}) = 0 /\ allocatedMemory - MemoryInPools({}) = allocatedMemory
        BY <2>2, FS_EmptySet, MemoryPoolAssumption DEF MemoryInPools, CountI
    <2>4. {} \in SUBSET Threads
        OBVIOUS
    <2>5. /\ raw[a] = 0 /\ raw' = [raw EXCEPT ![a] = Needed(t, size)] /\ GiveOut(t, size, a)
          /\ Fits(allocatedMemory, Needed(t, size))
          /\ allocatedMemory' = allocatedMemory + Needed(t, size)
          /\ peakMemoryUsage' = Larger(peakMemoryUsage, allocatedMemory')
        BY <1>2 DEF AllocNew
    <2> QED
        BY <1>1, <1>2, <2>1, <2>3, <2>4, <2>5, NewCount
<1>3. ASSUME ~destroyed, NEW t \in Threads, NEW size \in Requests, NEW a \in Addresses,
             AllocAfterCleanUp(t, size, a)
      PROVE  CountI'
    <2>1. UNION {Idle(u) : u \in {t}} = Idle(t) /\ {t} \in SUBSET Threads
        OBVIOUS
    <2>2. /\ RawWithout(Idle(t))[a] = 0 /\ GiveOut(t, size, a)
          /\ raw' = [RawWithout(Idle(t)) EXCEPT ![a] = Needed(t, size)]
          /\ Fits(allocatedMemory - MemoryInPools({t}), Needed(t, size))
          /\ allocatedMemory' = allocatedMemory - MemoryInPools({t}) + Needed(t, size)
          /\ peakMemoryUsage' = Larger(peakMemoryUsage, allocatedMemory')
        BY <1>3 DEF AllocAfterCleanUp
    <2> QED
        BY <1>1, <1>3, <2>1, <2>2, NewCount
<1>4. ASSUME ~destroyed, NEW t \in Threads, NEW size \in Requests, AllocFails(t, size) PROVE CountI'
    BY <1>4, FreedCount, {t} \in SUBSET Threads DEF AllocFails
<1>5. ASSUME ~destroyed, NEW t \in Threads, CleanUp(t) PROVE CountI'
    BY <1>5, FreedCount, {t} \in SUBSET Threads DEF CleanUp
<1>6. CASE Destroy
    BY <1>6, FreedCount, Threads \in SUBSET Threads DEF Destroy
<1>7. ASSUME UNCHANGED <<Pool, usedMap, raw, allocatedMemory, freeMemorySize, destroyed>>,
             peakMemoryUsage' = peakMemoryUsage \/ peakMemoryUsage' = allocatedMemory
      PROVE  CountI'
    <2>1. BlocksCounted' <=> BlocksCounted
        BY <1>7 DEF BlocksCounted, Total, Bytes
    <2>2. \A t : Idle(t)' = Idle(t)
        BY <1>7 DEF Idle
    <2> QED
        BY <1>7, <2>1, <2>2, MemoryPoolAssumption DEF CountI
<1>8. ASSUME NEW t \in Threads, NEW enable \in BOOLEAN, SetReuseMemoryMode(t, enable) PROVE CountI'
    BY <1>7, <1>8 DEF SetReuseMemoryMode, counters
<1>9. ASSUME NEW t \in Threads, NEW a \in Addresses, TransferHandleToThisThread(t, a) PROVE CountI'
    BY <1>7, <1>9 DEF TransferHandleToThisThread, counters
<1>10. CASE ResetPeakMemoryUsage \/ UNCHANGED vars
    BY <1>7, <1>10 DEF ResetPeakMemoryUsage, vars, counters
<1> QED
    BY <1>1, <1>2, <1>3, <1>4, <1>5, <1>6, <1>8, <1>9, <1>10, ReusedCount, FreedBlockCount
    DEF Next, Alloc

LEMMA CountersInvariant == Spec => [](Inv /\ CountI)
    BY InitInv, NextInv, InitCount, NextCount, PTL DEF Spec

\* The counters of the heap are right in every state: allocatedMemory is what the raw
\* memory manager gave out, freeMemorySize the limit without the memory in use, though
\* blocks go back by pools, by blocks and by threads that did not allocate them.
THEOREM AccountingCorrect == Spec => []Accounting
<1>1. CountI => Accounting
    BY DEF CountI, Accounting
<1> QED
    BY <1>1, CountersInvariant, PTL

\* The type invariant of the heap: no unsigned counter wraps around, and the limit is
\* never exceeded.
THEOREM TypeCorrect == Spec => []TypeOK
<1> DEFINE Flag == destroyed \in BOOLEAN
<1>1. Init => Flag
    BY DEF Init
<1>2. Flag /\ [Next]_vars => Flag'
    <2> SUFFICES ASSUME [Next]_vars PROVE destroyed' = destroyed \/ destroyed' = TRUE
        OBVIOUS
    <2>1. ASSUME NEW t \in Threads, Alloc(t) PROVE destroyed' = destroyed
        BY <2>1 DEF Alloc, Reuse, AllocNew, AllocAfterCleanUp, AllocFails, GiveOut
    <2>2. ASSUME Next PROVE destroyed' = destroyed \/ destroyed' = TRUE
        BY <2>1, <2>2 DEF Next, SetReuseMemoryMode, TransferHandleToThisThread, CleanUp,
                          FreeBuffer, FreePlain, ResetPeakMemoryUsage, Destroy
    <2> QED
        BY <2>2 DEF vars
<1>3. Inv /\ CountI /\ Flag => TypeOK
    <2> SUFFICES ASSUME Inv, CountI, Flag PROVE TypeOK
        OBVIOUS
    <2>1. Total(usedMap) <= Total(Addresses) /\ Total(usedMap) \in Nat /\ Total(Addresses) \in Nat
        <3>1. raw \in [Addresses -> Nat] /\ usedMap \in SUBSET Addresses
            BY DEF Inv, TypeI
        <3>2. /\ Sum(raw, Addresses) = Sum(raw, usedMap) + Sum(raw, Addresses \ usedMap)
              /\ Sum(raw, usedMap) \in Nat /\ Sum(raw, Addresses \ usedMap) \in Nat
            BY <3>1, Addresses \in SUBSET Addresses, SumSplit, SumType
        <3> QED
            BY <3>2, SumIsTotal
    <2>2. freeMemorySize \in 0 .. memoryLimit
        BY <2>1, MemoryPoolAssumption DEF CountI, BlocksCounted
    <2> QED
        BY <2>2 DEF Inv, TypeI, CountI, TypeOK
<1> QED
    BY <1>1, <1>2, <1>3, CountersInvariant, PTL DEF Spec

\* The destructor returns all the memory that is not in use, to whichever pools of
\* whichever threads it had gone.
THEOREM NothingLeaks == Spec => []NoLeak
<1>1. Inv /\ CountI => NoLeak
    <2> SUFFICES ASSUME Inv, CountI, destroyed PROVE allocatedMemory = Total(usedMap)
        BY DEF NoLeak
    <2>1. TypeI /\ Owned
        BY OwnedSame DEF Inv
    <2>2. raw \in [Addresses -> Nat] /\ usedMap \in SUBSET Addresses
        BY <2>1 DEF TypeI
    <2>3. \A a \in Addresses \ usedMap : raw[a] = 0
        <3>1. \A a \in Addresses : ~SomePool(a)
            BY InIdle DEF CountI, SomePool
        <3> QED
            BY <2>1, <2>2, <3>1 DEF Owned, LiveI
    <2>4. Sum(raw, Addresses \ usedMap) = 0
        BY <2>3, SumNone
    <2>5. /\ Sum(raw, Addresses) = Sum(raw, usedMap) + Sum(raw, Addresses \ usedMap)
          /\ Sum(raw, usedMap) \in Nat
        BY <2>2, Addresses \in SUBSET Addresses, SumSplit, SumType
    <2> QED
        BY <2>4, <2>5, SumIsTotal DEF CountI, BlocksCounted
<1> QED
    BY <1>1, CountersInvariant, PTL
=============================================================================
