------------------------ MODULE CudaDeviceSlotsProofs ------------------------
(***************************************************************************)
(* Proofs about CudaDeviceSlots for any number of processes, threads and   *)
(* slots: a slot has one owner (SlotsExclusive), a capture gets what it    *)
(* has counted (CaptureComplete), slots come back (NoSlotLost) and locks   *)
(* are not left behind (LocksHeldInCalls), through crashes, exceptions,    *)
(* pids used again and timeouts.                                           *)
(*                                                                         *)
(* Only the caller that has locked the file changes it, and only entries   *)
(* that are not those of a living process.                                 *)
(***************************************************************************)
EXTENDS CudaDeviceSlots, FiniteSetTheorems, TLAPS

Ops == {"capture", "release", "usage"}
Holding == {"checking", "capturing", "writing", "releasing", "closing"}

\* The types, and where the counters of a call stand.
TypeI ==
    /\ TypeOK
    /\ \A c \in Callers :
          /\ pc[c] = "writing" => index[c] \in Slots
          /\ pc[c] = "checking" => free[c] < index[c]
          /\ pc[c] \in {"idle", "opening", "locking"} => free[c] = 0 /\ index[c] = 1

\* Who has the locks.
LockI ==
    \A c \in Callers :
        /\ pc[c] \in Holding => flock = c
        /\ pc[c] \in Holding \cup {"locking"} => mutex[Pid(c)] = c[2]

\* Whoever has a lock uses it, or has left it in an Open that has thrown.
HeldI ==
    /\ LocksHeldInCalls
    /\ \A p \in Pids : mutex[p] # None => <<p, mutex[p]>> \in Callers

\* Only living processes are in a call or have slots.
AliveI == \A c \in Callers : pc[c] # "idle" \/ slots[c] # {} => life[Pid(c)] # 0

\* Nobody has slots before the file was filled.
FilledI == \A c \in Callers : pc[c] \in Holding \/ slots[c] # {} => length

\* The slot that is being captured has no owner.
WritingI ==
    \A c \in Callers : pc[c] = "writing" =>
        /\ file[index[c]].pid = Pid(c)
        /\ \A d \in Callers : index[c] \notin slots[d]

\* No start time is in the future.
TimeI ==
    /\ \A s \in Slots : file[s].time <= started
    /\ \A p \in Pids : life[p] <= started

\* The entries from i to j of a file that are filled with zeroes.
Empty(f, i, j) == {s \in i .. j : f[s] = NoEntry}

\* The slots that were counted stay free until they are captured.
CountI ==
    \A c \in Callers :
        /\ pc[c] = "checking" => free[c] <= Cardinality(Empty(file, 1, index[c] - 1))
        /\ pc[c] = "capturing" =>
              Cardinality(slots[c]) + Cardinality(Empty(file, index[c], NumSlots)) >= call[c].count
        /\ pc[c] = "writing" =>
              Cardinality(slots[c]) + 1 + Cardinality(Empty(file, index[c] + 1, NumSlots)) >= call[c].count

Inv == TypeI /\ LockI /\ HeldI /\ AliveI /\ FilledI /\ SlotsExclusive /\ WritingI /\ TimeI /\ NoSlotLost /\ CountI

-----------------------------------------------------------------------------
\* Callers are told apart by their processes and their threads.
LEMMA CallerFacts ==
    /\ \A c \in Callers : /\ Pid(c) \in Pids /\ Pid(c) \in Nat \ {0}
                          /\ c[2] \in Threads /\ c # None /\ c[2] # None
    /\ \A c, d \in Callers : Pid(c) = Pid(d) /\ c[2] = d[2] => c = d
<1>1. \A c \in Callers : c \in Pids \X Threads /\ c # None
  BY SlotsAssumption
<1>2. \A c \in Callers : c = <<c[1], c[2]>> /\ c[1] \in Pids /\ c[2] \in Threads
  BY <1>1
<1> QED BY <1>1, <1>2, SlotsAssumption DEF Pid

\* What is written to the file are entries.
LEMMA EntryFacts ==
    ASSUME TypeOK
    PROVE  /\ NoEntry \in Entry /\ ~Taken(NoEntry)
           /\ \A p \in Pids : StartTime(p) \in 0 .. MaxStarts
           /\ \A p \in Pids, t \in 0 .. MaxStarts : [pid |-> p, time |-> t] \in Entry
           /\ \A s \in Slots : Swept(s) \in [Slots -> Entry]
<1> USE SlotsAssumption
<1>1. NoEntry \in Entry /\ ~Taken(NoEntry)
  BY DEF NoEntry, Entry, Taken
<1>2. \A p \in Pids : StartTime(p) \in 0 .. MaxStarts
  BY DEF TypeOK, StartTime
<1>3. \A p \in Pids, t \in 0 .. MaxStarts : [pid |-> p, time |-> t] \in Entry
  BY DEF Entry
<1>4. file \in [Slots -> Entry]
  BY DEF TypeOK
<1>5. \A s \in Slots : Swept(s) \in [Slots -> Entry]
  BY <1>1, <1>4 DEF Swept
<1> QED BY <1>1, <1>2, <1>3, <1>5

\* The entry of a slot that somebody has is that of a living process.
LEMMA OwnedTaken ==
    ASSUME TypeI, AliveI, SlotsExclusive, NEW c \in Callers, NEW s \in slots[c]
    PROVE  Taken(file[s]) /\ file[s] # NoEntry
<1>1. s \in Slots /\ file[s] = [pid |-> Pid(c), time |-> StartTime(Pid(c))] /\ life[Pid(c)] # 0
  BY DEF TypeI, TypeOK, AliveI, SlotsExclusive
<1>2. Pid(c) # 0 /\ Pid(c) \in Pids
  BY CallerFacts, SlotsAssumption
<1> QED BY <1>1, <1>2 DEF Taken, NoEntry

\* Sweeping leaves alone what somebody has.
LEMMA SweptKeeps ==
    ASSUME TypeI, AliveI, SlotsExclusive, NEW i \in Slots, NEW c \in Callers, NEW s \in slots[c]
    PROVE  Swept(i)[s] = file[s]
<1>1. s \in Slots /\ file \in [Slots -> Entry] /\ Taken(file[s])
  BY OwnedTaken DEF TypeI, TypeOK
<1>2. CASE i = s
  BY <1>1, <1>2 DEF Swept, IsSlotFree
<1>3. CASE i # s
  BY <1>1, <1>3 DEF Swept
<1> QED BY <1>2, <1>3

\* What a call that ends leaves of its variables.
LEMMA ReturnTypes ==
    ASSUME TypeI, NEW c \in Callers, NEW dropped \in BOOLEAN, Return(c), DropHandle(c, dropped)
    PROVE  /\ pc' \in [Callers -> {"idle", "opening", "locking", "checking", "capturing", "writing",
                                    "releasing", "closing"}]
           /\ call' \in [Callers -> CallSet]
           /\ index' \in [Callers -> 1 .. NumSlots + 1] /\ free' \in [Callers -> 0 .. NumSlots]
           /\ slots' \in [Callers -> SUBSET Slots] /\ forgotten' \in [Pids -> SUBSET Slots]
           /\ \A d \in Callers :
                 /\ pc'[d] = "writing" => index'[d] \in Slots
                 /\ pc'[d] = "checking" => free'[d] < index'[d]
                 /\ pc'[d] \in {"idle", "opening", "locking"} => free'[d] = 0 /\ index'[d] = 1
<1>1. NumSlots \in Nat
  BY SlotsAssumption
<1>2. /\ pc' = [pc EXCEPT ![c] = "idle"] /\ call' = [call EXCEPT ![c] = NoCall]
      /\ index' = [index EXCEPT ![c] = 1] /\ free' = [free EXCEPT ![c] = 0]
  BY DEF Return
<1>3. /\ index' \in [Callers -> 1 .. NumSlots + 1] /\ free' \in [Callers -> 0 .. NumSlots]
      /\ pc' \in [Callers -> {"idle", "opening", "locking", "checking", "capturing", "writing",
                               "releasing", "closing"}]
  BY <1>1, <1>2 DEF TypeI, TypeOK
<1>4. call' \in [Callers -> CallSet]
  BY <1>1, <1>2 DEF TypeI, TypeOK, CallSet, NoCall
<1>5. slots' \in [Callers -> SUBSET Slots] /\ forgotten' \in [Pids -> SUBSET Slots]
  <2>1. forgotten[Pid(c)] \cup slots[c] \in SUBSET Slots
    BY CallerFacts DEF TypeI, TypeOK
  <2> QED BY <2>1 DEF DropHandle, TypeI, TypeOK
<1>6. \A d \in Callers : /\ pc'[d] = "writing" => index'[d] \in Slots
                         /\ pc'[d] = "checking" => free'[d] < index'[d]
                         /\ pc'[d] \in {"idle", "opening", "locking"} => free'[d] = 0 /\ index'[d] = 1
  BY <1>2 DEF TypeI, TypeOK
<1> QED BY <1>3, <1>4, <1>5, <1>6

\* The types are preserved by every step.
LEMMA TypeStep ==
    TypeI /\ [Next]_vars => TypeI'
<1> SUFFICES ASSUME TypeI, [Next]_vars PROVE TypeI'
  OBVIOUS
<1> USE SlotsAssumption
<1>1. CASE UNCHANGED vars
  BY <1>1 DEF TypeI, TypeOK, Entry, CallSet, Slots, NoEntry, NoCall, Pid, Ops, vars, systemVars, lockVars, fileVars, localVars, historyVars
<1>2. ASSUME NEW p \in Pids, Start(p) PROVE TypeI'
  BY <1>2, SMTT(30) DEF TypeI, TypeOK, Entry, CallSet, Slots, NoEntry, NoCall, Pid, Ops, Start, systemVars, lockVars, fileVars, localVars, historyVars
<1>3. ASSUME NEW p \in Pids, Crash(p) PROVE TypeI'
  <2>1. /\ life' \in [Pids -> 0 .. MaxStarts] /\ mutex' \in [Pids -> Threads \cup {None}]
        /\ flock' \in Callers \cup {None} /\ UNCHANGED <<started, length, file>>
        /\ forgotten' \in [Pids -> SUBSET Slots] /\ leaked' \subseteq Callers
    BY <1>3 DEF TypeI, TypeOK, Crash, fileVars
  <2>2. /\ call' \in [Callers -> CallSet] /\ slots' \in [Callers -> SUBSET Slots]
        /\ calls' \in [Callers -> 0 .. MaxCalls]
    BY <1>3 DEF TypeI, TypeOK, Crash, CallSet, NoCall
  <2>3. \A c \in Callers : /\ pc'[c] = IF Pid(c) = p THEN "idle" ELSE pc[c]
                           /\ index'[c] = IF Pid(c) = p THEN 1 ELSE index[c]
                           /\ free'[c] = IF Pid(c) = p THEN 0 ELSE free[c]
    BY <1>3 DEF Crash
  <2>4. /\ pc' \in [Callers -> {"idle", "opening", "locking", "checking", "capturing", "writing",
                                "releasing", "closing"}]
        /\ index' \in [Callers -> 1 .. NumSlots + 1] /\ free' \in [Callers -> 0 .. NumSlots]
    BY <1>3 DEF TypeI, TypeOK, Crash
  <2> QED BY <2>1, <2>2, <2>3, <2>4 DEF TypeI, TypeOK
<1>4. ASSUME NEW c \in Callers, NEW op \in Ops, NEW count \in 0 .. NumSlots, Begin(c, op, count) PROVE TypeI'
  <2>1. /\ call' \in [Callers -> CallSet] /\ calls' \in [Callers -> 0 .. MaxCalls]
    BY <1>4 DEF TypeI, TypeOK, Begin, CallSet, Ops
  <2> QED BY <1>4, <2>1 DEF TypeI, TypeOK, Begin, systemVars, lockVars, fileVars
<1>5. ASSUME NEW c \in Callers, LockMutex(c) PROVE TypeI'
  BY <1>5 DEF TypeI, TypeOK, Entry, CallSet, Slots, NoEntry, NoCall, Pid, Ops, LockMutex, systemVars, lockVars, fileVars, localVars, historyVars
<1>6. ASSUME NEW c \in Callers, LockFile(c) PROVE TypeI'
  BY <1>6, SMTT(30) DEF TypeI, TypeOK, Entry, CallSet, Slots, NoEntry, NoCall, Pid, Ops, LockFile, systemVars, lockVars, fileVars, localVars, historyVars
<1>7. ASSUME NEW c \in Callers, OpenFails(c) PROVE TypeI'
  <2>1. /\ UNCHANGED <<started, life, flock, length, file, calls, leaked>>
        /\ mutex' \in [Pids -> Threads \cup {None}]
    BY <1>7, CallerFacts DEF OpenFails, systemVars, fileVars, TypeI, TypeOK
  <2> QED BY <1>7, <2>1, ReturnTypes DEF OpenFails, TypeI, TypeOK
<1>8. ASSUME NEW c \in Callers, CheckSlot(c) PROVE TypeI'
  <2>1. index[c] \in 1 .. NumSlots /\ free[c] \in 0 .. NumSlots - 1 /\ NumSlots \in Nat
    BY <1>8 DEF TypeI, TypeOK, CheckSlot
  <2>2. file' \in [Slots -> Entry]
    BY <1>8, <2>1, EntryFacts DEF TypeI, CheckSlot, Slots
  <2>3. /\ free' \in [Callers -> 0 .. NumSlots]
        /\ \A d \in Callers : d # c => free'[d] = free[d]
        /\ free'[c] <= free[c] + 1
    BY <1>8, <2>1 DEF TypeI, TypeOK, CheckSlot
  <2>4. /\ index' = [index EXCEPT ![c] = @ + 1] /\ index' \in [Callers -> 1 .. NumSlots + 1]
    BY <1>8, <2>1 DEF TypeI, TypeOK, CheckSlot
  <2>5. pc[c] = "checking" /\ UNCHANGED <<started, life, mutex, flock, length, pc, call, slots, calls, forgotten, leaked>>
    BY <1>8 DEF CheckSlot, systemVars, lockVars, historyVars
  <2>6. \A d \in Callers : pc[d] = "checking" => free'[d] < index'[d]
    BY <2>1, <2>3, <2>4, <2>5 DEF TypeI, TypeOK
  <2>7. \A d \in Callers : /\ pc[d] = "writing" => index'[d] \in Slots
                           /\ pc[d] \in {"idle", "opening", "locking"} => free'[d] = 0 /\ index'[d] = 1
    BY <2>1, <2>3, <2>4, <2>5 DEF TypeI, TypeOK
  <2> QED BY <2>2, <2>3, <2>4, <2>5, <2>6, <2>7 DEF TypeI, TypeOK
<1>9. ASSUME NEW c \in Callers, Decide(c) PROVE TypeI'
  BY <1>9, SMTT(30) DEF TypeI, TypeOK, Entry, CallSet, Slots, NoEntry, NoCall, Pid, Ops, Decide, systemVars, lockVars, fileVars, localVars, historyVars
<1>10. ASSUME NEW c \in Callers, CaptureSlot(c) PROVE TypeI'
  <2>1. /\ index[c] \in Slots /\ pc[c] = "capturing"
        /\ UNCHANGED <<started, life, mutex, flock, length, call, free, slots, calls, forgotten, leaked>>
    BY <1>10 DEF TypeI, TypeOK, CaptureSlot, Slots, systemVars, lockVars, historyVars
  <2>2. CASE IsSlotFree(index[c])
    <3>1. /\ file' = [file EXCEPT ![index[c]] = [pid |-> Pid(c), time |-> 0]]
          /\ pc' = [pc EXCEPT ![c] = "writing"] /\ index' = index
      BY <1>10, <2>2 DEF CaptureSlot
    <3>2. [pid |-> Pid(c), time |-> 0] \in Entry
      BY CallerFacts, SlotsAssumption DEF Entry
    <3>3. file' \in [Slots -> Entry]
      BY <3>1, <3>2 DEF TypeI, TypeOK
    <3> QED BY <2>1, <3>1, <3>3 DEF TypeI, TypeOK
  <2>3. CASE ~IsSlotFree(index[c])
    <3>1. index' = [index EXCEPT ![c] = @ + 1] /\ UNCHANGED <<file, pc>>
      BY <1>10, <2>3 DEF CaptureSlot
    <3> QED BY <2>1, <3>1, SMTT(30) DEF TypeI, TypeOK, Slots
  <2> QED BY <2>2, <2>3
<1>11. ASSUME NEW c \in Callers, WriteTime(c) PROVE TypeI'
  <2>1. index[c] \in Slots /\ file \in [Slots -> Entry] /\ StartTime(Pid(c)) \in 0 .. MaxStarts
    BY <1>11, EntryFacts, CallerFacts DEF TypeI, TypeOK, WriteTime
  <2>2. [file[index[c]] EXCEPT !.time = StartTime(Pid(c))] \in Entry
    BY <2>1 DEF Entry
  <2>3. file' \in [Slots -> Entry]
    BY <1>11, <2>1, <2>2 DEF WriteTime
  <2>4. /\ slots' \in [Callers -> SUBSET Slots] /\ index' \in [Callers -> 1 .. NumSlots + 1]
    BY <1>11, <2>1, SMTT(30) DEF TypeI, TypeOK, WriteTime, Slots
  <2> QED BY <1>11, <2>3, <2>4 DEF TypeI, TypeOK, WriteTime, systemVars, lockVars, historyVars
<1>12. ASSUME NEW c \in Callers, ReleaseSlot(c) PROVE TypeI'
  <2>1. PICK s \in slots[c] : file' = [file EXCEPT ![s] = NoEntry] /\ slots' = [slots EXCEPT ![c] = @ \ {s}]
    BY <1>12 DEF ReleaseSlot
  <2>2. file' \in [Slots -> Entry] /\ slots' \in [Callers -> SUBSET Slots]
    BY <2>1, EntryFacts DEF TypeI, TypeOK
  <2>3. /\ pc[c] = "releasing" /\ (pc' = [pc EXCEPT ![c] = "closing"] \/ pc' = pc)
        /\ UNCHANGED <<started, life, mutex, flock, length, call, index, free, calls, forgotten, leaked>>
    BY <1>12 DEF ReleaseSlot, systemVars, lockVars, historyVars, TypeI, TypeOK
  <2> QED BY <2>2, <2>3 DEF TypeI, TypeOK
<1>13. ASSUME NEW c \in Callers, Close(c) PROVE TypeI'
  BY <1>13, SMTT(30) DEF TypeI, TypeOK, Entry, CallSet, Slots, NoEntry, NoCall, Pid, Ops, Close, Unlock, Return, systemVars, lockVars, fileVars, localVars, historyVars
<1>14. ASSUME NEW c \in Callers, OpenThrows(c) PROVE TypeI'
  BY <1>14, SMTT(30) DEF TypeI, TypeOK, Entry, CallSet, Slots, NoEntry, NoCall, Pid, OpenThrows, Return, systemVars, fileVars
<1>15. ASSUME NEW c \in Callers, IOThrows(c) PROVE TypeI'
  <2>1. /\ UNCHANGED <<started, life, length, file, calls, leaked>>
        /\ mutex' \in [Pids -> Threads \cup {None}] /\ flock' \in Callers \cup {None}
    BY <1>15, CallerFacts DEF IOThrows, Unlock, systemVars, fileVars, TypeI, TypeOK
  <2> QED BY <1>15, <2>1, ReturnTypes DEF IOThrows, TypeI, TypeOK
<1>16. QED
  BY <1>1, <1>2, <1>3, <1>4, <1>5, <1>6, <1>7, <1>8, <1>9, <1>10, <1>11, <1>12, <1>13, <1>14, <1>15 DEF Next, Call, Step, Ops

\* A lock has one owner.
LEMMA LockStep ==
    TypeI /\ LockI /\ [Next]_vars => LockI'
<1> SUFFICES ASSUME TypeI /\ LockI, [Next]_vars PROVE LockI'
  OBVIOUS
<1> USE SlotsAssumption
<1>1. CASE UNCHANGED vars
  BY <1>1, CallerFacts DEF TypeI, TypeOK, LockI, Holding, vars, systemVars, lockVars, fileVars, localVars, historyVars
<1>2. ASSUME NEW p \in Pids, Start(p) PROVE LockI'
  BY <1>2, CallerFacts DEF TypeI, TypeOK, LockI, Holding, Start, systemVars, lockVars, fileVars, localVars, historyVars
<1>3. ASSUME NEW p \in Pids, Crash(p) PROVE LockI'
  BY <1>3, CallerFacts DEF TypeI, TypeOK, LockI, Holding, Crash, systemVars, lockVars, fileVars, localVars, historyVars
<1>4. ASSUME NEW c \in Callers, NEW op \in Ops, NEW count \in 0 .. NumSlots, Begin(c, op, count) PROVE LockI'
  BY <1>4, CallerFacts DEF TypeI, TypeOK, LockI, Holding, Begin, systemVars, lockVars, fileVars, localVars, historyVars
<1>5. ASSUME NEW c \in Callers, LockMutex(c) PROVE LockI'
  BY <1>5, CallerFacts DEF TypeI, TypeOK, LockI, Holding, LockMutex, systemVars, lockVars, fileVars, localVars, historyVars
<1>6. ASSUME NEW c \in Callers, LockFile(c) PROVE LockI'
  BY <1>6, CallerFacts DEF TypeI, TypeOK, LockI, Holding, LockFile, systemVars, lockVars, fileVars, localVars, historyVars
<1>7. ASSUME NEW c \in Callers, OpenFails(c) PROVE LockI'
  BY <1>7, CallerFacts DEF TypeI, TypeOK, LockI, Holding, OpenFails, Return, DropHandle, systemVars, lockVars, fileVars, localVars, historyVars
<1>8. ASSUME NEW c \in Callers, CheckSlot(c) PROVE LockI'
  BY <1>8, CallerFacts DEF TypeI, TypeOK, LockI, Holding, CheckSlot, Swept, IsSlotFree, Taken, StartTime, systemVars, lockVars, fileVars, localVars, historyVars
<1>9. ASSUME NEW c \in Callers, Decide(c) PROVE LockI'
  BY <1>9, CallerFacts DEF TypeI, TypeOK, LockI, Holding, Decide, systemVars, lockVars, fileVars, localVars, historyVars
<1>10. ASSUME NEW c \in Callers, CaptureSlot(c) PROVE LockI'
  BY <1>10, CallerFacts DEF TypeI, TypeOK, LockI, Holding, CaptureSlot, IsSlotFree, Taken, StartTime, systemVars, lockVars, fileVars, localVars, historyVars
<1>11. ASSUME NEW c \in Callers, WriteTime(c) PROVE LockI'
  BY <1>11, CallerFacts DEF TypeI, TypeOK, LockI, Holding, WriteTime, StartTime, systemVars, lockVars, fileVars, localVars, historyVars
<1>12. ASSUME NEW c \in Callers, ReleaseSlot(c) PROVE LockI'
  BY <1>12, CallerFacts DEF TypeI, TypeOK, LockI, Holding, ReleaseSlot, systemVars, lockVars, fileVars, localVars, historyVars
<1>13. ASSUME NEW c \in Callers, Close(c) PROVE LockI'
  BY <1>13, CallerFacts DEF TypeI, TypeOK, LockI, Holding, Close, Unlock, Return, systemVars, lockVars, fileVars, localVars, historyVars
<1>14. ASSUME NEW c \in Callers, OpenThrows(c) PROVE LockI'
  BY <1>14, CallerFacts DEF TypeI, TypeOK, LockI, Holding, OpenThrows, Return, systemVars, fileVars
<1>15. ASSUME NEW c \in Callers, IOThrows(c) PROVE LockI'
  BY <1>15, CallerFacts DEF TypeI, TypeOK, LockI, Holding, IOThrows, Unlock, Return, DropHandle, systemVars, fileVars
<1>16. QED
  BY <1>1, <1>2, <1>3, <1>4, <1>5, <1>6, <1>7, <1>8, <1>9, <1>10, <1>11, <1>12, <1>13, <1>14, <1>15 DEF Next, Call, Step, Ops

\* A caller is a process and a thread.
LEMMA PairFacts ==
    /\ \A c \in Callers : c = <<Pid(c), c[2]>>
    /\ \A p, m : Pid(<<p, m>>) = p /\ <<p, m>>[2] = m
<1>1. \A c \in Callers : c \in Pids \X Threads
  BY SlotsAssumption
<1> QED BY <1>1 DEF Pid

\* A lock is taken and freed by the call that uses it.
LEMMA HeldStep ==
    TypeI /\ LockI /\ HeldI /\ [Next]_vars => HeldI'
<1> SUFFICES ASSUME TypeI /\ LockI /\ HeldI, [Next]_vars PROVE HeldI'
  OBVIOUS
<1>1. CASE UNCHANGED vars
  BY <1>1 DEF HeldI, LocksHeldInCalls, vars, lockVars, historyVars
<1>2. ASSUME NEW p \in Pids, Start(p) PROVE HeldI'
  BY <1>2, CallerFacts, PairFacts DEF TypeI, TypeOK, LockI, Holding, HeldI, LocksHeldInCalls, Start, lockVars, historyVars
<1>3. ASSUME NEW p \in Pids, Crash(p) PROVE HeldI'
  BY <1>3, CallerFacts, PairFacts DEF TypeI, TypeOK, LockI, Holding, HeldI, LocksHeldInCalls, Crash, lockVars, historyVars
<1>4. ASSUME NEW c \in Callers, NEW op \in Ops, NEW count \in 0 .. NumSlots, Begin(c, op, count) PROVE HeldI'
  BY <1>4, CallerFacts, PairFacts DEF TypeI, TypeOK, LockI, Holding, HeldI, LocksHeldInCalls, Begin, lockVars, historyVars
<1>5. ASSUME NEW c \in Callers, LockMutex(c) PROVE HeldI'
  <2>1. /\ mutex' = [mutex EXCEPT ![Pid(c)] = c[2]] /\ pc' = [pc EXCEPT ![c] = "locking"]
        /\ pc[c] = "opening" /\ mutex[Pid(c)] = None /\ UNCHANGED <<flock, leaked>>
    BY <1>5 DEF LockMutex, historyVars
  <2>2. ASSUME NEW p \in Pids, mutex'[p] # None
        PROVE  /\ <<p, mutex'[p]>> \in Callers
               /\ <<p, mutex'[p]>> \in leaked \/ pc'[<<p, mutex'[p]>>] \notin {"idle", "opening"}
    <3>1. CASE p = Pid(c)
      <4>1. mutex'[p] = c[2] /\ <<p, c[2]>> = c
        BY <2>1, <3>1, CallerFacts, PairFacts DEF TypeI, TypeOK
      <4> QED BY <2>1, <4>1 DEF TypeI, TypeOK
    <3>2. CASE p # Pid(c)
      <4>1. mutex'[p] = mutex[p] /\ <<p, mutex[p]>> # c
        BY <2>1, <3>2, PairFacts DEF TypeI, TypeOK
      <4> QED BY <2>1, <2>2, <4>1 DEF HeldI, LocksHeldInCalls, TypeI, TypeOK
    <3> QED BY <3>1, <3>2
  <2>3. flock' # None => flock' \in leaked \/ pc'[flock'] \notin {"idle", "opening", "locking"}
    BY <2>1 DEF HeldI, LocksHeldInCalls, TypeI, TypeOK
  <2> QED BY <2>1, <2>2, <2>3 DEF HeldI, LocksHeldInCalls
<1>6. ASSUME NEW c \in Callers, LockFile(c) PROVE HeldI'
  BY <1>6, CallerFacts, PairFacts DEF TypeI, TypeOK, LockI, Holding, HeldI, LocksHeldInCalls, LockFile, lockVars, historyVars
<1>7. ASSUME NEW c \in Callers, OpenFails(c) PROVE HeldI'
  <2>1. /\ pc' = [pc EXCEPT ![c] = "idle"] /\ pc[c] \in {"opening", "locking"}
        /\ UNCHANGED <<flock, leaked>>
    BY <1>7 DEF OpenFails, Return
  <2>2. ASSUME NEW p \in Pids, mutex'[p] # None
        PROVE  /\ <<p, mutex'[p]>> \in Callers
               /\ <<p, mutex'[p]>> \in leaked \/ pc'[<<p, mutex'[p]>>] \notin {"idle", "opening"}
    <3>1. mutex'[p] = mutex[p] /\ (pc[c] = "opening" \/ p # Pid(c))
      BY <1>7, <2>2, CallerFacts DEF OpenFails, TypeI, TypeOK
    <3>2. /\ <<p, mutex[p]>> \in Callers
          /\ <<p, mutex[p]>> \in leaked \/ pc[<<p, mutex[p]>>] \notin {"idle", "opening"}
      BY <2>2, <3>1 DEF HeldI, LocksHeldInCalls
    <3>3. <<p, mutex[p]>> = c => p = Pid(c)
      BY PairFacts
    <3> QED BY <2>1, <3>1, <3>2, <3>3 DEF TypeI, TypeOK
  <2>3. flock' # None => flock' \in leaked \/ pc'[flock'] \notin {"idle", "opening", "locking"}
    BY <2>1 DEF HeldI, LocksHeldInCalls, TypeI, TypeOK
  <2> QED BY <2>1, <2>2, <2>3 DEF HeldI, LocksHeldInCalls
<1>8. ASSUME NEW c \in Callers, CheckSlot(c) PROVE HeldI'
  BY <1>8, CallerFacts, PairFacts DEF TypeI, TypeOK, LockI, Holding, HeldI, LocksHeldInCalls, CheckSlot, lockVars, historyVars
<1>9. ASSUME NEW c \in Callers, Decide(c) PROVE HeldI'
  BY <1>9, CallerFacts, PairFacts DEF TypeI, TypeOK, LockI, Holding, HeldI, LocksHeldInCalls, Decide, lockVars, historyVars
<1>10. ASSUME NEW c \in Callers, CaptureSlot(c) PROVE HeldI'
  BY <1>10, CallerFacts, PairFacts DEF TypeI, TypeOK, LockI, Holding, HeldI, LocksHeldInCalls, CaptureSlot, lockVars, historyVars
<1>11. ASSUME NEW c \in Callers, WriteTime(c) PROVE HeldI'
  BY <1>11, CallerFacts, PairFacts DEF TypeI, TypeOK, LockI, Holding, HeldI, LocksHeldInCalls, WriteTime, lockVars, historyVars
<1>12. ASSUME NEW c \in Callers, ReleaseSlot(c) PROVE HeldI'
  BY <1>12, CallerFacts, PairFacts DEF TypeI, TypeOK, LockI, Holding, HeldI, LocksHeldInCalls, ReleaseSlot, lockVars, historyVars
<1>13. ASSUME NEW c \in Callers, Close(c) PROVE HeldI'
  BY <1>13, CallerFacts, PairFacts DEF TypeI, TypeOK, LockI, Holding, HeldI, LocksHeldInCalls, Close, Unlock, Return, lockVars, historyVars
<1>14. ASSUME NEW c \in Callers, OpenThrows(c) PROVE HeldI'
  BY <1>14, CallerFacts, PairFacts DEF TypeI, TypeOK, LockI, Holding, HeldI, LocksHeldInCalls, OpenThrows, Return, lockVars, historyVars
<1>15. ASSUME NEW c \in Callers, IOThrows(c) PROVE HeldI'
  BY <1>15, CallerFacts, PairFacts DEF TypeI, TypeOK, LockI, Holding, HeldI, LocksHeldInCalls, IOThrows, Unlock, Return, lockVars, historyVars
<1>16. QED
  BY <1>1, <1>2, <1>3, <1>4, <1>5, <1>6, <1>7, <1>8, <1>9, <1>10, <1>11, <1>12, <1>13, <1>14, <1>15 DEF Next, Call, Step, Ops

\* A process that ends leaves its calls and its handles.
LEMMA AliveStep ==
    TypeI /\ AliveI /\ [Next]_vars => AliveI'
<1> SUFFICES ASSUME TypeI /\ AliveI, [Next]_vars PROVE AliveI'
  OBVIOUS
<1> USE SlotsAssumption
<1>1. CASE UNCHANGED vars
  BY <1>1 DEF TypeI, TypeOK, AliveI, Pid, Slots, vars, systemVars, lockVars, fileVars, localVars, historyVars
<1>2. ASSUME NEW p \in Pids, Start(p) PROVE AliveI'
  BY <1>2 DEF TypeI, TypeOK, AliveI, Pid, Slots, Start, systemVars, lockVars, fileVars, localVars, historyVars
<1>3. ASSUME NEW p \in Pids, Crash(p) PROVE AliveI'
  BY <1>3 DEF TypeI, TypeOK, AliveI, Pid, Slots, Crash, systemVars, lockVars, fileVars, localVars, historyVars
<1>4. ASSUME NEW c \in Callers, NEW op \in Ops, NEW count \in 0 .. NumSlots, Begin(c, op, count) PROVE AliveI'
  BY <1>4 DEF TypeI, TypeOK, AliveI, Pid, Slots, Begin, systemVars, lockVars, fileVars, localVars, historyVars
<1>5. ASSUME NEW c \in Callers, LockMutex(c) PROVE AliveI'
  BY <1>5 DEF TypeI, TypeOK, AliveI, Pid, Slots, LockMutex, systemVars, lockVars, fileVars, localVars, historyVars
<1>6. ASSUME NEW c \in Callers, LockFile(c) PROVE AliveI'
  BY <1>6 DEF TypeI, TypeOK, AliveI, Pid, Slots, LockFile, systemVars, lockVars, fileVars, localVars, historyVars
<1>7. ASSUME NEW c \in Callers, OpenFails(c) PROVE AliveI'
  BY <1>7 DEF TypeI, TypeOK, AliveI, Pid, Slots, OpenFails, Return, DropHandle, systemVars, lockVars, fileVars, localVars, historyVars
<1>8. ASSUME NEW c \in Callers, CheckSlot(c) PROVE AliveI'
  BY <1>8 DEF TypeI, TypeOK, AliveI, Pid, Slots, CheckSlot, Swept, IsSlotFree, Taken, StartTime, systemVars, lockVars, fileVars, localVars, historyVars
<1>9. ASSUME NEW c \in Callers, Decide(c) PROVE AliveI'
  BY <1>9 DEF TypeI, TypeOK, AliveI, Pid, Slots, Decide, systemVars, lockVars, fileVars, localVars, historyVars
<1>10. ASSUME NEW c \in Callers, CaptureSlot(c) PROVE AliveI'
  BY <1>10 DEF TypeI, TypeOK, AliveI, Pid, Slots, CaptureSlot, IsSlotFree, Taken, StartTime, systemVars, lockVars, fileVars, localVars, historyVars
<1>11. ASSUME NEW c \in Callers, WriteTime(c) PROVE AliveI'
  BY <1>11 DEF TypeI, TypeOK, AliveI, Pid, Slots, WriteTime, StartTime, systemVars, lockVars, fileVars, localVars, historyVars
<1>12. ASSUME NEW c \in Callers, ReleaseSlot(c) PROVE AliveI'
  BY <1>12 DEF TypeI, TypeOK, AliveI, Pid, Slots, ReleaseSlot, systemVars, lockVars, fileVars, localVars, historyVars
<1>13. ASSUME NEW c \in Callers, Close(c) PROVE AliveI'
  BY <1>13 DEF TypeI, TypeOK, AliveI, Pid, Slots, Close, Unlock, Return, systemVars, lockVars, fileVars, localVars, historyVars
<1>14. ASSUME NEW c \in Callers, OpenThrows(c) PROVE AliveI'
  BY <1>14 DEF TypeI, TypeOK, AliveI, Pid, Slots, OpenThrows, Return, systemVars, fileVars
<1>15. ASSUME NEW c \in Callers, IOThrows(c) PROVE AliveI'
  BY <1>15 DEF TypeI, TypeOK, AliveI, Pid, Slots, IOThrows, Unlock, Return, DropHandle, systemVars, fileVars
<1>16. QED
  BY <1>1, <1>2, <1>3, <1>4, <1>5, <1>6, <1>7, <1>8, <1>9, <1>10, <1>11, <1>12, <1>13, <1>14, <1>15 DEF Next, Call, Step, Ops

\* The file is filled before anything is captured.
LEMMA FilledStep ==
    TypeI /\ FilledI /\ [Next]_vars => FilledI'
<1> SUFFICES ASSUME TypeI /\ FilledI, [Next]_vars PROVE FilledI'
  OBVIOUS
<1> USE SlotsAssumption
<1>1. CASE UNCHANGED vars
  BY <1>1 DEF TypeI, TypeOK, FilledI, Holding, Slots, vars, systemVars, lockVars, fileVars, localVars, historyVars
<1>2. ASSUME NEW p \in Pids, Start(p) PROVE FilledI'
  BY <1>2 DEF TypeI, TypeOK, FilledI, Holding, Slots, Start, systemVars, lockVars, fileVars, localVars, historyVars
<1>3. ASSUME NEW p \in Pids, Crash(p) PROVE FilledI'
  BY <1>3 DEF TypeI, TypeOK, FilledI, Holding, Slots, Crash, systemVars, lockVars, fileVars, localVars, historyVars
<1>4. ASSUME NEW c \in Callers, NEW op \in Ops, NEW count \in 0 .. NumSlots, Begin(c, op, count) PROVE FilledI'
  BY <1>4 DEF TypeI, TypeOK, FilledI, Holding, Slots, Begin, systemVars, lockVars, fileVars, localVars, historyVars
<1>5. ASSUME NEW c \in Callers, LockMutex(c) PROVE FilledI'
  BY <1>5 DEF TypeI, TypeOK, FilledI, Holding, Slots, LockMutex, systemVars, lockVars, fileVars, localVars, historyVars
<1>6. ASSUME NEW c \in Callers, LockFile(c) PROVE FilledI'
  BY <1>6 DEF TypeI, TypeOK, FilledI, Holding, Slots, LockFile, systemVars, lockVars, fileVars, localVars, historyVars
<1>7. ASSUME NEW c \in Callers, OpenFails(c) PROVE FilledI'
  BY <1>7 DEF TypeI, TypeOK, FilledI, Holding, Slots, OpenFails, Return, DropHandle, systemVars, lockVars, fileVars, localVars, historyVars
<1>8. ASSUME NEW c \in Callers, CheckSlot(c) PROVE FilledI'
  BY <1>8 DEF TypeI, TypeOK, FilledI, Holding, Slots, CheckSlot, Swept, IsSlotFree, Taken, StartTime, systemVars, lockVars, fileVars, localVars, historyVars
<1>9. ASSUME NEW c \in Callers, Decide(c) PROVE FilledI'
  BY <1>9 DEF TypeI, TypeOK, FilledI, Holding, Slots, Decide, systemVars, lockVars, fileVars, localVars, historyVars
<1>10. ASSUME NEW c \in Callers, CaptureSlot(c) PROVE FilledI'
  BY <1>10 DEF TypeI, TypeOK, FilledI, Holding, Slots, CaptureSlot, IsSlotFree, Taken, StartTime, systemVars, lockVars, fileVars, localVars, historyVars
<1>11. ASSUME NEW c \in Callers, WriteTime(c) PROVE FilledI'
  BY <1>11 DEF TypeI, TypeOK, FilledI, Holding, Slots, WriteTime, StartTime, systemVars, lockVars, fileVars, localVars, historyVars
<1>12. ASSUME NEW c \in Callers, ReleaseSlot(c) PROVE FilledI'
  BY <1>12 DEF TypeI, TypeOK, FilledI, Holding, Slots, ReleaseSlot, systemVars, lockVars, fileVars, localVars, historyVars
<1>13. ASSUME NEW c \in Callers, Close(c) PROVE FilledI'
  BY <1>13 DEF TypeI, TypeOK, FilledI, Holding, Slots, Close, Unlock, Return, systemVars, lockVars, fileVars, localVars, historyVars
<1>14. ASSUME NEW c \in Callers, OpenThrows(c) PROVE FilledI'
  BY <1>14 DEF TypeI, TypeOK, FilledI, Holding, Slots, OpenThrows, Return, systemVars, fileVars
<1>15. ASSUME NEW c \in Callers, IOThrows(c) PROVE FilledI'
  BY <1>15 DEF TypeI, TypeOK, FilledI, Holding, Slots, IOThrows, Unlock, Return, DropHandle, systemVars, fileVars
<1>16. QED
  BY <1>1, <1>2, <1>3, <1>4, <1>5, <1>6, <1>7, <1>8, <1>9, <1>10, <1>11, <1>12, <1>13, <1>14, <1>15 DEF Next, Call, Step, Ops

\* Start times are given out in order.
LEMMA TimeStep ==
    TypeI /\ TimeI /\ [Next]_vars => TimeI'
<1> SUFFICES ASSUME TypeI /\ TimeI, [Next]_vars PROVE TimeI'
  OBVIOUS
<1> USE SlotsAssumption
<1>1. CASE UNCHANGED vars
  BY <1>1 DEF TypeI, TypeOK, Entry, TimeI, NoEntry, StartTime, Slots, Pid, vars, systemVars, lockVars, fileVars, localVars, historyVars
<1>2. ASSUME NEW p \in Pids, Start(p) PROVE TimeI'
  <2>1. started' = started + 1 /\ life' = [life EXCEPT ![p] = started + 1] /\ file' = file /\ started \in Nat
    BY <1>2 DEF Start, fileVars, TypeI, TypeOK
  <2>2. \A s \in Slots : file[s].time \in Nat
    BY DEF TypeI, TypeOK, Entry
  <2> QED BY <2>1, <2>2 DEF TimeI, TypeI, TypeOK
<1>3. ASSUME NEW p \in Pids, Crash(p) PROVE TimeI'
  BY <1>3 DEF TypeI, TypeOK, Entry, TimeI, NoEntry, StartTime, Slots, Pid, Crash, systemVars, lockVars, fileVars, localVars, historyVars
<1>4. ASSUME NEW c \in Callers, NEW op \in Ops, NEW count \in 0 .. NumSlots, Begin(c, op, count) PROVE TimeI'
  BY <1>4 DEF TypeI, TypeOK, Entry, TimeI, NoEntry, StartTime, Slots, Pid, Begin, systemVars, lockVars, fileVars, localVars, historyVars
<1>5. ASSUME NEW c \in Callers, LockMutex(c) PROVE TimeI'
  BY <1>5 DEF TypeI, TypeOK, Entry, TimeI, NoEntry, StartTime, Slots, Pid, LockMutex, systemVars, lockVars, fileVars, localVars, historyVars
<1>6. ASSUME NEW c \in Callers, LockFile(c) PROVE TimeI'
  BY <1>6 DEF TypeI, TypeOK, Entry, TimeI, NoEntry, StartTime, Slots, Pid, LockFile, systemVars, lockVars, fileVars, localVars, historyVars
<1>7. ASSUME NEW c \in Callers, OpenFails(c) PROVE TimeI'
  BY <1>7 DEF TypeI, TypeOK, Entry, TimeI, NoEntry, StartTime, Slots, Pid, OpenFails, Return, DropHandle, systemVars, lockVars, fileVars, localVars, historyVars
<1>8. ASSUME NEW c \in Callers, CheckSlot(c) PROVE TimeI'
  BY <1>8 DEF TypeI, TypeOK, Entry, TimeI, NoEntry, StartTime, Slots, Pid, CheckSlot, Swept, IsSlotFree, Taken, StartTime, systemVars, lockVars, fileVars, localVars, historyVars
<1>9. ASSUME NEW c \in Callers, Decide(c) PROVE TimeI'
  BY <1>9 DEF TypeI, TypeOK, Entry, TimeI, NoEntry, StartTime, Slots, Pid, Decide, systemVars, lockVars, fileVars, localVars, historyVars
<1>10. ASSUME NEW c \in Callers, CaptureSlot(c) PROVE TimeI'
  <2>1. \A s \in Slots : file'[s].time = file[s].time \/ file'[s].time = 0
    <3>1. \/ file' = file
          \/ file' = [file EXCEPT ![index[c]] = [pid |-> Pid(c), time |-> 0]]
      BY <1>10 DEF CaptureSlot
    <3> QED BY <3>1 DEF TypeI, TypeOK
  <2>2. UNCHANGED <<started, life>> /\ started \in Nat
    BY <1>10 DEF CaptureSlot, systemVars, TypeI, TypeOK
  <2> QED BY <2>1, <2>2 DEF TimeI
<1>11. ASSUME NEW c \in Callers, WriteTime(c) PROVE TimeI'
  BY <1>11 DEF TypeI, TypeOK, Entry, TimeI, NoEntry, StartTime, Slots, Pid, WriteTime, StartTime, systemVars, lockVars, fileVars, localVars, historyVars
<1>12. ASSUME NEW c \in Callers, ReleaseSlot(c) PROVE TimeI'
  BY <1>12 DEF TypeI, TypeOK, Entry, TimeI, NoEntry, StartTime, Slots, Pid, ReleaseSlot, systemVars, lockVars, fileVars, localVars, historyVars
<1>13. ASSUME NEW c \in Callers, Close(c) PROVE TimeI'
  BY <1>13 DEF TypeI, TypeOK, Entry, TimeI, NoEntry, StartTime, Slots, Pid, Close, Unlock, Return, systemVars, lockVars, fileVars, localVars, historyVars
<1>14. ASSUME NEW c \in Callers, OpenThrows(c) PROVE TimeI'
  BY <1>14 DEF TypeI, TypeOK, Entry, TimeI, NoEntry, StartTime, Slots, Pid, OpenThrows, Return, systemVars, fileVars
<1>15. ASSUME NEW c \in Callers, IOThrows(c) PROVE TimeI'
  BY <1>15 DEF TypeI, TypeOK, Entry, TimeI, NoEntry, StartTime, Slots, Pid, IOThrows, Unlock, Return, DropHandle, systemVars, fileVars
<1>16. QED
  BY <1>1, <1>2, <1>3, <1>4, <1>5, <1>6, <1>7, <1>8, <1>9, <1>10, <1>11, <1>12, <1>13, <1>14, <1>15 DEF Next, Call, Step, Ops

\* Slots are captured one by one from what nobody has.
LEMMA ExclusiveStep ==
    TypeI /\ LockI /\ AliveI /\ FilledI /\ SlotsExclusive /\ WritingI /\ [Next]_vars => SlotsExclusive'
<1> SUFFICES ASSUME TypeI /\ LockI /\ AliveI /\ FilledI /\ SlotsExclusive /\ WritingI, [Next]_vars PROVE SlotsExclusive'
  OBVIOUS
<1> USE SlotsAssumption
<1>1. CASE UNCHANGED vars
  BY <1>1 DEF TypeI, TypeOK, Entry, LockI, AliveI, FilledI, SlotsExclusive, WritingI, Holding, NoEntry, StartTime, Slots, Pid, vars, systemVars, lockVars, fileVars, localVars, historyVars
<1>2. ASSUME NEW p \in Pids, Start(p) PROVE SlotsExclusive'
  BY <1>2, SMTT(30) DEF TypeI, TypeOK, Entry, LockI, AliveI, FilledI, SlotsExclusive, WritingI, Holding, NoEntry, StartTime, Slots, Pid, Start, systemVars, lockVars, fileVars, localVars, historyVars
<1>3. ASSUME NEW p \in Pids, Crash(p) PROVE SlotsExclusive'
  BY <1>3 DEF TypeI, TypeOK, Entry, LockI, AliveI, FilledI, SlotsExclusive, WritingI, Holding, NoEntry, StartTime, Slots, Pid, Crash, systemVars, lockVars, fileVars, localVars, historyVars
<1>4. ASSUME NEW c \in Callers, NEW op \in Ops, NEW count \in 0 .. NumSlots, Begin(c, op, count) PROVE SlotsExclusive'
  BY <1>4 DEF TypeI, TypeOK, Entry, LockI, AliveI, FilledI, SlotsExclusive, WritingI, Holding, NoEntry, StartTime, Slots, Pid, Begin, systemVars, lockVars, fileVars, localVars, historyVars
<1>5. ASSUME NEW c \in Callers, LockMutex(c) PROVE SlotsExclusive'
  BY <1>5 DEF TypeI, TypeOK, Entry, LockI, AliveI, FilledI, SlotsExclusive, WritingI, Holding, NoEntry, StartTime, Slots, Pid, LockMutex, systemVars, lockVars, fileVars, localVars, historyVars
<1>6. ASSUME NEW c \in Callers, LockFile(c) PROVE SlotsExclusive'
  BY <1>6 DEF TypeI, TypeOK, Entry, LockI, AliveI, FilledI, SlotsExclusive, WritingI, Holding, NoEntry, StartTime, Slots, Pid, LockFile, systemVars, lockVars, fileVars, localVars, historyVars
<1>7. ASSUME NEW c \in Callers, OpenFails(c) PROVE SlotsExclusive'
  <2>1. UNCHANGED <<life, file>> /\ \A d \in Callers : slots'[d] \subseteq slots[d]
    BY <1>7 DEF OpenFails, DropHandle, systemVars, fileVars, TypeI, TypeOK
  <2> QED BY <2>1 DEF SlotsExclusive, StartTime
<1>8. ASSUME NEW c \in Callers, CheckSlot(c) PROVE SlotsExclusive'
  <2>1. index[c] \in Slots /\ file' = Swept(index[c]) /\ UNCHANGED <<life, slots>>
    BY <1>8 DEF CheckSlot, systemVars, TypeI, TypeOK, Slots
  <2>2. \A d \in Callers : \A s \in slots[d] : file'[s] = file[s]
    BY <2>1, SweptKeeps
  <2> QED BY <2>1, <2>2 DEF SlotsExclusive, StartTime
<1>9. ASSUME NEW c \in Callers, Decide(c) PROVE SlotsExclusive'
  BY <1>9 DEF TypeI, TypeOK, Entry, LockI, AliveI, FilledI, SlotsExclusive, WritingI, Holding, NoEntry, StartTime, Slots, Pid, Decide, systemVars, lockVars, fileVars, localVars, historyVars
<1>10. ASSUME NEW c \in Callers, CaptureSlot(c) PROVE SlotsExclusive'
  <2>1. UNCHANGED <<life, slots>> /\ index[c] \in Slots
    BY <1>10 DEF CaptureSlot, systemVars, TypeI, TypeOK, Slots
  <2>2. \A s \in Slots : Taken(file[s]) => file'[s] = file[s]
    BY <1>10 DEF CaptureSlot, IsSlotFree, TypeI, TypeOK
  <2>3. \A d \in Callers : \A s \in slots[d] : s \in Slots /\ Taken(file[s])
    BY OwnedTaken DEF TypeI, TypeOK
  <2> QED BY <2>1, <2>2, <2>3 DEF SlotsExclusive, StartTime
<1>11. ASSUME NEW c \in Callers, WriteTime(c) PROVE SlotsExclusive'
  <2>1. index[c] \in Slots /\ UNCHANGED life /\ file \in [Slots -> Entry]
    BY <1>11 DEF WriteTime, systemVars, TypeI, TypeOK
  <2>2. file[index[c]].pid = Pid(c) /\ \A d \in Callers : index[c] \notin slots[d]
    BY <1>11 DEF WriteTime, WritingI
  <2>3. file'[index[c]] = [pid |-> Pid(c), time |-> StartTime(Pid(c))]
    BY <1>11, <2>1, <2>2 DEF WriteTime, Entry
  <2>4. \A s \in Slots : s # index[c] => file'[s] = file[s]
    BY <1>11, <2>1 DEF WriteTime
  <2>5. \A d \in Callers : slots'[d] = IF d = c THEN slots[c] \cup {index[c]} ELSE slots[d]
    BY <1>11 DEF WriteTime, TypeI, TypeOK
  <2>6. \A d \in Callers : slots[d] \subseteq Slots
    BY DEF TypeI, TypeOK
  <2> QED BY <2>1, <2>2, <2>3, <2>4, <2>5, <2>6 DEF SlotsExclusive, StartTime
<1>12. ASSUME NEW c \in Callers, ReleaseSlot(c) PROVE SlotsExclusive'
  <2>1. PICK s \in slots[c] : file' = [file EXCEPT ![s] = NoEntry] /\ slots' = [slots EXCEPT ![c] = @ \ {s}]
    BY <1>12 DEF ReleaseSlot
  <2>2. UNCHANGED life
    BY <1>12 DEF ReleaseSlot, systemVars
  <2>3. \A d \in Callers : slots[d] \subseteq Slots
    BY DEF TypeI, TypeOK
  <2>4. \A r \in Slots : r # s => file'[r] = file[r]
    BY <2>1 DEF TypeI, TypeOK
  <2>5. \A d \in Callers : slots'[d] = IF d = c THEN slots[c] \ {s} ELSE slots[d]
    BY <2>1 DEF TypeI, TypeOK
  <2> QED BY <2>2, <2>3, <2>4, <2>5 DEF SlotsExclusive, StartTime
<1>13. ASSUME NEW c \in Callers, Close(c) PROVE SlotsExclusive'
  BY <1>13 DEF TypeI, TypeOK, Entry, LockI, AliveI, FilledI, SlotsExclusive, WritingI, Holding, NoEntry, StartTime, Slots, Pid, Close, Unlock, Return, systemVars, lockVars, fileVars, localVars, historyVars
<1>14. ASSUME NEW c \in Callers, OpenThrows(c) PROVE SlotsExclusive'
  <2>1. UNCHANGED <<life, file>> /\ \A d \in Callers : slots'[d] \subseteq slots[d]
    BY <1>14 DEF OpenThrows, systemVars, fileVars, TypeI, TypeOK
  <2> QED BY <2>1 DEF SlotsExclusive, StartTime
<1>15. ASSUME NEW c \in Callers, IOThrows(c) PROVE SlotsExclusive'
  <2>1. UNCHANGED <<life, file>> /\ \A d \in Callers : slots'[d] \subseteq slots[d]
    BY <1>15 DEF IOThrows, Unlock, DropHandle, systemVars, fileVars, TypeI, TypeOK
  <2> QED BY <2>1 DEF SlotsExclusive, StartTime
<1>16. QED
  BY <1>1, <1>2, <1>3, <1>4, <1>5, <1>6, <1>7, <1>8, <1>9, <1>10, <1>11, <1>12, <1>13, <1>14, <1>15 DEF Next, Call, Step, Ops

\* Nobody else captures while a slot is being written.
LEMMA WritingStep ==
    TypeI /\ LockI /\ AliveI /\ FilledI /\ SlotsExclusive /\ WritingI /\ [Next]_vars => WritingI'
<1> SUFFICES ASSUME TypeI /\ LockI /\ AliveI /\ FilledI /\ SlotsExclusive /\ WritingI, [Next]_vars PROVE WritingI'
  OBVIOUS
<1> USE SlotsAssumption
<1>1. CASE UNCHANGED vars
  BY <1>1 DEF TypeI, TypeOK, Entry, LockI, AliveI, FilledI, SlotsExclusive, WritingI, Holding, NoEntry, StartTime, Slots, Pid, vars, systemVars, lockVars, fileVars, localVars, historyVars
<1>2. ASSUME NEW p \in Pids, Start(p) PROVE WritingI'
  BY <1>2 DEF TypeI, TypeOK, Entry, LockI, AliveI, FilledI, SlotsExclusive, WritingI, Holding, NoEntry, StartTime, Slots, Pid, Start, systemVars, lockVars, fileVars, localVars, historyVars
<1>3. ASSUME NEW p \in Pids, Crash(p) PROVE WritingI'
  BY <1>3 DEF TypeI, TypeOK, Entry, LockI, AliveI, FilledI, SlotsExclusive, WritingI, Holding, NoEntry, StartTime, Slots, Pid, Crash, systemVars, lockVars, fileVars, localVars, historyVars
<1>4. ASSUME NEW c \in Callers, NEW op \in Ops, NEW count \in 0 .. NumSlots, Begin(c, op, count) PROVE WritingI'
  BY <1>4 DEF TypeI, TypeOK, Entry, LockI, AliveI, FilledI, SlotsExclusive, WritingI, Holding, NoEntry, StartTime, Slots, Pid, Begin, systemVars, lockVars, fileVars, localVars, historyVars
<1>5. ASSUME NEW c \in Callers, LockMutex(c) PROVE WritingI'
  BY <1>5 DEF TypeI, TypeOK, Entry, LockI, AliveI, FilledI, SlotsExclusive, WritingI, Holding, NoEntry, StartTime, Slots, Pid, LockMutex, systemVars, lockVars, fileVars, localVars, historyVars
<1>6. ASSUME NEW c \in Callers, LockFile(c) PROVE WritingI'
  BY <1>6 DEF TypeI, TypeOK, Entry, LockI, AliveI, FilledI, SlotsExclusive, WritingI, Holding, NoEntry, StartTime, Slots, Pid, LockFile, systemVars, lockVars, fileVars, localVars, historyVars
<1>7. ASSUME NEW c \in Callers, OpenFails(c) PROVE WritingI'
  BY <1>7, SMTT(30) DEF TypeI, TypeOK, Entry, LockI, AliveI, FilledI, SlotsExclusive, WritingI, Holding, NoEntry, StartTime, Slots, Pid, OpenFails, Return, DropHandle, systemVars, lockVars, fileVars, localVars, historyVars
<1>8. ASSUME NEW c \in Callers, CheckSlot(c) PROVE WritingI'
  BY <1>8 DEF TypeI, TypeOK, Entry, LockI, AliveI, FilledI, SlotsExclusive, WritingI, Holding, NoEntry, StartTime, Slots, Pid, CheckSlot, Swept, IsSlotFree, Taken, StartTime, systemVars, lockVars, fileVars, localVars, historyVars
<1>9. ASSUME NEW c \in Callers, Decide(c) PROVE WritingI'
  BY <1>9 DEF TypeI, TypeOK, Entry, LockI, AliveI, FilledI, SlotsExclusive, WritingI, Holding, NoEntry, StartTime, Slots, Pid, Decide, systemVars, lockVars, fileVars, localVars, historyVars
<1>10. ASSUME NEW c \in Callers, CaptureSlot(c) PROVE WritingI'
  <2>1. UNCHANGED slots /\ index[c] \in Slots /\ file \in [Slots -> Entry] /\ flock = c
    BY <1>10 DEF CaptureSlot, LockI, Holding, TypeI, TypeOK, Slots
  <2>2. \A d \in Callers : d # c => pc'[d] = pc[d] /\ pc[d] # "writing"
    BY <1>10, <2>1 DEF CaptureSlot, LockI, Holding, TypeI, TypeOK
  <2>3. ASSUME pc'[c] = "writing"
        PROVE  file'[index'[c]].pid = Pid(c) /\ \A d \in Callers : index'[c] \notin slots[d]
    <3>1. index' = index /\ ~Taken(file[index[c]]) /\ file' = [file EXCEPT ![index[c]] = [pid |-> Pid(c), time |-> 0]]
      BY <1>10, <2>1, <2>3 DEF CaptureSlot, IsSlotFree, TypeI, TypeOK
    <3> QED BY <3>1, <2>1, OwnedTaken
  <2> QED BY <2>1, <2>2, <2>3 DEF WritingI
<1>11. ASSUME NEW c \in Callers, WriteTime(c) PROVE WritingI'
  BY <1>11 DEF TypeI, TypeOK, Entry, LockI, AliveI, FilledI, SlotsExclusive, WritingI, Holding, NoEntry, StartTime, Slots, Pid, WriteTime, StartTime, systemVars, lockVars, fileVars, localVars, historyVars
<1>12. ASSUME NEW c \in Callers, ReleaseSlot(c) PROVE WritingI'
  BY <1>12 DEF TypeI, TypeOK, Entry, LockI, AliveI, FilledI, SlotsExclusive, WritingI, Holding, NoEntry, StartTime, Slots, Pid, ReleaseSlot, systemVars, lockVars, fileVars, localVars, historyVars
<1>13. ASSUME NEW c \in Callers, Close(c) PROVE WritingI'
  BY <1>13 DEF TypeI, TypeOK, Entry, LockI, AliveI, FilledI, SlotsExclusive, WritingI, Holding, NoEntry, StartTime, Slots, Pid, Close, Unlock, Return, systemVars, lockVars, fileVars, localVars, historyVars
<1>14. ASSUME NEW c \in Callers, OpenThrows(c) PROVE WritingI'
  BY <1>14, SMTT(30) DEF TypeI, TypeOK, Entry, LockI, AliveI, FilledI, SlotsExclusive, WritingI, Holding, NoEntry, StartTime, Slots, Pid, OpenThrows, Return, systemVars, lockVars, fileVars, localVars, historyVars
<1>15. ASSUME NEW c \in Callers, IOThrows(c) PROVE WritingI'
  BY <1>15, SMTT(30) DEF TypeI, TypeOK, Entry, LockI, AliveI, FilledI, SlotsExclusive, WritingI, Holding, NoEntry, StartTime, Slots, Pid, IOThrows, Unlock, Return, DropHandle, systemVars, lockVars, fileVars, localVars, historyVars
<1>16. QED
  BY <1>1, <1>2, <1>3, <1>4, <1>5, <1>6, <1>7, <1>8, <1>9, <1>10, <1>11, <1>12, <1>13, <1>14, <1>15 DEF Next, Call, Step, Ops

\* NoSlotLost is about the entries that are taken, by readable processes.
LEMMA TakenTime ==
    ASSUME TypeOK, NEW s \in Slots, file[s].pid \notin Unreadable
    PROVE  Taken(file[s]) <=> /\ file[s].pid \in Pids /\ life[file[s].pid] # 0
                              /\ life[file[s].pid] = file[s].time
<1>1. file[s].pid \in Pids \cup {0} /\ 0 \notin Pids
  BY SlotsAssumption DEF TypeOK, Entry
<1> QED BY <1>1 DEF Taken, StartTime

\* An entry of a living process stays in a handle.
LEMMA LostStep ==
    TypeI /\ LockI /\ WritingI /\ AliveI /\ TimeI /\ NoSlotLost /\ [Next]_vars => NoSlotLost'
<1> SUFFICES ASSUME TypeI /\ LockI /\ WritingI /\ AliveI /\ TimeI /\ NoSlotLost, [Next]_vars PROVE NoSlotLost'
  OBVIOUS
<1> USE SlotsAssumption
<1>1. CASE UNCHANGED vars
  BY <1>1 DEF TypeI, TypeOK, Entry, LockI, AliveI, WritingI, TimeI, NoSlotLost, Holding, Taken, NoEntry, StartTime, Slots, Pid, vars, systemVars, lockVars, fileVars, localVars, historyVars
<1>2. ASSUME NEW p \in Pids, Start(p) PROVE NoSlotLost'
  <2>1. life[p] = 0 /\ life' = [life EXCEPT ![p] = started + 1] /\ UNCHANGED <<file, slots, forgotten>>
    BY <1>2 DEF Start, fileVars, localVars, historyVars
  <2>2. ASSUME NEW s \in Slots, Taken(file[s])', file[s].pid \notin Unreadable
        PROVE  Taken(file[s])
    <3>1. /\ file[s].pid \in Pids \cup {0} /\ 0 \notin Pids /\ started \in Nat
          /\ file[s].time <= started /\ file[s].time \in Nat
      BY SlotsAssumption DEF TypeI, TypeOK, Entry, TimeI
    <3>2. /\ file[s].pid \in Pids /\ life'[file[s].pid] # 0 /\ life'[file[s].pid] = file[s].time
      BY <2>1, <2>2, <3>1 DEF Taken, StartTime
    <3>3. file[s].pid # p
      BY <2>1, <3>1, <3>2 DEF TypeI, TypeOK
    <3> QED BY <2>1, <2>2, <3>1, <3>2, <3>3 DEF TypeI, TypeOK, Taken, StartTime
  <2> QED BY <2>1, <2>2 DEF NoSlotLost
<1>3. ASSUME NEW p \in Pids, Crash(p) PROVE NoSlotLost'
  <2>1. /\ life' = [life EXCEPT ![p] = 0] /\ file' = file /\ forgotten' = [forgotten EXCEPT ![p] = {}]
        /\ \A c \in Callers : slots'[c] = IF Pid(c) = p THEN {} ELSE slots[c]
    BY <1>3 DEF Crash, fileVars
  <2>2. ASSUME NEW s \in Slots, Taken(file[s])'
        PROVE  file[s].pid # p /\ Taken(file[s]) /\ file[s].pid \in Pids
    <3>1. file[s].pid \in Pids \cup {0} /\ 0 \notin Pids
      BY SlotsAssumption DEF TypeI, TypeOK, Entry
    <3> QED BY <2>1, <2>2, <3>1 DEF Taken, StartTime, TypeI, TypeOK
  <2> QED BY <2>1, <2>2 DEF NoSlotLost, TypeI, TypeOK
<1>4. ASSUME NEW c \in Callers, NEW op \in Ops, NEW count \in 0 .. NumSlots, Begin(c, op, count) PROVE NoSlotLost'
  BY <1>4 DEF TypeI, TypeOK, Entry, LockI, AliveI, WritingI, TimeI, NoSlotLost, Holding, Taken, NoEntry, StartTime, Slots, Pid, Begin, systemVars, lockVars, fileVars, localVars, historyVars
<1>5. ASSUME NEW c \in Callers, LockMutex(c) PROVE NoSlotLost'
  BY <1>5 DEF TypeI, TypeOK, Entry, LockI, AliveI, WritingI, TimeI, NoSlotLost, Holding, Taken, NoEntry, StartTime, Slots, Pid, LockMutex, systemVars, lockVars, fileVars, localVars, historyVars
<1>6. ASSUME NEW c \in Callers, LockFile(c) PROVE NoSlotLost'
  BY <1>6 DEF TypeI, TypeOK, Entry, LockI, AliveI, WritingI, TimeI, NoSlotLost, Holding, Taken, NoEntry, StartTime, Slots, Pid, LockFile, systemVars, lockVars, fileVars, localVars, historyVars
<1>7. ASSUME NEW c \in Callers, OpenFails(c) PROVE NoSlotLost'
  <2>1. UNCHANGED <<life, file>>
    BY <1>7 DEF OpenFails, DropHandle, systemVars, fileVars
  <2>2. /\ \A d \in Callers : d # c => slots'[d] = slots[d]
        /\ \A s \in slots[c] : s \in slots'[c] \/ s \in forgotten'[Pid(c)]
        /\ \A q \in Pids : forgotten[q] \subseteq forgotten'[q]
    BY <1>7, CallerFacts, SMTT(30) DEF OpenFails, DropHandle, TypeI, TypeOK
  <2>3. \A s \in Slots : Taken(file[s]) => file[s].pid \in Pids
    BY DEF Taken, TypeI, TypeOK, Entry
  <2>4. \A s \in Slots : Taken(file[s])' <=> Taken(file[s])
    BY <2>1 DEF Taken, StartTime
  <2> QED BY <2>1, <2>2, <2>3, <2>4 DEF NoSlotLost
<1>8. ASSUME NEW c \in Callers, CheckSlot(c) PROVE NoSlotLost'
  <2>1. index[c] \in Slots /\ file' = Swept(index[c]) /\ UNCHANGED <<life, slots, forgotten>>
    BY <1>8 DEF CheckSlot, systemVars, historyVars, TypeI, TypeOK, Slots
  <2>2. \A s \in Slots : file'[s] = file[s] \/ file'[s] = NoEntry
    BY <2>1 DEF Swept, TypeI, TypeOK
  <2>3. \A s \in Slots : Taken(file[s])' => file'[s] = file[s] /\ Taken(file[s])
    BY <2>1, <2>2 DEF Taken, StartTime, NoEntry
  <2> QED BY <2>1, <2>3 DEF NoSlotLost
<1>9. ASSUME NEW c \in Callers, Decide(c) PROVE NoSlotLost'
  BY <1>9 DEF TypeI, TypeOK, Entry, LockI, AliveI, WritingI, TimeI, NoSlotLost, Holding, Taken, NoEntry, StartTime, Slots, Pid, Decide, systemVars, lockVars, fileVars, localVars, historyVars
<1>10. ASSUME NEW c \in Callers, CaptureSlot(c) PROVE NoSlotLost'
  <2>1. index[c] \in Slots /\ UNCHANGED <<life, slots, forgotten>>
    BY <1>10 DEF CaptureSlot, systemVars, historyVars, TypeI, TypeOK, Slots
  <2>2. \A s \in Slots : file'[s] = file[s] \/ file'[s] = [pid |-> Pid(c), time |-> 0]
    BY <1>10, <2>1 DEF CaptureSlot, TypeI, TypeOK
  <2>3. \A s \in Slots : Taken(file[s])' => \/ file'[s] = file[s] /\ Taken(file[s])
                                            \/ file'[s].pid = Pid(c) /\ Pid(c) \in Unreadable
    <3> SUFFICES ASSUME NEW s \in Slots, Taken(file[s])'
                 PROVE  \/ file'[s] = file[s] /\ Taken(file[s])
                        \/ file'[s].pid = Pid(c) /\ Pid(c) \in Unreadable
      OBVIOUS
    <3>1. CASE file'[s] = file[s]
      BY <2>1, <3>1 DEF Taken, StartTime
    <3>2. CASE file'[s] = [pid |-> Pid(c), time |-> 0]
      BY <2>1, <3>2 DEF Taken, StartTime
    <3> QED BY <2>2, <3>1, <3>2
  <2> QED BY <2>1, <2>3 DEF NoSlotLost
<1>11. ASSUME NEW c \in Callers, WriteTime(c) PROVE NoSlotLost'
  <2>1. index[c] \in Slots /\ UNCHANGED <<life, forgotten>> /\ file \in [Slots -> Entry]
    BY <1>11 DEF WriteTime, systemVars, historyVars, TypeI, TypeOK
  <2>2. file'[index[c]].pid = Pid(c)
    BY <1>11, <2>1 DEF WriteTime, WritingI, Entry
  <2>3. \A s \in Slots : s # index[c] => file'[s] = file[s]
    BY <1>11, <2>1 DEF WriteTime
  <2>4. /\ \A d \in Callers : slots[d] \subseteq slots'[d]
        /\ index[c] \in slots'[c]
    BY <1>11 DEF WriteTime, TypeI, TypeOK
  <2>5. \A s \in Slots : s # index[c] /\ Taken(file[s])' => Taken(file[s])
    BY <2>1, <2>3 DEF Taken, StartTime
  <2> QED BY <2>1, <2>2, <2>3, <2>4, <2>5 DEF NoSlotLost
<1>12. ASSUME NEW c \in Callers, ReleaseSlot(c) PROVE NoSlotLost'
  <2>1. PICK s \in slots[c] : file' = [file EXCEPT ![s] = NoEntry] /\ slots' = [slots EXCEPT ![c] = @ \ {s}]
    BY <1>12 DEF ReleaseSlot
  <2>2. UNCHANGED <<life, forgotten>> /\ s \in Slots
    BY <1>12 DEF ReleaseSlot, systemVars, historyVars, TypeI, TypeOK
  <2>3. \A r \in Slots : file'[r] = IF r = s THEN NoEntry ELSE file[r]
    BY <2>1 DEF TypeI, TypeOK
  <2>4. \A d \in Callers : slots'[d] = IF d = c THEN slots[c] \ {s} ELSE slots[d]
    BY <2>1 DEF TypeI, TypeOK
  <2>5. \A r \in Slots : Taken(file[r])' => r # s /\ Taken(file[r])
    BY <2>2, <2>3 DEF Taken, StartTime, NoEntry
  <2> QED BY <2>2, <2>3, <2>4, <2>5 DEF NoSlotLost
<1>13. ASSUME NEW c \in Callers, Close(c) PROVE NoSlotLost'
  BY <1>13 DEF TypeI, TypeOK, Entry, LockI, AliveI, WritingI, TimeI, NoSlotLost, Holding, Taken, NoEntry, StartTime, Slots, Pid, Close, Unlock, Return, systemVars, lockVars, fileVars, localVars, historyVars
<1>14. ASSUME NEW c \in Callers, OpenThrows(c) PROVE NoSlotLost'
  <2>1. UNCHANGED <<life, file>>
    BY <1>14 DEF OpenThrows, systemVars, fileVars
  <2>2. /\ \A d \in Callers : d # c => slots'[d] = slots[d]
        /\ \A s \in slots[c] : s \in slots'[c] \/ s \in forgotten'[Pid(c)]
        /\ \A q \in Pids : forgotten[q] \subseteq forgotten'[q]
    BY <1>14, CallerFacts, SMTT(30) DEF OpenThrows, TypeI, TypeOK
  <2>3. \A s \in Slots : Taken(file[s]) => file[s].pid \in Pids
    BY DEF Taken, TypeI, TypeOK, Entry
  <2>4. \A s \in Slots : Taken(file[s])' <=> Taken(file[s])
    BY <2>1 DEF Taken, StartTime
  <2> QED BY <2>1, <2>2, <2>3, <2>4 DEF NoSlotLost
<1>15. ASSUME NEW c \in Callers, IOThrows(c) PROVE NoSlotLost'
  <2>1. UNCHANGED <<life, file>>
    BY <1>15 DEF IOThrows, Unlock, DropHandle, systemVars, fileVars
  <2>2. /\ \A d \in Callers : d # c => slots'[d] = slots[d]
        /\ \A s \in slots[c] : s \in slots'[c] \/ s \in forgotten'[Pid(c)]
        /\ \A q \in Pids : forgotten[q] \subseteq forgotten'[q]
    BY <1>15, CallerFacts, SMTT(30) DEF IOThrows, Unlock, DropHandle, TypeI, TypeOK
  <2>3. \A s \in Slots : Taken(file[s]) => file[s].pid \in Pids
    BY DEF Taken, TypeI, TypeOK, Entry
  <2>4. \A s \in Slots : Taken(file[s])' <=> Taken(file[s])
    BY <2>1 DEF Taken, StartTime
  <2> QED BY <2>1, <2>2, <2>3, <2>4 DEF NoSlotLost
<1>16. QED
  BY <1>1, <1>2, <1>3, <1>4, <1>5, <1>6, <1>7, <1>8, <1>9, <1>10, <1>11, <1>12, <1>13, <1>14, <1>15 DEF Next, Call, Step, Ops

-----------------------------------------------------------------------------
\* Counting empty entries.
LEMMA EmptySize ==
    ASSUME NEW f, NEW i \in Nat, NEW j \in Nat
    PROVE  /\ IsFiniteSet(Empty(f, i, j)) /\ Cardinality(Empty(f, i, j)) \in Nat
           /\ \A T : T \subseteq Empty(f, i, j) => IsFiniteSet(T) /\ Cardinality(T) \in Nat
                                                   /\ Cardinality(T) <= Cardinality(Empty(f, i, j))
<1>1. IsFiniteSet(i .. j)
  BY FS_Interval
<1>2. Empty(f, i, j) \subseteq i .. j
  BY DEF Empty
<1>3. IsFiniteSet(Empty(f, i, j))
  BY <1>1, <1>2, FS_Subset
<1> QED BY <1>3, FS_Subset, FS_CardinalityType

\* The handles are finite.
LEMMA SlotsSize ==
    ASSUME TypeOK, NEW c \in Callers
    PROVE  IsFiniteSet(slots[c]) /\ Cardinality(slots[c]) \in Nat
<1>1. IsFiniteSet(1 .. NumSlots) /\ slots[c] \subseteq 1 .. NumSlots
  BY FS_Interval, SlotsAssumption DEF TypeOK, Slots
<1> QED BY <1>1, FS_Subset, FS_CardinalityType

\* What a step that neither touches the file nor the call of d leaves as it was.
LEMMA CountKept ==
    ASSUME CountI, NEW d \in Callers, file' = file,
           pc'[d] \in {"checking", "capturing", "writing"} =>
               /\ pc'[d] = pc[d] /\ index'[d] = index[d] /\ free'[d] = free[d]
               /\ slots'[d] = slots[d] /\ call'[d] = call[d]
    PROVE  /\ pc'[d] = "checking" => free'[d] <= Cardinality(Empty(file', 1, index'[d] - 1))
           /\ pc'[d] = "capturing" =>
                 Cardinality(slots'[d]) + Cardinality(Empty(file', index'[d], NumSlots)) >= call'[d].count
           /\ pc'[d] = "writing" =>
                 Cardinality(slots'[d]) + 1 + Cardinality(Empty(file', index'[d] + 1, NumSlots)) >= call'[d].count
BY DEF CountI

\* A step of the caller that has locked the file concerns nobody else.
LEMMA CountOwn ==
    ASSUME LockI, NEW c \in Callers, flock = c, NEW d \in Callers, d # c, pc'[d] = pc[d]
    PROVE  pc'[d] \notin {"checking", "capturing", "writing"}
BY DEF LockI, Holding

\* The counted slots wait for their capture.
LEMMA CountStep ==
    TypeI /\ LockI /\ AliveI /\ SlotsExclusive /\ WritingI /\ CountI /\ [Next]_vars => CountI'
<1> SUFFICES ASSUME TypeI /\ LockI /\ AliveI /\ SlotsExclusive /\ WritingI /\ CountI, [Next]_vars PROVE CountI'
  OBVIOUS
<1> USE SlotsAssumption
<1>1. CASE UNCHANGED vars
  BY <1>1 DEF CountI, vars, fileVars, localVars
<1>2. ASSUME NEW p \in Pids, Start(p) PROVE CountI'
  <2>1. file' = file
    BY <1>2 DEF Start, fileVars, vars
  <2>2. ASSUME NEW d \in Callers
        PROVE  pc'[d] \in {"checking", "capturing", "writing"} =>
                   /\ pc'[d] = pc[d] /\ index'[d] = index[d] /\ free'[d] = free[d]
                   /\ slots'[d] = slots[d] /\ call'[d] = call[d]
    BY <1>2 DEF Start, systemVars, lockVars, fileVars, localVars, historyVars, TypeI, TypeOK
  <2> QED BY <2>1, <2>2, CountKept DEF CountI
<1>3. ASSUME NEW p \in Pids, Crash(p) PROVE CountI'
  <2>1. file' = file
    BY <1>3 DEF Crash, fileVars, vars
  <2>2. ASSUME NEW d \in Callers
        PROVE  pc'[d] \in {"checking", "capturing", "writing"} =>
                   /\ pc'[d] = pc[d] /\ index'[d] = index[d] /\ free'[d] = free[d]
                   /\ slots'[d] = slots[d] /\ call'[d] = call[d]
    BY <1>3 DEF Crash, systemVars, lockVars, fileVars, localVars, historyVars, TypeI, TypeOK
  <2> QED BY <2>1, <2>2, CountKept DEF CountI
<1>4. ASSUME NEW c \in Callers, NEW op \in Ops, NEW count \in 0 .. NumSlots, Begin(c, op, count) PROVE CountI'
  <2>1. file' = file
    BY <1>4 DEF Begin, fileVars, vars
  <2>2. ASSUME NEW d \in Callers
        PROVE  pc'[d] \in {"checking", "capturing", "writing"} =>
                   /\ pc'[d] = pc[d] /\ index'[d] = index[d] /\ free'[d] = free[d]
                   /\ slots'[d] = slots[d] /\ call'[d] = call[d]
    BY <1>4 DEF Begin, systemVars, lockVars, fileVars, localVars, historyVars, TypeI, TypeOK
  <2> QED BY <2>1, <2>2, CountKept DEF CountI
<1>5. ASSUME NEW c \in Callers, LockMutex(c) PROVE CountI'
  <2>1. file' = file
    BY <1>5 DEF LockMutex, fileVars, vars
  <2>2. ASSUME NEW d \in Callers
        PROVE  pc'[d] \in {"checking", "capturing", "writing"} =>
                   /\ pc'[d] = pc[d] /\ index'[d] = index[d] /\ free'[d] = free[d]
                   /\ slots'[d] = slots[d] /\ call'[d] = call[d]
    BY <1>5 DEF LockMutex, systemVars, lockVars, fileVars, localVars, historyVars, TypeI, TypeOK
  <2> QED BY <2>1, <2>2, CountKept DEF CountI
<1>6. ASSUME NEW c \in Callers, LockFile(c) PROVE CountI'
  <2>1. ASSUME NEW d \in Callers, d # c PROVE pc'[d] \notin {"checking", "capturing", "writing"}
    BY <1>6, <2>1, CallerFacts DEF LockFile, LockI, Holding, TypeI, TypeOK
  <2>2. /\ free'[c] = 0 /\ index'[c] = 1 /\ pc'[c] \in {"checking", "releasing"}
    BY <1>6 DEF LockFile, TypeI, TypeOK, localVars
  <2>3. Cardinality(Empty(file', 1, 0)) \in Nat
    BY EmptySize
  <2> QED BY <2>1, <2>2, <2>3 DEF CountI
<1>7. ASSUME NEW c \in Callers, OpenFails(c) PROVE CountI'
  <2>1. file' = file
    BY <1>7 DEF OpenFails, fileVars, vars
  <2>2. ASSUME NEW d \in Callers
        PROVE  pc'[d] \in {"checking", "capturing", "writing"} =>
                   /\ pc'[d] = pc[d] /\ index'[d] = index[d] /\ free'[d] = free[d]
                   /\ slots'[d] = slots[d] /\ call'[d] = call[d]
    BY <1>7 DEF OpenFails, Return, DropHandle, systemVars, lockVars, fileVars, localVars, historyVars, TypeI, TypeOK
  <2> QED BY <2>1, <2>2, CountKept DEF CountI
<1>8. ASSUME NEW c \in Callers, CheckSlot(c) PROVE CountI'
  <2>1. /\ index[c] \in 1 .. NumSlots /\ NumSlots \in Nat /\ pc[c] = "checking" /\ pc' = pc /\ index'[c] = index[c] + 1
        /\ free[c] \in Nat /\ free'[c] = IF IsSlotFree(index[c]) THEN free[c] + 1 ELSE free[c]
        /\ file' = Swept(index[c]) /\ flock = c /\ file \in [Slots -> Entry]
    BY <1>8 DEF CheckSlot, TypeI, TypeOK, LockI, Holding
  <2>2. ASSUME NEW d \in Callers, d # c PROVE pc'[d] \notin {"checking", "capturing", "writing"}
    BY <2>1, <2>2, CountOwn
  <2> DEFINE old == Empty(file, 1, index[c] - 1)
             new == Empty(file', 1, index[c])
  <2>3. /\ free[c] <= Cardinality(old) /\ IsFiniteSet(old) /\ Cardinality(old) \in Nat
    BY <2>1, EmptySize DEF CountI
  <2>4. /\ Cardinality(new) \in Nat /\ \A T : T \subseteq new => Cardinality(T) <= Cardinality(new)
    BY <2>1, EmptySize
  <2>5. index[c] \in Slots /\ \A s \in Slots : s # index[c] => file'[s] = file[s]
    BY <2>1 DEF Swept, Slots
  <2>6. old \subseteq new /\ index[c] \notin old
    BY <2>1, <2>5 DEF Empty, Slots
  <2>7. CASE IsSlotFree(index[c])
    <3>1. file'[index[c]] = NoEntry
      BY <2>1, <2>5, <2>7 DEF Swept
    <3>2. old \cup {index[c]} \subseteq new
      BY <2>1, <2>6, <3>1 DEF Empty
    <3>3. Cardinality(old \cup {index[c]}) = Cardinality(old) + 1
      BY <2>3, <2>6, FS_AddElement
    <3>4. free'[c] <= Cardinality(new)
      BY <2>1, <2>3, <2>4, <2>7, <3>2, <3>3
    <3> QED BY <2>1, <2>2, <3>4 DEF CountI
  <2>8. CASE ~IsSlotFree(index[c])
    <3>1. free'[c] <= Cardinality(new)
      BY <2>1, <2>3, <2>4, <2>6, <2>8
    <3> QED BY <2>1, <2>2, <3>1 DEF CountI
  <2> QED BY <2>7, <2>8
<1>9. ASSUME NEW c \in Callers, Decide(c) PROVE CountI'
  <2>1. /\ index[c] = NumSlots + 1 /\ NumSlots \in Nat /\ pc[c] = "checking" /\ index'[c] = 1
        /\ flock = c /\ file' = file /\ slots' = slots /\ call' = call
    <3>1. pc[c] = "checking" /\ index[c] > NumSlots /\ index' = [index EXCEPT ![c] = 1]
      BY <1>9 DEF Decide
    <3>2. file' = file /\ slots' = slots /\ call' = call
      BY <1>9 DEF Decide, fileVars
    <3>3. flock = c
      BY <3>1 DEF LockI, Holding
    <3>4. index[c] \in 1 .. NumSlots + 1 /\ index'[c] = 1
      BY <3>1 DEF TypeI, TypeOK
    <3> QED BY <3>1, <3>2, <3>3, <3>4
  <2>2. ASSUME NEW d \in Callers, d # c PROVE pc'[d] \notin {"checking", "capturing", "writing"}
    BY <1>9, <2>1, <2>2, CountOwn DEF Decide, TypeI, TypeOK
  <2>3. pc'[c] = "capturing" => free[c] >= call[c].count
    BY <1>9 DEF Decide, TypeI, TypeOK
  <2>4. pc'[c] \in {"capturing", "closing"}
    BY <1>9 DEF Decide, TypeI, TypeOK
  <2>5. /\ free[c] <= Cardinality(Empty(file, 1, NumSlots)) /\ Cardinality(Empty(file, 1, NumSlots)) \in Nat
        /\ free[c] \in Nat /\ call[c].count \in Nat
    BY <2>1, EmptySize DEF CountI, TypeI, TypeOK, CallSet
  <2>6. Cardinality(slots[c]) \in Nat
    BY SlotsSize DEF TypeI
  <2> QED BY <2>1, <2>2, <2>3, <2>4, <2>5, <2>6 DEF CountI
<1>10. ASSUME NEW c \in Callers, CaptureSlot(c) PROVE CountI'
  <2>1. /\ index[c] \in 1 .. NumSlots /\ index[c] \in Slots /\ NumSlots \in Nat /\ pc[c] = "capturing"
        /\ flock = c /\ slots' = slots /\ call' = call /\ file \in [Slots -> Entry]
    BY <1>10 DEF CaptureSlot, TypeI, TypeOK, LockI, Holding, Slots
  <2>2. ASSUME NEW d \in Callers, d # c PROVE pc'[d] \notin {"checking", "capturing", "writing"}
    BY <1>10, <2>1, <2>2, CountOwn DEF CaptureSlot, TypeI, TypeOK
  <2> DEFINE here == Empty(file, index[c], NumSlots)
             above == Empty(file, index[c] + 1, NumSlots)
  <2>3. /\ IsFiniteSet(here) /\ Cardinality(here) \in Nat /\ IsFiniteSet(above) /\ Cardinality(above) \in Nat
        /\ Cardinality(slots[c]) \in Nat /\ call[c].count \in Nat
        /\ Cardinality(slots[c]) + Cardinality(here) >= call[c].count
    BY <2>1, EmptySize, SlotsSize DEF CountI, TypeI, TypeOK, CallSet
  <2>4. index[c] \notin above /\ here \subseteq above \cup {index[c]}
    BY <2>1 DEF Empty
  <2>5. CASE IsSlotFree(index[c])
    <3>1. /\ file' = [file EXCEPT ![index[c]] = [pid |-> Pid(c), time |-> 0]]
          /\ pc'[c] = "writing" /\ index'[c] = index[c]
      BY <1>10, <2>5 DEF CaptureSlot, TypeI, TypeOK
    <3>2. Empty(file', index[c] + 1, NumSlots) = above
      BY <2>1, <3>1 DEF Empty, Slots
    <3>3. /\ IsFiniteSet(above \cup {index[c]})
          /\ Cardinality(above \cup {index[c]}) = Cardinality(above) + 1
      BY <2>3, <2>4, FS_AddElement
    <3>4. Cardinality(here) <= Cardinality(above) + 1
      BY <2>4, <3>3, FS_Subset
    <3> QED BY <2>1, <2>2, <2>3, <3>1, <3>2, <3>4 DEF CountI
  <2>6. CASE ~IsSlotFree(index[c])
    <3>1. file' = file /\ pc'[c] = "capturing" /\ index'[c] = index[c] + 1
      BY <1>10, <2>1, <2>6 DEF CaptureSlot, TypeI, TypeOK
    <3>2. file[index[c]] # NoEntry
      BY <2>6, EntryFacts DEF IsSlotFree, TypeI
    <3>3. here = above
      BY <2>1, <3>2 DEF Empty
    <3> QED BY <2>1, <2>2, <2>3, <3>1, <3>3 DEF CountI
  <2> QED BY <2>5, <2>6
<1>11. ASSUME NEW c \in Callers, WriteTime(c) PROVE CountI'
  <2>1. /\ index[c] \in 1 .. NumSlots /\ index[c] \in Slots /\ NumSlots \in Nat /\ pc[c] = "writing"
        /\ flock = c /\ call' = call /\ file \in [Slots -> Entry] /\ index'[c] = index[c] + 1
        /\ pc'[c] \in {"closing", "capturing"} /\ slots'[c] = slots[c] \cup {index[c]}
    BY <1>11 DEF WriteTime, TypeI, TypeOK, LockI, Holding, Slots
  <2>2. ASSUME NEW d \in Callers, d # c PROVE pc'[d] \notin {"checking", "capturing", "writing"}
    BY <1>11, <2>1, <2>2, CountOwn DEF WriteTime, TypeI, TypeOK
  <2>3. index[c] \notin slots[c] /\ IsFiniteSet(slots[c]) /\ Cardinality(slots[c]) \in Nat
    BY <2>1, SlotsSize DEF WritingI, TypeI
  <2>4. Cardinality(slots'[c]) = Cardinality(slots[c]) + 1
    <3>1. Cardinality(slots[c] \cup {index[c]}) = Cardinality(slots[c]) + 1
      BY <2>3, FS_AddElement
    <3> QED BY <2>1, <3>1
  <2>5. \A s \in Slots : s # index[c] => file'[s] = file[s]
    BY <1>11, <2>1 DEF WriteTime
  <2>6. Empty(file', index[c] + 1, NumSlots) = Empty(file, index[c] + 1, NumSlots)
    BY <2>1, <2>5 DEF Empty, Slots
  <2> QED BY <2>1, <2>2, <2>4, <2>6 DEF CountI
<1>12. ASSUME NEW c \in Callers, ReleaseSlot(c) PROVE CountI'
  <2>1. flock = c /\ pc'[c] \in {"releasing", "closing"}
    BY <1>12 DEF ReleaseSlot, TypeI, TypeOK, LockI, Holding
  <2>2. ASSUME NEW d \in Callers, d # c PROVE pc'[d] \notin {"checking", "capturing", "writing"}
    BY <1>12, <2>1, <2>2, CountOwn DEF ReleaseSlot, TypeI, TypeOK
  <2> QED BY <2>1, <2>2 DEF CountI
<1>13. ASSUME NEW c \in Callers, Close(c) PROVE CountI'
  <2>1. file' = file
    BY <1>13 DEF Close, fileVars, vars
  <2>2. ASSUME NEW d \in Callers
        PROVE  pc'[d] \in {"checking", "capturing", "writing"} =>
                   /\ pc'[d] = pc[d] /\ index'[d] = index[d] /\ free'[d] = free[d]
                   /\ slots'[d] = slots[d] /\ call'[d] = call[d]
    BY <1>13 DEF Close, Unlock, Return, systemVars, lockVars, fileVars, localVars, historyVars, TypeI, TypeOK
  <2> QED BY <2>1, <2>2, CountKept DEF CountI
<1>14. ASSUME NEW c \in Callers, OpenThrows(c) PROVE CountI'
  <2>1. file' = file
    BY <1>14 DEF OpenThrows, fileVars, vars
  <2>2. ASSUME NEW d \in Callers
        PROVE  pc'[d] \in {"checking", "capturing", "writing"} =>
                   /\ pc'[d] = pc[d] /\ index'[d] = index[d] /\ free'[d] = free[d]
                   /\ slots'[d] = slots[d] /\ call'[d] = call[d]
    BY <1>14 DEF OpenThrows, Return, systemVars, lockVars, fileVars, localVars, historyVars, TypeI, TypeOK
  <2> QED BY <2>1, <2>2, CountKept DEF CountI
<1>15. ASSUME NEW c \in Callers, IOThrows(c) PROVE CountI'
  <2>1. file' = file
    BY <1>15 DEF IOThrows, fileVars, vars
  <2>2. ASSUME NEW d \in Callers
        PROVE  pc'[d] \in {"checking", "capturing", "writing"} =>
                   /\ pc'[d] = pc[d] /\ index'[d] = index[d] /\ free'[d] = free[d]
                   /\ slots'[d] = slots[d] /\ call'[d] = call[d]
    BY <1>15 DEF IOThrows, Unlock, Return, DropHandle, systemVars, lockVars, fileVars, localVars, historyVars, TypeI, TypeOK
  <2> QED BY <2>1, <2>2, CountKept DEF CountI
<1>16. QED
  BY <1>1, <1>2, <1>3, <1>4, <1>5, <1>6, <1>7, <1>8, <1>9, <1>10, <1>11, <1>12, <1>13, <1>14, <1>15 DEF Next, Call, Step, Ops

\* The invariant holds at first.
LEMMA InitInv == Init => Inv
<1> SUFFICES ASSUME Init PROVE Inv
  OBVIOUS
<1> USE SlotsAssumption
<1>1. TypeI
  <2>1. file \in [Slots -> Entry] /\ call \in [Callers -> CallSet]
    BY DEF Init, Entry, CallSet, NoCall, NoEntry
  <2>2. /\ started \in 0 .. MaxStarts /\ life \in [Pids -> 0 .. MaxStarts] /\ length \in BOOLEAN
        /\ mutex \in [Pids -> Threads \cup {None}] /\ flock \in Callers \cup {None}
        /\ forgotten \in [Pids -> SUBSET Slots]
    <3>1. started \in 0 .. MaxStarts /\ life \in [Pids -> 0 .. MaxStarts]
      BY DEF Init
    <3>2. length \in BOOLEAN
      BY Zenon DEF Init
    <3>3. mutex \in [Pids -> Threads \cup {None}] /\ flock \in Callers \cup {None}
      BY Zenon DEF Init
    <3>4. forgotten \in [Pids -> SUBSET Slots]
      BY DEF Init
    <3> QED BY <3>1, <3>2, <3>3, <3>4
  <2>3. /\ pc \in [Callers -> {"idle", "opening", "locking", "checking", "capturing", "writing",
                               "releasing", "closing"}]
        /\ index \in [Callers -> 1 .. NumSlots + 1] /\ free \in [Callers -> 0 .. NumSlots]
        /\ slots \in [Callers -> SUBSET Slots] /\ calls \in [Callers -> 0 .. MaxCalls]
    BY DEF Init
  <2>4. (\A c \in Callers : pc[c] = "idle" /\ free[c] = 0 /\ index[c] = 1) /\ leaked \subseteq Callers
    BY DEF Init
  <2> QED BY <2>1, <2>2, <2>3, <2>4 DEF TypeI, TypeOK
<1>2. LockI /\ HeldI /\ AliveI /\ FilledI /\ SlotsExclusive /\ WritingI /\ TimeI /\ CountI
  BY DEF Init, LockI, HeldI, LocksHeldInCalls, AliveI, FilledI, SlotsExclusive, WritingI, TimeI, CountI, Holding, NoEntry
<1>3. NoSlotLost
  BY DEF Init, NoSlotLost, Taken, NoEntry
<1> QED BY <1>1, <1>2, <1>3 DEF Inv

\* The invariant is inductive.
LEMMA Invariance == Spec => []Inv
<1>1. Inv /\ [Next]_vars => Inv'
  BY TypeStep, LockStep, HeldStep, AliveStep, FilledStep, TimeStep, ExclusiveStep, WritingStep, LostStep, CountStep DEF Inv
<1> QED BY <1>1, InitInv, PTL DEF Spec

\* The variables keep their types, for any number of processes, threads and slots.
THEOREM TypeCorrect == Spec => []TypeOK
<1>1. Inv => TypeOK
  BY DEF Inv, TypeI
<1> QED BY <1>1, Invariance, PTL

\* A slot has one owner, through crashes, pids used again and timeouts.
THEOREM ExclusiveCorrect == Spec => []SlotsExclusive
<1>1. Inv => SlotsExclusive
  BY DEF Inv
<1> QED BY <1>1, Invariance, PTL

\* A lock is held by a call that goes on, or by an Open that has thrown.
THEOREM LocksCorrect == Spec => []LocksHeldInCalls
<1>1. Inv => LocksHeldInCalls
  BY DEF Inv, HeldI
<1> QED BY <1>1, Invariance, PTL

\* A slot that others see taken is in a handle, or was in one that could not be
\* released, or its process cannot be read.
THEOREM SlotsComeBack == Spec => []NoSlotLost
<1>1. Inv => NoSlotLost
  BY DEF Inv
<1> QED BY <1>1, Invariance, PTL

\* A capture that has counted enough free slots finds them.
THEOREM CaptureCorrect == Spec => []CaptureComplete
<1>1. Inv => CaptureComplete
  <2> SUFFICES ASSUME Inv, NEW c \in Callers, pc[c] = "capturing"
               PROVE  Cardinality(slots[c]) + Cardinality({s \in Slots : s >= index[c] /\ IsSlotFree(s)})
                          >= call[c].count
    BY DEF CaptureComplete
  <2> DEFINE available == {s \in Slots : s >= index[c] /\ IsSlotFree(s)}
             empty == Empty(file, index[c], NumSlots)
  <2>1. /\ index[c] \in Nat /\ index[c] >= 1 /\ NumSlots \in Nat /\ call[c].count \in Nat
        /\ Cardinality(slots[c]) + Cardinality(empty) >= call[c].count
    BY SlotsAssumption DEF Inv, TypeI, TypeOK, CountI, CallSet
  <2>2. empty \subseteq available
    BY <2>1, EntryFacts DEF Empty, Slots, IsSlotFree, Inv, TypeI
  <2>3. IsFiniteSet(available)
    <3>1. IsFiniteSet(1 .. NumSlots) /\ available \subseteq 1 .. NumSlots
      BY <2>1, FS_Interval DEF Slots
    <3> QED BY <3>1, FS_Subset
  <2>4. /\ Cardinality(empty) \in Nat /\ Cardinality(available) \in Nat
        /\ Cardinality(empty) <= Cardinality(available) /\ Cardinality(slots[c]) \in Nat
    BY <2>1, <2>2, <2>3, FS_Subset, FS_CardinalityType, SlotsSize DEF Inv, TypeI
  <2> QED BY <2>1, <2>4
<1> QED BY <1>1, Invariance, PTL
=============================================================================
