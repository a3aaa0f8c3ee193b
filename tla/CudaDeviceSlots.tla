-------------------------- MODULE CudaDeviceSlots --------------------------
(***************************************************************************)
(* The slots of a CUDA device (NeoMathEngine/src/GPU/CUDA/CudaDevice.cpp,  *)
(* the Linux part).  The memory of a device is divided into slots, and a   *)
(* file shared by all processes has the pid and the start time of the      *)
(* process that captured each of them.  A process may crash anywhere: the  *)
(* system frees its locks, its entries stay until somebody sees that the   *)
(* process is gone, and its pid may be given to another process.           *)
(*                                                                         *)
(* The file is locked with a mutex between the threads of a process and    *)
(* with flock between processes, each for five seconds at most.            *)
(***************************************************************************)
EXTENDS Naturals, FiniteSets

CONSTANTS
    Pids,           \* process ids
    Threads,        \* threads of processes
    Callers,        \* the threads <<p, t>> of the processes p that use the device
    NumSlots,       \* CUDA_DEV_SLOT_COUNT
    Unreadable,     \* pids of processes whose /proc/<pid>/stat cannot be parsed
    MaxStarts,      \* bound on processes started
    MaxCalls,       \* bound on calls of each thread of a process
    None            \* no thread

Slots == 1 .. NumSlots

ASSUME SlotsAssumption ==
    /\ Pids \subseteq Nat \ {0} /\ Unreadable \subseteq Pids
    /\ Callers \subseteq Pids \X Threads
    /\ NumSlots \in Nat \ {0} /\ MaxStarts \in Nat /\ MaxCalls \in Nat
    /\ None \notin Threads /\ None \notin Callers

VARIABLES
    started,        \* number of processes started, the clock of start times
    life,           \* life[p]: start time of the living process p, 0 if there is none
    length,         \* the file has entries: its length is right
    file,           \* file[s]: the pid and the time of slot s
    mutex,          \* mutex[p]: the thread of p that has locked the mutex
    flock,          \* the caller that has locked the file
    pc,             \* where a caller is
    call,           \* the call it makes
    index,          \* slotIndex
    free,           \* freeSlots of captureDeviceSlots
    slots,          \* handle->Slots
    calls,          \* history: the calls of a caller
    forgotten,      \* history: slots of a handle that was deleted without releasing them
    leaked          \* history: callers whose Open has thrown with both locks

lockVars == <<mutex, flock>>
fileVars == <<length, file>>
systemVars == <<started, life>>
localVars == <<call, index, free, slots>>
historyVars == <<calls, forgotten, leaked>>
vars == <<systemVars, lockVars, fileVars, pc, localVars, historyVars>>

NoEntry == [pid |-> 0, time |-> 0]
NoCall == [op |-> "none", count |-> 0]
CallSet == [op : {"none", "capture", "release", "usage"}, count : 0 .. NumSlots]

\* The process c belongs to.
Pid(c) == c[1]

Init ==
    /\ started = 0 /\ life = [p \in Pids |-> 0]
    /\ length = FALSE /\ file = [s \in Slots |-> NoEntry]
    /\ mutex = [p \in Pids |-> None] /\ flock = None
    /\ pc = [c \in Callers |-> "idle"] /\ call = [c \in Callers |-> NoCall]
    /\ index = [c \in Callers |-> 1] /\ free = [c \in Callers |-> 0]
    /\ slots = [c \in Callers |-> {}]
    /\ calls = [c \in Callers |-> 0] /\ forgotten = [p \in Pids |-> {}]
    /\ leaked = {}

-----------------------------------------------------------------------------
(* The system. *)

Start(p) ==
    /\ life[p] = 0 /\ started < MaxStarts
    /\ started' = started + 1
    /\ life' = [life EXCEPT ![p] = started + 1]
    /\ UNCHANGED <<lockVars, fileVars, pc, localVars, historyVars>>

\* A process ends, in the middle of anything: its locks are free, its entries stay.  An
\* assertion that fails in releaseDeviceSlots ends it too: a destructor calls it.
Crash(p) ==
    LET Of(f, v) == [c \in Callers |-> IF Pid(c) = p THEN v ELSE f[c]]
    IN  /\ life[p] # 0
        /\ life' = [life EXCEPT ![p] = 0]
        /\ mutex' = [mutex EXCEPT ![p] = None]
        /\ flock' = IF flock # None /\ Pid(flock) = p THEN None ELSE flock
        /\ pc' = Of(pc, "idle") /\ call' = Of(call, NoCall)
        /\ index' = Of(index, 1) /\ free' = Of(free, 0)
        /\ slots' = Of(slots, {}) /\ calls' = Of(calls, 0)
        /\ forgotten' = [forgotten EXCEPT ![p] = {}]
        /\ leaked' = {c \in leaked : Pid(c) # p}
        /\ UNCHANGED <<started, fileVars>>

-----------------------------------------------------------------------------
(* Open *)

\* captureDeviceSlots, releaseDeviceSlots or getDeviceUsage is called.
Begin(c, op, count) ==
    /\ life[Pid(c)] # 0 /\ pc[c] = "idle" /\ calls[c] < MaxCalls
    /\ op = "capture" => slots[c] = {} /\ count \in Slots
    /\ op = "release" => slots[c] # {} /\ count = 0
    /\ op = "usage" => count = 0
    /\ calls' = [calls EXCEPT ![c] = @ + 1]
    /\ call' = [call EXCEPT ![c] = [op |-> op, count |-> count]]
    /\ pc' = [pc EXCEPT ![c] = "opening"]
    /\ UNCHANGED <<systemVars, lockVars, fileVars, index, free, slots, forgotten, leaked>>

LockMutex(c) ==
    /\ pc[c] = "opening" /\ mutex[Pid(c)] = None
    /\ mutex' = [mutex EXCEPT ![Pid(c)] = c[2]]
    /\ pc' = [pc EXCEPT ![c] = "locking"]
    /\ UNCHANGED <<systemVars, flock, fileVars, localVars, historyVars>>

\* Mutant of LockFile: the length is compared wrongly, and every file is filled with zeroes.
LockFileCleared(c) ==
    /\ pc[c] = "locking" /\ flock = None
    /\ flock' = c
    /\ length' = TRUE
    /\ file' = [s \in Slots |-> NoEntry]
    /\ pc' = [pc EXCEPT ![c] = IF call[c].op = "release" THEN "releasing" ELSE "checking"]
    /\ UNCHANGED <<systemVars, mutex, localVars, historyVars>>

\* A file that has not the right length is filled with zeroes.
LockFile(c) ==
    /\ pc[c] = "locking" /\ flock = None
    /\ flock' = c
    /\ length' = TRUE
    /\ file' = IF length THEN file ELSE [s \in Slots |-> NoEntry]
    /\ pc' = [pc EXCEPT ![c] = IF call[c].op = "release" THEN "releasing" ELSE "checking"]
    /\ UNCHANGED <<systemVars, mutex, localVars, historyVars>>

\* The call is over; a handle whose slots could not be released is deleted too.
Return(c) ==
    /\ pc' = [pc EXCEPT ![c] = "idle"]
    /\ call' = [call EXCEPT ![c] = NoCall]
    /\ index' = [index EXCEPT ![c] = 1] /\ free' = [free EXCEPT ![c] = 0]

\* A release that has failed deletes the handle; its slots stay taken.
DropHandle(c, dropped) ==
    /\ slots' = [slots EXCEPT ![c] = IF dropped THEN {} ELSE @]
    /\ forgotten' = [forgotten EXCEPT ![Pid(c)] = IF dropped THEN @ \cup slots[c] ELSE @]

\* Mutant of OpenFails: the mutex is left when the file lock does not come.
OpenFailsLocked(c) ==
    /\ \/ pc[c] = "opening"
       \/ pc[c] = "locking" /\ flock # None
    /\ Return(c) /\ DropHandle(c, call[c].op = "release")
    /\ UNCHANGED <<systemVars, lockVars, fileVars, calls, leaked>>

\* There is no file, or five seconds have passed and another thread, or another process,
\* has the lock.
OpenFails(c) ==
    /\ \/ pc[c] = "opening" /\ UNCHANGED mutex
       \/ pc[c] = "locking" /\ flock # None /\ mutex' = [mutex EXCEPT ![Pid(c)] = None]
    /\ Return(c) /\ DropHandle(c, call[c].op = "release")
    /\ UNCHANGED <<systemVars, flock, fileVars, calls, leaked>>

\* The file cannot be filled, and the assertion throws: fd is not set yet, so that the
\* destructor frees neither lock and does not close the file.
OpenThrows(c) ==
    /\ pc[c] = "locking" /\ flock = None /\ ~length
    /\ flock' = c /\ leaked' = leaked \cup {c}
    /\ Return(c)
    /\ UNCHANGED <<systemVars, mutex, fileVars, slots, calls, forgotten>>

-----------------------------------------------------------------------------
(* With the file open *)

\* getProcessStartTime
StartTime(p) == IF p \in Unreadable THEN 0 ELSE life[p]

\* Mutant of Taken: the start times are not compared.
TakenByPid(e) == e.pid # 0 /\ life[e.pid] # 0

\* The process that the entry names lives: it answers kill, which it does to processes
\* of the same user, and started at that time.
Taken(e) == e.pid # 0 /\ life[e.pid] # 0 /\ StartTime(e.pid) = e.time

\* IsSlotFree: the entry of a process that has finished is filled with zeroes.
IsSlotFree(s) == ~Taken(file[s])
Swept(s) == [file EXCEPT ![s] = IF IsSlotFree(s) THEN NoEntry ELSE @]

\* One step of the loop that counts the free slots.
CheckSlot(c) ==
    /\ pc[c] = "checking" /\ index[c] <= NumSlots
    /\ file' = Swept(index[c])
    /\ free' = [free EXCEPT ![c] = IF IsSlotFree(index[c]) THEN @ + 1 ELSE @]
    /\ index' = [index EXCEPT ![c] = @ + 1]
    /\ UNCHANGED <<systemVars, lockVars, length, pc, call, slots, historyVars>>

\* Mutant of Decide: one free slot is enough to begin.
DecideAny(c) ==
    /\ pc[c] = "checking" /\ index[c] > NumSlots
    /\ pc' = [pc EXCEPT ![c] = IF call[c].op = "capture" /\ free[c] > 0
                               THEN "capturing" ELSE "closing"]
    /\ index' = [index EXCEPT ![c] = 1]
    /\ UNCHANGED <<systemVars, lockVars, fileVars, call, free, slots, historyVars>>

\* Are there enough?  getDeviceUsage is done.
Decide(c) ==
    /\ pc[c] = "checking" /\ index[c] > NumSlots
    /\ pc' = [pc EXCEPT ![c] = IF call[c].op = "capture" /\ free[c] >= call[c].count
                               THEN "capturing" ELSE "closing"]
    /\ index' = [index EXCEPT ![c] = 1]
    /\ UNCHANGED <<systemVars, lockVars, fileVars, call, free, slots, historyVars>>

\* CaptureSlot, up to the pid of the entry.
CaptureSlot(c) ==
    /\ pc[c] = "capturing" /\ index[c] <= NumSlots
    /\ IF IsSlotFree(index[c])
       THEN /\ file' = [file EXCEPT ![index[c]] = [pid |-> Pid(c), time |-> 0]]
            /\ pc' = [pc EXCEPT ![c] = "writing"]
            /\ UNCHANGED index
       ELSE /\ index' = [index EXCEPT ![c] = @ + 1]
            /\ UNCHANGED <<file, pc>>
    /\ UNCHANGED <<systemVars, lockVars, length, call, free, slots, historyVars>>

\* The start time of the entry, and the end of CaptureSlot.
WriteTime(c) ==
    /\ pc[c] = "writing"
    /\ file' = [file EXCEPT ![index[c]].time = StartTime(Pid(c))]
    /\ slots' = [slots EXCEPT ![c] = @ \cup {index[c]}]
    /\ index' = [index EXCEPT ![c] = @ + 1]
    /\ pc' = [pc EXCEPT ![c] = IF Cardinality(slots'[c]) = call[c].count
                               THEN "closing" ELSE "capturing"]
    /\ UNCHANGED <<systemVars, lockVars, length, call, free, historyVars>>

ReleaseSlot(c) ==
    /\ pc[c] = "releasing"
    /\ \E s \in slots[c] :
          /\ \A r \in slots[c] : s <= r
          /\ file' = [file EXCEPT ![s] = NoEntry]
          /\ slots' = [slots EXCEPT ![c] = @ \ {s}]
    /\ pc' = [pc EXCEPT ![c] = IF slots'[c] = {} THEN "closing" ELSE @]
    /\ UNCHANGED <<systemVars, lockVars, length, call, index, free, historyVars>>

\* The destructor of CDeviceFile.
Unlock(c) ==
    /\ flock' = None
    /\ mutex' = [mutex EXCEPT ![Pid(c)] = None]

Close(c) ==
    /\ pc[c] = "closing"
    /\ Unlock(c) /\ Return(c)
    /\ UNCHANGED <<systemVars, fileVars, slots, historyVars>>

\* An entry cannot be read or written, and the assertion throws: the handle that a capture
\* was filling is deleted with the entries it has written.
IOThrows(c) ==
    /\ \/ pc[c] = "checking" /\ index[c] <= NumSlots
       \/ pc[c] \in {"capturing", "writing"}
    /\ Unlock(c) /\ Return(c) /\ DropHandle(c, call[c].op = "capture")
    /\ UNCHANGED <<systemVars, fileVars, calls, leaked>>

-----------------------------------------------------------------------------
Call(c) == \E op \in {"capture", "release", "usage"} : \E count \in 0 .. NumSlots : Begin(c, op, count)

Step(c) == \/ LockMutex(c) \/ LockFile(c) \/ OpenFails(c)
           \/ CheckSlot(c) \/ Decide(c) \/ CaptureSlot(c) \/ WriteTime(c)
           \/ ReleaseSlot(c) \/ Close(c)

Next == \/ \E p \in Pids : Start(p) \/ Crash(p)
        \/ \E c \in Callers : Call(c) \/ Step(c) \/ OpenThrows(c) \/ IOThrows(c)

Spec == Init /\ [][Next]_vars

-----------------------------------------------------------------------------
(* Properties *)

Entry == [pid : Pids \cup {0}, time : 0 .. MaxStarts]

\* The variables have their types (CDeviceFile, CSlotsHandle).
TypeOK ==
    /\ started \in 0 .. MaxStarts /\ life \in [Pids -> 0 .. MaxStarts]
    /\ length \in BOOLEAN /\ file \in [Slots -> Entry]
    /\ mutex \in [Pids -> Threads \cup {None}] /\ flock \in Callers \cup {None}
    /\ pc \in [Callers -> {"idle", "opening", "locking", "checking", "capturing", "writing",
                           "releasing", "closing"}]
    /\ call \in [Callers -> CallSet]
    /\ index \in [Callers -> 1 .. NumSlots + 1] /\ free \in [Callers -> 0 .. NumSlots]
    /\ slots \in [Callers -> SUBSET Slots]
    /\ calls \in [Callers -> 0 .. MaxCalls] /\ forgotten \in [Pids -> SUBSET Slots]
    /\ leaked \subseteq Callers

\* The memory of a slot is used by one owner: no two handles of living processes,
\* complete or not, have a slot in common (CaptureSlot, IsSlotFree), and a slot that
\* a handle has is recorded for its process, so that others see it taken.
SlotsExclusive ==
    \A c \in Callers : \A s \in slots[c] :
        /\ file[s] = [pid |-> Pid(c), time |-> StartTime(Pid(c))]
        /\ \A d \in Callers \ {c} : s \notin slots[d]

\* "Check if we still have required slots": a capture that has counted enough free
\* slots gets them, whatever processes die or start meanwhile (the assertion at the
\* end of captureDeviceSlots).
CaptureComplete ==
    \A c \in Callers : pc[c] = "capturing" =>
        Cardinality(slots[c]) + Cardinality({s \in Slots : s >= index[c] /\ IsSlotFree(s)}) >= call[c].count

\* Slots come back: one that others see taken is in the handle of a living process,
\* or was in one that releaseDeviceSlots deleted because it could not open the file or that
\* an exception deleted in captureDeviceSlots, or belongs to a process whose start time cannot be read.
NoSlotLost ==
    \A s \in Slots : Taken(file[s]) =>
        \/ \E c \in Callers : s \in slots[c] /\ Pid(c) = file[s].pid
        \/ s \in forgotten[file[s].pid]
        \/ file[s].pid \in Unreadable

\* A lock is held by a call that has taken it and goes on, whatever has failed or crashed
\* (Open and ~CDeviceFile): only an Open that throws leaves its locks, until its process
\* ends.
LocksHeldInCalls ==
    /\ \A p \in Pids : mutex[p] # None =>
          \/ <<p, mutex[p]>> \in leaked
          \/ pc[<<p, mutex[p]>>] \notin {"idle", "opening"}
    /\ flock # None => flock \in leaked \/ pc[flock] \notin {"idle", "opening", "locking"}

=============================================================================
