------------------------------- MODULE Logger -------------------------------
(***************************************************************************)
(* The in-memory log (logger.c) and the threads that share it (tasks.c):   *)
(* Thread2 makes records on the heap and hands them to the ring buffer,    *)
(* Thread5 takes the oldest one to the EEPROM, Thread4 keeps Thread5 out   *)
(* while it dumps the EEPROM over USB, and the main loop's SW2 key turns   *)
(* the writing on and off.                                                 *)
(*                                                                         *)
(* Every step is one the scheduler may interrupt.  A record is its number  *)
(* in the order of logging.  What a write does inside the EEPROM is the    *)
(* subject of module Eeprom; here it succeeds or fails.                    *)
(***************************************************************************)
EXTENDS Integers, Sequences

CONSTANTS
  LOG_BUFFER_SIZE,  \* slots of the ring
  Blocks,           \* heap blocks of the size of a record
  NULL,
  MaxLogs           \* bound: records made

ASSUME LoggerAssumption ==
  /\ LOG_BUFFER_SIZE \in Nat \ {0}
  /\ NULL \notin Blocks
  /\ MaxLogs \in Nat

VARIABLES
  heap,           \* the record in each block; Free when not allocated
  record,         \* log_buffer.record: block of each slot
  start_to_read, can_write, active,
  mtx,            \* log_buffer.mtx
  binSem,         \* binSem_T5
  t2, to_log,     \* Thread2: where it is, and the block it fills
  t5, log_rec_p,  \* Thread5: where it is, and the block it writes
  t4,             \* Thread4: where it is in VS_SendAllLogs
  canT5Run,       \* toggled by SW2
  logs,           \* records made so far
  saved           \* history: the records in the EEPROM, in order

ringVars == <<record, start_to_read, can_write, active>>
t2Vars == <<t2, to_log>>
t5Vars == <<t5, log_rec_p>>
vars == <<heap, ringVars, mtx, binSem, t2Vars, t5Vars, t4, canT5Run, logs, saved>>

Slots == 0 .. LOG_BUFFER_SIZE - 1
Free == 0
FreeBlocks == {b \in Blocks : heap[b] = Free}

----------------------------------------------------------------------------
(* ChibiOS mutexes and binary semaphores: taken at once when nobody owns   *)
(* them, else the thread waits, and the owner hands over on release.  Two  *)
(* threads at most contend for each, so the order of waiting is moot.      *)

NoThread == "none"
Threads == {"T2", "T4", "T5"}
Unowned == [owner |-> NoThread, waiting |-> {}]

Acquire(lock, t) ==
  IF lock.owner = NoThread THEN [lock EXCEPT !.owner = t]
                           ELSE [lock EXCEPT !.waiting = @ \cup {t}]

Release(lock) ==
  IF lock.waiting = {} THEN Unowned
  ELSE LET w == CHOOSE w \in lock.waiting : TRUE
       IN [owner |-> w, waiting |-> lock.waiting \ {w}]

\* A thread that waits does not run on, even for a lock it has itself.
Holds(lock, t) == lock.owner = t /\ t \notin lock.waiting

----------------------------------------------------------------------------
(* Thread2.                                                                *)

\* chHeapAlloc and the filling of the record.  With no free block it returns
\* NULL and the measurement is not logged: nothing changes.
MakeRecord ==
  /\ t2 = "measure" /\ logs < MaxLogs
  /\ logs' = logs + 1
  /\ \E b \in FreeBlocks : to_log' = b /\ heap' = [heap EXCEPT ![b] = logs']
  /\ t2' = "lock"
  /\ UNCHANGED <<ringVars, mtx, binSem, t5Vars, t4, canT5Run, saved>>

LockToLog ==
  /\ t2 = "lock"
  /\ mtx' = Acquire(mtx, "T2")
  /\ t2' = "store"
  /\ UNCHANGED <<heap, ringVars, binSem, to_log, t5Vars, t4, canT5Run, logs, saved>>

NextSlot(i) == (i + 1) % LOG_BUFFER_SIZE

StoreRecord ==
  /\ record' = [record EXCEPT ![can_write] = to_log]
  /\ can_write' = NextSlot(can_write)

\* Mutant: one slot too many.
LogThis_OneTooMany ==
  /\ t2 = "store" /\ Holds(mtx, "T2")
  /\ active <= LOG_BUFFER_SIZE
  /\ active' = active + 1
  /\ StoreRecord
  /\ t2' = "unlock"
  /\ UNCHANGED <<heap, start_to_read, mtx, binSem, to_log, t5Vars, t4,
                 canT5Run, logs, saved>>

\* logger_logThis under the mutex: room in the ring.
LogThis ==
  /\ t2 = "store" /\ Holds(mtx, "T2")
  /\ active < LOG_BUFFER_SIZE
  /\ active' = active + 1
  /\ StoreRecord
  /\ t2' = "unlock"
  /\ UNCHANGED <<heap, start_to_read, mtx, binSem, to_log, t5Vars, t4,
                 canT5Run, logs, saved>>

\* Mutant: the overwritten record is not freed.
LogThisOverflow_Leak ==
  /\ t2 = "store" /\ Holds(mtx, "T2")
  /\ active >= LOG_BUFFER_SIZE
  /\ start_to_read' = NextSlot(start_to_read)
  /\ StoreRecord
  /\ t2' = "unlock"
  /\ UNCHANGED <<heap, active, mtx, binSem, to_log, t5Vars, t4, canT5Run, logs, saved>>

\* Mutant: the overflow branch runs without the mutex.
LogThisOverflow_NoLock ==
  /\ t2 = "store"
  /\ active >= LOG_BUFFER_SIZE
  /\ heap' = [heap EXCEPT ![record[start_to_read]] = Free]
  /\ start_to_read' = NextSlot(start_to_read)
  /\ StoreRecord
  /\ t2' = "unlock"
  /\ UNCHANGED <<active, mtx, binSem, to_log, t5Vars, t4, canT5Run, logs, saved>>

\* ... and overflow: the oldest record is freed and overwritten.
LogThisOverflow ==
  /\ t2 = "store" /\ Holds(mtx, "T2")
  /\ active >= LOG_BUFFER_SIZE
  /\ heap' = [heap EXCEPT ![record[start_to_read]] = Free]
  /\ start_to_read' = NextSlot(start_to_read)
  /\ StoreRecord
  /\ t2' = "unlock"
  /\ UNCHANGED <<active, mtx, binSem, to_log, t5Vars, t4, canT5Run, logs, saved>>

UnlockLogged ==
  /\ t2 = "unlock"
  /\ mtx' = Release(mtx)
  /\ t2' = "measure" /\ to_log' = NULL
  /\ UNCHANGED <<heap, ringVars, binSem, t5Vars, t4, canT5Run, logs, saved>>

----------------------------------------------------------------------------
(* Thread5.                                                                *)

WaitTurn ==
  /\ t5 = "sleep"
  /\ binSem' = Acquire(binSem, "T5")
  /\ t5' = "turn"
  /\ UNCHANGED <<heap, ringVars, mtx, t2Vars, log_rec_p, t4, canT5Run, logs, saved>>

\* Mutant: no signal when there is nothing to write.
CheckTurn_NoSignal ==
  /\ t5 = "turn" /\ Holds(binSem, "T5")
  /\ t5' = IF canT5Run /\ active # 0 THEN "lock" ELSE "sleep"
  /\ UNCHANGED <<heap, ringVars, mtx, binSem, t2Vars, log_rec_p, t4, canT5Run,
                 logs, saved>>

\* canT5Run, then logger_writeToEE's look at active, before it has the mutex.
CheckTurn ==
  /\ t5 = "turn" /\ Holds(binSem, "T5")
  /\ t5' = IF canT5Run /\ active # 0 THEN "lock" ELSE "signal"
  /\ UNCHANGED <<heap, ringVars, mtx, binSem, t2Vars, log_rec_p, t4, canT5Run,
                 logs, saved>>

LockToWrite ==
  /\ t5 = "lock"
  /\ mtx' = Acquire(mtx, "T5")
  /\ t5' = "pick"
  /\ UNCHANGED <<heap, ringVars, binSem, t2Vars, log_rec_p, t4, canT5Run, logs, saved>>

\* Mutant: the newest record is picked.
PickOldest_Newest ==
  /\ t5 = "pick" /\ Holds(mtx, "T5")
  /\ log_rec_p' = record[(can_write + LOG_BUFFER_SIZE - 1) % LOG_BUFFER_SIZE]
  /\ t5' = "write"
  /\ UNCHANGED <<heap, ringVars, mtx, binSem, t2Vars, t4, canT5Run, logs, saved>>

PickOldest ==
  /\ t5 = "pick" /\ Holds(mtx, "T5")
  /\ log_rec_p' = record[start_to_read]
  /\ t5' = "write"
  /\ UNCHANGED <<heap, ringVars, mtx, binSem, t2Vars, t4, canT5Run, logs, saved>>

\* ee_write_log_rec, RDY_OK.
WriteSucceeds ==
  /\ t5 = "write"
  /\ saved' = Append(saved, heap[log_rec_p])
  /\ t5' = "remove"
  /\ UNCHANGED <<heap, ringVars, mtx, binSem, t2Vars, log_rec_p, t4, canT5Run, logs>>

\* Mutant: the error return keeps the mutex.
WriteFails_KeepsMutex ==
  /\ t5 = "write"
  /\ t5' = "signal"
  /\ UNCHANGED <<heap, ringVars, mtx, binSem, t2Vars, log_rec_p, t4, canT5Run,
                 logs, saved>>

\* ee_write_log_rec, anything else: the record stays for the next turn.
WriteFails ==
  /\ t5 = "write"
  /\ t5' = "unlock"
  /\ UNCHANGED <<heap, ringVars, mtx, binSem, t2Vars, log_rec_p, t4, canT5Run,
                 logs, saved>>

\* Mutant: the written record is never freed.
RemoveOldest_Leak ==
  /\ t5 = "remove"
  /\ start_to_read' = NextSlot(start_to_read)
  /\ active' = active - 1
  /\ t5' = "unlock"
  /\ UNCHANGED <<heap, record, can_write, mtx, binSem, t2Vars, log_rec_p, t4,
                 canT5Run, logs, saved>>

RemoveOldest ==
  /\ t5 = "remove"
  /\ start_to_read' = NextSlot(start_to_read)
  /\ active' = active - 1
  /\ t5' = "free"
  /\ UNCHANGED <<heap, record, can_write, mtx, binSem, t2Vars, log_rec_p, t4,
                 canT5Run, logs, saved>>

FreeWritten ==
  /\ t5 = "free"
  /\ heap' = [heap EXCEPT ![log_rec_p] = Free]
  /\ t5' = "unlock"
  /\ UNCHANGED <<ringVars, mtx, binSem, t2Vars, log_rec_p, t4, canT5Run, logs, saved>>

UnlockWritten ==
  /\ t5 = "unlock"
  /\ mtx' = Release(mtx)
  /\ t5' = "signal" /\ log_rec_p' = NULL
  /\ UNCHANGED <<heap, ringVars, binSem, t2Vars, t4, canT5Run, logs, saved>>

SignalTurn ==
  /\ t5 = "signal"
  /\ binSem' = Release(binSem)
  /\ t5' = "sleep"
  /\ UNCHANGED <<heap, ringVars, mtx, t2Vars, log_rec_p, t4, canT5Run, logs, saved>>

----------------------------------------------------------------------------
(* Thread4 and the main loop.                                              *)

WaitDump ==
  /\ t4 = "idle"
  /\ binSem' = Acquire(binSem, "T4")
  /\ t4' = "dump"
  /\ UNCHANGED <<heap, ringVars, mtx, t2Vars, t5Vars, canT5Run, logs, saved>>

\* Any of the three returns of VS_SendAllLogs.
SignalDump ==
  /\ t4 = "dump" /\ Holds(binSem, "T4")
  /\ binSem' = Release(binSem)
  /\ t4' = "idle"
  /\ UNCHANGED <<heap, ringVars, mtx, t2Vars, t5Vars, canT5Run, logs, saved>>

ToggleSW2 ==
  /\ canT5Run' = ~canT5Run
  /\ UNCHANGED <<heap, ringVars, mtx, binSem, t2Vars, t5Vars, t4, logs, saved>>

----------------------------------------------------------------------------
Init ==
  /\ heap = [b \in Blocks |-> Free]
  /\ record = [i \in Slots |-> NULL]
  /\ start_to_read = 0 /\ can_write = 0 /\ active = 0
  /\ mtx = Unowned /\ binSem = Unowned
  /\ t2 = "measure" /\ to_log = NULL
  /\ t5 = "sleep" /\ log_rec_p = NULL
  /\ t4 = "idle"
  /\ canT5Run = FALSE
  /\ logs = 0 /\ saved = <<>>

Thread2 == MakeRecord \/ LockToLog \/ LogThis \/ LogThisOverflow \/ UnlockLogged

Thread4 == WaitDump \/ SignalDump

Thread5 == WaitTurn \/ CheckTurn \/ LockToWrite \/ PickOldest \/ WriteSucceeds
           \/ WriteFails \/ RemoveOldest \/ FreeWritten \/ UnlockWritten \/ SignalTurn

Next == Thread2 \/ Thread4 \/ Thread5 \/ ToggleSW2

Spec == Init /\ [][Next]_vars

\* The scheduler runs every ready thread again and again: the threads above it
\* sleep between their turns.  Thread2 need not make records and the host need
\* not ask for a dump.  Three things are assumed beyond the scheduler: a host that
\* asks for a dump takes it or leaves the bus (else CDC_Device_SendData never
\* returns, EndpointStream.c:71), no thread is lost in the display (SpiLcd), and
\* I2C does not fail for ever.
Fairness ==
  /\ WF_vars(Thread2 /\ t2 # "measure")
  /\ WF_vars(SignalDump)
  /\ WF_vars(Thread5)
  /\ SF_vars(WriteSucceeds)

FairSpec == Spec /\ Fairness

----------------------------------------------------------------------------
(* Properties.                                                             *)

TypeOK ==
  /\ heap \in [Blocks -> 0 .. MaxLogs]
  /\ record \in [Slots -> Blocks \cup {NULL}]
  /\ start_to_read \in Slots /\ can_write \in Slots
  /\ active \in 0 .. LOG_BUFFER_SIZE
  /\ mtx \in [owner : Threads \cup {NoThread}, waiting : SUBSET Threads]
  /\ binSem \in [owner : Threads \cup {NoThread}, waiting : SUBSET Threads]
  /\ t2 \in {"measure", "lock", "store", "unlock"}
  /\ to_log \in Blocks \cup {NULL}
  /\ t5 \in {"sleep", "turn", "lock", "pick", "write", "remove", "free",
            "unlock", "signal"}
  /\ log_rec_p \in Blocks \cup {NULL}
  /\ t4 \in {"idle", "dump"}
  /\ canT5Run \in BOOLEAN
  /\ logs \in 0 .. MaxLogs
  /\ saved \in Seq(1 .. MaxLogs)

\* The slot of the k-th oldest record, and the slots in use.
SlotOf(k) == (start_to_read + k) % LOG_BUFFER_SIZE
Used == {SlotOf(k) : k \in 0 .. active - 1}

\* The next record goes right behind the newest one.
RingConsistent == can_write = SlotOf(active)

\* Every allocated block belongs to exactly one place: a used slot, Thread2
\* before the record is stored, or Thread5 before the written one is freed.
HeldByThread2 == IF t2 \in {"lock", "store"} THEN {to_log} ELSE {}
HeldByThread5 == IF t5 = "free" THEN {log_rec_p} ELSE {}
InRing == {record[i] : i \in Used}

BlocksAccountedFor ==
  /\ {b \in Blocks : heap[b] # Free} = InRing \cup HeldByThread2 \cup HeldByThread5
  /\ InRing \cap HeldByThread2 = {} /\ InRing \cap HeldByThread5 = {}
  /\ HeldByThread2 \cap HeldByThread5 = {}
  /\ \A i, j \in Used : record[i] = record[j] => i = j

\* The two indices and the count, each updated on its own by two threads, agree,
\* and no record leaks, is freed twice or is overwritten while in use, whatever
\* the overflow of one thread does to the record the other works on.
RingIntact == RingConsistent /\ BlocksAccountedFor

\* While Thread5 transmits a record, that record is the oldest of the ring and
\* still allocated, though active was read before the mutex was taken.
WritesOldest ==
  t5 \in {"write", "remove"} =>
    /\ active > 0
    /\ log_rec_p = record[start_to_read] /\ log_rec_p # NULL
    /\ heap[log_rec_p] # Free

\* Where a thread is tells which locks it has or waits for, and at most one
\* other thread waits.  Thread5 only goes on to the mutex with a record to write.
Queues(lock, t) == lock.owner = t \/ t \in lock.waiting
WellFormed(lock) ==
  /\ lock.owner \notin lock.waiting
  /\ lock.owner = NoThread => lock.waiting = {}

LocksAgree ==
  /\ WellFormed(mtx) /\ mtx.waiting \subseteq {"T2", "T5"}
  /\ Queues(mtx, "T2") <=> t2 \in {"store", "unlock"}
  /\ Queues(mtx, "T5") <=> t5 \in {"pick", "write", "remove", "free", "unlock"}
  /\ t2 = "unlock" => mtx.owner = "T2"
  /\ t5 \in {"write", "remove", "free", "unlock"} => mtx.owner = "T5"
  /\ WellFormed(binSem) /\ binSem.waiting \subseteq {"T4", "T5"}
  /\ Queues(binSem, "T4") <=> t4 = "dump"
  /\ Queues(binSem, "T5") <=> t5 # "sleep"
  /\ t5 \notin {"sleep", "turn"} => binSem.owner = "T5"

RecordToWrite == t5 \in {"lock", "pick", "write", "remove"} => active > 0

\* No record is written to the EEPROM while Thread4 dumps it.
NoWriteDuringDump ==
  ~ /\ t4 = "dump" /\ binSem.owner = "T4"
    /\ t5 \in {"lock", "pick", "write", "remove", "free", "unlock"}

\* A heap with one block more than the ring has slots never returns NULL: no
\* measurement is dropped silently.
HeapSuffices == t2 = "measure" => FreeBlocks # {}

\* The inductive invariant.
IInv ==
  /\ TypeOK /\ LocksAgree /\ RecordToWrite
  /\ RingConsistent /\ BlocksAccountedFor /\ WritesOldest

\* The logger is the bounded queue its comments promise: first in first out,
\* oldest dropped on overflow, a record removed only when it has been written.
Pending == [k \in 1 .. active |-> heap[record[SlotOf(k - 1)]]]

Queue == INSTANCE LogQueue WITH
  Capacity <- LOG_BUFFER_SIZE,
  queue <- IF t5 = "remove" THEN Tail(Pending) ELSE Pending,
  saved <- saved,
  last <- IF t2 \in {"lock", "store"} THEN logs - 1 ELSE logs

ImplementsQueue == Queue!Spec

\* With the writing switched on for good, and what Fairness assumes of the host,
\* the display and the bus, a record in the ring leaves it, to the EEPROM or by
\* overflow: no missed signal, kept mutex or waiting cycle between the three
\* threads stops Thread5.
Waits(r) == \E k \in 1 .. active : Pending[k] = r

RecordsLeave ==
  <>[]canT5Run => \A r \in 1 .. MaxLogs : Waits(r) ~> ~Waits(r)

\* The measuring thread always gets through logger_logThis, though the mutex is
\* held over a whole EEPROM write and every error of it.
LoggingReturns == t2 = "lock" ~> t2 = "measure"
=============================================================================
