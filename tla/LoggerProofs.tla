---------------------------- MODULE LoggerProofs ----------------------------
(***************************************************************************)
(* Theorems about module Logger, for a ring of any size, a heap of any     *)
(* size and any number of records.                                         *)
(***************************************************************************)
EXTENDS Logger, FiniteSetTheorems, SequenceTheorems, TLAPS

----------------------------------------------------------------------------
(* Slots of the ring.                                                      *)

\* A sum over a set counts its element once and every other as it did.
LEMMA SumOnce ==
  \A S \in Nat \ {0} : \A i \in 0 .. S - 1 : \A k \in 0 .. S :
    (i + k) % S = IF i + k < S THEN i + k ELSE i + k - S
<1>1. ASSUME NEW S \in Nat \ {0}, NEW i \in 0 .. S - 1, NEW k \in 0 .. S
      PROVE  (i + k) % S = IF i + k < S THEN i + k ELSE i + k - S
  <2>1. CASE i + k < S
    BY <2>1
  <2>2. CASE i + k >= S
    BY <2>2
  <2>3. QED
    BY <2>1, <2>2
<1>2. QED
  BY <1>1

\* Slot numbers wrap at most once.
LEMMA SlotValue ==
  ASSUME start_to_read \in Slots, NEW k \in 0 .. LOG_BUFFER_SIZE
  PROVE  SlotOf(k) = IF start_to_read + k < LOG_BUFFER_SIZE THEN start_to_read + k
                     ELSE start_to_read + k - LOG_BUFFER_SIZE
BY SumOnce, LoggerAssumption DEF SlotOf, Slots

\* The slot after the i-th of the ring is the one behind it, or the first.
LEMMA NextSlotValue ==
  ASSUME NEW i \in Slots
  PROVE  /\ NextSlot(i) = IF i + 1 < LOG_BUFFER_SIZE THEN i + 1 ELSE 0
         /\ NextSlot(i) \in Slots
<1>1. \A S \in Nat \ {0} : \A x \in 0 .. S - 1 : x % S = x
  OBVIOUS
<1>2. \A S \in Nat \ {0} : S % S = 0
  OBVIOUS
<1>3. QED
  BY <1>1, <1>2, LoggerAssumption DEF NextSlot, Slots

\* The oldest record lies at start_to_read; slots in use are slots; two ages,
\* two slots.
LEMMA SlotFacts ==
  ASSUME start_to_read \in Slots
  PROVE  /\ SlotOf(0) = start_to_read
         /\ SlotOf(LOG_BUFFER_SIZE) = start_to_read
         /\ \A k \in 0 .. LOG_BUFFER_SIZE : SlotOf(k) \in Slots
         /\ \A k, l \in 0 .. LOG_BUFFER_SIZE - 1 : SlotOf(k) = SlotOf(l) => k = l
         /\ \A k \in 0 .. LOG_BUFFER_SIZE - 1 : NextSlot(SlotOf(k)) = SlotOf(k + 1)
<1> USE LoggerAssumption
<1>1. \A k \in 0 .. LOG_BUFFER_SIZE :
        SlotOf(k) = IF start_to_read + k < LOG_BUFFER_SIZE THEN start_to_read + k
                    ELSE start_to_read + k - LOG_BUFFER_SIZE
  BY SlotValue
<1>2. \A k \in 0 .. LOG_BUFFER_SIZE : SlotOf(k) \in Slots
  BY <1>1 DEF Slots
<1>3. \A i \in Slots : NextSlot(i) = IF i + 1 < LOG_BUFFER_SIZE THEN i + 1 ELSE 0
  BY NextSlotValue
<1>4. ASSUME NEW k \in 0 .. LOG_BUFFER_SIZE - 1
      PROVE  NextSlot(SlotOf(k)) = SlotOf(k + 1)
  BY <1>1, <1>2, <1>3 DEF Slots
<1>5. ASSUME NEW k \in 0 .. LOG_BUFFER_SIZE - 1, NEW l \in 0 .. LOG_BUFFER_SIZE - 1,
             SlotOf(k) = SlotOf(l)
      PROVE  k = l
  BY <1>1, <1>5 DEF Slots
<1>6. SlotOf(0) = start_to_read /\ SlotOf(LOG_BUFFER_SIZE) = start_to_read
  BY <1>1 DEF Slots
<1>7. QED
  BY <1>2, <1>4, <1>5, <1>6

\* When the start moves on, every slot is one step older.
LEMMA StartMoves ==
  ASSUME start_to_read \in Slots, start_to_read' = NextSlot(start_to_read)
  PROVE  /\ \A k \in 0 .. LOG_BUFFER_SIZE - 1 : SlotOf(k)' = SlotOf(k + 1)
         /\ SlotOf(LOG_BUFFER_SIZE)' = start_to_read'
<1>1. start_to_read' \in Slots
  BY NextSlotValue
<1>2. \A k \in 0 .. LOG_BUFFER_SIZE :
        SlotOf(k) = IF start_to_read + k < LOG_BUFFER_SIZE THEN start_to_read + k
                    ELSE start_to_read + k - LOG_BUFFER_SIZE
  BY SlotValue
<1>3. ASSUME NEW k \in 0 .. LOG_BUFFER_SIZE
      PROVE  SlotOf(k)' = IF start_to_read' + k < LOG_BUFFER_SIZE THEN start_to_read' + k
                          ELSE start_to_read' + k - LOG_BUFFER_SIZE
  BY <1>1, SumOnce, LoggerAssumption DEF SlotOf, Slots
<1>4. start_to_read' = IF start_to_read + 1 < LOG_BUFFER_SIZE THEN start_to_read + 1 ELSE 0
  BY NextSlotValue
<1>5. SlotOf(LOG_BUFFER_SIZE)' = start_to_read'
  BY <1>1, <1>3, LoggerAssumption DEF Slots
<1>6. QED
  BY <1>2, <1>3, <1>4, <1>5, LoggerAssumption DEF Slots

----------------------------------------------------------------------------
(* Locks.                                                                  *)

\* At the start no lock has an owner or a waiting thread.
LEMMA InitLocks == Init => LocksAgree /\ RecordToWrite
BY DEF Init, LocksAgree, RecordToWrite, Unowned, WellFormed, Queues, NoThread

\* What taking and releasing a lock does to its owner and its waiting threads.
LEMMA AcquireFacts ==
  ASSUME NEW lock \in [owner : Threads \cup {NoThread}, waiting : SUBSET Threads],
         NEW t \in Threads, WellFormed(lock), ~Queues(lock, t)
  PROVE  /\ Acquire(lock, t) \in [owner : Threads \cup {NoThread}, waiting : SUBSET Threads]
         /\ WellFormed(Acquire(lock, t))
         /\ \A u \in Threads : Queues(Acquire(lock, t), u) <=> Queues(lock, u) \/ u = t
         /\ \A u \in Threads : lock.owner = u => Acquire(lock, t).owner = u
         /\ Acquire(lock, t).waiting \subseteq lock.waiting \cup {t}
BY DEF Acquire, WellFormed, Queues, Threads, NoThread

\* Releasing a lock hands it to a waiting thread or leaves it free.
LEMMA ReleaseFacts ==
  ASSUME NEW lock \in [owner : Threads \cup {NoThread}, waiting : SUBSET Threads],
         WellFormed(lock), lock.owner \in Threads
  PROVE  /\ Release(lock) \in [owner : Threads \cup {NoThread}, waiting : SUBSET Threads]
         /\ WellFormed(Release(lock))
         /\ \A u \in Threads : Queues(Release(lock), u) <=> Queues(lock, u) /\ u # lock.owner
         /\ \A u \in Threads : u # lock.owner /\ lock.waiting \subseteq {u, lock.owner}
               /\ Queues(lock, u) => Release(lock).owner = u
         /\ Release(lock).waiting \subseteq lock.waiting
<1>1. CASE lock.waiting = {}
  BY <1>1 DEF Release, Unowned, WellFormed, Queues, Threads, NoThread
<1>2. CASE lock.waiting # {}
  <2> DEFINE w == CHOOSE w \in lock.waiting : TRUE
  <2>1. w \in lock.waiting
    BY <1>2
  <2>2. Release(lock) = [owner |-> w, waiting |-> lock.waiting \ {w}]
    BY <1>2 DEF Release
  <2> HIDE DEF w
  <2>3. QED
    BY <2>1, <2>2 DEF WellFormed, Queues, Threads, NoThread
<1>3. QED
  BY <1>1, <1>2

\* Every step leaves each lock with the thread whose program counter says so.
LEMMA NextLocks ==
  TypeOK /\ LocksAgree /\ RecordToWrite /\ [Next]_vars => LocksAgree' /\ RecordToWrite'
<1> SUFFICES ASSUME TypeOK, LocksAgree, RecordToWrite, [Next]_vars
             PROVE  LocksAgree' /\ RecordToWrite'
  OBVIOUS
<1> USE LoggerAssumption DEF LocksAgree, RecordToWrite, TypeOK
<1>0. "T2" \in Threads /\ "T4" \in Threads /\ "T5" \in Threads /\ NoThread \notin Threads
  BY DEF Threads, NoThread
<1>1. CASE MakeRecord
  BY <1>1 DEF MakeRecord, ringVars, t5Vars
<1>2. CASE LockToLog
  <2>1. mtx' = Acquire(mtx, "T2") /\ ~Queues(mtx, "T2")
    BY <1>2 DEF LockToLog
  <2>2. /\ WellFormed(mtx') /\ mtx'.waiting \subseteq {"T2", "T5"}
        /\ Queues(mtx', "T2") /\ (Queues(mtx', "T5") <=> Queues(mtx, "T5"))
        /\ mtx.owner = "T5" => mtx'.owner = "T5"
    BY <1>0, <2>1, AcquireFacts
  <2>3. t2' = "store" /\ UNCHANGED <<active, binSem, t5, t4>>
    BY <1>2 DEF LockToLog, ringVars, t5Vars
  <2>4. QED
    BY <2>2, <2>3
<1>3. CASE LogThis
  BY <1>0, <1>3 DEF LogThis, Holds, Queues, t5Vars, StoreRecord
<1>4. CASE LogThisOverflow
  BY <1>0, <1>4 DEF LogThisOverflow, Holds, Queues, t5Vars, StoreRecord
<1>5. CASE UnlockLogged
  <2>1. mtx' = Release(mtx) /\ mtx.owner = "T2"
    BY <1>5 DEF UnlockLogged
  <2>2. QED
    BY <1>0, <1>5, <2>1, ReleaseFacts DEF UnlockLogged, ringVars, t5Vars
<1>6. CASE WaitTurn
  <2>1. binSem' = Acquire(binSem, "T5") /\ ~Queues(binSem, "T5")
    BY <1>6 DEF WaitTurn
  <2>2. /\ WellFormed(binSem') /\ binSem'.waiting \subseteq {"T4", "T5"}
        /\ Queues(binSem', "T5") /\ (Queues(binSem', "T4") <=> Queues(binSem, "T4"))
    BY <1>0, <2>1, AcquireFacts
  <2>3. t5 = "sleep" /\ t5' = "turn" /\ UNCHANGED <<active, mtx, t2, t4>>
    BY <1>6 DEF WaitTurn, ringVars, t2Vars
  <2>4. QED
    BY <2>2, <2>3
<1>7. CASE CheckTurn
  BY <1>0, <1>7 DEF CheckTurn, Holds, Queues, ringVars, t2Vars
<1>8. CASE LockToWrite
  <2>1. mtx' = Acquire(mtx, "T5") /\ ~Queues(mtx, "T5")
    BY <1>8 DEF LockToWrite
  <2>2. /\ WellFormed(mtx') /\ mtx'.waiting \subseteq {"T2", "T5"}
        /\ Queues(mtx', "T5") /\ (Queues(mtx', "T2") <=> Queues(mtx, "T2"))
        /\ mtx.owner = "T2" => mtx'.owner = "T2"
    BY <1>0, <2>1, AcquireFacts
  <2>3. t5 = "lock" /\ t5' = "pick" /\ UNCHANGED <<active, binSem, t2, t4>>
    BY <1>8 DEF LockToWrite, ringVars, t2Vars
  <2>4. binSem'.owner = "T5" /\ Queues(binSem', "T5") /\ WellFormed(binSem')
        /\ (Queues(binSem', "T4") <=> t4' = "dump")
    BY <2>3
  <2>5. LocksAgree'
    BY <2>2, <2>3, <2>4
  <2>6. RecordToWrite'
    BY <2>3
  <2>7. QED
    BY <2>5, <2>6
<1>9. CASE PickOldest
  BY <1>0, <1>9 DEF PickOldest, Holds, Queues, ringVars, t2Vars
<1>10. CASE WriteSucceeds \/ WriteFails
  BY <1>0, <1>10 DEF WriteSucceeds, WriteFails, ringVars, t2Vars
<1>11. CASE RemoveOldest \/ FreeWritten
  BY <1>0, <1>11 DEF RemoveOldest, FreeWritten, ringVars, t2Vars
<1>12. CASE UnlockWritten
  <2>1. mtx' = Release(mtx) /\ mtx.owner = "T5"
    BY <1>12 DEF UnlockWritten
  <2>2. /\ WellFormed(mtx') /\ mtx'.waiting \subseteq {"T2", "T5"}
        /\ ~Queues(mtx', "T5") /\ (Queues(mtx', "T2") <=> Queues(mtx, "T2"))
    BY <1>0, <2>1, ReleaseFacts
  <2>3. t5 = "unlock" /\ t5' = "signal" /\ UNCHANGED <<active, binSem, t2, t4>>
    BY <1>12 DEF UnlockWritten, ringVars, t2Vars
  <2>4. t2 # "unlock"
    BY <2>1
  <2>5. QED
    BY <2>2, <2>3, <2>4
<1>13. CASE SignalTurn
  <2>1. binSem' = Release(binSem) /\ binSem.owner = "T5"
    BY <1>13 DEF SignalTurn
  <2>2. QED
    BY <1>0, <1>13, <2>1, ReleaseFacts DEF SignalTurn, ringVars, t2Vars
<1>14. CASE WaitDump
  <2>1. binSem' = Acquire(binSem, "T4") /\ ~Queues(binSem, "T4")
    BY <1>14 DEF WaitDump
  <2>2. QED
    BY <1>0, <1>14, <2>1, AcquireFacts DEF WaitDump, ringVars, t2Vars, t5Vars
<1>15. CASE SignalDump
  <2>1. binSem' = Release(binSem) /\ binSem.owner = "T4"
    BY <1>15 DEF SignalDump, Holds
  <2>2. QED
    BY <1>0, <1>15, <2>1, ReleaseFacts DEF SignalDump, ringVars, t2Vars, t5Vars
<1>16. CASE ToggleSW2
  BY <1>16 DEF ToggleSW2, ringVars, t2Vars, t5Vars
<1>17. CASE UNCHANGED vars
  BY <1>17 DEF vars, ringVars, t2Vars, t5Vars
<1>18. QED
  BY <1>1, <1>2, <1>3, <1>4, <1>5, <1>6, <1>7, <1>8, <1>9, <1>10, <1>11, <1>12,
     <1>13, <1>14, <1>15, <1>16, <1>17 DEF Next, Thread2, Thread4, Thread5

----------------------------------------------------------------------------
(* Types.                                                                  *)

\* The heap with one block freed is a heap.
LEMMA FreeingTyped ==
  ASSUME heap \in [Blocks -> 0 .. MaxLogs], NEW b
  PROVE  [heap EXCEPT ![b] = Free] \in [Blocks -> 0 .. MaxLogs]
<1>1. Free \in 0 .. MaxLogs
  BY LoggerAssumption DEF Free
<1>2. QED
  BY <1>1

\* The types hold after logger_init.
LEMMA InitTypeOK == Init => TypeOK
<1> SUFFICES ASSUME Init PROVE TypeOK
  OBVIOUS
<1> USE LoggerAssumption DEF Init
<1>1. heap \in [Blocks -> 0 .. MaxLogs] /\ record \in [Slots -> Blocks \cup {NULL}]
  BY DEF Free
<1>2. /\ start_to_read \in Slots /\ can_write \in Slots
      /\ active \in 0 .. LOG_BUFFER_SIZE /\ logs \in 0 .. MaxLogs
  BY DEF Slots
<1>3. /\ mtx \in [owner : Threads \cup {NoThread}, waiting : SUBSET Threads]
      /\ binSem \in [owner : Threads \cup {NoThread}, waiting : SUBSET Threads]
  BY DEF Unowned
<1>4. saved \in Seq(1 .. MaxLogs)
  OBVIOUS
<1>5. QED
  BY <1>1, <1>2, <1>3, <1>4 DEF TypeOK

\* Every step keeps the types.
LEMMA NextTypeOK == TypeOK /\ LocksAgree /\ RecordToWrite /\ WritesOldest /\ [Next]_vars => TypeOK'
<1> SUFFICES ASSUME TypeOK, LocksAgree, RecordToWrite, WritesOldest, [Next]_vars PROVE TypeOK'
  OBVIOUS
<1> USE LoggerAssumption DEF TypeOK
<1>0. "T2" \in Threads /\ "T4" \in Threads /\ "T5" \in Threads
  BY DEF Threads
<1>1. CASE MakeRecord
  <2>1. logs' \in 1 .. MaxLogs
    BY <1>1 DEF MakeRecord
  <2>2. QED
    BY <1>1, <2>1 DEF MakeRecord, FreeBlocks, ringVars, t5Vars
<1>2. CASE LockToLog
  <2>1. mtx' \in [owner : Threads \cup {NoThread}, waiting : SUBSET Threads]
    BY <1>0, <1>2, AcquireFacts DEF LockToLog, LocksAgree
  <2>2. QED
    BY <1>2, <2>1 DEF LockToLog, ringVars, t5Vars
<1>3. CASE LogThis
  <2>1. record' \in [Slots -> Blocks \cup {NULL}]
    BY <1>3 DEF LogThis, StoreRecord
  <2>2. can_write' \in Slots /\ active' \in 0 .. LOG_BUFFER_SIZE
    BY <1>3, NextSlotValue DEF LogThis, StoreRecord
  <2>3. /\ t2' = "unlock"
        /\ UNCHANGED <<heap, start_to_read, mtx, binSem, to_log, t5, log_rec_p, t4,
                       canT5Run, logs, saved>>
    BY <1>3 DEF LogThis, t5Vars
  <2>4. QED
    BY <2>1, <2>2, <2>3
<1>4. CASE LogThisOverflow
  <2>1. record' \in [Slots -> Blocks \cup {NULL}]
    BY <1>4 DEF LogThisOverflow, StoreRecord
  <2>2. can_write' \in Slots /\ start_to_read' \in Slots
    BY <1>4, NextSlotValue DEF LogThisOverflow, StoreRecord
  <2>3. heap' \in [Blocks -> 0 .. MaxLogs]
    BY <1>4, FreeingTyped DEF LogThisOverflow
  <2>4. QED
    BY <1>4, <2>1, <2>2, <2>3 DEF LogThisOverflow, t5Vars
<1>5. CASE UnlockLogged
  <2>1. mtx' \in [owner : Threads \cup {NoThread}, waiting : SUBSET Threads]
    BY <1>0, <1>5, ReleaseFacts DEF UnlockLogged, LocksAgree
  <2>2. QED
    BY <1>5, <2>1 DEF UnlockLogged, ringVars, t5Vars
<1>6. CASE WaitTurn
  <2>1. binSem' \in [owner : Threads \cup {NoThread}, waiting : SUBSET Threads]
    BY <1>0, <1>6, AcquireFacts DEF WaitTurn, LocksAgree
  <2>2. QED
    BY <1>6, <2>1 DEF WaitTurn, ringVars, t2Vars
<1>7. CASE CheckTurn
  BY <1>7 DEF CheckTurn, ringVars, t2Vars
<1>8. CASE LockToWrite
  <2>1. mtx' \in [owner : Threads \cup {NoThread}, waiting : SUBSET Threads]
    BY <1>0, <1>8, AcquireFacts DEF LockToWrite, LocksAgree
  <2>2. QED
    BY <1>8, <2>1 DEF LockToWrite, ringVars, t2Vars
<1>9. CASE PickOldest
  BY <1>9 DEF PickOldest, ringVars, t2Vars
<1>10. CASE WriteSucceeds
  <2>1. heap[log_rec_p] \in 1 .. MaxLogs
    BY <1>10 DEF WriteSucceeds, WritesOldest, Free
  <2>2. saved' \in Seq(1 .. MaxLogs)
    BY <1>10, <2>1 DEF WriteSucceeds
  <2>3. QED
    BY <1>10, <2>2 DEF WriteSucceeds, ringVars, t2Vars
<1>11. CASE WriteFails
  BY <1>11 DEF WriteFails, ringVars, t2Vars
<1>12. CASE RemoveOldest
  <2>1. active' \in 0 .. LOG_BUFFER_SIZE
    BY <1>12 DEF RemoveOldest, RecordToWrite
  <2>2. start_to_read' \in Slots
    BY <1>12, NextSlotValue DEF RemoveOldest
  <2>3. /\ t5' = "free"
        /\ UNCHANGED <<heap, record, can_write, mtx, binSem, t2, to_log, log_rec_p, t4,
                       canT5Run, logs, saved>>
    BY <1>12 DEF RemoveOldest, t2Vars
  <2>4. QED
    BY <2>1, <2>2, <2>3
<1>13. CASE FreeWritten
  <2>1. heap' \in [Blocks -> 0 .. MaxLogs]
    BY <1>13, FreeingTyped DEF FreeWritten
  <2>2. QED
    BY <1>13, <2>1 DEF FreeWritten, ringVars, t2Vars
<1>14. CASE UnlockWritten
  <2>1. mtx' \in [owner : Threads \cup {NoThread}, waiting : SUBSET Threads]
    BY <1>0, <1>14, ReleaseFacts DEF UnlockWritten, LocksAgree
  <2>2. QED
    BY <1>14, <2>1 DEF UnlockWritten, ringVars, t2Vars
<1>15. CASE SignalTurn
  <2>1. binSem' \in [owner : Threads \cup {NoThread}, waiting : SUBSET Threads]
    BY <1>0, <1>15, ReleaseFacts DEF SignalTurn, LocksAgree
  <2>2. QED
    BY <1>15, <2>1 DEF SignalTurn, ringVars, t2Vars
<1>16. CASE WaitDump
  <2>1. binSem' \in [owner : Threads \cup {NoThread}, waiting : SUBSET Threads]
    BY <1>0, <1>16, AcquireFacts DEF WaitDump, LocksAgree
  <2>2. QED
    BY <1>16, <2>1 DEF WaitDump, ringVars, t2Vars, t5Vars
<1>17. CASE SignalDump
  <2>1. binSem' \in [owner : Threads \cup {NoThread}, waiting : SUBSET Threads]
    BY <1>0, <1>17, ReleaseFacts DEF SignalDump, Holds, LocksAgree
  <2>2. QED
    BY <1>17, <2>1 DEF SignalDump, ringVars, t2Vars, t5Vars
<1>18. CASE ToggleSW2
  BY <1>18 DEF ToggleSW2, ringVars, t2Vars, t5Vars
<1>19. CASE UNCHANGED vars
  BY <1>19 DEF vars, ringVars, t2Vars, t5Vars
<1>20. QED
  BY <1>1, <1>2, <1>3, <1>4, <1>5, <1>6, <1>7, <1>8, <1>9, <1>10, <1>11, <1>12, <1>13,
     <1>14, <1>15, <1>16, <1>17, <1>18, <1>19 DEF Next, Thread2, Thread4, Thread5

----------------------------------------------------------------------------
(* The ring and the heap.                                                  *)

\* Steps that leave the ring, the heap and the held blocks alone.
LEMMA RingFrame ==
  ASSUME RingConsistent, BlocksAccountedFor,
         UNCHANGED <<heap, record, start_to_read, can_write, active>>,
         HeldByThread2' = HeldByThread2, HeldByThread5' = HeldByThread5
  PROVE  RingConsistent' /\ BlocksAccountedFor'
BY DEF RingConsistent, BlocksAccountedFor, InRing, Used, SlotOf

\* A new record takes a free block, which no slot of the ring points at.
LEMMA MakeRecordKeeps ==
  ASSUME TypeOK, RingConsistent, BlocksAccountedFor, MakeRecord
  PROVE  RingConsistent' /\ BlocksAccountedFor'
<1> USE LoggerAssumption DEF TypeOK
<1>1. PICK b \in FreeBlocks : to_log' = b /\ heap' = [heap EXCEPT ![b] = logs']
  BY DEF MakeRecord
<1>2. logs' # Free /\ UNCHANGED <<record, start_to_read, can_write, active, t5, log_rec_p>>
  BY DEF MakeRecord, Free, ringVars, t5Vars
<1>3. HeldByThread2 = {} /\ HeldByThread2' = {b} /\ HeldByThread5' = HeldByThread5
  BY <1>1, <1>2 DEF MakeRecord, HeldByThread2, HeldByThread5
<1>4. Used' = Used /\ InRing' = InRing
  BY <1>2 DEF InRing, Used, SlotOf
<1>5. {x \in Blocks : heap'[x] # Free} = {x \in Blocks : heap[x] # Free} \cup {b}
  BY <1>1, <1>2 DEF FreeBlocks
<1>6. b \notin InRing /\ b \notin HeldByThread5
  BY <1>1 DEF BlocksAccountedFor, FreeBlocks
<1>7. QED
  BY <1>2, <1>3, <1>4, <1>5, <1>6 DEF BlocksAccountedFor, RingConsistent, SlotOf

\* The slots in use after a record is stored behind the newest.
LEMMA LogThisKeeps ==
  ASSUME TypeOK, RingConsistent, BlocksAccountedFor, LogThis
  PROVE  RingConsistent' /\ BlocksAccountedFor'
<1> USE LoggerAssumption DEF TypeOK
<1>1. /\ active < LOG_BUFFER_SIZE /\ active' = active + 1
      /\ record' = [record EXCEPT ![can_write] = to_log]
      /\ can_write' = NextSlot(can_write)
      /\ UNCHANGED <<heap, start_to_read, t5, log_rec_p>>
      /\ HeldByThread2 = {to_log} /\ HeldByThread2' = {}
      /\ HeldByThread5' = HeldByThread5
  BY DEF LogThis, StoreRecord, t5Vars, HeldByThread2, HeldByThread5
<1>2. active \in 0 .. LOG_BUFFER_SIZE - 1 /\ can_write = SlotOf(active)
  BY <1>1 DEF RingConsistent
<1>3. RingConsistent'
  <2>1. can_write' = SlotOf(active + 1)
    BY <1>1, <1>2, SlotFacts
  <2>2. QED
    BY <1>1, <2>1 DEF RingConsistent, SlotOf
<1>4. Used' = Used \cup {can_write}
  <2>1. Used' = {SlotOf(k) : k \in 0 .. active}
    BY <1>1 DEF Used, SlotOf
  <2>2. 0 .. active = (0 .. active - 1) \cup {active}
    BY <1>2
  <2>3. QED
    BY <1>2, <2>1, <2>2 DEF Used
<1>5. can_write \notin Used
  <2>1. start_to_read \in Slots /\ LOG_BUFFER_SIZE \in Nat
    OBVIOUS
  <2>2. \A k, l \in 0 .. LOG_BUFFER_SIZE - 1 : SlotOf(k) = SlotOf(l) => k = l
    BY ONLY <2>1, SlotFacts
  <2>3. \A k \in 0 .. active - 1 : k \in 0 .. LOG_BUFFER_SIZE - 1 /\ k # active
    BY ONLY <1>2, <2>1
  <2>4. QED
    BY ONLY <1>2, <2>2, <2>3 DEF Used
<1>6. Used \subseteq Slots
  BY SlotFacts DEF Used
<1>7. InRing' = InRing \cup {to_log}
  BY <1>1, <1>4, <1>5, <1>6 DEF InRing
<1>8. to_log \notin InRing /\ to_log \notin HeldByThread5
  BY <1>1 DEF BlocksAccountedFor
<1>9. \A i, j \in Used' : record'[i] = record'[j] => i = j
  BY <1>1, <1>4, <1>5, <1>6, <1>8 DEF BlocksAccountedFor, InRing
<1>10. QED
  BY <1>1, <1>3, <1>7, <1>8, <1>9 DEF BlocksAccountedFor

\* Overwriting the oldest record frees its block and moves the start one slot on.
LEMMA OverflowKeeps ==
  ASSUME TypeOK, RingConsistent, BlocksAccountedFor, LogThisOverflow
  PROVE  RingConsistent' /\ BlocksAccountedFor'
<1> USE LoggerAssumption DEF TypeOK
<1> DEFINE s == start_to_read
<1>1. /\ active = LOG_BUFFER_SIZE /\ active' = active
      /\ can_write = s
      /\ heap' = [heap EXCEPT ![record[s]] = Free]
      /\ record' = [record EXCEPT ![s] = to_log]
      /\ start_to_read' = NextSlot(s) /\ can_write' = NextSlot(s)
      /\ UNCHANGED <<t5, log_rec_p>>
      /\ HeldByThread2 = {to_log} /\ HeldByThread2' = {}
      /\ HeldByThread5' = HeldByThread5
  <2>1. active = LOG_BUFFER_SIZE /\ active' = active
    BY DEF LogThisOverflow
  <2>2. can_write = s
    BY <2>1, SlotFacts DEF RingConsistent
  <2>3. /\ heap' = [heap EXCEPT ![record[s]] = Free]
        /\ record' = [record EXCEPT ![can_write] = to_log]
        /\ start_to_read' = NextSlot(s) /\ can_write' = NextSlot(can_write)
        /\ UNCHANGED <<t5, log_rec_p, to_log>> /\ t2 = "store" /\ t2' = "unlock"
    BY DEF LogThisOverflow, StoreRecord, t5Vars
  <2>4. QED
    BY <2>1, <2>2, <2>3 DEF HeldByThread2, HeldByThread5
<1>2. RingConsistent'
  BY <1>1, StartMoves DEF RingConsistent
<1>3. Used' = Used
  <2>1. Used' = {SlotOf(k + 1) : k \in 0 .. LOG_BUFFER_SIZE - 1}
    BY <1>1, StartMoves DEF Used
  <2>2. Used = {SlotOf(k) : k \in 0 .. LOG_BUFFER_SIZE - 1}
    BY <1>1 DEF Used
  <2>3. SlotOf(LOG_BUFFER_SIZE) = SlotOf(0)
    BY SlotFacts
  <2>4. ASSUME NEW k \in 0 .. LOG_BUFFER_SIZE - 1
        PROVE  SlotOf(k + 1) \in Used
    <3>1. CASE k + 1 = LOG_BUFFER_SIZE
      <4>1. SlotOf(k + 1) = SlotOf(0)
        BY <2>3, <3>1
      <4>2. 0 \in 0 .. LOG_BUFFER_SIZE - 1
        OBVIOUS
      <4>3. QED
        BY <2>2, <4>1, <4>2
    <3>2. CASE k + 1 \in 0 .. LOG_BUFFER_SIZE - 1
      BY <2>2, <3>2
    <3>3. QED
      BY <3>1, <3>2
  <2>5. ASSUME NEW k \in 0 .. LOG_BUFFER_SIZE - 1
        PROVE  SlotOf(k) \in Used'
    <3>1. CASE k = 0
      <4>1. (LOG_BUFFER_SIZE - 1) + 1 = LOG_BUFFER_SIZE
        OBVIOUS
      <4>2. QED
        BY <2>1, <2>3, <3>1, <4>1
    <3>2. CASE k - 1 \in 0 .. LOG_BUFFER_SIZE - 1
      <4>1. (k - 1) + 1 = k
        OBVIOUS
      <4>2. QED
        BY <2>1, <3>2, <4>1
    <3>3. QED
      BY <3>1, <3>2
  <2>6. QED
    BY <2>1, <2>2, <2>4, <2>5
<1>4. Used \subseteq Slots /\ s \in Used
  BY <1>1, SlotFacts DEF Used
<1>5. /\ record[s] \in InRing /\ record[s] # to_log /\ record[s] \notin HeldByThread5
      /\ to_log \notin InRing /\ to_log \notin HeldByThread5
  BY <1>1, <1>4 DEF BlocksAccountedFor, InRing
<1>6. InRing' = (InRing \ {record[s]}) \cup {to_log}
  BY <1>1, <1>3, <1>4 DEF InRing, BlocksAccountedFor
<1>7. \A i, j \in Used' : record'[i] = record'[j] => i = j
  BY <1>1, <1>3, <1>4, <1>5 DEF InRing, BlocksAccountedFor
<1>8. {b \in Blocks : heap'[b] # Free} = {b \in Blocks : heap[b] # Free} \ {record[s]}
  BY <1>1
<1>9. QED
  BY <1>1, <1>2, <1>5, <1>6, <1>7, <1>8 DEF BlocksAccountedFor

\* Removing the oldest record takes its block out of the ring.
LEMMA RemoveOldestKeeps ==
  ASSUME TypeOK, RecordToWrite, RingConsistent, BlocksAccountedFor, WritesOldest, RemoveOldest
  PROVE  RingConsistent' /\ BlocksAccountedFor'
<1> USE LoggerAssumption DEF TypeOK
<1> DEFINE s == start_to_read
<1>1. /\ active \in 1 .. LOG_BUFFER_SIZE /\ active' = active - 1
      /\ start_to_read' = NextSlot(s) /\ log_rec_p = record[s]
      /\ UNCHANGED <<heap, record, can_write, t2, to_log, log_rec_p>>
      /\ HeldByThread5 = {} /\ HeldByThread5' = {log_rec_p}
      /\ HeldByThread2' = HeldByThread2
  BY DEF RemoveOldest, RecordToWrite, WritesOldest, t2Vars, HeldByThread2, HeldByThread5
<1>2. RingConsistent'
  <2>1. active' \in 0 .. LOG_BUFFER_SIZE - 1 /\ active' + 1 = active
    BY <1>1
  <2>2. \A k \in 0 .. LOG_BUFFER_SIZE - 1 :
          (start_to_read' + k) % LOG_BUFFER_SIZE = SlotOf(k + 1)
    BY <1>1, StartMoves DEF SlotOf
  <2>3. (start_to_read' + active') % LOG_BUFFER_SIZE = SlotOf(active' + 1)
    BY <2>1, <2>2
  <2>4. SlotOf(active' + 1) = SlotOf(active)
    BY <2>1
  <2>5. RingConsistent' <=> can_write' = (start_to_read' + active') % LOG_BUFFER_SIZE
    BY DEF RingConsistent, SlotOf
  <2>6. QED
    BY <1>1, <2>3, <2>4, <2>5 DEF RingConsistent
<1>3. Used' = Used \ {s}
  <2>0. active' - 1 = active - 2 /\ 0 .. active - 2 \subseteq 0 .. LOG_BUFFER_SIZE - 1
    BY <1>1
  <2>1. Used' = {SlotOf(k + 1) : k \in 0 .. active - 2}
    <3>1. Used' = {(start_to_read' + k) % LOG_BUFFER_SIZE : k \in 0 .. active - 2}
      BY <2>0 DEF Used, SlotOf
    <3>2. \A k \in 0 .. active - 2 :
            (start_to_read' + k) % LOG_BUFFER_SIZE = SlotOf(k + 1)
      BY <1>1, <2>0, StartMoves DEF SlotOf
    <3>3. QED
      BY <3>1, <3>2
  <2>2. s = SlotOf(0)
    BY SlotFacts
  <2>3. ASSUME NEW k \in 0 .. active - 2
        PROVE  SlotOf(k + 1) \in Used \ {s}
    <3>1. /\ k + 1 \in 0 .. active - 1 /\ k + 1 # 0
          /\ k + 1 \in 0 .. LOG_BUFFER_SIZE - 1 /\ 0 \in 0 .. LOG_BUFFER_SIZE - 1
      BY <1>1
    <3>2. SlotOf(k + 1) # SlotOf(0)
      BY <3>1, SlotFacts
    <3>3. QED
      BY <2>2, <3>1, <3>2 DEF Used
  <2>4. ASSUME NEW k \in 0 .. active - 1, SlotOf(k) # s
        PROVE  SlotOf(k) \in Used'
    <3>1. k - 1 \in 0 .. active - 2 /\ (k - 1) + 1 = k
      BY <1>1, <2>2, <2>4
    <3>2. SlotOf((k - 1) + 1) \in Used'
      BY <2>1, <3>1
    <3>3. QED
      BY <3>1, <3>2
  <2>5. Used = {SlotOf(k) : k \in 0 .. active - 1}
    BY DEF Used
  <2>6. Used' \subseteq Used \ {s}
    BY <2>1, <2>3
  <2>7. Used \ {s} \subseteq Used'
    BY <2>4, <2>5
  <2>8. QED
    BY <2>6, <2>7
<1>4. Used \subseteq Slots /\ s \in Used
  BY <1>1, SlotFacts DEF Used
<1>5. InRing' = InRing \ {log_rec_p} /\ log_rec_p \in InRing
  BY <1>1, <1>3, <1>4 DEF InRing, BlocksAccountedFor
<1>6. \A i, j \in Used' : record'[i] = record'[j] => i = j
  BY <1>1, <1>3 DEF BlocksAccountedFor
<1>7. QED
  BY <1>1, <1>2, <1>5, <1>6 DEF BlocksAccountedFor

\* Freeing the written record gives back a block no slot points at.
LEMMA FreeWrittenKeeps ==
  ASSUME TypeOK, RingConsistent, BlocksAccountedFor, FreeWritten
  PROVE  RingConsistent' /\ BlocksAccountedFor'
<1> USE DEF TypeOK
<1>1. /\ heap' = [heap EXCEPT ![log_rec_p] = Free]
      /\ UNCHANGED <<record, start_to_read, can_write, active, t2, to_log>>
      /\ HeldByThread5 = {log_rec_p} /\ HeldByThread5' = {}
      /\ HeldByThread2' = HeldByThread2
  BY DEF FreeWritten, ringVars, t2Vars, HeldByThread2, HeldByThread5
<1>2. Used' = Used /\ InRing' = InRing /\ RingConsistent'
  BY <1>1 DEF Used, InRing, SlotOf, RingConsistent
<1>3. {b \in Blocks : heap'[b] # Free} = {b \in Blocks : heap[b] # Free} \ {log_rec_p}
  BY <1>1
<1>4. QED
  BY <1>1, <1>2, <1>3 DEF BlocksAccountedFor

\* Every step keeps the ring in one piece and every block accounted for.
LEMMA NextRing ==
  IInv /\ [Next]_vars => RingConsistent' /\ BlocksAccountedFor'
<1> SUFFICES ASSUME TypeOK, LocksAgree, RecordToWrite, RingConsistent, BlocksAccountedFor,
                    WritesOldest, [Next]_vars
             PROVE  RingConsistent' /\ BlocksAccountedFor'
  BY DEF IInv
<1>1. CASE MakeRecord
  BY <1>1, MakeRecordKeeps
<1>2. CASE LogThis
  BY <1>2, LogThisKeeps
<1>3. CASE LogThisOverflow
  BY <1>3, OverflowKeeps
<1>4. CASE RemoveOldest
  BY <1>4, RemoveOldestKeeps
<1>5. CASE FreeWritten
  BY <1>5, FreeWrittenKeeps
<1>6. CASE LockToLog \/ UnlockLogged
  <2>1. /\ UNCHANGED <<heap, record, start_to_read, can_write, active, t5, log_rec_p>>
        /\ HeldByThread2' = HeldByThread2
    BY <1>6 DEF LockToLog, UnlockLogged, ringVars, t5Vars, HeldByThread2
  <2>2. HeldByThread5' = HeldByThread5
    BY <2>1 DEF HeldByThread5
  <2>3. QED
    BY <2>1, <2>2, RingFrame
<1>7. CASE \/ WaitTurn \/ CheckTurn \/ LockToWrite \/ PickOldest \/ WriteSucceeds
           \/ WriteFails \/ UnlockWritten \/ SignalTurn
  <2>1. /\ UNCHANGED <<heap, record, start_to_read, can_write, active, t2, to_log>>
        /\ t5 # "free" /\ t5' # "free"
    BY <1>7 DEF WaitTurn, CheckTurn, LockToWrite, PickOldest, WriteSucceeds, WriteFails,
                UnlockWritten, SignalTurn, ringVars, t2Vars
  <2>2. HeldByThread2' = HeldByThread2 /\ HeldByThread5' = HeldByThread5
    BY <2>1 DEF HeldByThread2, HeldByThread5
  <2>3. QED
    BY <2>1, <2>2, RingFrame
<1>8. CASE WaitDump \/ SignalDump \/ ToggleSW2 \/ UNCHANGED vars
  <2>1. UNCHANGED <<heap, record, start_to_read, can_write, active, t2, to_log, t5, log_rec_p>>
    BY <1>8 DEF WaitDump, SignalDump, ToggleSW2, vars, ringVars, t2Vars, t5Vars
  <2>2. HeldByThread2' = HeldByThread2 /\ HeldByThread5' = HeldByThread5
    BY <2>1 DEF HeldByThread2, HeldByThread5
  <2>3. QED
    BY <2>1, <2>2, RingFrame
<1>9. QED
  BY <1>1, <1>2, <1>3, <1>4, <1>5, <1>6, <1>7, <1>8 DEF Next, Thread2, Thread4, Thread5

----------------------------------------------------------------------------
(* The record being written.                                               *)

\* The record Thread5 picks is the oldest in the ring.
LEMMA PickOldestKeeps ==
  ASSUME TypeOK, RecordToWrite, BlocksAccountedFor, PickOldest
  PROVE  WritesOldest'
<1> USE LoggerAssumption DEF TypeOK
<1>1. /\ active > 0 /\ log_rec_p' = record[start_to_read]
      /\ UNCHANGED <<heap, record, start_to_read, active>>
  BY DEF PickOldest, RecordToWrite, ringVars
<1>2. start_to_read \in Used
  <2>1. start_to_read = SlotOf(0) /\ 0 \in 0 .. active - 1
    BY <1>1, SlotFacts
  <2>2. QED
    BY <2>1 DEF Used
<1>3. record[start_to_read] \in {b \in Blocks : heap[b] # Free}
  BY <1>2 DEF InRing, BlocksAccountedFor
<1>4. QED
  BY <1>1, <1>3 DEF WritesOldest

\* What Thread5 writes stays the oldest record, for the mutex is held meanwhile.
LEMMA NextWritesOldest == IInv /\ [Next]_vars => WritesOldest'
<1> SUFFICES ASSUME TypeOK, LocksAgree, RecordToWrite, BlocksAccountedFor, WritesOldest,
                    [Next]_vars
             PROVE  WritesOldest'
  BY DEF IInv
<1>1. CASE PickOldest
  BY <1>1, PickOldestKeeps
<1>2. CASE MakeRecord
  <2>1. PICK b \in FreeBlocks : heap' = [heap EXCEPT ![b] = logs']
    BY <1>2 DEF MakeRecord
  <2>2. UNCHANGED <<record, start_to_read, active, t5, log_rec_p>>
    BY <1>2 DEF MakeRecord, ringVars, t5Vars
  <2>3. heap[log_rec_p] # Free => heap'[log_rec_p] # Free
    BY <2>1 DEF FreeBlocks, TypeOK
  <2>4. QED
    BY <2>2, <2>3 DEF WritesOldest
<1>3. CASE LogThis \/ LogThisOverflow
  <2>1. mtx.owner = "T2" /\ UNCHANGED t5
    BY <1>3 DEF LogThis, LogThisOverflow, Holds, t5Vars
  <2>2. QED
    BY <2>1 DEF LocksAgree, WritesOldest
<1>4. CASE \/ LockToLog \/ UnlockLogged \/ WriteSucceeds \/ WaitDump \/ SignalDump
           \/ ToggleSW2 \/ UNCHANGED vars
  <2>1. /\ UNCHANGED <<heap, record, start_to_read, active, log_rec_p>>
        /\ t5' = t5 \/ t5 = "write"
    BY <1>4 DEF LockToLog, UnlockLogged, WriteSucceeds, WaitDump, SignalDump, ToggleSW2,
                vars, ringVars, t2Vars, t5Vars
  <2>2. QED
    BY <2>1 DEF WritesOldest
<1>5. CASE \/ WaitTurn \/ CheckTurn \/ LockToWrite \/ WriteFails \/ RemoveOldest
           \/ FreeWritten \/ UnlockWritten \/ SignalTurn
  <2>1. t5' \notin {"write", "remove"}
    BY <1>5 DEF WaitTurn, CheckTurn, LockToWrite, WriteFails, RemoveOldest, FreeWritten,
                UnlockWritten, SignalTurn
  <2>2. QED
    BY <2>1 DEF WritesOldest
<1>6. QED
  BY <1>1, <1>2, <1>3, <1>4, <1>5 DEF Next, Thread2, Thread4, Thread5

----------------------------------------------------------------------------
(* The invariant.                                                          *)

\* The inductive invariant holds after logger_init.
LEMMA InitIInv == Init => IInv
<1> SUFFICES ASSUME Init PROVE IInv
  OBVIOUS
<1>1. TypeOK /\ LocksAgree /\ RecordToWrite
  BY InitTypeOK, InitLocks
<1>2. Used = {} /\ active = 0 /\ can_write = 0 /\ start_to_read = 0
  BY DEF Init, Used
<1>3. RingConsistent
  BY <1>1, <1>2, SlotFacts DEF RingConsistent, TypeOK
<1>4. BlocksAccountedFor
  <2>1. InRing = {} /\ HeldByThread2 = {} /\ HeldByThread5 = {}
    BY <1>2 DEF Init, InRing, HeldByThread2, HeldByThread5
  <2>2. {b \in Blocks : heap[b] # Free} = {}
    BY DEF Init
  <2>3. QED
    BY <1>2, <2>1, <2>2 DEF BlocksAccountedFor
<1>5. WritesOldest
  BY DEF Init, WritesOldest
<1>6. QED
  BY <1>1, <1>3, <1>4, <1>5 DEF IInv

\* Every step keeps the inductive invariant.
LEMMA NextIInv == IInv /\ [Next]_vars => IInv'
BY NextTypeOK, NextLocks, NextRing, NextWritesOldest DEF IInv

\* Every reachable state is one of the right type: the indices and the count
\* stay within the ring (logger.c, logger_logThis and logger_writeToEE).
THEOREM TypeCorrect == Spec => []TypeOK
<1>1. IInv => TypeOK
  BY DEF IInv
<1>2. QED
  BY InitIInv, NextIInv, <1>1, PTL DEF Spec

\* The ring buffer stays a queue and no block of the heap leaks, is freed twice
\* or is reused while in use, however Thread2 and Thread5 interleave in
\* logger_logThis and logger_writeToEE.
THEOREM RingAndHeap == Spec => []RingIntact
<1>1. IInv => RingIntact
  BY DEF IInv, RingIntact
<1>2. QED
  BY InitIInv, NextIInv, <1>1, PTL DEF Spec

\* What Thread5 transmits (logger_writeToEE) is the oldest record, allocated.
THEOREM WriteIsOldest == Spec => []WritesOldest
<1>1. IInv => WritesOldest
  BY DEF IInv
<1>2. QED
  BY InitIInv, NextIInv, <1>1, PTL DEF Spec

\* binSem_T5 keeps Thread5's writes out of Thread4's dump (VS_SendAllLogs).
THEOREM DumpUndisturbed == Spec => []NoWriteDuringDump
<1>1. IInv => NoWriteDuringDump
  BY DEF IInv, LocksAgree, NoWriteDuringDump
<1>2. QED
  BY InitIInv, NextIInv, <1>1, PTL DEF Spec

----------------------------------------------------------------------------
(* How many blocks are in use.                                             *)

\* Thread5 has taken the record it frees out of the ring.
RoomLeft == t5 = "free" => active < LOG_BUFFER_SIZE

\* Only a record stored uses up the room, and for that Thread2 needs the mutex.
LEMMA NextRoomLeft == IInv /\ RoomLeft /\ [Next]_vars => RoomLeft'
<1> SUFFICES ASSUME IInv, RoomLeft, [Next]_vars PROVE RoomLeft'
  OBVIOUS
<1> USE LoggerAssumption DEF RoomLeft
<1>1. CASE LogThis \/ LogThisOverflow
  <2>1. t5 # "free"
    BY <1>1 DEF LogThis, LogThisOverflow, Holds, IInv, LocksAgree
  <2>2. t5' = t5
    BY <1>1 DEF LogThis, LogThisOverflow, t5Vars
  <2> QED
    BY <2>1, <2>2
<1>2. CASE RemoveOldest
  BY <1>2 DEF RemoveOldest, IInv, TypeOK
<1>3. CASE MakeRecord \/ LockToLog \/ UnlockLogged
  BY <1>3 DEF MakeRecord, LockToLog, UnlockLogged, t5Vars, ringVars
<1>4. CASE \/ WaitTurn \/ CheckTurn \/ LockToWrite \/ PickOldest \/ WriteSucceeds
           \/ WriteFails \/ FreeWritten \/ UnlockWritten \/ SignalTurn
  BY <1>4 DEF WaitTurn, CheckTurn, LockToWrite, PickOldest, WriteSucceeds, WriteFails,
     FreeWritten, UnlockWritten, SignalTurn
<1>5. CASE Thread4 \/ ToggleSW2 \/ UNCHANGED vars
  BY <1>5 DEF Thread4, WaitDump, SignalDump, ToggleSW2, vars, t5Vars, ringVars
<1> QED
  BY <1>1, <1>2, <1>3, <1>4, <1>5 DEF Next, Thread2, Thread5

\* While Thread2 measures, blocks in use are at most as many as the ring has slots:
\* give the k-th oldest record the number k, and the one Thread5 frees the next.
LEMMA InUseCounted ==
  ASSUME IInv, RoomLeft, t2 = "measure", FreeBlocks = {},
         IsFiniteSet(Blocks), Cardinality(Blocks) > LOG_BUFFER_SIZE
  PROVE  FALSE
<1> DEFINE AgeOf(b) == CHOOSE k \in 0 .. active - 1 : record[SlotOf(k)] = b
<1> DEFINE Number == [b \in Blocks |-> IF b \in InRing THEN AgeOf(b) ELSE active]
<1>1. active \in 0 .. LOG_BUFFER_SIZE
  BY DEF IInv, TypeOK
<1>2. ASSUME NEW b \in Blocks, b \in InRing
      PROVE  AgeOf(b) \in 0 .. active - 1 /\ record[SlotOf(AgeOf(b))] = b
  <2>1. PICK k \in 0 .. active - 1 : record[SlotOf(k)] = b
    BY <1>2 DEF InRing, Used
  <2> QED
    BY <2>1
<1>3. ASSUME NEW b \in Blocks, b \notin InRing
      PROVE  t5 = "free" /\ b = log_rec_p /\ active < LOG_BUFFER_SIZE
  <2>1. heap[b] # Free
    BY DEF FreeBlocks
  <2> QED
    BY <1>3, <2>1 DEF IInv, BlocksAccountedFor, HeldByThread2, HeldByThread5, RoomLeft
<1>4. ASSUME NEW b \in Blocks
      PROVE  Number[b] \in 0 .. LOG_BUFFER_SIZE - 1
  <2>1. CASE b \in InRing
    <3>1. Number[b] = AgeOf(b)
      BY <2>1
    <3>2. AgeOf(b) \in 0 .. active - 1
      BY <1>2, <2>1
    <3> HIDE DEF AgeOf, Number
    <3> QED
      BY <1>1, <3>1, <3>2, LoggerAssumption
  <2>2. CASE b \notin InRing
    BY <1>1, <1>3, <2>2, LoggerAssumption
  <2> QED
    BY <2>1, <2>2
<1>5. ASSUME NEW a \in Blocks, NEW b \in Blocks, Number[a] = Number[b]
      PROVE  a = b
  <2>1. CASE a \in InRing /\ b \in InRing
    <3>1. AgeOf(a) = AgeOf(b)
      BY <1>5, <2>1
    <3> HIDE DEF AgeOf
    <3> QED
      BY <1>2, <2>1, <3>1
  <2>2. CASE a \notin InRing /\ b \notin InRing
    BY <1>3, <2>2
  <2>3. ASSUME NEW c \in Blocks, NEW d \in Blocks, c \in InRing, d \notin InRing
        PROVE  Number[c] # Number[d]
    <3>1. Number[c] = AgeOf(c) /\ Number[d] = active
      BY <2>3
    <3>2. AgeOf(c) \in 0 .. active - 1
      BY <1>2, <2>3
    <3> HIDE DEF AgeOf, Number
    <3> QED
      BY <1>1, <3>1, <3>2
  <2> QED
    BY <1>5, <2>1, <2>2, <2>3
<1>6. Number \in [Blocks -> 0 .. LOG_BUFFER_SIZE - 1]
  BY <1>4
<1>7. IsFiniteSet(0 .. LOG_BUFFER_SIZE - 1) /\ Cardinality(0 .. LOG_BUFFER_SIZE - 1) = LOG_BUFFER_SIZE
  BY FS_Interval, LoggerAssumption
<1> HIDE DEF Number
<1>8. Cardinality(0 .. LOG_BUFFER_SIZE - 1) < Cardinality(Blocks)
  <2>1. Cardinality(Blocks) \in Nat
    BY FS_CardinalityType
  <2> QED
    BY <1>7, <2>1, LoggerAssumption
<1>9. \E a, b \in Blocks : a # b /\ Number[a] = Number[b]
  BY <1>6, <1>7, <1>8, FS_PigeonHole
<1> QED
  BY <1>5, <1>9

\* With one block more than the ring has slots, chHeapAlloc in Thread2 (tasks.c)
\* never returns NULL: no measurement is dropped for want of memory.
THEOREM HeapAlwaysSuffices ==
  ASSUME IsFiniteSet(Blocks), Cardinality(Blocks) > LOG_BUFFER_SIZE
  PROVE  Spec => []HeapSuffices
<1>1. Init => IInv /\ RoomLeft
  BY InitIInv DEF Init, RoomLeft
<1>2. IInv /\ RoomLeft /\ [Next]_vars => (IInv /\ RoomLeft)'
  BY NextIInv, NextRoomLeft
<1>3. IInv /\ RoomLeft => HeapSuffices
  BY InUseCounted DEF HeapSuffices
<1>4. QED
  BY <1>1, <1>2, <1>3, PTL DEF Spec

-----------------------------------------------------------------------------
(* Logger implements LogQueue: the ring, its two indices, its count and    *)
(* the heap behave as one bounded queue, first in first out.               *)

\* The block that Thread2 holds contains the newest record.
Filled == t2 \in {"lock", "store"} => to_log \in Blocks /\ heap[to_log] = logs

RInv == IInv /\ Filled

\* The invariant holds at the start.
LEMMA InitRInv == Init => RInv
BY InitIInv DEF RInv, Filled, Init

\* Every step keeps it.
LEMMA NextRInv == RInv /\ [Next]_vars => RInv'
<1> SUFFICES ASSUME IInv, Filled, [Next]_vars PROVE Filled'
  BY NextIInv DEF RInv
<1> USE DEF Filled
<1>1. CASE MakeRecord
  BY <1>1 DEF MakeRecord, FreeBlocks, IInv, TypeOK
<1>2. CASE LockToLog
  BY <1>2 DEF LockToLog
<1>3. CASE LogThis \/ LogThisOverflow \/ UnlockLogged
  BY <1>3 DEF LogThis, LogThisOverflow, UnlockLogged
<1>4. CASE FreeWritten
  <2>1. t2 \in {"lock", "store"} => to_log # log_rec_p
    BY <1>4 DEF FreeWritten, IInv, BlocksAccountedFor, HeldByThread2, HeldByThread5
  <2> QED
    BY <1>4, <2>1 DEF FreeWritten, IInv, TypeOK, t2Vars
<1>5. CASE \/ WaitTurn \/ CheckTurn \/ LockToWrite \/ PickOldest \/ WriteSucceeds
           \/ WriteFails \/ RemoveOldest \/ UnlockWritten \/ SignalTurn
  BY <1>5 DEF WaitTurn, CheckTurn, LockToWrite, PickOldest, WriteSucceeds, WriteFails,
     RemoveOldest, UnlockWritten, SignalTurn, t2Vars
<1>6. CASE WaitDump \/ SignalDump \/ ToggleSW2 \/ UNCHANGED vars
  BY <1>6 DEF WaitDump, SignalDump, ToggleSW2, vars, t2Vars
<1> QED
  BY <1>1, <1>2, <1>3, <1>4, <1>5, <1>6 DEF Next, Thread2, Thread4, Thread5

-----------------------------------------------------------------------------
(* The queue that the ring holds.                                          *)

\* The ring's records, from the oldest on, as a sequence.
LEMMA PendingFacts ==
  ASSUME IInv
  PROVE  /\ Pending \in Seq(0 .. MaxLogs) /\ Len(Pending) = active
         /\ \A k \in 1 .. active : Pending[k] = heap[record[SlotOf(k - 1)]]
         /\ \A k \in 1 .. active : record[SlotOf(k - 1)] \in Blocks
                                   /\ record[SlotOf(k - 1)] \in InRing
<1>1. active \in Nat /\ active =< LOG_BUFFER_SIZE
  BY LoggerAssumption DEF IInv, TypeOK
<1>2. ASSUME NEW k \in 1 .. active
      PROVE  record[SlotOf(k - 1)] \in Blocks /\ record[SlotOf(k - 1)] \in InRing
  <2>1. k - 1 \in 0 .. active - 1
    BY <1>1
  <2>2. SlotOf(k - 1) \in Used
    BY <2>1 DEF Used
  <2>3. record[SlotOf(k - 1)] \in InRing
    BY <2>2 DEF InRing
  <2>4. InRing \subseteq {b \in Blocks : heap[b] # Free}
    BY DEF IInv, BlocksAccountedFor
  <2> QED
    BY <2>3, <2>4
<1>3. \A k \in 1 .. active : heap[record[SlotOf(k - 1)]] \in 0 .. MaxLogs
  BY <1>2 DEF IInv, TypeOK
<1>4. Pending \in [1 .. active -> 0 .. MaxLogs]
  BY <1>3 DEF Pending
<1>5. Pending \in Seq(0 .. MaxLogs)
  BY <1>1, <1>4, SeqDef
<1>6. Len(Pending) = active
  BY <1>1, <1>4, <1>5, LenProperties
<1>7. \A k \in 1 .. active : Pending[k] = heap[record[SlotOf(k - 1)]]
  BY DEF Pending
<1> QED
  BY <1>2, <1>5, <1>6, <1>7

\* The index of an age.
LEMMA IndexBelow ==
  ASSUME NEW n \in Nat, NEW k \in Int, 1 =< k, k =< n
  PROVE  k - 1 \in 0 .. n - 1
OBVIOUS

\* The same facts of the next state.
LEMMA PendingFactsNext ==
  ASSUME IInv'
  PROVE  /\ Pending' \in Seq(0 .. MaxLogs) /\ Len(Pending') = active'
         /\ \A k \in 1 .. active' : Pending'[k] = heap'[record'[SlotOf(k - 1)']]
<1>1. active' \in Nat /\ active' =< LOG_BUFFER_SIZE
  BY LoggerAssumption DEF IInv, TypeOK
<1>2. Pending' = [k \in 1 .. active' |-> heap'[record'[SlotOf(k - 1)']]]
  BY DEF Pending
<1>3. ASSUME NEW k \in Int, 1 =< k, k =< active'
      PROVE  heap'[record'[SlotOf(k - 1)']] \in 0 .. MaxLogs
  <2>1. k - 1 \in 0 .. active' - 1
    BY <1>1, <1>3, IndexBelow
  <2>2. SlotOf(k - 1)' \in Used'
    BY <2>1 DEF Used
  <2>3. record'[SlotOf(k - 1)'] \in InRing'
    BY <2>2 DEF InRing
  <2>4. InRing' \subseteq {b \in Blocks : heap'[b] # Free}
    BY DEF IInv, BlocksAccountedFor
  <2> QED
    BY <2>3, <2>4 DEF IInv, TypeOK
<1>4. Pending' \in [1 .. active' -> 0 .. MaxLogs]
  BY <1>1, <1>2, <1>3
<1>5. Pending' \in Seq(0 .. MaxLogs)
  BY <1>1, <1>4, SeqDef
<1>6. Len(Pending') = active'
  BY <1>1, <1>4, <1>5, LenProperties
<1> QED
  BY <1>2, <1>5, <1>6

\* The queue without its head.
LEMMA TailFacts ==
  ASSUME NEW S, NEW s \in Seq(S), s # <<>>
  PROVE  /\ Tail(s) \in Seq(S) /\ Len(Tail(s)) = Len(s) - 1
         /\ \A k \in 1 .. Len(s) - 1 : Tail(s)[k] = s[k + 1]
BY HeadTailProperties

\* The queue with one more record behind.
LEMMA AppendFacts ==
  ASSUME NEW S, NEW s \in Seq(S), NEW e \in S
  PROVE  /\ Append(s, e) \in Seq(S) /\ Len(Append(s, e)) = Len(s) + 1
         /\ \A k \in 1 .. Len(s) : Append(s, e)[k] = s[k]
         /\ Append(s, e)[Len(s) + 1] = e
BY AppendProperties

\* Nothing moves in the ring, and its blocks keep their records.
LEMMA PendingFrame ==
  ASSUME IInv, UNCHANGED <<record, start_to_read, active>>,
         \A b \in InRing : heap'[b] = heap[b]
  PROVE  Pending' = Pending
<1>1. \A k \in 1 .. active : heap'[record[SlotOf(k - 1)]] = heap[record[SlotOf(k - 1)]]
  BY PendingFacts
<1>2. Pending' = [k \in 1 .. active |-> heap'[record[SlotOf(k - 1)]]]
  BY DEF Pending, SlotOf
<1> QED
  BY <1>1, <1>2 DEF Pending

\* A record stored behind the newest is the last of the queue.
LEMMA LogThisAppends ==
  ASSUME RInv, LogThis, IInv'
  PROVE  Len(Pending) # LOG_BUFFER_SIZE /\ Pending' = Append(Pending, logs)
<1> USE LoggerAssumption
<1>1. /\ active < LOG_BUFFER_SIZE /\ active' = active + 1
      /\ record' = [record EXCEPT ![can_write] = to_log]
      /\ UNCHANGED <<heap, start_to_read>> /\ t2 = "store"
  BY DEF LogThis, StoreRecord
<1>2. active \in 0 .. LOG_BUFFER_SIZE - 1 /\ logs \in 0 .. MaxLogs
      /\ start_to_read \in Slots /\ can_write \in Slots
      /\ record \in [Slots -> Blocks \cup {NULL}]
  BY <1>1 DEF RInv, IInv, TypeOK
<1>3. can_write = SlotOf(active) /\ heap[to_log] = logs
  BY <1>1 DEF RInv, IInv, RingConsistent, Filled
<1>4. /\ Pending \in Seq(0 .. MaxLogs) /\ Len(Pending) = active
      /\ \A k \in 1 .. active : Pending[k] = heap[record[SlotOf(k - 1)]]
  BY PendingFacts DEF RInv
<1>5. /\ Pending' \in Seq(0 .. MaxLogs) /\ Len(Pending') = active + 1
      /\ \A k \in 1 .. active + 1 : Pending'[k] = heap[record'[SlotOf(k - 1)]]
  <2>1. /\ Pending' \in Seq(0 .. MaxLogs) /\ Len(Pending') = active'
        /\ \A k \in 1 .. active' : Pending'[k] = heap'[record'[SlotOf(k - 1)']]
    BY PendingFactsNext
  <2>2. \A k \in 1 .. active + 1 : SlotOf(k - 1)' = SlotOf(k - 1)
    BY <1>1 DEF SlotOf
  <2> QED
    BY <1>1, <2>1, <2>2
<1>6. ASSUME NEW k \in 1 .. active
      PROVE  Pending'[k] = Pending[k]
  <2>1. k - 1 \in 0 .. LOG_BUFFER_SIZE - 1 /\ k - 1 # active
    BY <1>2
  <2>2. SlotOf(k - 1) \in Slots /\ SlotOf(k - 1) # can_write
    BY <1>2, <1>3, <2>1, SlotFacts
  <2>3. record'[SlotOf(k - 1)] = record[SlotOf(k - 1)]
    BY <1>1, <1>2, <2>2
  <2>4. k \in 1 .. active + 1
    BY <1>2
  <2>5. Pending[k] = heap[record[SlotOf(k - 1)]]
    BY ONLY <1>4, k \in 1 .. active
  <2>6. Pending'[k] = heap[record'[SlotOf(k - 1)]]
    BY ONLY <1>5, <2>4
  <2> QED
    BY ONLY <2>3, <2>5, <2>6
<1>7. Pending'[active + 1] = logs
  <2>1. active + 1 \in 1 .. active + 1 /\ (active + 1) - 1 = active
    BY <1>2
  <2>2. Pending'[active + 1] = heap[record'[SlotOf(active)]]
    BY <1>5, <2>1
  <2>3. record'[can_write] = to_log
    BY <1>1, <1>2
  <2> QED
    BY <1>3, <2>2, <2>3
<1> DEFINE longer == Append(Pending, logs)
<1>8. /\ longer \in Seq(0 .. MaxLogs) /\ Len(longer) = active + 1
      /\ \A k \in 1 .. active : longer[k] = Pending[k]
      /\ longer[active + 1] = logs
  BY <1>2, <1>4, AppendFacts
<1> HIDE DEF longer
<1>9. \A k \in 1 .. active + 1 : k \in 1 .. active \/ k = active + 1
  BY <1>2
<1>10. \A k \in 1 .. Len(Pending') : Pending'[k] = longer[k]
  BY <1>5, <1>6, <1>7, <1>8, <1>9
<1>11. Pending' = longer
  BY ONLY <1>5, <1>8, <1>10, SeqEqual
<1> QED
  BY <1>2, <1>4, <1>11 DEF longer

\* On overflow the head makes way for it.
LEMMA OverflowShifts ==
  ASSUME RInv, LogThisOverflow, IInv'
  PROVE  /\ Pending # <<>> /\ Len(Pending) = LOG_BUFFER_SIZE
         /\ Pending' = Append(Tail(Pending), logs)
<1> USE LoggerAssumption
<1> DEFINE N == LOG_BUFFER_SIZE
<1>0. N \in Nat \ {0} /\ N - 1 \in Nat
  OBVIOUS
<1>1. /\ active = N /\ active' = N
      /\ record' = [record EXCEPT ![can_write] = to_log]
      /\ heap' = [heap EXCEPT ![record[start_to_read]] = Free]
      /\ start_to_read' = NextSlot(start_to_read) /\ t2 = "store"
  BY DEF LogThisOverflow, StoreRecord, RInv, IInv, TypeOK
<1>2. /\ logs \in 0 .. MaxLogs /\ start_to_read \in Slots
      /\ record \in [Slots -> Blocks \cup {NULL}] /\ heap \in [Blocks -> 0 .. MaxLogs]
  BY DEF RInv, IInv, TypeOK
<1>3. can_write = start_to_read
  BY <1>1, <1>2, SlotFacts DEF RInv, IInv, RingConsistent
<1>4. /\ Pending \in Seq(0 .. MaxLogs) /\ Len(Pending) = N
      /\ \A k \in 1 .. N : Pending[k] = heap[record[SlotOf(k - 1)]]
      /\ \A k \in 1 .. N : record[SlotOf(k - 1)] \in Blocks
  BY <1>1, PendingFacts DEF RInv
<1>5. Pending # <<>>
  BY <1>0, <1>4, EmptySeq
<1>6. /\ Pending' \in Seq(0 .. MaxLogs) /\ Len(Pending') = N
      /\ \A k \in 1 .. N : Pending'[k] = heap'[record'[SlotOf(k)]]
  <2>1. /\ Pending' \in Seq(0 .. MaxLogs) /\ Len(Pending') = active'
        /\ \A k \in 1 .. active' : Pending'[k] = heap'[record'[SlotOf(k - 1)']]
    BY PendingFactsNext
  <2>2. ASSUME NEW k \in 1 .. N PROVE SlotOf(k - 1)' = SlotOf(k)
    <3>1. k - 1 \in 0 .. N - 1 /\ (k - 1) + 1 = k
      BY <1>0
    <3>2. SlotOf(k - 1)' = SlotOf((k - 1) + 1)
      BY <1>1, <1>2, <3>1, StartMoves
    <3> QED
      BY <3>1, <3>2
  <2> QED
    BY <1>1, <2>1, <2>2
<1>7. ASSUME NEW k \in 1 .. N - 1
      PROVE  Pending'[k] = Pending[k + 1]
  <2>1. k \in 1 .. N /\ k + 1 \in 1 .. N /\ (k + 1) - 1 = k /\ k \in 0 .. N - 1 /\ 0 \in 0 .. N - 1
        /\ k # 0 /\ 1 \in 1 .. N /\ 1 - 1 = 0
    BY <1>0
  <2>2. SlotOf(k) \in Slots /\ SlotOf(0) = start_to_read /\ SlotOf(k) # start_to_read
    <3>1. SlotOf(0) = start_to_read
      BY <1>2, SlotFacts
    <3>2. SlotOf(k) # SlotOf(0)
      BY <1>2, <2>1, SlotFacts
    <3>3. SlotOf(k) \in Slots
      BY <1>0, <1>2, <2>1, SlotFacts
    <3> QED
      BY <3>1, <3>2, <3>3
  <2>3. record'[SlotOf(k)] = record[SlotOf(k)]
    BY <1>1, <1>2, <1>3, <2>2
  <2>4. record[SlotOf(k)] # record[start_to_read]
    <3>1. SlotOf(k) \in Used /\ SlotOf(0) \in Used
      BY <1>1, <2>1 DEF Used
    <3> QED
      BY <2>2, <3>1 DEF RInv, IInv, BlocksAccountedFor
  <2>5. record[SlotOf(k)] \in Blocks
    BY <1>4, <2>1
  <2>6. heap'[record[SlotOf(k)]] = heap[record[SlotOf(k)]]
    BY <1>1, <1>2, <2>4, <2>5
  <2>7. Pending'[k] = heap'[record'[SlotOf(k)]]
    BY <1>6, <2>1
  <2>8. Pending[k + 1] = heap[record[SlotOf(k)]]
    BY <1>4, <2>1
  <2> QED
    BY <2>3, <2>6, <2>7, <2>8
<1>8. Pending'[N] = logs
  <2>1. SlotOf(N) = start_to_read /\ N \in 1 .. N
    BY <1>0, <1>2, SlotFacts
  <2>2. record'[start_to_read] = to_log
    BY <1>1, <1>2, <1>3
  <2>3. to_log \in Blocks /\ heap[to_log] = logs
    BY <1>1 DEF RInv, Filled
  <2>4. to_log # record[start_to_read]
    <3>1. SlotOf(0) \in Used /\ SlotOf(0) = start_to_read
      BY <1>0, <1>1, <1>2, SlotFacts DEF Used
    <3>2. to_log \in HeldByThread2
      BY <1>1 DEF HeldByThread2
    <3> QED
      BY <3>1, <3>2 DEF RInv, IInv, BlocksAccountedFor, InRing
  <2>5. heap'[to_log] = logs
    BY <1>1, <1>2, <2>3, <2>4
  <2> QED
    BY <1>6, <2>1, <2>2, <2>5
<1> DEFINE shifted == Append(Tail(Pending), logs)
<1>9. /\ Tail(Pending) \in Seq(0 .. MaxLogs) /\ Len(Tail(Pending)) = N - 1
      /\ \A k \in 1 .. N - 1 : Tail(Pending)[k] = Pending[k + 1]
  BY <1>4, <1>5, TailFacts
<1>10. /\ shifted \in Seq(0 .. MaxLogs) /\ Len(shifted) = (N - 1) + 1
       /\ \A k \in 1 .. N - 1 : shifted[k] = Tail(Pending)[k]
       /\ shifted[(N - 1) + 1] = logs
  BY <1>2, <1>9, AppendFacts
<1> HIDE DEF shifted
<1>11. (N - 1) + 1 = N /\ \A k \in 1 .. N : k \in 1 .. N - 1 \/ k = N
  BY <1>0
<1>12. \A k \in 1 .. Len(Pending') : Pending'[k] = shifted[k]
  BY <1>6, <1>7, <1>8, <1>9, <1>10, <1>11
<1>13. Len(Pending') = Len(shifted)
  BY <1>6, <1>10, <1>11
<1>14. Pending' = shifted
  BY ONLY <1>6, <1>10, <1>12, <1>13, SeqEqual
<1> QED
  BY <1>4, <1>5, <1>14 DEF shifted

\* Removing the oldest record from the ring leaves the queue without its head.
LEMMA RemoveTakesHead ==
  ASSUME RInv, RemoveOldest, IInv'
  PROVE  Pending' = Tail(Pending)
<1> USE LoggerAssumption
<1>1. /\ active \in 1 .. LOG_BUFFER_SIZE /\ active' = active - 1
      /\ start_to_read' = NextSlot(start_to_read) /\ start_to_read \in Slots
      /\ UNCHANGED <<heap, record>>
  BY DEF RemoveOldest, RInv, IInv, TypeOK, RecordToWrite
<1>2. /\ Pending \in Seq(0 .. MaxLogs) /\ Len(Pending) = active
      /\ \A k \in 1 .. active : Pending[k] = heap[record[SlotOf(k - 1)]]
  BY PendingFacts DEF RInv
<1>3. Pending # <<>>
  BY <1>1, <1>2, EmptySeq
<1>4. /\ Tail(Pending) \in Seq(0 .. MaxLogs) /\ Len(Tail(Pending)) = active - 1
      /\ \A k \in 1 .. active - 1 : Tail(Pending)[k] = Pending[k + 1]
  BY <1>2, <1>3, TailFacts
<1>5. /\ Pending' \in Seq(0 .. MaxLogs) /\ Len(Pending') = active - 1
      /\ \A k \in 1 .. active - 1 : Pending'[k] = heap[record[SlotOf(k - 1)']]
  <2>1. /\ Pending' \in Seq(0 .. MaxLogs) /\ Len(Pending') = active'
        /\ \A k \in 1 .. active' : Pending'[k] = heap'[record'[SlotOf(k - 1)']]
    BY PendingFactsNext
  <2> QED
    BY <1>1, <2>1
<1>6. ASSUME NEW k \in 1 .. active - 1
      PROVE  Pending'[k] = Tail(Pending)[k]
  <2>1. /\ k - 1 \in 0 .. LOG_BUFFER_SIZE - 1 /\ (k - 1) + 1 = k
        /\ k + 1 \in 1 .. active /\ (k + 1) - 1 = k
    BY <1>1
  <2>2. SlotOf(k - 1)' = SlotOf((k - 1) + 1)
    BY <1>1, <2>1, StartMoves
  <2>3. Pending[k + 1] = heap[record[SlotOf(k)]]
    BY <1>2, <2>1
  <2> QED
    BY <1>4, <1>5, <2>1, <2>2, <2>3
<1>7. \A k \in 1 .. Len(Pending') : Pending'[k] = Tail(Pending)[k]
  BY <1>5, <1>6
<1>8. Len(Pending') = Len(Tail(Pending))
  BY <1>4, <1>5
<1> QED
  BY ONLY <1>4, <1>5, <1>7, <1>8, SeqEqual

-----------------------------------------------------------------------------
(* The simulation.                                                         *)

\* At the start the queue is empty.
LEMMA InitQueue == Init => Queue!Init
<1> SUFFICES ASSUME Init PROVE Queue!Init
  OBVIOUS
<1>1. IInv /\ active = 0
  BY InitIInv DEF Init
<1>2. Pending = <<>>
  BY <1>1, PendingFacts, EmptySeq
<1> QED
  BY <1>2 DEF Init, Queue!Init

\* A step that leaves the ring's records, the place of Thread5 in a removal, the
\* number of records handed over and the EEPROM alone is no step of the queue.
LEMMA NoQueueStep ==
  ASSUME Pending' = Pending, saved' = saved, t5 = "remove" <=> t5' = "remove",
         (IF t2' \in {"lock", "store"} THEN logs' - 1 ELSE logs')
           = (IF t2 \in {"lock", "store"} THEN logs - 1 ELSE logs)
  PROVE  UNCHANGED Queue!vars
BY DEF Queue!vars

\* Thread2 stores a record: Log.
LEMMA StoreIsLog ==
  ASSUME RInv, IInv', LogThis \/ LogThisOverflow
  PROVE  Queue!Log
<1>1. /\ t2 = "store" /\ t2' = "unlock" /\ mtx.owner = "T2"
      /\ UNCHANGED <<t5, logs, saved>>
  BY DEF LogThis, LogThisOverflow, Holds, t5Vars
<1>2. t5 # "remove"
  BY <1>1 DEF RInv, IInv, LocksAgree
<1>3. logs \in Int /\ (logs - 1) + 1 = logs
  BY DEF RInv, IInv, TypeOK
<1>4. Pending' = Append(IF Len(Pending) = LOG_BUFFER_SIZE THEN Tail(Pending) ELSE Pending, logs)
  BY LogThisAppends, OverflowShifts
<1> QED
  BY <1>1, <1>2, <1>3, <1>4 DEF Queue!Log

\* The write to the EEPROM was acknowledged: Save.
LEMMA WriteIsSave ==
  ASSUME RInv, WriteSucceeds
  PROVE  Queue!Save
<1>1. /\ t5 = "write" /\ t5' = "remove" /\ saved' = Append(saved, heap[log_rec_p])
      /\ UNCHANGED <<heap, record, start_to_read, active, t2, logs>>
  BY DEF WriteSucceeds, ringVars, t2Vars
<1>2. Pending' = Pending
  BY <1>1, PendingFrame DEF RInv
<1>3. /\ active \in 1 .. LOG_BUFFER_SIZE /\ log_rec_p = record[start_to_read]
      /\ start_to_read \in Slots
  BY <1>1, LoggerAssumption DEF RInv, IInv, WritesOldest, TypeOK
<1>4. 1 \in 1 .. active /\ 1 - 1 = 0
  BY <1>3, LoggerAssumption
<1>5. /\ Pending \in Seq(0 .. MaxLogs) /\ Len(Pending) = active
      /\ Pending[1] = heap[record[SlotOf(0)]]
  BY <1>4, PendingFacts DEF RInv
<1>6. Pending # <<>> /\ Head(Pending) = heap[log_rec_p]
  <2>1. SlotOf(0) = start_to_read
    BY <1>3, SlotFacts
  <2>2. Pending # <<>>
    BY <1>3, <1>5, EmptySeq
  <2> QED
    BY <1>3, <1>5, <2>1, <2>2
<1> QED
  BY <1>1, <1>2, <1>6 DEF Queue!Save

\* Every step is one of the queue or leaves it alone.
LEMMA StepImplements ==
  RInv /\ IInv' /\ [Next]_vars => [Queue!Next]_(Queue!vars)
<1> SUFFICES ASSUME RInv, IInv', [Next]_vars
             PROVE  Queue!Next \/ UNCHANGED Queue!vars
  OBVIOUS
<1> USE DEF RInv
<1>1. CASE LogThis \/ LogThisOverflow
  BY <1>1, StoreIsLog DEF Queue!Next
<1>2. CASE WriteSucceeds
  BY <1>2, WriteIsSave DEF Queue!Next
<1>3. CASE RemoveOldest
  <2>1. t5 = "remove" /\ t5' = "free" /\ UNCHANGED <<saved, t2, logs>>
    BY <1>3 DEF RemoveOldest, t2Vars
  <2> QED
    BY <1>3, <2>1, RemoveTakesHead DEF Queue!vars
<1>4. CASE FreeWritten
  <2>1. /\ t5 = "free" /\ t5' = "unlock" /\ heap' = [heap EXCEPT ![log_rec_p] = Free]
        /\ UNCHANGED <<record, start_to_read, active, t2, logs, saved>>
    BY <1>4 DEF FreeWritten, ringVars, t2Vars
  <2>2. log_rec_p \notin InRing
    BY <2>1 DEF IInv, BlocksAccountedFor, HeldByThread5
  <2>3. \A b \in InRing : heap'[b] = heap[b]
    <3>1. InRing \subseteq Blocks
      BY DEF IInv, BlocksAccountedFor
    <3> QED
      BY <2>1, <2>2, <3>1 DEF IInv, TypeOK
  <2> QED
    BY <2>1, <2>3, PendingFrame, NoQueueStep
<1>5. CASE MakeRecord
  <2>1. PICK b \in FreeBlocks : heap' = [heap EXCEPT ![b] = logs']
    BY <1>5 DEF MakeRecord
  <2>2. /\ t2 = "measure" /\ t2' = "lock" /\ logs' = logs + 1
        /\ UNCHANGED <<record, start_to_read, active, t5, saved>>
    BY <1>5 DEF MakeRecord, ringVars, t5Vars
  <2>3. \A x \in InRing : heap'[x] = heap[x]
    <3>1. InRing \subseteq {x \in Blocks : heap[x] # Free}
      BY DEF IInv, BlocksAccountedFor
    <3> QED
      BY <2>1, <3>1 DEF FreeBlocks, IInv, TypeOK
  <2>4. logs' - 1 = logs
    BY <2>2 DEF IInv, TypeOK
  <2> QED
    BY <2>2, <2>3, <2>4, PendingFrame, NoQueueStep
<1>6. CASE LockToLog \/ UnlockLogged
  <2>1. /\ UNCHANGED <<heap, record, start_to_read, active, t5, saved, logs>>
        /\ (t2' \in {"lock", "store"}) = (t2 \in {"lock", "store"})
    BY <1>6 DEF LockToLog, UnlockLogged, ringVars, t5Vars
  <2> QED
    BY <2>1, PendingFrame, NoQueueStep
<1>7. CASE \/ WaitTurn \/ CheckTurn \/ LockToWrite \/ PickOldest \/ WriteFails
           \/ UnlockWritten \/ SignalTurn
  <2>1. /\ UNCHANGED <<heap, record, start_to_read, active, saved, logs, t2>>
        /\ t5 # "remove" /\ t5' # "remove"
    BY <1>7 DEF WaitTurn, CheckTurn, LockToWrite, PickOldest, WriteFails, UnlockWritten,
       SignalTurn, ringVars, t2Vars
  <2> QED
    BY <2>1, PendingFrame, NoQueueStep
<1>8. CASE WaitDump \/ SignalDump \/ ToggleSW2 \/ UNCHANGED vars
  <2>1. UNCHANGED <<heap, record, start_to_read, active, saved, logs, t2, t5>>
    BY <1>8 DEF WaitDump, SignalDump, ToggleSW2, vars, ringVars, t2Vars, t5Vars
  <2> QED
    BY <2>1, PendingFrame, NoQueueStep
<1> QED
  BY <1>1, <1>2, <1>3, <1>4, <1>5, <1>6, <1>7, <1>8 DEF Next, Thread2, Thread4, Thread5

\* logger_logThis and logger_writeToEE, however Thread2 and Thread5 interleave in
\* them, are the bounded queue that the comments of logger.c promise.
THEOREM LoggerImplementsQueue == Spec => ImplementsQueue
<1>1. RInv => IInv
  BY DEF RInv
<1> QED
  BY <1>1, InitRInv, NextRInv, InitQueue, StepImplements, PTL DEF Spec, ImplementsQueue, Queue!Spec
=============================================================================
