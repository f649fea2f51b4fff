---------------------------- MODULE EepromProofs ----------------------------
(***************************************************************************)
(* Theorems about module Eeprom, for every size of the EEPROM and of the   *)
(* dump's blocks and every set of faults except where a theorem says so.   *)
(***************************************************************************)
EXTENDS Eeprom, TLAPS

\* Addresses the arithmetic produces stay inside 0 .. Slots.
LEMMA AddressArithmetic ==
  /\ \A a \in Addresses : NextFree(a) \in Addresses /\ CellOf(a) \in Cells
  /\ \A a \in Addresses : NextRead(a) \in Addresses
BY EepromAssumption DEF NextFree, NextRead, CellOf, Addresses, Cells

\* How many blocks a dump reads.
LEMMA BlockCount == NumBlocks \in Nat
BY EepromAssumption DEF NumBlocks

\* The assumption without its nonlinear part.
LEMMA Sizes ==
  /\ Slots \in Nat /\ Slots >= 2 /\ BlockLen \in Nat \ {0}
  /\ MaxRecords \in Nat /\ MaxCrashes \in Nat
  /\ InitialDescs \subseteq Addresses \cup {NoAddr}
BY EepromAssumption DEF Addresses, NoAddr

\* An empty dump.
LEMMA NothingSent == [c \in Cells |-> NotSent] \in [Cells -> Records \cup {Old, NotSent}]
OBVIOUS

----------------------------------------------------------------------------
\* The types hold when the instrument is first switched on.
LEMMA InitTypeOK == Init => TypeOK
<1> SUFFICES ASSUME Init PROVE TypeOK
  OBVIOUS
<1>1. n \in 0 .. NumBlocks
  BY BlockCount DEF Init
<1>2. dump \in [Cells -> Records \cup {Old, NotSent}]
  BY NothingSent DEF Init
<1>3. /\ cell \in [Cells -> Records \cup {Old}]
      /\ owner \in [Cells -> Records \cup {Old}]
  BY DEF Init
<1>4. desc \in Addresses \cup {NoAddr}
  BY Sizes DEF Init
<1>5. /\ first_free \in Addresses
      /\ first_addr_to_read \in Addresses \cup {NoAddr}
      /\ made \in 0 .. MaxRecords /\ crashes \in 0 .. MaxCrashes
  BY Sizes DEF Init, Addresses
<1>6. sem = "free" /\ t5 = "off" /\ t4 = "off" /\ cur = Old
  BY DEF Init
<1>7. QED
  BY <1>1, <1>2, <1>3, <1>4, <1>5, <1>6 DEF TypeOK

\* Every step keeps the types.
LEMMA NextTypeOK == TypeOK /\ [Next]_vars => TypeOK'
<1> SUFFICES ASSUME TypeOK, [Next]_vars PROVE TypeOK'
  OBVIOUS
<1> USE Sizes DEF TypeOK, Old
<1>1. CASE PowerUp
  <2>1. first_free' \in Addresses
    BY <1>1 DEF PowerUp, GetFirstFreeAddress, Addresses, NoAddr
  <2>2. QED
    BY <1>1, <2>1 DEF PowerUp
<1>2. CASE Crash
  <2>1. n' \in 0 .. NumBlocks
    BY <1>2, BlockCount DEF Crash
  <2>2. dump' \in [Cells -> Records \cup {Old, NotSent}]
    BY <1>2, NothingSent DEF Crash
  <2>3. /\ first_free' \in Addresses
        /\ first_addr_to_read' \in Addresses \cup {NoAddr}
        /\ crashes' \in 0 .. MaxCrashes
    BY <1>2 DEF Crash, Addresses
  <2>4. /\ t5' = "off" /\ t4' = "off" /\ sem' = "free" /\ cur' = Old
        /\ UNCHANGED <<cell, desc, made, owner>>
    BY <1>2 DEF Crash
  <2>5. QED
    BY <2>1, <2>2, <2>3, <2>4
<1>3. CASE TakeTurn \/ PickRecord \/ NothingToWrite
  BY <1>3 DEF TakeTurn, PickRecord, NothingToWrite, GiveUp, eeVars, t4Vars, Records
<1>4. CASE WriteRecord
  BY <1>4, AddressArithmetic DEF WriteRecord, t4Vars
<1>5. CASE WriteRecordFails
  BY <1>5, AddressArithmetic DEF WriteRecordFails, GiveUp, t4Vars
<1>6. CASE WriteDescriptor
  BY <1>6, AddressArithmetic DEF WriteDescriptor, t4Vars
<1>7. CASE WriteDescriptorFails
  BY <1>7 DEF WriteDescriptorFails, GiveUp, eeVars, t4Vars
<1>8. CASE Advance
  BY <1>8, AddressArithmetic DEF Advance, eeVars, t4Vars
<1>9. CASE BeginDump
  <2>1. n' \in 0 .. NumBlocks
    BY <1>9, BlockCount DEF BeginDump
  <2>2. dump' \in [Cells -> Records \cup {Old, NotSent}]
    BY <1>9, NothingSent DEF BeginDump
  <2>3. /\ sem' = sem /\ t4' = "read"
        /\ UNCHANGED <<cell, desc, t5, cur, first_free, first_addr_to_read,
                       made, crashes, owner>>
    BY <1>9 DEF BeginDump, eeVars, t5Vars
  <2>4. QED
    BY <2>1, <2>2, <2>3
<1>10. CASE ReadBlock
  <2>1. PICK a \in ReadOutcomes :
          /\ first_addr_to_read' = a
          /\ IF a = NoAddr
             THEN t4' = "end" /\ UNCHANGED dump
             ELSE /\ t4' = "send"
                  /\ dump' = [c \in Cells |-> IF c \in BlockAt(first_addr_to_read)
                                              THEN cell[c] ELSE dump[c]]
    BY <1>10 DEF ReadBlock
  <2>2. a \in Addresses \cup {NoAddr}
    BY AddressArithmetic DEF ReadOutcomes
  <2>3. UNCHANGED <<cell, desc, t5, cur, first_free, sem, n, made, crashes, owner>>
    BY <1>10 DEF ReadBlock, eeVars, t5Vars
  <2>4. n < NumBlocks
    BY <1>10 DEF ReadBlock
  <2>5. dump' \in [Cells -> Records \cup {Old, NotSent}] /\ t4' \in {"send", "end"}
    BY <2>1
  <2>6. QED
    BY <2>1, <2>2, <2>3, <2>4, <2>5
<1>11. CASE ReadBlockUnconfigured
  BY <1>11, AddressArithmetic DEF ReadBlockUnconfigured, ReadOutcomes, eeVars, t5Vars
<1>12. CASE LoopDone
  BY <1>12 DEF LoopDone, eeVars, t5Vars
<1>13. CASE SendAllLogs \/ EndUnconfigured \/ SendTerminator \/ TerminatorSent \/ LostInDisplay
  BY <1>13 DEF SendAllLogs, EndUnconfigured, SendTerminator, TerminatorSent, LostInDisplay,
     eeVars, t5Vars
<1>14. CASE BlockSent
  <2>1. n' \in 0 .. NumBlocks
    BY <1>14, BlockCount DEF BlockSent
  <2>2. QED
    BY <1>14, <2>1 DEF BlockSent, eeVars, t5Vars
<1>15. CASE UNCHANGED vars
  BY <1>15 DEF vars
<1>16. QED
  BY <1>1, <1>2, <1>3, <1>4, <1>5, <1>6, <1>7, <1>8, <1>9, <1>10, <1>11,
     <1>12, <1>13, <1>14, <1>15 DEF Next, Writer, Dumper, HostTakes

\* Every value stays in its range: in particular the address never leaves
\* 0 .. Slots, for any size and any faults.
THEOREM TypeCorrect == Spec => []TypeOK
<1>1. QED
  BY InitTypeOK, NextTypeOK, PTL DEF Spec

----------------------------------------------------------------------------
(* The dump is a snapshot: the semaphore keeps the writer out.             *)

\* At the start nobody holds binSem_T5.
LEMMA InitSemaphore == Init => SemaphoreAgrees
BY DEF Init, SemaphoreAgrees, Dumping

\* Every step leaves binSem_T5 with the thread that waits for its signal.
LEMMA NextSemaphore == TypeOK /\ SemaphoreAgrees /\ [Next]_vars => SemaphoreAgrees'
<1> SUFFICES ASSUME TypeOK, SemaphoreAgrees, [Next]_vars PROVE SemaphoreAgrees'
  OBVIOUS
<1> USE DEF SemaphoreAgrees, Dumping
<1>1. CASE PowerUp \/ Crash
  BY <1>1 DEF PowerUp, Crash
<1>2. CASE Writer
  BY <1>2 DEF Writer, TakeTurn, PickRecord, NothingToWrite, WriteRecord, WriteRecordFails,
     WriteDescriptor, WriteDescriptorFails, Advance, GiveUp, t4Vars
<1>3. CASE Dumper
  BY <1>3 DEF Dumper, SendAllLogs, BeginDump, ReadBlock, ReadBlockUnconfigured, LoopDone,
     EndUnconfigured, SendTerminator, t5Vars
<1>4. CASE HostTakes \/ LostInDisplay
  BY <1>4 DEF HostTakes, BlockSent, TerminatorSent, LostInDisplay, t5Vars
<1>5. CASE UNCHANGED vars
  BY <1>5 DEF vars
<1>6. QED
  BY <1>1, <1>2, <1>3, <1>4, <1>5 DEF Next

\* Every step keeps the EEPROM as the dump found it.
LEMMA NextSnapshot ==
  TypeOK /\ SemaphoreAgrees /\ DumpIsSnapshot /\ [Next]_vars => DumpIsSnapshot'
<1> SUFFICES ASSUME TypeOK, SemaphoreAgrees, DumpIsSnapshot, [Next]_vars,
                    (t4 \in Dumping)', NEW c \in Cells
             PROVE  (dump[c] \in {NotSent, cell[c]})'
  BY DEF DumpIsSnapshot
<1> USE DEF Dumping
<1>1. CASE PowerUp \/ Crash \/ SendAllLogs
  BY <1>1 DEF PowerUp, Crash, SendAllLogs
<1>2. CASE Writer
  <2>1. t4 \in Dumping /\ UNCHANGED dump
    BY <1>2 DEF Writer, TakeTurn, PickRecord, NothingToWrite, WriteRecord, WriteRecordFails,
       WriteDescriptor, WriteDescriptorFails, Advance, GiveUp, t4Vars
  <2>2. UNCHANGED cell
    BY <1>2, <2>1 DEF SemaphoreAgrees, Writer, TakeTurn, PickRecord, NothingToWrite,
       WriteRecord, WriteRecordFails, WriteDescriptor, WriteDescriptorFails, Advance, eeVars
  <2>3. QED
    BY <2>1, <2>2 DEF DumpIsSnapshot
<1>3. CASE BeginDump
  BY <1>3 DEF BeginDump
<1>4. CASE ReadBlock
  BY <1>4 DEF ReadBlock, DumpIsSnapshot, eeVars
<1>5. CASE ReadBlockUnconfigured \/ LoopDone \/ EndUnconfigured \/ SendTerminator
        \/ HostTakes \/ LostInDisplay
  BY <1>5 DEF ReadBlockUnconfigured, LoopDone, EndUnconfigured, SendTerminator, HostTakes,
     BlockSent, TerminatorSent, LostInDisplay, DumpIsSnapshot, eeVars
<1>6. CASE UNCHANGED vars
  BY <1>6 DEF vars, DumpIsSnapshot
<1>7. QED
  BY <1>1, <1>2, <1>3, <1>4, <1>5, <1>6 DEF Next, Dumper

\* What VS_SendAllLogs has sent is what the EEPROM holds, for as long as the
\* dump runs, whatever Thread5 wants to write meanwhile.
THEOREM SnapshotHolds == Spec => [](SemaphoreAgrees /\ DumpIsSnapshot)
<1>1. Init => DumpIsSnapshot
  BY DEF Init, DumpIsSnapshot, Dumping
<1>2. QED
  BY <1>1, TypeCorrect, InitSemaphore, NextSemaphore, NextSnapshot, PTL DEF Spec

----------------------------------------------------------------------------
(* Logged records stay, when the boot read of the descriptor cannot fail.  *)

\* Without a fault at boot, every step keeps the descriptor naming the next free place.
LEMMA NextRecovers ==
  ASSUME "boot" \notin Faults, TypeOK, AddressRecovers, [Next]_vars
  PROVE  AddressRecovers'
<1> USE DEF AddressRecovers
<1>1. CASE PowerUp
  BY <1>1 DEF PowerUp, GetFirstFreeAddress, MayFail, Resume
<1>2. CASE Crash
  BY <1>2 DEF Crash
<1>3. CASE TakeTurn \/ PickRecord \/ NothingToWrite
  BY <1>3 DEF TakeTurn, PickRecord, NothingToWrite, GiveUp, eeVars, Resume
<1>4. CASE WriteRecord
  BY <1>4, AddressArithmetic DEF WriteRecord, Resume, TypeOK
<1>5. CASE WriteRecordFails \/ WriteDescriptorFails
  BY <1>5 DEF WriteRecordFails, WriteDescriptorFails, GiveUp, Resume, eeVars
<1>6. CASE WriteDescriptor
  BY <1>6, AddressArithmetic DEF WriteDescriptor, TypeOK
<1>7. CASE Advance
  <2>1. desc \in Addresses /\ NoAddr \notin Addresses
    BY <1>7, AddressArithmetic, EepromAssumption DEF Advance, TypeOK, Addresses, NoAddr
  <2>2. QED
    BY <1>7, <2>1 DEF Advance, Resume, eeVars
<1>8. CASE Dumper \/ HostTakes \/ LostInDisplay
  BY <1>8 DEF Dumper, SendAllLogs, BeginDump, ReadBlock, ReadBlockUnconfigured, LoopDone,
     EndUnconfigured, SendTerminator, HostTakes, BlockSent, TerminatorSent, LostInDisplay,
     eeVars, t5Vars, Resume
<1>9. CASE UNCHANGED vars
  BY <1>9 DEF vars, Resume
<1>10. QED
  BY <1>1, <1>2, <1>3, <1>4, <1>5, <1>6, <1>7, <1>8, <1>9 DEF Next, Writer

\* Every step keeps what was logged in its cell.
LEMMA NextRecordsStay ==
  ASSUME "boot" \notin Faults, TypeOK, AddressRecovers, LoggedRecordsStay, [Next]_vars
  PROVE  LoggedRecordsStay'
<1> SUFFICES ASSUME NEW c \in Cells, (cell[c] # owner[c])'
             PROVE  c = CellOf(WriteAt)'
  BY DEF LoggedRecordsStay
<1> USE DEF LoggedRecordsStay, WriteAt
<1>1. CASE PowerUp
  BY <1>1 DEF PowerUp, GetFirstFreeAddress, MayFail, Resume
<1>2. CASE Crash
  <2>1. UNCHANGED <<cell, owner, desc>> /\ t5 # "off" /\ t5' = "off"
    BY <1>2 DEF Crash
  <2>2. c = CellOf(first_free)
    BY <2>1
  <2>3. t5 # "advance"
    BY <2>1, <2>2 DEF AddressRecovers
  <2>4. first_free = Resume
    BY <2>1, <2>3 DEF AddressRecovers, TypeOK
  <2>5. QED
    BY <2>1, <2>2, <2>4 DEF Resume
<1>3. CASE TakeTurn \/ PickRecord \/ NothingToWrite
  BY <1>3 DEF TakeTurn, PickRecord, NothingToWrite, GiveUp, eeVars
<1>4. CASE WriteRecord \/ WriteRecordFails
  BY <1>4 DEF WriteRecord, WriteRecordFails, GiveUp, TypeOK
<1>5. CASE WriteDescriptor
  BY <1>5 DEF WriteDescriptor, TypeOK
<1>6. CASE WriteDescriptorFails
  BY <1>6 DEF WriteDescriptorFails, GiveUp, eeVars
<1>7. CASE Advance
  BY <1>7 DEF Advance, eeVars, AddressRecovers
<1>8. CASE Dumper \/ HostTakes \/ LostInDisplay
  BY <1>8 DEF Dumper, SendAllLogs, BeginDump, ReadBlock, ReadBlockUnconfigured, LoopDone,
     EndUnconfigured, SendTerminator, HostTakes, BlockSent, TerminatorSent, LostInDisplay,
     eeVars, t5Vars, Resume
<1>9. CASE UNCHANGED vars
  BY <1>9 DEF vars, Resume
<1>10. QED
  BY <1>1, <1>2, <1>3, <1>4, <1>5, <1>6, <1>7, <1>8, <1>9 DEF Next, Writer

\* A record the descriptor has moved past survives failed transfers, repeated
\* attempts, power losses and restarts until the log comes round to its cell.
THEOREM RecordsStay ==
  ASSUME "boot" \notin Faults
  PROVE  Spec => [](AddressRecovers /\ LoggedRecordsStay)
<1>1. Init => AddressRecovers /\ LoggedRecordsStay
  BY DEF Init, AddressRecovers, LoggedRecordsStay
<1>2. TypeOK /\ AddressRecovers /\ [Next]_vars => AddressRecovers'
  BY NextRecovers
<1>3. TypeOK /\ AddressRecovers /\ LoggedRecordsStay /\ [Next]_vars => LoggedRecordsStay'
  BY NextRecordsStay
<1>4. QED
  BY <1>1, <1>2, <1>3, TypeCorrect, PTL DEF Spec

----------------------------------------------------------------------------
(* A dump that ran through all its blocks sent every cell.                 *)

\* Addresses wrap at most once.
LEMMA CellOfAddress ==
  \A x \in 0 .. 2 * Slots :
    CellOf(x) = IF x < Slots THEN x ELSE IF x < 2 * Slots THEN x - Slots ELSE 0
<1>1. \A S \in Nat \ {0} : \A x \in 0 .. S - 1 : x % S = x
  OBVIOUS
<1>2. \A S \in Nat \ {0} : \A x \in S .. 2 * S - 1 : x % S = x - S
  OBVIOUS
<1>3. \A S \in Nat \ {0} : (2 * S) % S = 0
  OBVIOUS
<1>4. QED
  BY <1>1, <1>2, <1>3, Sizes DEF CellOf

\* Blocks of equal length fill the EEPROM.
LEMMA BlocksFill == NumBlocks * BlockLen = Slots /\ NumBlocks >= 1 /\ BlockLen <= Slots
<1>1. \A S \in Nat \ {0} : \A B \in Nat \ {0} : S % B = 0 => (S \div B) * B = S
  OBVIOUS
<1>2. \A S \in Nat \ {0} : \A B \in Nat \ {0} : S % B = 0 => S \div B >= 1 /\ B <= S
  OBVIOUS
<1>3. QED
  BY <1>1, <1>2, EepromAssumption DEF NumBlocks

\* One read moves every cell it does not return nearer by a block.
LEMMA ReadMovesAhead ==
  ASSUME NEW a \in Addresses, NEW c \in Cells,
         NEW d, d = IF c >= CellOf(a) THEN c - CellOf(a) ELSE c - CellOf(a) + Slots,
         NEW e, e = IF c >= CellOf(NextRead(a)) THEN c - CellOf(NextRead(a))
                    ELSE c - CellOf(NextRead(a)) + Slots
  PROVE  /\ d \in Int /\ e \in Int
         /\ d < BlockLen => c \in BlockAt(a) 
         /\ d >= BlockLen => e = d - BlockLen
<1>1. CellOf(a) \in Cells /\ CellOf(a) = IF a < Slots THEN a ELSE 0
  BY CellOfAddress, AddressArithmetic, Sizes DEF Addresses
<1>2. d \in 0 .. Slots - 1
  BY <1>1, Sizes DEF Cells
<1>3. NextRead(a) = CellOf(a + BlockLen) /\ NextRead(a) \in Cells
  BY Sizes DEF NextRead, CellOf, Addresses, Cells
<1>4. CellOf(NextRead(a)) = NextRead(a)
  BY <1>3, CellOfAddress, Sizes DEF Cells
<1>5. a + BlockLen \in 0 .. 2 * Slots
  BY BlocksFill, Sizes DEF Addresses
<1>6. NextRead(a) = IF a + BlockLen < Slots THEN a + BlockLen
                    ELSE IF a + BlockLen < 2 * Slots THEN a + BlockLen - Slots ELSE 0
  BY <1>3, <1>5, CellOfAddress, Sizes DEF Addresses
<1>7. d < BlockLen => c \in BlockAt(a)
  <2> SUFFICES ASSUME d < BlockLen PROVE c \in BlockAt(a)
    OBVIOUS
  <2>1. d \in 0 .. BlockLen - 1
    BY <1>2, Sizes
  <2>2. a + d \in 0 .. 2 * Slots
    BY <1>2, Sizes DEF Addresses
  <2>3. CellOf(a + d) = c
    BY <2>2, <1>1, <1>2, CellOfAddress, Sizes DEF Addresses, Cells
  <2>4. QED
    BY <2>1, <2>3 DEF BlockAt
<1>8. e \in Int
  BY <1>3, <1>4 DEF Cells
<1>9. d >= BlockLen => e = d - BlockLen
  BY <1>1, <1>2, <1>4, <1>6, Sizes, BlocksFill DEF Addresses, Cells
<1>10. QED
  BY <1>2, <1>7, <1>8, <1>9

\* Every step keeps the cells still to be read ahead of the dump.
LEMMA NextReadAhead ==
  TypeOK /\ ReadAheadSent /\ [Next]_vars => ReadAheadSent'
<1> SUFFICES ASSUME TypeOK, ReadAheadSent, [Next]_vars, (t4 \in Dumping)'
             PROVE  (IF first_addr_to_read = NoAddr THEN n < NumBlocks /\ t4 # "send"
                     ELSE \A c \in Cells : Ahead(c) >= Left => dump[c] # NotSent)'
  BY DEF ReadAheadSent
<1> USE DEF Dumping
<1>1. CASE PowerUp \/ Crash \/ SendAllLogs
  BY <1>1 DEF PowerUp, Crash, SendAllLogs
<1>2. CASE Writer \/ UNCHANGED vars
  BY <1>2 DEF Writer, TakeTurn, PickRecord, NothingToWrite, WriteRecord, WriteRecordFails,
     WriteDescriptor, WriteDescriptorFails, Advance, t4Vars, vars, ReadAheadSent, Ahead,
     Left, BlocksRead
<1>3. CASE ReadBlockUnconfigured \/ EndUnconfigured \/ TerminatorSent
  BY <1>3 DEF ReadBlockUnconfigured, EndUnconfigured, TerminatorSent
<1>4. CASE LoopDone \/ SendTerminator \/ LostInDisplay
  <2>1. /\ t4 \in Dumping /\ (t4 = "send" <=> t4' = "send")
        /\ UNCHANGED <<n, dump, first_addr_to_read>>
    BY <1>4 DEF LoopDone, SendTerminator, LostInDisplay
  <2>2. QED
    BY <2>1 DEF ReadAheadSent, Ahead, Left, BlocksRead
<1>5. CASE BlockSent
  <2>1. /\ t4 = "send" /\ t4' = "read" /\ n' = n + 1
        /\ UNCHANGED <<dump, first_addr_to_read>>
    BY <1>5 DEF BlockSent
  <2>2. Left' = Left
    BY <2>1 DEF Left, BlocksRead
  <2>3. first_addr_to_read # NoAddr
    BY <2>1 DEF ReadAheadSent
  <2>4. QED
    BY <2>1, <2>2, <2>3 DEF ReadAheadSent, Ahead
<1>6. CASE BeginDump
  <2>1. n' = 0 /\ t4' = "read" /\ first_addr_to_read' = first_addr_to_read
    BY <1>6 DEF BeginDump
  <2>2. 0 < NumBlocks /\ Left' = Slots
    BY <2>1, BlocksFill, BlockCount, Sizes DEF Left, BlocksRead
  <2>3. ASSUME NEW c \in Cells, first_addr_to_read # NoAddr
        PROVE  Ahead(c)' < Slots
    <3>1. CellOf(first_addr_to_read) \in Cells
      BY <2>3, AddressArithmetic DEF TypeOK
    <3>2. Ahead(c) < Slots
      BY <3>1, Sizes DEF Ahead, Cells
    <3>3. QED
      BY <3>2, <2>1 DEF Ahead
  <2>4. ASSUME NEW c \in Cells, first_addr_to_read # NoAddr
        PROVE  Ahead(c)' \in Int
    BY <2>1, <2>4, AddressArithmetic, Sizes DEF TypeOK, Ahead, Cells
  <2>5. QED
    BY <2>1, <2>2, <2>3, <2>4, Sizes
<1>7. CASE ReadBlock
  <2>1. PICK a \in ReadOutcomes :
          /\ first_addr_to_read' = a
          /\ a = NoAddr => t4' = "end"
          /\ a # NoAddr =>
               /\ t4' = "send"
               /\ dump' = [c \in Cells |-> IF c \in BlockAt(first_addr_to_read)
                                           THEN cell[c] ELSE dump[c]]
    BY <1>7 DEF ReadBlock
  <2>2. t4 = "read" /\ n < NumBlocks /\ n' = n
    BY <1>7 DEF ReadBlock
  <2>3. CASE a = NoAddr
    BY <2>1, <2>2, <2>3
  <2>4. CASE a # NoAddr
    <3>1. first_addr_to_read \in Addresses /\ a = NextRead(first_addr_to_read)
      BY <2>4 DEF ReadOutcomes, TypeOK
    <3>2. first_addr_to_read # NoAddr
      BY <2>4 DEF ReadOutcomes
    <3>3. Left' = Left - BlockLen /\ Left \in Int
      <4>1. \A p, q, b \in Int : (p - (q + 1)) * b = (p - q) * b - b
        OBVIOUS
      <4>2. n \in Int /\ NumBlocks \in Int /\ BlockLen \in Int
        BY BlockCount, Sizes DEF TypeOK
      <4>3. QED
        BY <2>1, <2>2, <2>4, <4>1, <4>2 DEF Left, BlocksRead
    <3>4. ASSUME NEW c \in Cells, Ahead(c)' >= Left'
          PROVE  dump'[c] # NotSent
      <4>1. /\ Ahead(c) \in Int /\ Ahead(c)' \in Int
            /\ Ahead(c) < BlockLen => c \in BlockAt(first_addr_to_read)
            /\ Ahead(c) >= BlockLen => Ahead(c)' = Ahead(c) - BlockLen
        BY <2>1, <3>1, ReadMovesAhead DEF Ahead
      <4>2. cell[c] # NotSent
        BY DEF TypeOK, Records, Old, NotSent
      <4>3. CASE c \in BlockAt(first_addr_to_read)
        BY <2>1, <2>4, <4>2, <4>3
      <4>4. CASE c \notin BlockAt(first_addr_to_read)
        <5>1. Ahead(c) >= Left
          BY <3>3, <3>4, <4>1, <4>4, Sizes
        <5>2. dump[c] # NotSent
          BY <5>1, <2>2, <3>2 DEF ReadAheadSent
        <5>3. QED
          BY <2>1, <2>4, <4>4, <5>2
      <4>5. QED
        BY <4>3, <4>4
    <3>5. QED
      BY <2>1, <2>4, <3>4
  <2>5. QED
    BY <2>3, <2>4
<1>8. QED
  BY <1>1, <1>2, <1>3, <1>4, <1>5, <1>6, <1>7 DEF Next, Dumper, HostTakes

\* A dump that ran through all its blocks sent every cell, and sent what the
\* EEPROM holds: from any start address, for any size, block and fault.
THEOREM DumpsAreComplete == Spec => []CompleteDump
<1>1. Init => ReadAheadSent
  BY DEF Init, ReadAheadSent, Dumping
<1>2. TypeOK /\ DumpIsSnapshot /\ ReadAheadSent => CompleteDump
  <2> SUFFICES ASSUME TypeOK, DumpIsSnapshot, ReadAheadSent, t4 \in {"end", "last"}, n = NumBlocks
               PROVE  dump = cell
    BY DEF CompleteDump
  <2> USE DEF Dumping
  <2>1. first_addr_to_read \in Addresses
    BY BlockCount DEF ReadAheadSent, TypeOK
  <2>2. first_addr_to_read # NoAddr
    BY BlockCount DEF ReadAheadSent
  <2>3. Left = 0
    BY BlockCount, Sizes DEF Left, BlocksRead
  <2>4. ASSUME NEW c \in Cells PROVE dump[c] = cell[c]
    <3>1. CellOf(first_addr_to_read) \in Cells
      BY <2>1, AddressArithmetic
    <3>2. Ahead(c) >= 0
      BY <3>1, Sizes DEF Ahead, Cells
    <3>3. QED
      BY <2>2, <2>3, <3>2 DEF ReadAheadSent, DumpIsSnapshot
  <2>5. QED
    BY <2>4 DEF TypeOK
<1>3. QED
  BY <1>1, <1>2, TypeCorrect, SnapshotHolds, NextReadAhead, PTL DEF Spec
=============================================================================
