------------------------------- MODULE Eeprom -------------------------------
(***************************************************************************)
(* The log in the serial EEPROM: eeprom.c, the two addresses logger.c      *)
(* keeps for it, the writer thread's turn (tasks.c, Thread5) and the dump  *)
(* of the whole log over USB (VirtualSerial.c, VS_SendAllLogs), across     *)
(* I2C errors, power loss and restart.                                     *)
(*                                                                         *)
(* Addresses count records: the code's 0x8000 bytes are Slots records of   *)
(* sizeof(log_rec_t) = 8 bytes, so "> 0x8000 - 8" reads "> Slots - 1".     *)
(* A record is a number, given out in the order the records are made; Old  *)
(* is what a cell held before.  Swapping an address's bytes for the wire   *)
(* and back is its own inverse and leaves no trace at this level.          *)
(***************************************************************************)
EXTENDS Integers

CONSTANTS
  Slots,        \* records in the EEPROM's log block (0x8000 / 8)
  BlockLen,     \* records per read of the dump (8)
  InitialDescs, \* what the descriptor may hold at first: an erased word, an address
  Faults,       \* the I2C transactions that may fail: a subset of Transactions
  MaxRecords,   \* bound: records made
  MaxCrashes    \* bound: power losses

Transactions == {"boot", "record", "descriptor", "read"}

ASSUME EepromAssumption ==
  /\ Slots \in Nat /\ Slots >= 2 /\ Slots < 65535
  /\ BlockLen \in Nat \ {0} /\ Slots % BlockLen = 0
  /\ InitialDescs \subseteq 0 .. Slots \cup {65535}
  /\ Faults \subseteq Transactions
  /\ MaxRecords \in Nat /\ MaxCrashes \in Nat

NoAddr == 65535                     \* 0xFFFF: a failed read, an erased word
Cells == 0 .. Slots - 1
Addresses == 0 .. Slots             \* what the address arithmetic produces
Records == 1 .. MaxRecords
NumBlocks == Slots \div BlockLen     \* blocks of a whole dump (512)
Old == 0

VARIABLES
  cell,                \* EEPROM block 0: the records
  desc,                \* EEPROM block 1: first_free_rec of the descriptor
  first_free,          \* RAM: where the next record goes
  first_addr_to_read,  \* RAM: where the next dump block comes from
  sem,                 \* binSem_T5: the thread that holds it, or "free"
  t5, cur,             \* Thread5's turn, and the record it writes
  t4, n, dump,         \* Thread4 in VS_SendAllLogs, its block count, and the cells
                       \*   it has given to CDC_Device_SendData
  made, crashes,       \* the bounded counters
  owner                \* history: the record each cell was given by the descriptor

eeVars == <<cell, desc>>
t5Vars == <<t5, cur, first_free>>
t4Vars == <<t4, n, dump, first_addr_to_read>>
vars == <<cell, desc, first_free, first_addr_to_read, sem, t5, cur, t4, n,
          dump, made, crashes, owner>>

NotSent == -1

----------------------------------------------------------------------------
(* Address arithmetic.                                                     *)

\* The cell an address selects: the device decodes the address modulo its size.
CellOf(a) == a % Slots

\* Mutant: the address never wraps.
NextFree_NoWrap(a) == a + 1

\* The address after a record written at a.
NextFree(a) == IF a > Slots - 1 THEN 0 ELSE a + 1

\* Mutant: the reader wraps the way the writer does, before the last block.
NextRead_WrapEarly(a) == IF a + BlockLen > Slots - BlockLen THEN 0 ELSE a + BlockLen

\* The address after a block read at a.
NextRead(a) == (a + BlockLen) % Slots

\* The cells one block read at a returns (the device wraps inside its block).
BlockAt(a) == {CellOf(a + i) : i \in 0 .. BlockLen - 1}

\* A transaction that may fail.
MayFail(x) == x \in Faults

----------------------------------------------------------------------------
(* Power up: logger_init reads the descriptor; a failed read and an erased *)
(* descriptor look the same.                                               *)

GetFirstFreeAddress == {desc} \cup (IF MayFail("boot") THEN {NoAddr} ELSE {})

PowerUp ==
  /\ t5 = "off"
  /\ \E a \in GetFirstFreeAddress :
       first_free' = IF a = NoAddr THEN 0 ELSE a
  /\ first_addr_to_read' = first_free'
  /\ t5' = "idle" /\ t4' = "idle" /\ sem' = "free"
  /\ UNCHANGED <<cell, desc, cur, n, dump, made, crashes, owner>>

\* Power loss at any moment: RAM is gone, the EEPROM stays.
Crash ==
  /\ t5 # "off" /\ crashes < MaxCrashes
  /\ crashes' = crashes + 1
  /\ t5' = "off" /\ t4' = "off" /\ sem' = "free"
  /\ cur' = Old /\ n' = 0 /\ dump' = [c \in Cells |-> NotSent]
  /\ first_free' = 0 /\ first_addr_to_read' = 0
  /\ UNCHANGED <<cell, desc, made, owner>>

----------------------------------------------------------------------------
(* Thread5: one record under the semaphore.                                *)

\* Mutant: Thread5 does not wait for the semaphore.
TakeTurn_NoWait ==
  /\ t5 = "idle"
  /\ sem' = "T5" /\ t5' = "display"
  /\ UNCHANGED <<eeVars, first_free, cur, t4Vars, made, crashes, owner>>

\* The turn begins at the display: LCD_writeLOG, or LCD_writeLOG_delete when
\* canT5Run is off.
TakeTurn ==
  /\ t5 = "idle" /\ sem = "free"
  /\ sem' = "T5" /\ t5' = "display"
  /\ UNCHANGED <<eeVars, first_free, cur, t4Vars, made, crashes, owner>>

\* The record to write: the one of a failed attempt again, or a newer one
\* (the ring has dropped the older ones meanwhile).
PickRecord ==
  /\ t5 = "display"
  /\ t5' = "record"
  /\ \/ cur # Old /\ UNCHANGED <<cur, made>>
     \/ made < MaxRecords /\ made' = made + 1 /\ cur' = made'
  /\ UNCHANGED <<eeVars, first_free, sem, t4Vars, crashes, owner>>

\* Leave without an acknowledged record: the semaphore is signalled.
GiveUp == t5' = "idle" /\ sem' = "free"

\* canT5Run is off, or the ring is empty.
NothingToWrite ==
  /\ t5 = "display"
  /\ GiveUp
  /\ UNCHANGED <<eeVars, first_free, cur, t4Vars, made, crashes, owner>>

\* First transmit: the record goes to the cell first_free selects.
WriteRecord ==
  /\ t5 = "record"
  /\ cell' = [cell EXCEPT ![CellOf(first_free)] = cur]
  /\ t5' = "descriptor"
  /\ UNCHANGED <<desc, first_free, cur, sem, t4Vars, made, crashes, owner>>

\* Mutant: the error return of the first transmit is missing.
WriteRecordFails_GoesOn ==
  /\ t5 = "record" /\ MayFail("record")
  /\ t5' = "descriptor"
  /\ UNCHANGED <<eeVars, first_free, cur, sem, t4Vars, made, crashes, owner>>

\* It fails: the device may have stored the bytes it saw, or none.
WriteRecordFails ==
  /\ t5 = "record" /\ MayFail("record")
  /\ \/ UNCHANGED cell
     \/ cell' = [cell EXCEPT ![CellOf(first_free)] = cur]
  /\ GiveUp
  /\ UNCHANGED <<desc, first_free, cur, t4Vars, made, crashes, owner>>

\* Second transmit: the descriptor moves past the record.
WriteDescriptor ==
  /\ t5 = "descriptor"
  /\ desc' = NextFree(first_free)
  /\ owner' = [owner EXCEPT ![CellOf(first_free)] = cur]
  /\ t5' = "advance"
  /\ UNCHANGED <<cell, first_free, cur, sem, t4Vars, made, crashes>>

WriteDescriptorFails ==
  /\ t5 = "descriptor" /\ MayFail("descriptor")
  /\ GiveUp
  /\ UNCHANGED <<eeVars, first_free, cur, t4Vars, made, crashes, owner>>

\* RDY_OK: the RAM copy follows, the record leaves the ring, the semaphore is free.
Advance ==
  /\ t5 = "advance"
  /\ first_free' = NextFree(first_free)
  /\ cur' = Old
  /\ t5' = "idle" /\ sem' = "free"
  /\ UNCHANGED <<eeVars, t4Vars, made, crashes, owner>>

----------------------------------------------------------------------------
(* Thread4: the dump.  The host's request and the loss of the USB          *)
(* connection come at any time.                                            *)

SendAllLogs ==
  /\ t4 = "idle" /\ sem = "free"
  /\ sem' = "T4"
  /\ t4' = "display"
  /\ UNCHANGED <<eeVars, t5Vars, n, dump, first_addr_to_read, made, crashes, owner>>

\* LCD_writeLOG_delete, and the loop begins.
BeginDump ==
  /\ t4 = "display"
  /\ t4' = "read" /\ n' = 0
  /\ dump' = [c \in Cells |-> NotSent]
  /\ UNCHANGED <<eeVars, t5Vars, sem, first_addr_to_read, made, crashes, owner>>

\* ee_read_log_rec: NoAddr in, NoAddr out; otherwise the next address, or
\* NoAddr when a transfer fails.
ReadOutcomes ==
  IF first_addr_to_read = NoAddr THEN {NoAddr}
  ELSE {NextRead(first_addr_to_read)} \cup (IF MayFail("read") THEN {NoAddr} ELSE {})

\* One turn of the loop with the connection up: read, and send or break.
ReadBlock ==
  /\ t4 = "read" /\ n < NumBlocks
  /\ \E a \in ReadOutcomes :
       /\ first_addr_to_read' = a
       /\ IF a = NoAddr
          THEN t4' = "end" /\ UNCHANGED dump
          ELSE /\ t4' = "send"
               /\ dump' = [c \in Cells |-> IF c \in BlockAt(first_addr_to_read)
                                           THEN cell[c] ELSE dump[c]]
  /\ UNCHANGED <<eeVars, t5Vars, sem, n, made, crashes, owner>>

\* CDC_Device_SendData returns: the endpoint was free, or the connection is gone.
BlockSent ==
  /\ t4 = "send"
  /\ t4' = "read" /\ n' = n + 1
  /\ UNCHANGED <<eeVars, t5Vars, sem, dump, first_addr_to_read, made, crashes, owner>>


\* The block is read, then the connection is found gone: flush, signal, return.
ReadBlockUnconfigured ==
  /\ t4 = "read" /\ n < NumBlocks
  /\ \E a \in ReadOutcomes \ {NoAddr} : first_addr_to_read' = a
  /\ t4' = "idle" /\ sem' = "free"
  /\ UNCHANGED <<eeVars, t5Vars, n, dump, made, crashes, owner>>

LoopDone ==
  /\ t4 = "read" /\ n = NumBlocks
  /\ t4' = "end"
  /\ UNCHANGED <<eeVars, t5Vars, sem, n, dump, first_addr_to_read, made,
                 crashes, owner>>

\* The connection is gone at the end: flush, signal, return ...
EndUnconfigured ==
  /\ t4 = "end"
  /\ t4' = "idle" /\ sem' = "free"
  /\ UNCHANGED <<eeVars, t5Vars, n, dump, first_addr_to_read, made, crashes, owner>>

\* ... or the 0xFF record that ends the dump is sent ...
SendTerminator ==
  /\ t4 = "end"
  /\ t4' = "last"
  /\ UNCHANGED <<eeVars, t5Vars, sem, n, dump, first_addr_to_read, made, crashes,
                 owner>>

\* ... and CDC_Device_SendData returns.
TerminatorSent ==
  /\ t4 = "last"
  /\ t4' = "idle" /\ sem' = "free"
  /\ UNCHANGED <<eeVars, t5Vars, n, dump, first_addr_to_read, made, crashes, owner>>

----------------------------------------------------------------------------
(* The display, which both threads write while they hold the semaphore.    *)

\* Another thread in spiSend takes this one's place: it is never woken (SpiLcd).
LostInDisplay ==
  /\ \/ t5 = "display" /\ t5' = "lost" /\ UNCHANGED t4
     \/ t4 = "display" /\ t4' = "lost" /\ UNCHANGED t5
  /\ UNCHANGED <<eeVars, cur, first_free, sem, n, dump, first_addr_to_read, made,
                 crashes, owner>>

----------------------------------------------------------------------------
\* A new EEPROM, its descriptor erased, or one with a log of any length.
Init ==
  /\ cell = [c \in Cells |-> Old]
  /\ owner = cell
  /\ desc \in InitialDescs
  /\ first_free = 0 /\ first_addr_to_read = 0
  /\ sem = "free" /\ t5 = "off" /\ t4 = "off"
  /\ cur = Old /\ n = 0 /\ dump = [c \in Cells |-> NotSent]
  /\ made = 0 /\ crashes = 0

Writer == TakeTurn \/ PickRecord \/ NothingToWrite \/ WriteRecord
          \/ WriteRecordFails \/ WriteDescriptor \/ WriteDescriptorFails \/ Advance

Dumper == SendAllLogs \/ BeginDump \/ ReadBlock \/ ReadBlockUnconfigured \/ LoopDone
          \/ EndUnconfigured \/ SendTerminator

\* The steps of Thread4 that wait for the host.
HostTakes == BlockSent \/ TerminatorSent

Next == PowerUp \/ Crash \/ Writer \/ Dumper \/ HostTakes \/ LostInDisplay

Spec == Init /\ [][Next]_vars

----------------------------------------------------------------------------
(* Properties.                                                             *)

TypeOK ==
  /\ cell \in [Cells -> Records \cup {Old}]
  /\ owner \in [Cells -> Records \cup {Old}]
  /\ desc \in Addresses \cup {NoAddr}
  /\ first_free \in Addresses
  /\ first_addr_to_read \in Addresses \cup {NoAddr}
  /\ sem \in {"free", "T4", "T5"}
  /\ t5 \in {"off", "idle", "display", "record", "descriptor", "advance", "lost"}
  /\ cur \in Records \cup {Old}
  /\ t4 \in {"off", "idle", "display", "read", "send", "end", "last", "lost"}
  /\ n \in 0 .. NumBlocks /\ (t4 = "send" => n < NumBlocks)
  /\ dump \in [Cells -> Records \cup {Old, NotSent}]
  /\ made \in 0 .. MaxRecords /\ crashes \in 0 .. MaxCrashes

\* Where the log resumes: the descriptor's address, 0 for an erased one.
Resume == IF desc = NoAddr THEN 0 ELSE desc

\* Where the next record goes, or will go after the next power up.
WriteAt == IF t5 = "off" THEN Resume ELSE first_free

\* A record the descriptor has moved past stays in its cell until the log
\* comes round to that cell: no failed transfer, repeated attempt, power loss
\* or restart in between damages it (ee_write_log_rec, logger_init).  The one
\* cell that may hold something else is the one about to be written.
LoggedRecordsStay == \A c \in Cells : cell[c] # owner[c] => c = CellOf(WriteAt)

\* The RAM address agrees with the descriptor, except between the acknowledge
\* of the descriptor and the assignment of *address (eeprom.c:84-87).  Together
\* with LoggedRecordsStay it is inductive.
AddressRecovers ==
  /\ t5 \in {"idle", "display", "record", "descriptor", "lost"} => first_free = Resume
  /\ t5 = "descriptor" => cell[CellOf(first_free)] = cur
  /\ t5 = "advance" => /\ desc = NextFree(first_free)
                       /\ cell[CellOf(first_free)] = owner[CellOf(first_free)]

\* Thread4 in the loop of VS_SendAllLogs or behind it.
Dumping == {"read", "send", "end", "last"}

\* The semaphore tells which of the two threads is at the EEPROM.
SemaphoreAgrees ==
  /\ t5 \in {"display", "record", "descriptor", "advance", "lost"} <=> sem = "T5"
  /\ t4 \in {"display", "lost"} \cup Dumping <=> sem = "T4"
  /\ t5 = "off" <=> t4 = "off"

\* While VS_SendAllLogs runs, what it has given to CDC_Device_SendData of a cell is still what the
\* cell holds: no write of Thread5 comes between (both take binSem_T5).
DumpIsSnapshot ==
  t4 \in Dumping => \A c \in Cells : dump[c] \in {NotSent, cell[c]}

\* A dump that ran through all its blocks sent every cell of the EEPROM, from
\* whatever address it started: after a restart anywhere in the log, after
\* dumps that were cut short, and with the address 0x8000 as first_free.
CompleteDump == t4 \in {"end", "last"} /\ n = NumBlocks => dump = cell

\* How far ahead of the next read a cell lies, and the cells left to read: what
\* lies farther ahead than what is left has been sent.
Ahead(c) == LET f == CellOf(first_addr_to_read)
            IN IF c >= f THEN c - f ELSE c - f + Slots
BlocksRead == IF t4 = "send" THEN n + 1 ELSE n
Left == (NumBlocks - BlocksRead) * BlockLen

ReadAheadSent ==
  t4 \in Dumping =>
    IF first_addr_to_read = NoAddr THEN n < NumBlocks /\ t4 # "send"
    ELSE \A c \in Cells : Ahead(c) >= Left => dump[c] # NotSent

\* Threads 4 and 5 keep running their turn once they have the semaphore: both are
\* scheduled, and every transfer on the bus ends (I2CDriver).  Taking the semaphore
\* is their own choice: a pending record, a request of the host.  Nothing makes the
\* host take what is sent: CDC_Device_SendData waits for it without a timeout
\* (EndpointStream.c:71).
Fairness == /\ WF_vars(Writer /\ t5 # "idle")
            /\ WF_vars(Dumper /\ t4 # "idle")

FairSpec == Spec /\ Fairness

\* What keeps the semaphore for ever: a host that does not take a packet and does
\* not leave the bus either, and a thread lost in the display.
Kept == t4 \in {"send", "last", "lost"} \/ t5 = "lost"


=============================================================================
