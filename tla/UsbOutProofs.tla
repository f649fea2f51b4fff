---------------------------- MODULE UsbOutProofs ----------------------------
(***************************************************************************)
(* First UsbCommand, for every size of recv_byte from six on.  Then UsbOut *)
(* as an implementation of it: whatever the endpoints, the interrupt, the  *)
(* control requests and the bus do to the bytes on their way, recv_byte    *)
(* sees only steps of UsbCommand, and what is proved of it holds there.    *)
(* Last, what the endpoint itself promises: a packet that met nothing else *)
(* is read from its first byte to its last.                                *)
(***************************************************************************)
EXTENDS UsbOut, SequenceTheorems, TLAPS

-----------------------------------------------------------------------------
(* UsbCommand.                                                             *)

\* Cell 0 holds STX exactly while a frame is being collected.
FrameOpen == (count > 0) <=> (cells[0] = "STX")

\* The second and third cell are what was stored last, while they are the last.
TailAgrees ==
  /\ count = 2 => tail[2] = cells[1]
  /\ count = 3 => tail = <<cells[1], cells[2]>>

\* The command being received lies in the buffer from cell 0 on.
Aligned ==
  /\ count = pos
  /\ pos >= 2 => cells[1] \in Commands
  /\ pos >= 3 => cells[2] = "*"

\* After a first command that was not run the next one lies in the buffer from
\* cell 0 or, when the first ended in the last cell, from cell 1; after a second
\* one it lies from cell 0 on, where it will be run.
MissedPlace ==
  /\ missed <= 2
  /\ missed = 1 => Aligned \/ count = pos + 1
  /\ missed = 2 => Aligned

\* A command that has started was not missed.
RunningStarted == running # "none" => missed = 0

IInv == TypeOK /\ FrameOpen /\ TailAgrees /\ MissedPlace /\ RunningStarted

-----------------------------------------------------------------------------
\* The buffer and the count after a byte, before the frame is checked.
LEMMA StoredTyped ==
  ASSUME TypeOK, NEW b \in Bytes
  PROVE  /\ Stored(b) \in [0..3 -> Bytes]
         /\ \A i \in 0..3 : Stored(b)[i] = IF i = count THEN b ELSE cells[i]
BY DEF TypeOK, Stored

\* The place after a cell is a cell, and never cell 0.
LEMMA NextCountTyped ==
  ASSUME NEW c \in 0..(Size - 1)
  PROVE  NextCount(c) \in 1..(Size - 1)
BY SizeAssumption DEF NextCount

\* What a pass with byte b does to the buffer: it drops the frame, or keeps it
\* with the byte in it, and with a whole command in it starts the command.
LEMMA CollectOutcome ==
  ASSUME TypeOK, FrameOpen, running = "none", NEW b \in Bytes, Collect(b)
  PROVE  LET word == Stored(b)
             c == IF word[0] = "STX" THEN NextCount(count) ELSE count
         IN \/ /\ cells' = [word EXCEPT ![0] = "other"] /\ count' = 0 /\ tail' = NoBytes
               /\ running' = "none" /\ CommandAt(c, word) = "none"
               /\ c # 0 => b = "ETX" /\ ~(c = 1 /\ count # 0)
            \/ /\ cells' = word /\ count' = c
               /\ tail' = IF c = 0 THEN NoBytes ELSE <<tail[2], b>>
               /\ running' # "none" => b = "ETX" /\ running' = CommandAt(c, word)
               /\ b = "ETX" => c = 0 \/ (c = 1 /\ count # 0) \/ running' # "none"
<1> DEFINE word == Stored(b)
           c == IF word[0] = "STX" THEN NextCount(count) ELSE count
<1>1. PICK last \in JustStored(b, c) :
        IF last = "ETX" /\ CommandAt(c, word) = "none"
        THEN ResetBuffer(word) /\ UNCHANGED running
        ELSE Keeps(b, word, c, IF last = "ETX" THEN CommandAt(c, word) ELSE "none")
  BY DEF Collect, CheckFrame
<1>2. CASE last = "ETX"
  <2>1. c # 0 => b = "ETX" /\ ~(c = 1 /\ count # 0)
    BY <1>2 DEF JustStored
  <2>2. CASE CommandAt(c, word) = "none"
    BY <1>1, <1>2, <2>1, <2>2 DEF ResetBuffer
  <2>3. CASE CommandAt(c, word) # "none"
    <3>1. c = 4
      BY <2>3 DEF CommandAt
    <3> QED
      BY <1>1, <1>2, <2>1, <2>3, <3>1 DEF Keeps
  <2> QED
    BY <2>2, <2>3
<1>3. CASE last # "ETX"
  <2>1. b = "ETX" => c = 0 \/ (c = 1 /\ count # 0)
    BY <1>3 DEF JustStored
  <2> QED
    BY <1>1, <1>3, <2>1 DEF Keeps
<1> QED
  BY <1>2, <1>3

-----------------------------------------------------------------------------
\* A pass with a byte keeps the types, the open frame and the history.
LEMMA CollectKeeps ==
  ASSUME IInv, running = "none", NEW b \in Bytes, Collect(b)
  PROVE  /\ cells' \in [0..3 -> Bytes] /\ count' \in 0..(Size - 1)
         /\ running' \in Commands \cup {"none"}
         /\ tail' \in Bytes \X Bytes
         /\ FrameOpen' /\ TailAgrees'
<1> DEFINE word == Stored(b)
           c == IF word[0] = "STX" THEN NextCount(count) ELSE count
<1> USE SizeAssumption DEF IInv
<1>0. TypeOK /\ FrameOpen /\ TailAgrees
  OBVIOUS
<1>1. /\ word \in [0..3 -> Bytes]
      /\ \A i \in 0..3 : word[i] = IF i = count THEN b ELSE cells[i]
  BY StoredTyped
<1>2. c \in 0..(Size - 1) /\ (word[0] = "STX" <=> c # 0)
  <2>1. count \in 0..(Size - 1)
    BY DEF TypeOK
  <2>2. word[0] # "STX" => count = 0
    BY <1>1, <2>1 DEF FrameOpen
  <2> QED
    BY <2>1, <2>2, NextCountTyped
<1>3. CommandAt(c, word) \in Commands \cup {"none"}
  BY DEF CommandAt, CommandIn
<1> HIDE DEF word, c, IInv
<1>4. CASE /\ cells' = [word EXCEPT ![0] = "other"] /\ count' = 0 /\ tail' = NoBytes
           /\ running' = "none"
  <2>1. cells' \in [0..3 -> Bytes] /\ cells'[0] = "other"
    BY <1>1, <1>4 DEF Bytes
  <2>2. tail' \in Bytes \X Bytes
    BY <1>4 DEF NoBytes, Bytes
  <2>3. FrameOpen' /\ TailAgrees'
    BY <1>4, <2>1 DEF FrameOpen, TailAgrees
  <2> QED
    BY <1>4, <2>1, <2>2, <2>3
<1>5. CASE /\ cells' = word /\ count' = c
           /\ running' # "none" => running' = CommandAt(c, word)
           /\ tail' = IF c = 0 THEN NoBytes ELSE <<tail[2], b>>
  <2>1. FrameOpen'
    BY <1>1, <1>2, <1>5 DEF FrameOpen
  <2>2. tail \in Bytes \X Bytes /\ count \in 0..(Size - 1)
    BY <1>0 DEF TypeOK
  <2>3. tail' \in Bytes \X Bytes
    BY <1>5, <2>2 DEF NoBytes, Bytes
  <2>4. c = 2 => count = 1
    BY <2>2, <1>2, <1>1, <1>0 DEF c, NextCount, FrameOpen
  <2>5. c = 3 => count = 2
    BY <2>2, <1>2, <1>1, <1>0 DEF c, NextCount, FrameOpen
  <2>6. c = 2 => tail'[2] = word[1]
    BY <1>1, <1>5, <2>4
  <2>7. c = 3 => tail' = <<word[1], word[2]>>
    BY <1>0, <1>1, <1>5, <2>2, <2>5 DEF TailAgrees
  <2>8. TailAgrees'
    BY <1>5, <2>6, <2>7 DEF TailAgrees
  <2> QED
    BY <1>1, <1>2, <1>3, <1>5, <2>1, <2>3, <2>8
<1> QED
  BY <1>0, <1>4, <1>5, CollectOutcome DEF word, c

\* A pass starts a command only behind the command's own two bytes.
LEMMA CollectRuns ==
  ASSUME IInv, running = "none", NEW b \in Bytes, Collect(b), running' # "none"
  PROVE  tail = <<running', "*">>
<1> DEFINE word == Stored(b)
           c == IF word[0] = "STX" THEN NextCount(count) ELSE count
<1>0. TypeOK /\ FrameOpen /\ TailAgrees
  BY DEF IInv
<1>1. \A i \in 0..3 : word[i] = IF i = count THEN b ELSE cells[i]
  BY <1>0, StoredTyped
<1>2. running' = CommandAt(c, word)
  BY <1>0, CollectOutcome
<1>3. c = 4 /\ word[0] = "STX" /\ word[1] = running' /\ word[2] = "*"
  BY <1>2 DEF CommandAt, CommandIn
<1>4. count = 3
  BY <1>0, <1>3, SizeAssumption DEF NextCount, TypeOK
<1>5. word[1] = cells[1] /\ word[2] = cells[2]
  BY <1>1, <1>4
<1> HIDE DEF word, c
<1> QED
  BY <1>0, <1>3, <1>4, <1>5 DEF TailAgrees

\* A whole command not run leaves the next one where MissedPlace says.
LEMMA ReceiveMissed ==
  ASSUME IInv, NEW b \in Bytes, Receive(b)
  PROVE  missed' \in Nat /\ pos' \in 0..3 /\ MissedPlace' /\ RunningStarted'
<1> DEFINE word == Stored(b)
           c == IF word[0] = "STX" THEN NextCount(count) ELSE count
<1>0. /\ TypeOK /\ FrameOpen /\ MissedPlace /\ running = "none" /\ Collect(b)
      /\ pos' = NextPos(b) /\ missed' = Missed(b, running')
  BY DEF IInv, Receive
<1>1. \A i \in 0..3 : word[i] = IF i = count THEN b ELSE cells[i]
  BY <1>0, StoredTyped
<1>t. /\ count \in 0..(Size - 1) /\ pos \in 0..3 /\ missed \in 0..2
      /\ Size \in Nat /\ Size >= 6
  BY <1>0, SizeAssumption DEF TypeOK, MissedPlace
<1>2. pos' \in 0..3
  BY <1>0 DEF NextPos
<1>3. \/ /\ cells' = [word EXCEPT ![0] = "other"] /\ count' = 0
         /\ running' = "none" /\ CommandAt(c, word) = "none"
         /\ c # 0 => b = "ETX" /\ ~(c = 1 /\ count # 0)
      \/ /\ cells' = word /\ count' = c
         /\ running' # "none" => b = "ETX" /\ running' = CommandAt(c, word)
         /\ b = "ETX" => c = 0 \/ (c = 1 /\ count # 0) \/ running' # "none"
  BY <1>0, CollectOutcome
<1>f. word[0] # "STX" => count = 0 /\ b # "STX"
  BY <1>0, <1>1, <1>t DEF FrameOpen
<1>c. c = IF word[0] = "STX" THEN (IF count + 1 = Size THEN 1 ELSE count + 1) ELSE count
  BY DEF NextCount
<1>w. word \in [0..3 -> Bytes]
  BY <1>0, StoredTyped
<1> HIDE DEF word, c
<1>4. CASE pos = 3 /\ b = "ETX"
  <2>1. pos' = 0 /\ missed' = IF running' = "none" THEN missed + 1 ELSE 0
    BY <1>0, <1>4 DEF NextPos, Missed, Commands
  <2>2. count' \in {0, 1} \/ running' # "none"
    BY <1>3, <1>4
  <2>0. CASE running' # "none"
    BY <1>2, <2>1, <2>0 DEF MissedPlace, RunningStarted
  <2>3. CASE missed = 0
    BY <1>2, <2>0, <2>1, <2>2, <2>3 DEF MissedPlace, RunningStarted, Aligned
  <2>4. ASSUME Aligned, missed # 0 PROVE running' # "none"
    <3>1. count = 3 /\ cells[1] \in Commands /\ cells[2] = "*"
      BY <1>4, <2>4 DEF Aligned
    <3>2. cells[0] = "STX"
      BY <1>0, <3>1 DEF FrameOpen
    <3>3. word[0] = "STX" /\ word[1] \in Commands /\ word[2] = "*" /\ word[3] = "ETX"
      BY <1>1, <1>4, <3>1, <3>2
    <3>4. c = 4
      BY <1>c, <1>t, <3>1, <3>3
    <3>5. CommandAt(c, word) # "none"
      BY <3>3, <3>4 DEF CommandAt, CommandIn, Commands
    <3> QED
      BY <1>3, <1>4, <3>4, <3>5
  <2>5. CASE missed = 1 /\ count = pos + 1
    <3>1. word[0] = "STX"
      BY <1>f, <1>4, <2>5
    <3>2. c = 5
      BY <1>c, <1>t, <1>4, <2>5, <3>1
    <3>3. count' = 0 \/ running' # "none"
      BY <1>3, <1>4, <3>2
    <3> QED
      BY <1>2, <2>0, <2>1, <2>5, <3>3 DEF MissedPlace, RunningStarted, Aligned
  <2>6. CASE Aligned /\ missed # 0
    BY <2>0, <2>4, <2>6
  <2>7. missed = 0 \/ (missed = 1 /\ count = pos + 1) \/ (Aligned /\ missed # 0)
    BY <1>0, <1>t DEF MissedPlace
  <2> QED
    BY <2>3, <2>5, <2>6, <2>7
<1>5. CASE (pos = 0 /\ b = "STX") \/ (pos > 0 /\ NextPos(b) = pos + 1)
  <2>1. /\ \/ pos = 0 /\ b = "STX"
           \/ pos = 1 /\ b \in Commands
           \/ pos = 2 /\ b = "*"
        /\ b # "ETX"
    BY <1>5, <1>t DEF NextPos, Commands
  <2>2. pos' = pos + 1
    BY <1>0, <2>1 DEF NextPos, Commands
  <2>3. missed' = missed /\ RunningStarted'
    <3>1. running' = "none"
      BY <1>0, <1>3, <2>1
    <3> QED
      BY <1>0, <1>5, <2>1, <3>1 DEF Missed, RunningStarted
  <2>4. ASSUME missed # 0
        PROVE  c # 0
    <3>1. CASE pos = 0
      BY <3>1, <2>1, <1>f, <1>c, <1>t
    <3>2. CASE pos # 0
      <4>1. count # 0
        BY <1>0, <1>t, <2>4, <3>2 DEF MissedPlace, Aligned
      <4> QED
        BY <4>1, <1>c, <1>t
    <3> QED
      BY <3>1, <3>2
  <2>5. ASSUME missed # 0
        PROVE  cells' = word /\ count' = c
    BY <1>3, <2>1, <2>4, <2>5
  <2>6. ASSUME missed # 0, count = pos \/ count = pos + 1
        PROVE  c = count + 1
    <3>1. word[0] = "STX"
      BY <1>f, <2>1, <2>4, <2>6, <1>c
    <3> QED
      BY <1>c, <1>t, <2>1, <2>6, <3>1
  <2>7. ASSUME missed # 0, Aligned
        PROVE  Aligned'
    <3>1. count' = pos'
      BY <2>2, <2>5, <2>6, <2>7 DEF Aligned
    <3>2. pos' >= 2 => cells'[1] \in Commands
      BY <1>1, <1>t, <2>1, <2>2, <2>5, <2>7 DEF Aligned
    <3>3. pos' >= 3 => cells'[2] = "*"
      BY <1>1, <1>t, <2>1, <2>2, <2>5, <2>7 DEF Aligned
    <3> QED
      BY <3>1, <3>2, <3>3 DEF Aligned
  <2>8. ASSUME missed # 0, count = pos + 1
        PROVE  count' = pos' + 1
    BY <2>2, <2>5, <2>6, <2>8, <1>t
  <2> QED
    BY <1>0, <1>2, <1>t, <2>3, <2>7, <2>8 DEF MissedPlace
<1>6. CASE /\ ~(pos = 3 /\ b = "ETX")
           /\ ~((pos = 0 /\ b = "STX") \/ (pos > 0 /\ NextPos(b) = pos + 1))
  <2>1. missed' = 0
    BY <1>0, <1>6 DEF Missed
  <2> QED
    BY <1>2, <2>1 DEF MissedPlace, RunningStarted
<1> QED
  BY <1>4, <1>5, <1>6

-----------------------------------------------------------------------------
\* The invariant holds at power-up.
LEMMA InitIInv == Init => IInv
<1> SUFFICES ASSUME Init PROVE IInv
  OBVIOUS
<1>1. cells \in [0..3 -> Bytes] /\ cells[0] = "other" /\ NoBytes \in Bytes \X Bytes
  BY DEF Init, Bytes, NoBytes
<1>2. TypeOK
  <2>1. count \in 0..(Size - 1) /\ pos \in 0..3 /\ missed \in Nat
    BY SizeAssumption DEF Init
  <2>2. configured \in BOOLEAN /\ running \in Commands \cup {"none"} /\ tail \in Bytes \X Bytes
    BY <1>1 DEF Init
  <2> QED
    BY <1>1, <2>1, <2>2 DEF TypeOK
<1>3. FrameOpen
  BY <1>1 DEF Init, FrameOpen
<1>4. TailAgrees /\ MissedPlace /\ RunningStarted
  BY DEF Init, TailAgrees, MissedPlace, RunningStarted
<1> QED
  BY <1>2, <1>3, <1>4 DEF IInv

\* Every pass and every change of the device state keeps the invariant.
LEMMA NextIInv == IInv /\ [Next]_vars => IInv'
<1> SUFFICES ASSUME IInv, [Next]_vars PROVE IInv'
  OBVIOUS
<1>1. ASSUME NEW b \in Bytes, Receive(b) PROVE IInv'
  <2>1. running = "none" /\ Collect(b) /\ configured' = configured
    BY <1>1 DEF Receive
  <2> QED
    BY <1>1, <2>1, CollectKeeps, ReceiveMissed DEF IInv, TypeOK
<1>2. CASE ReceiveFails
  <2>1. running = "none" /\ "other" \in Bytes /\ Collect("other") /\ configured' = FALSE /\ pos' = 0 /\ missed' = 0
    BY <1>2 DEF ReceiveFails, Bytes
  <2>2. MissedPlace' /\ RunningStarted'
    BY <2>1 DEF MissedPlace, RunningStarted
  <2>3. /\ cells' \in [0..3 -> Bytes] /\ count' \in 0..(Size - 1)
        /\ running' \in Commands \cup {"none"} /\ tail' \in Bytes \X Bytes
        /\ FrameOpen' /\ TailAgrees'
    BY <2>1, CollectKeeps
  <2>4. TypeOK'
    <3>1. pos' \in 0..3 /\ missed' \in Nat
      BY <2>1
    <3>2. configured' \in BOOLEAN
      BY <2>1
    <3> QED
      BY <2>3, <3>1, <3>2, Zenon DEF TypeOK
  <2> QED
    BY <2>2, <2>3, <2>4 DEF IInv
<1>3. CASE Unconfigured \/ Return
  <2>1. ResetBuffer(cells) /\ running' = "none" /\ configured' = configured
    BY <1>3 DEF Unconfigured, Return
  <2>2. cells' \in [0..3 -> Bytes] /\ cells'[0] = "other"
    BY <2>1 DEF ResetBuffer, IInv, TypeOK, Bytes
  <2>3. count' = 0 /\ tail' = NoBytes
    BY <2>1 DEF ResetBuffer
  <2>4. tail' \in Bytes \X Bytes
    BY <2>3 DEF NoBytes, Bytes
  <2>5. (pos' = 0 /\ missed' = 0) \/ (running # "none" /\ pos' = pos /\ missed' = missed)
    BY <1>3 DEF Unconfigured, Return
  <2>6. TypeOK'
    <3>1. count' \in 0..(Size - 1) /\ pos' \in 0..3 /\ missed' \in Nat
      BY <2>3, <2>5, SizeAssumption DEF IInv, TypeOK
    <3>2. configured' \in BOOLEAN /\ running' \in Commands \cup {"none"}
      BY <2>1 DEF IInv, TypeOK
    <3> QED
      BY <2>2, <2>4, <3>1, <3>2, Zenon DEF TypeOK
  <2>7. MissedPlace'
    BY <2>5 DEF IInv, RunningStarted, MissedPlace
  <2>8. FrameOpen' /\ TailAgrees' /\ RunningStarted'
    BY <2>1, <2>2, <2>3 DEF FrameOpen, TailAgrees, RunningStarted
  <2> QED
    BY <2>6, <2>7, <2>8 DEF IInv
<1>4. CASE Deconfigure \/ Configure
  <2>1. /\ configured' \in BOOLEAN /\ UNCHANGED <<cells, count, running, tail>>
        /\ pos' = 0 /\ missed' = 0
    BY <1>4 DEF Deconfigure, Configure
  <2>2. TypeOK'
    BY <2>1 DEF IInv, TypeOK
  <2>3. FrameOpen'
    BY <2>1 DEF IInv, FrameOpen
  <2>4. TailAgrees'
    BY <2>1 DEF IInv, TailAgrees
  <2>5. MissedPlace' /\ RunningStarted'
    BY <2>1 DEF MissedPlace, RunningStarted
  <2> QED
    BY <2>2, <2>3, <2>4, <2>5 DEF IInv
<1>5. CASE UNCHANGED vars
  BY <1>5 DEF vars, IInv, TypeOK, FrameOpen, TailAgrees, RunningStarted, MissedPlace, Aligned
<1> QED
  BY <1>1, <1>2, <1>3, <1>4, <1>5 DEF Next

\* The count stays in recv_byte and every variable keeps its type, for every
\* size of recv_byte from six on (VS_USBdataHandling).
THEOREM TypeCorrect == Spec => []TypeOK
<1>1. IInv => TypeOK
  BY DEF IInv
<1> QED
  BY InitIInv, NextIInv, <1>1, PTL DEF Spec

\* Of three whole commands in a row VS_USBdataHandling runs at least one, for
\* every size of recv_byte from six on and whatever was received before.
THEOREM RepeatedCommandRuns == Spec => []ThirdCopyRuns
<1>1. IInv => ThirdCopyRuns
  BY DEF IInv, MissedPlace, ThirdCopyRuns
<1> QED
  BY InitIInv, NextIInv, <1>1, PTL DEF Spec

\* A command runs only behind its own bytes, for every size of recv_byte from
\* six on (the switch of VS_USBdataHandling).
THEOREM OnlySentCommandsRun == Spec => RunsWhatWasSent
<1> DEFINE A == running = "none" /\ running' # "none" => tail = <<running', "*">>
<1>1. IInv /\ [Next]_vars => [A]_vars
  <2> SUFFICES ASSUME IInv, Next, running = "none", running' # "none" PROVE A
    OBVIOUS
  <2>1. ASSUME NEW b \in Bytes, Receive(b) PROVE A
    BY <2>1, CollectRuns DEF Receive
  <2>2. CASE ReceiveFails
    BY <2>2, CollectRuns DEF ReceiveFails, Bytes
  <2>3. CASE Return \/ Unconfigured \/ Deconfigure \/ Configure
    BY <2>3 DEF Return, Unconfigured, Deconfigure, Configure
  <2> QED
    BY <2>1, <2>2, <2>3 DEF Next
<1> QED
  BY InitIInv, NextIInv, <1>1, PTL DEF Spec, RunsWhatWasSent

-----------------------------------------------------------------------------
(* UsbOut.                                                                 *)

\* The buffer holds bytes from its start, and is read from there on.
BufferTyped ==
  /\ buffer \in Seq(Bytes) /\ sending \in Seq(Bytes)
  /\ index \in Nat

-----------------------------------------------------------------------------
\* Endpoint_Read_8 returns a byte wherever the index was left.
LEMMA NextByteTyped ==
  ASSUME BufferTyped
  PROVE  NextByte \in Bytes
<1>1. CASE index < Len(buffer)
  <2>1. index + 1 \in 1..Len(buffer)
    BY <1>1 DEF BufferTyped
  <2>2. buffer[index + 1] \in Bytes
    BY <2>1 DEF BufferTyped
  <2> QED
    BY <1>1, <2>2 DEF NextByte
<1>2. CASE ~(index < Len(buffer))
  BY <1>2 DEF NextByte, Bytes
<1> QED
  BY <1>1, <1>2

\* What a packet leaves in the buffer.
LEMMA OverwriteTyped ==
  ASSUME NEW p \in Seq(Bytes), NEW b \in Seq(Bytes)
  PROVE  p \o SubSeq(b, Len(p) + 1, Len(b)) \in Seq(Bytes)
<1>1. \A i \in (Len(p) + 1)..Len(b) : b[i] \in Bytes
  <2> TAKE i \in (Len(p) + 1)..Len(b)
  <2>1. Len(p) \in Nat /\ Len(b) \in Nat
    OBVIOUS
  <2>2. i \in 1..Len(b)
    BY <2>1
  <2> QED
    BY <2>2
<1>2. Len(p) + 1 \in Int /\ Len(b) \in Int
  OBVIOUS
<1>3. SubSeq(b, Len(p) + 1, Len(b)) \in Seq(Bytes)
  BY ONLY <1>1, <1>2, SubSeqProperties
<1> QED
  BY ONLY <1>3, ConcatProperties, p \in Seq(Bytes)

-----------------------------------------------------------------------------
\* The buffer is typed at the start.
LEMMA InitBufferTyped == OutInit => BufferTyped
BY DEF OutInit, BufferTyped

\* Only a packet of the host writes the buffer, and only from its start.
LEMMA NextBufferTyped == BufferTyped /\ [OutNext]_allVars => BufferTyped'
<1> SUFFICES ASSUME BufferTyped, [OutNext]_allVars PROVE BufferTyped'
  OBVIOUS
<1>1. CASE Thread4
  <2>1. buffer' = buffer /\ sending' = sending
    BY <1>1 DEF Thread4, PassUnconfigured, PassEmpty, PassNoBytes, PassByte,
         NoRequest, SetConfiguration, ControlRead, ControlWrite, LineEncodingReceived,
         ThreadPasses, endpoints, host
  <2>2. index' \in {0, index, index + 1}
    BY <1>1 DEF Thread4, PassUnconfigured, PassEmpty, PassNoBytes, PassByte,
         NoRequest, SetConfiguration, ControlRead, ControlWrite, LineEncodingReceived,
         ClearOUT, bank
  <2> QED
    BY <2>1, <2>2 DEF BufferTyped
<1>2. CASE HandleIrq
  BY <1>2 DEF HandleIrq, BufferTyped, host
<1>3. CASE BusEvents
  <2>1. buffer' = buffer /\ index' = index /\ sending' = <<>>
    BY <1>3 DEF BusEvents, Reset, Suspend, BusEvent
  <2> QED
    BY <2>1 DEF BufferTyped
<1>4. CASE HostControlOut
  BY <1>4 DEF HostControlOut, BufferTyped, bank
<1>5. CASE HostOut
  <2>1. index' = index
    BY <1>5 DEF HostOut, bank
  <2>2. CASE active[6]
    <3>1. buffer' = sending \o SubSeq(buffer, Len(sending) + 1, Len(buffer))
      BY <1>5, <2>2 DEF HostOut
    <3>2. buffer' \in Seq(Bytes)
      BY <3>1, OverwriteTyped DEF BufferTyped
    <3>3. sending' = <<>>
      BY <1>5, <2>2 DEF HostOut
    <3> QED
      BY <2>1, <3>2, <3>3 DEF BufferTyped
  <2>3. CASE ~active[6]
    <3>1. buffer' = buffer /\ sending' = sending
      BY <1>5, <2>3 DEF HostOut
    <3> QED
      BY <2>1, <3>1 DEF BufferTyped
  <2> QED
    BY <2>2, <2>3
<1>6. ASSUME NEW r \in {"config", "read", "write"}, HostSetup(r)
      PROVE BufferTyped'
  BY <1>6 DEF HostSetup, BufferTyped, bank, endpoints
<1>7. ASSUME NEW p \in Packets, HostSend(p)
      PROVE BufferTyped'
  <2>1. p \in Seq(Bytes)
    BY OutAssumption DEF OutAssumption
  <2>2. buffer' = buffer /\ index' = index /\ sending' = p
    BY <1>7 DEF HostSend, bank, endpoints
  <2> QED
    BY <2>1, <2>2 DEF BufferTyped
<1>8. CASE CommandReturns \/ UNCHANGED allVars
  BY <1>8 DEF CommandReturns, allVars, bank, endpoints, host, BufferTyped
<1> QED
  BY <1>1, <1>2, <1>3, <1>4, <1>5, <1>6, <1>7, <1>8 DEF OutNext, Host

\* Every step is a step of UsbCommand or leaves its variables alone.
LEMMA StepImplements == BufferTyped /\ [OutNext]_allVars => [Next]_vars
<1> SUFFICES ASSUME BufferTyped, [OutNext]_allVars PROVE Next \/ UNCHANGED vars
  OBVIOUS
<1> USE DEF command
<1>1. CASE PassUnconfigured
  BY <1>1 DEF PassUnconfigured, Next
<1>2. CASE PassByte
  <2>1. Receive(NextByte)
    BY <1>2 DEF PassByte
  <2> QED
    BY <2>1, NextByteTyped DEF Next
<1>3. CASE SetConfiguration \/ CommandReturns
  BY <1>3 DEF SetConfiguration, CommandReturns, Next
<1>4. CASE BusEvents
  <2>1. Deconfigure \/ ReceiveFails \/ UNCHANGED command
    BY <1>4 DEF BusEvents
  <2> QED
    BY <2>1 DEF Next, vars
<1>5. CASE PassEmpty \/ PassNoBytes \/ NoRequest \/ ControlRead \/ ControlWrite
        \/ LineEncodingReceived \/ HandleIrq \/ HostControlOut \/ HostOut
  BY <1>5 DEF PassEmpty, PassNoBytes, NoRequest, ControlRead, ControlWrite,
       LineEncodingReceived, HandleIrq, HostControlOut, HostOut, vars
<1>6. ASSUME NEW r \in {"config", "read", "write"}, HostSetup(r)
      PROVE UNCHANGED vars
  BY <1>6 DEF HostSetup, vars
<1>7. ASSUME NEW p \in Packets, HostSend(p)
      PROVE UNCHANGED vars
  BY <1>7 DEF HostSend, vars
<1>8. CASE UNCHANGED allVars
  BY <1>8 DEF allVars, vars
<1> QED
  BY <1>1, <1>2, <1>3, <1>4, <1>5, <1>6, <1>7, <1>8 DEF OutNext, Thread4, Host

-----------------------------------------------------------------------------
\* The endpoint with its interrupt, the control requests and the host implement
\* the sequences of bytes, failed reads and resets of UsbCommand.
THEOREM OutImplementsCommand == OutSpec => Spec
<1>1. OutInit => Init
  BY DEF OutInit
<1> QED
  BY <1>1, InitBufferTyped, NextBufferTyped, StepImplements, PTL DEF OutSpec, Spec

\* Of three whole commands that reach VS_USBdataHandling in a row at least one
\* runs, whatever came over the endpoint, and in whatever order, before them.
THEOREM OutThirdCopyRuns == OutSpec => []ThirdCopyRuns
BY OutImplementsCommand, RepeatedCommandRuns, PTL

\* No packet lost, cut off by a reset or read from a stale index makes a command
\* run of bytes that were not stored one after the other.
THEOREM OutRunsWhatWasSent == OutSpec => RunsWhatWasSent
BY OutImplementsCommand, OnlySentCommandsRun

-----------------------------------------------------------------------------
(* Packets.                                                                *)

\* The types of the bulk endpoint's part.
BankTypes ==
  /\ nbytes \in [{0, 6} -> Nat] /\ size \in Nat /\ index \in Nat
  /\ DOMAIN active = {0, 6} /\ intstat \subseteq {0, 6} /\ taken \in Seq(Bytes)

\* A packet that has come and whose interrupt has not been taken ...
Arrived ==
  /\ 6 \in intstat /\ epout_primed
  /\ size = 0 /\ index = 0 /\ taken = <<>>

\* ... and one that has been counted: what was read of it and what is left.
Counted ==
  /\ ~epout_primed
  /\ size > 0 /\ size + index = nbytes[6] /\ taken = SubSeq(buffer, 1, index)

\* The bulk endpoint while nothing else meets a packet on its way: an armed bank waits
\* with the flag set and no interrupt, a full one is counted once.
BankAgrees ==
  /\ nbytes[6] > 0 => ~active[6] /\ nbytes[6] =< Len(buffer)
  /\ ~crossed /\ nbytes[6] = 0 => index = 0 /\ size = 0
  /\ ~crossed /\ active[6] => epout_primed /\ intstat = {}
  /\ ~crossed /\ nbytes[6] > 0 =>
       setup = "none" /\ 0 \notin intstat /\ (Arrived \/ Counted)

\* What a packet leaves in the buffer begins with it.
LEMMA OverwriteLength ==
  ASSUME NEW p \in Seq(Bytes), NEW b \in Seq(Bytes)
  PROVE  Len(p) =< Len(p \o SubSeq(b, Len(p) + 1, Len(b)))
<1>1. p \o SubSeq(b, Len(p) + 1, Len(b)) \in Seq(Bytes)
  BY OverwriteTyped
<1>2. \A i \in (Len(p) + 1)..Len(b) : b[i] \in Bytes
  <2> TAKE i \in (Len(p) + 1)..Len(b)
  <2>1. Len(p) \in Nat /\ Len(b) \in Nat
    OBVIOUS
  <2>2. i \in 1..Len(b)
    BY <2>1
  <2> QED
    BY <2>2
<1>3. Len(p) + 1 \in Int /\ Len(b) \in Int
  OBVIOUS
<1> DEFINE s == SubSeq(b, Len(p) + 1, Len(b))
<1>4. s \in Seq(Bytes)
  BY ONLY <1>2, <1>3, SubSeqProperties
<1> HIDE DEF s
<1>5. Len(p \o s) = Len(p) + Len(s) /\ Len(s) \in Nat /\ Len(p) \in Nat
  BY ONLY <1>4, ConcatProperties, p \in Seq(Bytes)
<1> QED
  BY <1>5 DEF s

\* One byte more of the buffer has been read.
LEMMA OneMoreTaken ==
  ASSUME BufferTyped, index < Len(buffer), taken = SubSeq(buffer, 1, index)
  PROVE  Append(taken, NextByte) = SubSeq(buffer, 1, index + 1)
<1> DEFINE n == index
           b == buffer
<1>1. n \in Nat /\ b \in Seq(Bytes) /\ n < Len(b) /\ NextByte = b[n + 1] /\ Len(b) \in Nat
  BY DEF BufferTyped, NextByte
<1> HIDE DEF n, b
<1>2. \A i \in 1 .. n : b[i] \in Bytes
  BY <1>1
<1>3. \A i \in 1 .. n + 1 : b[i] \in Bytes
  BY <1>1
<1>4. /\ SubSeq(b, 1, n) \in Seq(Bytes) /\ Len(SubSeq(b, 1, n)) = n
      /\ \A i \in 1 .. n : SubSeq(b, 1, n)[i] = b[i]
  BY <1>1, <1>2, SubSeqProperties
<1>5. /\ SubSeq(b, 1, n + 1) \in Seq(Bytes) /\ Len(SubSeq(b, 1, n + 1)) = n + 1
      /\ \A i \in 1 .. n + 1 : SubSeq(b, 1, n + 1)[i] = b[i]
  <2>1. n + 1 \in Nat /\ 1 =< n + 2
    BY <1>1
  <2> QED
    BY <1>1, <1>3, <2>1, SubSeqProperties
<1> DEFINE s == SubSeq(b, 1, n)
           r == SubSeq(b, 1, n + 1)
           x == b[n + 1]
<1>6. x \in Bytes /\ r[n + 1] = x
  BY <1>1, <1>3, <1>5
<1>7. s \in Seq(Bytes) /\ Len(s) = n /\ r \in Seq(Bytes) /\ Len(r) = n + 1
      /\ \A i \in 1 .. n : s[i] = r[i]
  BY <1>1, <1>4, <1>5
<1> HIDE DEF s, r, x
<1>8. /\ Append(s, x) \in Seq(Bytes) /\ Len(Append(s, x)) = n + 1
      /\ \A i \in 1 .. n : Append(s, x)[i] = s[i]
      /\ Append(s, x)[n + 1] = x
  BY <1>1, <1>6, <1>7
<1>9. \A i \in 1 .. n + 1 : Append(s, x)[i] = r[i]
  <2>1. \A i \in 1 .. n + 1 : i \in 1 .. n \/ i = n + 1
    BY <1>1
  <2> QED
    BY <1>6, <1>7, <1>8, <2>1
<1>10. Append(s, x) = r
  BY ONLY <1>7, <1>8, <1>9, SeqEqual
<1> QED
  BY <1>1, <1>10 DEF s, r, x, n, b

\* Of nothing nothing has been taken.
LEMMA NothingOf ==
  ASSUME NEW b \in Seq(Bytes)
  PROVE  SubSeq(b, 1, 0) = <<>>
OBVIOUS

\* At the start the bank is empty.
LEMMA InitBank == OutInit => BankTypes /\ BankAgrees
BY DEF OutInit, BankTypes, BankAgrees

\* What has been read of nothing.
LEMMA EmptyTyped == <<>> \in Seq(Bytes)
OBVIOUS

\* Types of the bulk endpoint.
LEMMA TypesOfBank ==
  ASSUME BufferTyped, BankTypes, OutNext
  PROVE  BankTypes'
<1>1. CASE PassUnconfigured \/ PassEmpty
  BY <1>1 DEF PassUnconfigured, PassEmpty, ThreadPasses, BankTypes, bank
<1>2. CASE PassNoBytes
  BY <1>2 DEF PassNoBytes, ThreadPasses, ClearOUT, BankTypes, bank
<1>3. CASE PassByte
  <2>1. NextByte \in Bytes
    BY NextByteTyped
  <2>2. /\ nbytes' = nbytes \/ nbytes' = [nbytes EXCEPT ![6] = 0]
        /\ size > 0 /\ size' = size - 1 /\ index' \in {0, index + 1}
        /\ taken' \in {<<>>, Append(taken, NextByte)} /\ UNCHANGED <<active, intstat>>
    BY <1>3 DEF PassByte, ThreadPasses, ClearOUT
  <2>3. taken' \in Seq(Bytes)
    <3>1. taken \in Seq(Bytes)
      BY DEF BankTypes
    <3>2. Append(taken, NextByte) \in Seq(Bytes) /\ <<>> \in Seq(Bytes)
      BY ONLY <2>1, <3>1
    <3> QED
      BY ONLY <2>2, <3>1, <3>2
  <2> QED
    BY <2>2, <2>3 DEF BankTypes
<1>4. CASE NoRequest \/ SetConfiguration \/ ControlRead \/ ControlWrite \/ LineEncodingReceived
  <2>1. /\ UNCHANGED <<size, index, intstat>> /\ taken' \in {taken, <<>>}
        /\ active' = active \/ active' = [active EXCEPT ![6] = FALSE]
        /\ \/ nbytes' = nbytes
           \/ nbytes' = [nbytes EXCEPT ![6] = 0]
           \/ nbytes' = [nbytes EXCEPT ![0] = 0]
    <3>1. CASE NoRequest \/ ControlWrite
      BY ONLY <3>1 DEF NoRequest, ControlWrite, bank, endpoints
    <3>2. CASE SetConfiguration
      BY ONLY <3>2 DEF SetConfiguration, bank
    <3>3. CASE ControlRead \/ LineEncodingReceived
      BY ONLY <3>3 DEF ControlRead, LineEncodingReceived, bank
    <3> QED
      BY ONLY <1>4, <3>1, <3>2, <3>3
  <2>2. size' \in Nat /\ index' \in Nat /\ taken' \in Seq(Bytes)
    BY ONLY BankTypes, <2>1, EmptyTyped DEF BankTypes
  <2>3. nbytes' \in [{0, 6} -> Nat]
    BY ONLY BankTypes, <2>1 DEF BankTypes
  <2>4. DOMAIN active' = {0, 6} /\ intstat' \subseteq {0, 6}
    BY ONLY BankTypes, <2>1 DEF BankTypes
  <2> QED
    BY ONLY <2>2, <2>3, <2>4 DEF BankTypes
<1>5. CASE HandleIrq
  <2>1. /\ (size' = size \/ size' = nbytes[6]) /\ index' = index
        /\ nbytes' = nbytes /\ intstat' = {} /\ taken' = taken
        /\ (active' = active \/ active' = [e \in {0, 6} |-> active[e] \/ (e \in intstat /\ Arms(e))])
    BY <1>5 DEF HandleIrq
  <2> QED
    BY <1>5 DEF HandleIrq, BankTypes
<1>6. CASE BusEvents
  <2>1. /\ UNCHANGED <<size, index>> /\ intstat' \in {intstat, {}} /\ taken' \in {taken, <<>>}
        /\ \/ active' = active /\ nbytes' = nbytes
           \/ active' = [e \in {0, 6} |-> FALSE] /\ nbytes' = [e \in {0, 6} |-> 0]
    BY ONLY <1>6 DEF BusEvents, Reset, Suspend, BusEvent, HalReset
  <2>2. size' \in Nat /\ index' \in Nat /\ taken' \in Seq(Bytes) /\ intstat' \subseteq {0, 6}
    BY ONLY BankTypes, <2>1, EmptyTyped DEF BankTypes
  <2>3. nbytes' \in [{0, 6} -> Nat] /\ DOMAIN active' = {0, 6}
    <3>1. CASE active' = active /\ nbytes' = nbytes
      BY ONLY BankTypes, <3>1 DEF BankTypes
    <3>2. CASE active' = [e \in {0, 6} |-> FALSE] /\ nbytes' = [e \in {0, 6} |-> 0]
      BY ONLY <3>2
    <3> QED
      BY ONLY <2>1, <3>1, <3>2
  <2> QED
    BY ONLY <2>2, <2>3 DEF BankTypes
<1>7. CASE HostControlOut
  <2>1. /\ UNCHANGED <<size, index, taken>> /\ intstat' = intstat \cup {0}
        /\ active' = active \/ active' = [active EXCEPT ![0] = FALSE]
        /\ \/ nbytes' = nbytes
           \/ nbytes' = [nbytes EXCEPT ![0] = 7]
           \/ nbytes' = [nbytes EXCEPT ![0] = 0]
    BY <1>7 DEF HostControlOut, bank
  <2> QED
    BY <2>1 DEF BankTypes
<1>8. CASE HostOut
  <2>1. Len(sending) \in Nat
    BY DEF BufferTyped
  <2> DEFINE n == Len(sending)
  <2>2. /\ UNCHANGED <<size, index>> /\ intstat' = intstat \cup {6} /\ taken' \in {taken, <<>>}
        /\ active' = active \/ active' = [active EXCEPT ![6] = FALSE]
        /\ nbytes' = nbytes \/ nbytes' = [nbytes EXCEPT ![6] = n]
    BY <1>8 DEF HostOut, bank
  <2> HIDE DEF n
  <2>3. n \in Nat
    BY <2>1 DEF n
  <2>4. size' \in Nat /\ index' \in Nat /\ taken' \in Seq(Bytes)
    BY ONLY BankTypes, <2>2, EmptyTyped DEF BankTypes
  <2>5. nbytes' \in [{0, 6} -> Nat]
    BY ONLY BankTypes, <2>2, <2>3 DEF BankTypes
  <2>6. DOMAIN active' = {0, 6}
    BY ONLY BankTypes, <2>2 DEF BankTypes
  <2>7. intstat' \subseteq {0, 6}
    BY ONLY BankTypes, <2>2 DEF BankTypes
  <2> QED
    BY ONLY <2>4, <2>5, <2>6, <2>7 DEF BankTypes
<1>9. ASSUME NEW r \in {"config", "read", "write"}, HostSetup(r)
      PROVE BankTypes'
  BY <1>9 DEF HostSetup, BankTypes, bank, endpoints
<1>10. ASSUME NEW p \in Packets, HostSend(p)
      PROVE BankTypes'
  BY <1>10 DEF HostSend, BankTypes, bank, endpoints
<1>11. CASE CommandReturns
  BY <1>11 DEF CommandReturns, BankTypes, bank, endpoints
<1> QED
  BY <1>1, <1>2, <1>3, <1>4, <1>5, <1>6, <1>7, <1>8, <1>9, <1>10, <1>11 DEF OutNext, Thread4, Host

\* The byte that is read next of a packet nothing else met.
LEMMA ByteInOrder ==
  ASSUME BufferTyped, BankTypes, BankAgrees, PassByte, ~crossed
  PROVE  /\ Counted /\ index < Len(buffer) /\ nbytes[6] > 0 /\ nbytes[6] =< Len(buffer)
         /\ Append(taken, NextByte) = SubSeq(buffer, 1, index + 1)
<1>1. nbytes[6] > 0 /\ size > 0 /\ intstat = {}
  BY DEF PassByte, ThreadPasses, ThreadRuns
<1>2. Counted /\ nbytes[6] =< Len(buffer)
  BY <1>1 DEF BankAgrees, Arrived
<1>3. index < Len(buffer) /\ taken = SubSeq(buffer, 1, index)
  BY <1>2 DEF Counted, BankTypes, BufferTyped
<1> QED
  BY <1>1, <1>2, <1>3, OneMoreTaken

\* Every step keeps the bank as it should be.
LEMMA BankKept ==
  ASSUME BufferTyped, BankTypes, BankAgrees, OutNext
  PROVE  BankAgrees'
<1>0. nbytes[6] \in Nat /\ size \in Nat /\ index \in Nat /\ Len(buffer) \in Nat /\ (nbytes[6] = 0 \/ nbytes[6] > 0)
  BY DEF BankTypes, BufferTyped
<1>1. CASE PassUnconfigured \/ PassEmpty \/ CommandReturns \/ NoRequest \/ ControlWrite
  <2>1. UNCHANGED <<nbytes, active, size, index, intstat, epout_primed, buffer, taken, crossed>>
        /\ (setup' = setup \/ setup' = "none")
    BY <1>1 DEF PassUnconfigured, PassEmpty, CommandReturns, NoRequest, ControlWrite,
         ThreadPasses, bank, endpoints
  <2> QED
    BY <2>1 DEF BankAgrees, Arrived, Counted
<1>2. CASE PassNoBytes
  <2>1. /\ nbytes' = [nbytes EXCEPT ![6] = 0] /\ index' = 0 /\ size = 0 /\ nbytes[6] > 0
        /\ UNCHANGED <<size, active>>
    BY <1>2 DEF PassNoBytes, ThreadPasses, ClearOUT
  <2>2. nbytes'[6] = 0 /\ ~active'[6]
    BY <2>1 DEF BankTypes, BankAgrees
  <2> QED
    BY <2>1, <2>2 DEF BankAgrees
<1>3. CASE PassByte
  <2>1. /\ nbytes[6] > 0 /\ size > 0 /\ size' = size - 1 /\ intstat = {}
        /\ UNCHANGED <<active, epout_primed, intstat, buffer, setup>>
    BY <1>3 DEF PassByte, ThreadPasses, ThreadRuns
  <2>2. ~active'[6]
    BY <2>1 DEF BankAgrees
  <2>3. CASE size' = 0
    <3>1. nbytes' = [nbytes EXCEPT ![6] = 0] /\ index' = 0
      BY <1>3, <2>3 DEF PassByte, ClearOUT
    <3>2. nbytes'[6] = 0
      BY <3>1 DEF BankTypes
    <3> QED
      BY <2>2, <2>3, <3>1, <3>2 DEF BankAgrees
  <2>4. CASE size' # 0
    <3>1. nbytes' = nbytes /\ index' = index + 1 /\ taken' = Append(taken, NextByte) /\ crossed' = crossed
      BY <1>3, <2>4 DEF PassByte
    <3>2. CASE crossed
      BY <2>1, <2>2, <3>1, <3>2 DEF BankAgrees
    <3>3. CASE ~crossed
      <4>1. Counted /\ Append(taken, NextByte) = SubSeq(buffer, 1, index + 1)
        BY <1>3, <3>3, ByteInOrder
      <4>2. taken' = SubSeq(buffer', 1, index') /\ ~epout_primed'
        BY <2>1, <3>1, <4>1 DEF Counted
      <4>3. size' > 0 /\ size' + index' = nbytes'[6]
        <5>1. size + index = nbytes[6]
          BY <4>1 DEF Counted
        <5> QED
          BY <1>0, <2>1, <2>4, <3>1, <5>1
      <4>4. Counted'
        BY <4>2, <4>3 DEF Counted
      <4> QED
        BY <2>1, <2>2, <3>1, <4>4 DEF BankAgrees
    <3> QED
      BY <3>2, <3>3
  <2> QED
    BY <2>3, <2>4
<1>4. CASE SetConfiguration
  <2>1. /\ setup = "config" /\ active' = [active EXCEPT ![6] = FALSE] /\ nbytes' = [nbytes EXCEPT ![6] = 0]
        /\ UNCHANGED <<size, index, crossed>>
    BY <1>4 DEF SetConfiguration, bank
  <2>2. nbytes'[6] = 0 /\ ~active'[6]
    BY <2>1 DEF BankTypes
  <2>3. ~crossed => nbytes[6] = 0
    BY <1>0, <2>1 DEF BankAgrees
  <2> QED
    BY <2>1, <2>2, <2>3 DEF BankAgrees
<1>5. CASE ControlRead \/ LineEncodingReceived
  <2>1. /\ nbytes' = [nbytes EXCEPT ![0] = 0] /\ setup' \in {setup, "none"}
        /\ UNCHANGED <<active, size, index, intstat, epout_primed, buffer, taken, crossed>>
    BY <1>5 DEF ControlRead, LineEncodingReceived, bank
  <2>2. nbytes'[6] = nbytes[6]
    BY <2>1 DEF BankTypes
  <2> QED
    BY <2>1, <2>2 DEF BankAgrees, Arrived, Counted
<1>6. CASE HandleIrq
  <2>1. /\ intstat # {} /\ intstat' = {} /\ UNCHANGED <<index, nbytes, buffer, setup, taken, crossed>>
    BY <1>6 DEF HandleIrq
  <2>2. CASE setup # "none"
    <3>1. UNCHANGED <<active, epout_primed, size>>
      BY <1>6, <2>2 DEF HandleIrq
    <3> QED
      BY <1>0, <2>1, <2>2, <3>1 DEF BankAgrees
  <2>3. CASE setup = "none"
    <3> DEFINE primed == PrimedAfter(0, epout_primed)
    <3>1. /\ epout_primed' = PrimedAfter(6, primed)
          /\ active' = [e \in {0, 6} |-> active[e] \/ (e \in intstat /\ Arms(e))]
          /\ size' = IF 6 \in intstat /\ nbytes[6] > 0 /\ primed THEN nbytes[6] ELSE size
      BY <1>6, <2>3 DEF HandleIrq
    <3> HIDE DEF primed
    <3>2. active'[6] <=> (active[6] \/ (6 \in intstat /\ nbytes[6] = 0))
      BY <3>1 DEF Arms
    <3>3. CASE nbytes[6] = 0
      <4>1. size' = size
        BY <3>1, <3>3
      <4>2. 6 \in intstat => epout_primed'
        BY <3>1, <3>3 DEF PrimedAfter, Arms
      <4>3. ~crossed /\ active'[6] => 6 \in intstat
        BY <2>1, <3>2 DEF BankAgrees
      <4> QED
        BY <2>1, <3>3, <4>1, <4>2, <4>3 DEF BankAgrees
    <3>4. CASE nbytes[6] > 0
      <4>1. ~active'[6] /\ nbytes'[6] =< Len(buffer')
        BY <1>0, <2>1, <3>2, <3>4 DEF BankAgrees
      <4>2. ASSUME ~crossed PROVE Counted'
        <5>1. 0 \notin intstat /\ 6 \in intstat /\ (Arrived \/ Counted)
          BY <2>1, <3>4, <4>2 DEF BankAgrees, BankTypes
        <5>2. primed = epout_primed
          BY <5>1 DEF PrimedAfter, primed
        <5>3. ~epout_primed'
          <6>1. epout_primed' = (nbytes[6] = 0)
            BY ONLY <3>1, <5>1 DEF PrimedAfter, Arms
          <6>2. (nbytes[6] = 0) = FALSE
            BY ONLY <1>0, <3>4
          <6> QED
            BY ONLY <6>1, <6>2
        <5>4. CASE Arrived
          <6>1. size' = nbytes[6] /\ index = 0 /\ taken = <<>>
            BY <3>1, <3>4, <5>1, <5>2, <5>4 DEF Arrived
          <6>2. SubSeq(buffer, 1, 0) = <<>>
            BY NothingOf DEF BufferTyped
          <6> QED
            BY <1>0, <2>1, <3>4, <5>3, <6>1, <6>2 DEF Counted
        <5>5. CASE Counted
          <6>1. size' = size
            BY <3>1, <5>2, <5>5 DEF Counted
          <6> QED
            BY <2>1, <5>3, <5>5, <6>1 DEF Counted
        <5> QED
          BY <5>1, <5>4, <5>5
      <4> QED
        BY <1>0, <2>1, <2>3, <3>4, <4>1, <4>2 DEF BankAgrees
    <3> QED
      BY <1>0, <3>3, <3>4
  <2> QED
    BY <2>2, <2>3
<1>7. CASE BusEvents
  <2>1. crossed' = TRUE /\ buffer' = buffer
    BY <1>7 DEF BusEvents, Reset, Suspend, BusEvent
  <2>2. \/ nbytes' = nbytes /\ active' = active
        \/ nbytes' = [e \in {0, 6} |-> 0]
    BY <1>7 DEF BusEvents, Reset, Suspend, HalReset
  <2>3. nbytes'[6] > 0 => nbytes' = nbytes /\ active' = active
    BY <2>2
  <2> QED
    BY <2>1, <2>3 DEF BankAgrees
<1>8. CASE HostControlOut
  <2>1. /\ UNCHANGED <<size, index, buffer, taken, setup, epout_primed>> /\ intstat' = intstat \cup {0} /\ Crossing
        /\ active' = active \/ active' = [active EXCEPT ![0] = FALSE]
        /\ \/ nbytes' = nbytes
           \/ nbytes' = [nbytes EXCEPT ![0] = 7]
           \/ nbytes' = [nbytes EXCEPT ![0] = 0]
    BY <1>8 DEF HostControlOut, bank
  <2>2. nbytes'[6] = nbytes[6] /\ active'[6] = active[6]
    BY <2>1 DEF BankTypes
  <2>3. ~crossed' => ~crossed /\ ~active[6] /\ ~(nbytes[6] > 0)
    BY <2>1 DEF Crossing
  <2> QED
    BY <2>1, <2>2, <2>3 DEF BankAgrees
<1>9. CASE HostOut
  <2>1. /\ UNCHANGED <<size, index, epout_primed, setup>> /\ intstat' = intstat \cup {6}
        /\ sending # <<>>
        /\ ~crossed' => ~crossed /\ setup = "none"
    BY <1>9 DEF HostOut, bank
  <2>2. CASE active[6]
    <3>1. /\ active' = [active EXCEPT ![6] = FALSE]
          /\ nbytes' = [nbytes EXCEPT ![6] = Len(sending)]
          /\ buffer' = sending \o SubSeq(buffer, Len(sending) + 1, Len(buffer))
          /\ taken' = <<>>
      BY <1>9, <2>2 DEF HostOut
    <3>2. ~active'[6] /\ nbytes'[6] = Len(sending)
      BY <3>1 DEF BankTypes
    <3>3. Len(sending) =< Len(buffer')
      BY <3>1, OverwriteLength DEF BufferTyped
    <3>4. Len(sending) \in Nat /\ Len(sending) # 0
      BY <2>1 DEF BufferTyped
    <3>5. nbytes[6] = 0
      BY <1>0, <2>2 DEF BankAgrees
    <3>6. ~crossed' => index = 0 /\ size = 0 /\ epout_primed /\ intstat = {}
      BY <2>1, <2>2, <3>5 DEF BankAgrees
    <3>7. ~crossed' => Arrived'
      BY <2>1, <3>1, <3>6 DEF Arrived
    <3> QED
      BY <2>1, <3>2, <3>3, <3>4, <3>6, <3>7 DEF BankAgrees
  <2>3. CASE ~active[6]
    <3>1. UNCHANGED <<active, nbytes, buffer, taken>>
      BY <1>9, <2>3 DEF HostOut
    <3> QED
      BY <2>1, <2>3, <3>1 DEF BankAgrees, Arrived, Counted
  <2> QED
    BY <2>2, <2>3
<1>10. ASSUME NEW r \in {"config", "read", "write"}, HostSetup(r)
       PROVE BankAgrees'
  <2>1. /\ UNCHANGED <<nbytes, active, size, index, intstat, epout_primed, buffer, taken>> /\ Crossing
    BY <1>10 DEF HostSetup, bank, endpoints
  <2>2. ~crossed' => ~crossed /\ ~active[6] /\ ~(nbytes[6] > 0)
    BY <2>1 DEF Crossing
  <2> QED
    BY <2>1, <2>2 DEF BankAgrees
<1>11. ASSUME NEW p \in Packets, HostSend(p)
       PROVE BankAgrees'
  <2>1. UNCHANGED <<nbytes, active, size, index, intstat, epout_primed, buffer, taken, crossed, setup>>
    BY <1>11 DEF HostSend, bank, endpoints
  <2> QED
    BY <2>1 DEF BankAgrees, Arrived, Counted
<1> QED
  BY <1>1, <1>2, <1>3, <1>4, <1>5, <1>6, <1>7, <1>8, <1>9, <1>10, <1>11 DEF OutNext, Thread4, Host

\* What Thread4 has read of a packet when it gives the bank back.
LEMMA ReleaseStep ==
  ASSUME BufferTyped, BankTypes, BankAgrees, OutNext,
         pc = "data", pc' = "control", nbytes[6] > 0, nbytes'[6] = 0, ~crossed, ~crossed'
  PROVE  PassByte /\ Append(taken, NextByte) = SubSeq(buffer, 1, nbytes[6])
<1>1. PassByte
  <2>1. ~PassNoBytes
    <3> SUFFICES ASSUME PassNoBytes PROVE FALSE
      OBVIOUS
    <3>1. size = 0 /\ intstat = {}
      BY DEF PassNoBytes, ThreadPasses, ThreadRuns
    <3> QED
      BY <3>1 DEF BankAgrees, Arrived, Counted
  <2>2. ~(PassUnconfigured \/ PassEmpty \/ CommandReturns)
    BY DEF PassUnconfigured, PassEmpty, CommandReturns
  <2>3. ~(NoRequest \/ SetConfiguration \/ ControlRead \/ ControlWrite \/ LineEncodingReceived)
    BY DEF NoRequest, SetConfiguration, ControlRead, ControlWrite, LineEncodingReceived, ThreadServes
  <2>4. ~HandleIrq
    BY DEF HandleIrq
  <2>5. ~BusEvents
    BY DEF BusEvents, Reset, Suspend, BusEvent
  <2>6. ~HostControlOut /\ ~HostOut
    BY DEF HostControlOut, HostOut
  <2>7. \A r \in {"config", "read", "write"} : ~HostSetup(r)
    BY DEF HostSetup
  <2>8. \A p \in Packets : ~HostSend(p)
    BY DEF HostSend
  <2> QED
    BY <2>1, <2>2, <2>3, <2>4, <2>5, <2>6, <2>7, <2>8 DEF OutNext, Thread4, Host
<1>2. Counted /\ Append(taken, NextByte) = SubSeq(buffer, 1, index + 1)
  BY <1>1, ByteInOrder
<1>3. size' = 0
  <2> SUFFICES ASSUME size' # 0 PROVE FALSE
    OBVIOUS
  <2>1. nbytes' = nbytes
    BY <1>1 DEF PassByte
  <2> QED
    BY <2>1
<1>4. index + 1 = nbytes[6]
  <2>1. size = 1
    BY <1>1, <1>3 DEF PassByte, BankTypes
  <2> QED
    BY <1>2, <2>1 DEF Counted, BankTypes
<1> QED
  BY <1>1, <1>2, <1>4

\* Every byte of a packet that no control transfer, reset or suspend met is handed on,
\* in order and once, before its bank is released to the next packet.
THEOREM PacketsReadWhole == OutSpec => BankHeld
<1> DEFINE J == BufferTyped /\ BankTypes /\ BankAgrees
<1>1. OutInit => J
  BY InitBufferTyped, InitBank
<1>2. J /\ [OutNext]_allVars => J'
  <2> SUFFICES ASSUME J, [OutNext]_allVars PROVE J'
    OBVIOUS
  <2>1. CASE OutNext
    BY <2>1, NextBufferTyped, TypesOfBank, BankKept
  <2>2. CASE UNCHANGED allVars
    BY <2>2, NextBufferTyped DEF allVars, bank, endpoints, host, BankTypes, BankAgrees, Arrived, Counted
  <2> QED
    BY <2>1, <2>2
<1> DEFINE A == (pc = "data" /\ pc' = "control" /\ nbytes[6] > 0 /\ nbytes'[6] = 0 /\ ~(crossed \/ crossed')) =>
                  /\ PassByte
                  /\ Append(taken, NextByte) = SubSeq(buffer, 1, nbytes[6])
<1>3. J /\ [OutNext]_allVars => [A]_allVars
  BY ReleaseStep
<1> QED
  BY <1>1, <1>2, <1>3, PTL DEF OutSpec, BankHeld
=============================================================================
