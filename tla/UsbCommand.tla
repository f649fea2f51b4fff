------------------------------ MODULE UsbCommand ------------------------------
(***************************************************************************)
(* The commands of the host: VS_USBdataHandling (VirtualSerial.c) collects *)
(* one byte per pass of Thread4 in recv_byte and runs the command when the *)
(* four bytes STX c * ETX are there.  recv_byte is a ring of Size bytes    *)
(* whose cell 0 is never overwritten while it holds STX.  A command takes  *)
(* its time, or for ever: VS_SendAllLogs and VS_DeleteAllLogs send on the  *)
(* IN endpoint and wait for a host that may not read (UsbDump).            *)
(*                                                                         *)
(* The code looks at cells 0 to 3 when it runs a command and otherwise at  *)
(* the cell it has just written, so only cells 0 to 3 are kept here.       *)
(***************************************************************************)
EXTENDS Integers

CONSTANT Size           \* CDC_TXRX_EPSIZE, the size of recv_byte

ASSUME SizeAssumption == Size \in Nat /\ Size >= 6

VARIABLES cells,        \* recv_byte[0..3]
          count,        \* recv_bytes_count
          configured,   \* USB_DeviceState[0] = DEVICE_STATE_Configured
          running,      \* the command Thread4 is in, "none" if none
          tail,         \* the last two bytes stored since the buffer was reset
          pos,          \* bytes of a command received without a break
          missed        \* whole commands received in a row and not run

vars == <<cells, count, configured, running, tail, pos, missed>>

\* "other" stands for every byte that no command contains; a byte of 0, which
\* a reset of the buffer leaves in cell 0, and 0xFF, which a failed
\* CDC_Device_ReceiveByte leaves, are among them.
Commands == {"R", "D"}
Bytes == {"STX", "*", "ETX", "other"} \cup Commands

\* The place after cell c: (c + 1) % Size, and 1 instead of 0.
NextCount(c) == IF c + 1 = Size THEN 1 ELSE c + 1

\* Storing byte b in cell c.
Stored(b) == IF count \in 0..3 THEN [cells EXCEPT ![count] = b] ELSE cells

\* recv_byte[recv_bytes_count - 1] after the byte b was stored and the count
\* became c.  Before a first STX the count stays 0 and the code reads the byte
\* before the array: any value.
JustStored(b, c) ==
  CASE c = 0 -> {"ETX", "other"}
    [] c = 1 /\ count # 0 -> {"STX"}
    [] OTHER -> {b}

\* Mutant: the third byte is not compared.
CommandIn_NoStar(word) ==
  IF word[0] = "STX" /\ word[1] \in Commands /\ word[3] = "ETX"
  THEN word[1] ELSE "none"

\* The command in the four cells, as the code compares them as one word.
CommandIn(word) ==
  IF word[0] = "STX" /\ word[1] \in Commands /\ word[2] = "*" /\ word[3] = "ETX"
  THEN word[1] ELSE "none"

\* What the ETX just stored at count c runs.
CommandAt(c, word) == IF c = 4 THEN CommandIn(word) ELSE "none"

\* The bytes of a command that end with b, when pos of them came before it.
NextPos(b) ==
  CASE pos = 1 /\ b \in Commands -> 2
    [] pos = 2 /\ b = "*" -> 3
    [] b = "STX" -> 1
    [] OTHER -> 0

\* One more command received whole, without a break since the one before.
Missed(b, run) ==
  CASE pos = 3 /\ b = "ETX" -> IF run = "none" THEN missed + 1 ELSE 0
    [] (pos = 0 /\ b = "STX") \/ (pos > 0 /\ NextPos(b) = pos + 1) -> missed
    [] OTHER -> 0

\* No byte stored yet.
NoBytes == <<"other", "other">>

\* recv_byte[0] = 0 and recv_bytes_count = 0.
ResetBuffer(word) == cells' = [word EXCEPT ![0] = "other"] /\ count' = 0 /\ tail' = NoBytes

\* recv_byte is left as it is, and the command in it, if any, starts.
Keeps(b, word, c, starts) ==
  /\ cells' = word /\ count' = c /\ running' = starts
  /\ tail' = IF c = 0 THEN NoBytes ELSE <<tail[2], b>>

\* Mutant: a frame of another length is not dropped.
CheckFrame_KeepsCount(b, word, c) ==
  \E last \in JustStored(b, c) :
    IF last = "ETX" /\ c = 4 /\ CommandAt(c, word) = "none"
    THEN ResetBuffer(word) /\ UNCHANGED running
    ELSE Keeps(b, word, c, IF last = "ETX" THEN CommandAt(c, word) ELSE "none")

\* The cell is checked for ETX; a frame that is not four bytes long or holds no
\* command is dropped, a command is called.
CheckFrame(b, word, c) ==
  \E last \in JustStored(b, c) :
    IF last = "ETX" /\ CommandAt(c, word) = "none"
    THEN ResetBuffer(word) /\ UNCHANGED running
    ELSE Keeps(b, word, c, IF last = "ETX" THEN CommandAt(c, word) ELSE "none")

\* Storing a byte and what follows in the same pass.
Collect(b) ==
  LET word == Stored(b)
      c == IF word[0] = "STX" THEN NextCount(count) ELSE count
  IN CheckFrame(b, word, c)

\* VS_USBdataHandling with a byte of the host in the endpoint.
Receive(b) ==
  /\ running = "none" /\ configured
  /\ Collect(b)
  /\ pos' = NextPos(b)
  /\ missed' = Missed(b, running')
  /\ UNCHANGED configured

\* The interrupt of a reset or suspend falls between CDC_Device_BytesReceived
\* and CDC_Device_ReceiveByte: -1 is stored as if it were a byte.
ReceiveFails ==
  /\ running = "none" /\ configured
  /\ Collect("other")
  /\ pos' = 0 /\ missed' = 0
  /\ configured' = FALSE

\* The command has returned: recv_byte is reset for the next one.
Return ==
  /\ running # "none" /\ running' = "none"
  /\ ResetBuffer(cells)
  /\ UNCHANGED <<configured, pos, missed>>

\* VS_USBdataHandling on a device that is not configured.
Unconfigured ==
  /\ running = "none" /\ ~configured
  /\ ResetBuffer(cells)
  /\ pos' = 0 /\ missed' = 0
  /\ UNCHANGED <<configured, running>>

\* The interrupt of a reset or a suspend, between two passes or in a command.
Deconfigure ==
  /\ configured /\ configured' = FALSE
  /\ pos' = 0 /\ missed' = 0
  /\ UNCHANGED <<cells, count, running, tail>>

\* SetConfiguration, which leaves recv_byte alone and forgets what the endpoint
\* has received; a pass of VS_USBdataHandling may or may not come before it.
Configure ==
  /\ running = "none" /\ ~configured /\ configured' = TRUE
  /\ pos' = 0 /\ missed' = 0
  /\ UNCHANGED <<cells, count, running, tail>>

Init ==
  /\ cells = [i \in 0..3 |-> "other"] /\ count = 0 /\ configured = FALSE
  /\ running = "none" /\ tail = NoBytes /\ pos = 0 /\ missed = 0

Next ==
  \/ \E b \in Bytes : Receive(b)
  \/ ReceiveFails \/ Return \/ Unconfigured \/ Deconfigure \/ Configure

Spec == Init /\ [][Next]_vars

-----------------------------------------------------------------------------
\* The count never leaves the buffer, and a whole frame is never left in it.
TypeOK ==
  /\ cells \in [0..3 -> Bytes] /\ count \in 0..(Size - 1)
  /\ configured \in BOOLEAN /\ running \in Commands \cup {"none"}
  /\ tail \in Bytes \X Bytes
  /\ pos \in 0..3 /\ missed \in Nat

\* The switch of VS_USBdataHandling starts a command on an ETX only when it and
\* the two bytes before it, with nothing between them, are the command's: no
\* wrap of the buffer makes a command of bytes that were not sent as one.
RunsWhatWasSent ==
  [][running = "none" /\ running' # "none" => tail = <<running', "*">>]_vars

\* Whatever was in recv_byte, a host that repeats a command is heard: of three
\* whole commands in a row VS_USBdataHandling runs at least one.
ThirdCopyRuns == missed <= 2
=============================================================================
