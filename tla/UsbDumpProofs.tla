---------------------------- MODULE UsbDumpProofs ----------------------------
(***************************************************************************)
(* The dump of the log, and the frames that answer D, keep their order and *)
(* lose nothing, for any sizes of the log, of a block and of a packet, and *)
(* any number of resets and suspends.                                      *)
(***************************************************************************)
EXTENDS UsbDump, SequenceTheorems, TLAPS

\* The index of the buffer, by the place Thread4 is at.
IndexFits ==
  /\ pc \in Dumping => blk =< Sends(job)
  /\ pc \notin {"write", "clear"} => index = 0
  /\ pc = "write" => index < SendLength(job, blk)
  /\ pc = "clear" => index = SendLength(job, blk)

\* The buffer while the controller, or the interrupt it raised, has units in it.
ControllerFits ==
  /\ active => 1 =< nbytes /\ nbytes + remain =< BlockUnits
  /\ (active \/ ep) /\ remain > 0 => nbytes = PacketUnits
  /\ active => ~ep
  /\ pc \in {"write", "clear"} => ~active /\ ~ep

\* The host uses a configuration only when the device has its endpoints set up, and
\* nothing of a time before is left in them.
HostAgrees ==
  /\ dreset => host = "reset"
  /\ ep => host = "configured"
  /\ host = "configured" => /\ inten /\ setup = "none" /\ ack = "none"
                            /\ pc \notin {"apply", "configure"}
  /\ host # "configured" => got = <<>>
  /\ ack # "none" => setup = "none"
  /\ ack = "config" => \/ pc = "apply" /\ req = "config"
                       \/ pc = "configure"
                       \/ pc = "idle" /\ inten /\ ~active /\ cmd = "none"

\* A command left from before a reset finds no configured device; a device that the
\* host has configured and suspended is so no longer, once the interrupt is served.
CommandIsNew ==
  /\ cmd # "none" /\ host # "configured" => dev # "Configured" \/ dreset \/ pc = "configure"
  /\ host = "configured" /\ bus = "suspended" => dsus \/ dev # "Configured"

\* What a dump that nothing disturbs can count on.
Undisturbed ==
  d > 0 /\ ~disturbed => host = "configured" /\ bus = "on" /\ ~dsus /\ dev = "Configured"

\* What the controller holds of the buffer, and where in it.
Offset == IF active THEN 0 ELSE PacketUnits
Held == IF active THEN nbytes + remain ELSE IF ep THEN remain ELSE 0

\* The last unit the host took, and the last one Thread4 has sent.
Taken == IF got = <<>> THEN Unused ELSE got[Len(got)]
LastSent == IF Held > 0 THEN buf[Offset + Held] ELSE Taken

\* The next unit of a dump, or the first of a later one.
Follows(u, v) == (v.k = 1 /\ v.d > u.d) \/ (v.d = u.d /\ v.k = u.k + 1)

\* What is on its way to the host is a stretch of a dump that goes on where the host is.
HeldInOrder ==
  /\ \A i \in 1 .. Held :
       buf[Offset + i] = [d |-> buf[Offset + 1].d, k |-> buf[Offset + 1].k + (i - 1)]
  /\ Held > 0 => Follows(Taken, buf[Offset + 1])

\* A unit cannot be farther in its dump than in what the host took.
TakenInOrder ==
  /\ StreamInOrder
  /\ \A i \in DOMAIN got : got[i].k =< i

\* What Thread4 has written so far.
WrittenInOrder ==
  pc \in {"write", "clear"} =>
    \A i \in 1 .. index : buf[i] = [d |-> d, k |-> Before(job, blk) + i]

\* Thread4 sends a dump without a gap until the device is no longer configured, which
\* is then the end of it.
OnTrack == pc \in {"wait", "write", "clear"} \/ (pc \in {"next", "send"} /\ dev = "Configured")
GoesOn ==
  /\ LastSent.d =< d
  /\ OnTrack => IF blk = 1 THEN LastSent.d < d ELSE LastSent = [d |-> d, k |-> Before(job, blk)]
  /\ d > 0 /\ ~disturbed /\ pc \notin Dumping => LastSent = [d |-> d, k |-> AnswerLength(job)]

Stream ==
  host = "configured" => HeldInOrder /\ TakenInOrder /\ WrittenInOrder /\ GoesOn

FitInv == TypeOK /\ IndexFits /\ ControllerFits
AgreeInv == HostAgrees /\ CommandIsNew /\ Undisturbed

-----------------------------------------------------------------------------
(* Sizes.                                                                  *)

\* Sizes, for any size of a block.
LEMMA Sizes ==
  /\ Blocks \in Nat /\ Blocks >= 1 /\ BlockUnits \in Nat /\ PacketUnits \in Nat
  /\ PacketUnits >= 2 /\ BlockUnits >= PacketUnits /\ MaxDumps \in Nat /\ MaxEvents \in Nat
  /\ Total \in Nat /\ Total >= 2
<1>1. /\ Blocks \in Nat /\ Blocks >= 1 /\ BlockUnits \in Nat /\ PacketUnits \in Nat
      /\ PacketUnits >= 2 /\ BlockUnits >= PacketUnits /\ MaxDumps \in Nat /\ MaxEvents \in Nat
  BY UsbAssumption DEF UsbAssumption
<1>2. PICK r \in Nat : Blocks = r + 1
  <2>1. Blocks - 1 \in Nat /\ Blocks = (Blocks - 1) + 1
    BY ONLY <1>1
  <2> QED
    BY ONLY <2>1
<1>3. (r + 1) * BlockUnits = r * BlockUnits + BlockUnits /\ r * BlockUnits \in Nat
  BY ONLY <1>1, <1>2
<1>4. Blocks * BlockUnits = r * BlockUnits + BlockUnits
  BY ONLY <1>2, <1>3
<1> QED
  BY <1>1, <1>3, <1>4 DEF Total

\* The block after a block begins where that one ends, and the terminator is the last.
LEMMA Bases ==
  ASSUME NEW b \in 1 .. Blocks + 1
  PROVE  /\ Before("R", b) \in Nat /\ (b = 1 => Before("R", b) = 0)
         /\ b =< Blocks => /\ Before("R", b + 1) = Before("R", b) + BlockUnits
                           /\ Before("R", b) + BlockUnits < Total
         /\ b = Blocks + 1 => Before("R", b) + 1 = Total
<1>1. Blocks \in Nat /\ BlockUnits \in Nat
  BY Sizes
<1>2. Before("R", b) \in Nat
  <2>1. b - 1 \in Nat
    BY <1>1
  <2>2. (b - 1) * BlockUnits \in Nat
    BY ONLY <1>1, <2>1
  <2> QED
    BY <2>2 DEF Before
<1>3. b = 1 => Before("R", b) = 0
  BY <1>1 DEF Before
<1>4. b = Blocks + 1 => Before("R", b) + 1 = Total
  BY <1>1 DEF Before, Total
<1>5. ASSUME b =< Blocks
      PROVE  Before("R", b + 1) = Before("R", b) + BlockUnits /\ Before("R", b) + BlockUnits < Total
  <2>1. PICK r \in Nat : Blocks = b + r
    <3>1. Blocks - b \in Nat /\ Blocks = b + (Blocks - b)
      BY <1>1, <1>5
    <3> QED
      BY <3>1
  <2>2. PICK a \in Nat : b = a + 1
    <3>1. b - 1 \in Nat /\ b = (b - 1) + 1
      BY <1>1
    <3> QED
      BY <3>1
  <2>3. Before("R", b) = a * BlockUnits /\ Before("R", b + 1) = (a + 1) * BlockUnits
    BY <2>2 DEF Before
  <2>4. (a + 1) * BlockUnits = a * BlockUnits + BlockUnits
    BY ONLY <1>1, <2>2
  <2>5. (a + 1 + r) * BlockUnits = (a + 1) * BlockUnits + r * BlockUnits /\ r * BlockUnits >= 0
    BY ONLY <1>1, <2>1, <2>2
  <2>6. Blocks * BlockUnits = (a + 1 + r) * BlockUnits
    BY <2>1, <2>2
  <2>7. a * BlockUnits \in Nat /\ r * BlockUnits \in Nat
    BY ONLY <1>1, <2>1, <2>2
  <2> QED
    BY <1>1, <2>3, <2>4, <2>5, <2>6, <2>7 DEF Total
<1> QED
  BY <1>2, <1>3, <1>4, <1>5

\* An answer has at least one send and no more than a dump; what one send writes fits in
\* the buffer.
LEMMA SendFits ==
  ASSUME NEW j \in Commands, NEW b \in Nat
  PROVE  SendLength(j, b) \in 1 .. BlockUnits /\ Sends(j) \in 1 .. Blocks + 1
BY Sizes DEF SendLength, Sends, Commands

\* In every answer a send goes on where the one before it ends, and the last ends the answer.
LEMMA SendsFollow ==
  ASSUME NEW j \in Commands, NEW b \in 1 .. Sends(j)
  PROVE  /\ Before(j, b) \in Nat /\ (b = 1 => Before(j, b) = 0)
         /\ b < Sends(j) => Before(j, b + 1) = Before(j, b) + SendLength(j, b)
         /\ b = Sends(j) => Before(j, b) + SendLength(j, b) = AnswerLength(j)
         /\ Before(j, b) + SendLength(j, b) =< Total
         /\ AnswerLength(j) \in 1 .. Total
<1>1. Blocks \in Nat /\ BlockUnits \in Nat /\ Total \in Nat /\ Total >= 2
  BY Sizes
<1>2. CASE j = "R"
  <2>1. /\ Sends(j) = Blocks + 1 /\ AnswerLength(j) = Total
        /\ SendLength(j, b) = IF b =< Blocks THEN BlockUnits ELSE 1
    BY <1>2 DEF Sends, AnswerLength, SendLength
  <2>2. b \in 1 .. Blocks + 1
    BY <2>1
  <2> QED
    BY <1>1, <1>2, <2>1, <2>2, Bases
<1>3. CASE j = "D"
  <2>1. Sends(j) = 2 /\ AnswerLength(j) = 2 /\ SendLength(j, b) = 1 /\ Before(j, b) = b - 1
        /\ Before(j, b + 1) = (b + 1) - 1
    BY <1>3 DEF Sends, AnswerLength, SendLength, Before
  <2>2. b \in 1 .. 2
    BY <2>1
  <2> QED
    BY ONLY <1>1, <2>1, <2>2
<1> QED
  BY <1>2, <1>3 DEF Commands

\* The interrupt handler's part of a transfer.
LEMMA Transferred ==
  ASSUME NEW len \in 1 .. BlockUnits, DcdDataTransfer(len)
  PROVE  /\ active' = TRUE /\ nbytes' \in 1 .. PacketUnits
         /\ remain' \in 0 .. (BlockUnits - PacketUnits)
         /\ nbytes' + remain' = len /\ (remain' > 0 => nbytes' = PacketUnits)
BY Sizes DEF DcdDataTransfer, MinOf

\* A unit that Thread4 writes is one of the answer.
LEMMA UnitWritten ==
  ASSUME TypeOK, IndexFits, pc = "write"
  PROVE  /\ Before(job, blk) + index + 1 \in 1 .. Total
         /\ Before(job, blk) + index + 1 = Before(job, blk) + (index + 1)
         /\ index + 1 \in 1 .. BlockUnits /\ index + 1 =< SendLength(job, blk)
<1>1. job \in Commands /\ blk \in 1 .. Blocks + 2 /\ blk =< Sends(job) /\ index \in 0 .. BlockUnits
      /\ index < SendLength(job, blk)
  BY DEF TypeOK, IndexFits, Dumping
<1>2. blk \in Nat /\ BlockUnits \in Nat /\ Blocks \in Nat /\ Total \in Nat
  BY <1>1, Sizes
<1>3. SendLength(job, blk) \in 1 .. BlockUnits /\ Sends(job) \in 1 .. Blocks + 1
  BY <1>1, <1>2, SendFits
<1>4. blk \in 1 .. Sends(job)
  BY ONLY <1>1, <1>2, <1>3
<1>5. Before(job, blk) \in Nat /\ Before(job, blk) + SendLength(job, blk) =< Total
  BY <1>1, <1>4, SendsFollow
<1> QED
  BY ONLY <1>1, <1>2, <1>3, <1>5

-----------------------------------------------------------------------------
(* The buffer and the controller.                                          *)

\* The types, in three parts.
PlaceTypes ==
  /\ nbytes \in 0..PacketUnits /\ remain \in 0..(BlockUnits - PacketUnits)
  /\ index \in 0..BlockUnits /\ buf \in [1..BlockUnits -> Units]
  /\ pc \in Dumping \cup {"idle", "apply", "configure"}
  /\ blk \in 1..(Blocks + 2) /\ d \in 0..MaxDumps
  /\ got \in Seq(Units) /\ events \in 0..MaxEvents

WordTypes ==
  /\ dev \in {"Unattached", "Default", "Addressed", "Configured", "Suspended"}
  /\ setup \in {"address", "config", "none"} /\ req \in {"address", "config", "none"}
  /\ job \in Commands /\ cmd \in Commands \cup {"none"}
  /\ ack \in {"address", "config", "none"}
  /\ bus \in {"on", "suspended"} /\ host \in {"off", "reset", "addressed", "configured"}

FlagTypes ==
  /\ active \in BOOLEAN /\ inten \in BOOLEAN /\ dreset \in BOOLEAN /\ dsus \in BOOLEAN
  /\ ep \in BOOLEAN /\ disturbed \in BOOLEAN

\* The interrupt handler moves the rest of the buffer to its front.
LEMMA RestMoved ==
  ASSUME TypeOK, ContinueIN
  PROVE  /\ buf' \in [1 .. BlockUnits -> Units]
         /\ \A i \in 1 .. remain : buf'[i] = buf[PacketUnits + i]
<1>1. /\ buf \in [1 .. BlockUnits -> Units] /\ remain \in 0 .. (BlockUnits - PacketUnits)
      /\ buf' = [i \in 1..BlockUnits |-> IF i <= remain THEN buf[i + PacketUnits] ELSE buf[i]]
  BY DEF TypeOK, ContinueIN
<1>2. \A i \in 1 .. remain : i \in 1 .. BlockUnits /\ i + PacketUnits \in 1 .. BlockUnits /\ i + PacketUnits = PacketUnits + i
  BY <1>1, Sizes
<1>3. \A i \in 1 .. BlockUnits : i <= remain => i \in 1 .. remain
  BY <1>1, Sizes
<1> QED
  BY <1>1, <1>2, <1>3

\* What the controller sends of the buffer.
LEMMA PacketTaken ==
  ASSUME TypeOK, HostIn, NEW p, p = [i \in 1..nbytes |-> buf[i]]
  PROVE  /\ p \in Seq(Units) /\ Len(p) = nbytes /\ \A i \in 1 .. nbytes : p[i] = buf[i]
         /\ got' = got \o p /\ got' \in Seq(Units) /\ Len(got') = Len(got) + nbytes
         /\ \A i \in 1 .. Len(got) : got'[i] = got[i]
         /\ \A i \in 1 .. nbytes : got'[Len(got) + i] = buf[i]
<1>1. /\ nbytes \in 0 .. PacketUnits /\ buf \in [1 .. BlockUnits -> Units] /\ got \in Seq(Units)
      /\ got' = got \o p
  BY DEF TypeOK, HostIn
<1>2. nbytes \in Nat /\ \A i \in 1 .. nbytes : i \in 1 .. BlockUnits
  BY <1>1, Sizes
<1>3. /\ p \in Seq(Units) /\ Len(p) = nbytes /\ \A i \in 1 .. nbytes : p[i] = buf[i]
  <2>1. \A i \in 1 .. nbytes : buf[i] \in Units
    BY <1>1, <1>2
  <2> QED
    BY <1>2, <2>1
<1>4. /\ got \o p \in Seq(Units) /\ Len(got \o p) = Len(got) + Len(p)
      /\ \A i \in 1 .. Len(got) + Len(p) :
           (got \o p)[i] = IF i <= Len(got) THEN got[i] ELSE p[i - Len(got)]
  BY ONLY <1>1, <1>3, ConcatProperties
<1>5. Len(got) \in Nat
  BY <1>1
<1>6. \A i \in 1 .. Len(got) : i \in 1 .. Len(got) + nbytes /\ i <= Len(got)
  BY ONLY <1>2, <1>5
<1>7. \A i \in 1 .. nbytes : /\ Len(got) + i \in 1 .. Len(got) + nbytes /\ ~(Len(got) + i <= Len(got))
                             /\ (Len(got) + i) - Len(got) = i
  BY ONLY <1>2, <1>5
<1> QED
  BY <1>1, <1>3, <1>4, <1>6, <1>7

\* The send Thread4 is at is one of the answer's.
LEMMA SendNumber ==
  ASSUME TypeOK, IndexFits, pc \in Dumping
  PROVE  /\ job \in Commands /\ blk \in 1 .. Sends(job) /\ blk + 1 \in 1 .. Blocks + 2 /\ blk \in Nat
         /\ SendLength(job, blk) \in 1 .. BlockUnits /\ Sends(job) \in 1 .. Blocks + 1
<1>1. job \in Commands /\ blk \in 1 .. Blocks + 2 /\ blk =< Sends(job)
  BY DEF TypeOK, IndexFits
<1>2. blk \in Nat /\ Blocks \in Nat
  BY <1>1, Sizes
<1>3. SendLength(job, blk) \in 1 .. BlockUnits /\ Sends(job) \in 1 .. Blocks + 1
  BY <1>1, <1>2, SendFits
<1>4. blk \in 1 .. Sends(job) /\ blk + 1 \in 1 .. Blocks + 2
  BY ONLY <1>1, <1>2, <1>3
<1> QED
  BY <1>1, <1>2, <1>3, <1>4

\* The places and the buffer keep their types.
LEMMA PlacesKept ==
  ASSUME TypeOK, IndexFits, ControllerFits, Next
  PROVE  PlaceTypes'
<1>0. PlaceTypes
  BY DEF TypeOK, PlaceTypes
<1>1. CASE StartDump
  <2>1. pc' \in {"next", "send"} /\ blk' = 1 /\ d' = d + 1 /\ d < MaxDumps /\ UNCHANGED <<regs, hosts>>
    BY <1>1 DEF StartDump, BeginSend
  <2> QED
    BY <1>0, <2>1, Sizes DEF regs, hosts, PlaceTypes, Dumping
<1>2. CASE NextSend
  BY <1>0, <1>2 DEF NextSend, regs, hosts, PlaceTypes, Dumping
<1>3. CASE SendData
  <2>1. blk + 1 \in 1 .. Blocks + 2
    BY <1>3, SendNumber DEF SendData, Dumping
  <2>2. pc' \in {"wait", "idle", "next", "send"} /\ blk' \in {blk, blk + 1} /\ UNCHANGED <<regs, d, hosts>>
    BY <1>3 DEF SendData, AfterSend, BeginSend
  <2> QED
    BY <1>0, <2>1, <2>2 DEF regs, hosts, PlaceTypes, Dumping
<1>4. CASE WaitINReady
  BY <1>0, <1>4 DEF WaitINReady, regs, hosts, PlaceTypes, Dumping
<1>5. CASE Write
  <2>1. /\ pc = "write" /\ index' = index + 1 /\ pc' \in {"clear", "write"}
        /\ buf' = [buf EXCEPT ![index + 1] = [d |-> d, k |-> Before(job, blk) + index + 1]]
        /\ UNCHANGED <<nbytes, remain, blk, d, got, events>>
    BY <1>5 DEF Write, hosts
  <2>2. Before(job, blk) + index + 1 \in 1 .. Total /\ index + 1 \in 1 .. BlockUnits
    BY <2>1, UnitWritten
  <2>3. Before(job, blk) + index + 1 \in 0 .. Total /\ index' \in 0 .. BlockUnits
    <3> DEFINE k == Before(job, blk) + index + 1
    <3>1. k \in 1 .. Total
      BY <2>2
    <3> HIDE DEF k
    <3>2. k \in 0 .. Total
      BY <3>1, Sizes
    <3> QED
      BY <2>1, <2>2, <3>2, Sizes DEF k
  <2>4. [d |-> d, k |-> Before(job, blk) + index + 1] \in Units
    BY <1>0, <2>3 DEF PlaceTypes, Units
  <2>5. buf' \in [1 .. BlockUnits -> Units]
    BY <1>0, <2>1, <2>4 DEF PlaceTypes
  <2> QED
    BY <1>0, <2>1, <2>3, <2>5 DEF PlaceTypes, Dumping
<1>6. CASE ClearIN
  <2>1. /\ pc = "clear" /\ DcdDataTransfer(index) /\ index' = 0 /\ blk' = blk + 1
        /\ pc' \in {"idle", "next", "send"} /\ UNCHANGED <<buf, d, hosts>>
    BY <1>6 DEF ClearIN, AfterSend, BeginSend
  <2>2. index \in 1 .. BlockUnits /\ blk + 1 \in 1 .. Blocks + 2
    BY <2>1, SendNumber DEF IndexFits, Dumping
  <2>3. nbytes' \in 1 .. PacketUnits /\ remain' \in 0 .. (BlockUnits - PacketUnits)
    BY <2>1, <2>2, Transferred
  <2>4. nbytes' \in 0 .. PacketUnits /\ index' \in 0 .. BlockUnits
    BY <2>1, <2>3, Sizes
  <2> QED
    BY <1>0, <2>1, <2>2, <2>3, <2>4 DEF hosts, PlaceTypes, Dumping
<1>7. CASE TakeRequest \/ Apply
  BY <1>0, <1>7 DEF TakeRequest, Apply, regs, hosts, PlaceTypes, Dumping
<1>8. CASE ConfigureEndpoints
  <2>1. nbytes' = 0 /\ pc' = "idle" /\ UNCHANGED <<remain, buf, index, blk, d, hosts>>
    BY <1>8 DEF ConfigureEndpoints
  <2> QED
    BY <1>0, <2>1, Sizes DEF hosts, PlaceTypes
<1>9. CASE HandleIrq
  <2>1. UNCHANGED <<index, pc, blk, d, hosts>>
    BY <1>9 DEF HandleIrq
  <2>2. /\ nbytes' \in 0 .. PacketUnits
        /\ remain' \in 0 .. (BlockUnits - PacketUnits) /\ buf' \in [1 .. BlockUnits -> Units]
    <3>1. CASE ep /\ inten /\ remain > 0
      <4>1. ContinueIN /\ DcdDataTransfer(remain)
        BY <1>9, <3>1 DEF HandleIrq, ContinueIN
      <4>2. remain \in 1 .. BlockUnits
        BY <1>0, <3>1, Sizes DEF PlaceTypes
      <4>3. nbytes' \in 1 .. PacketUnits /\ remain' \in 0 .. (BlockUnits - PacketUnits)
        BY <4>1, <4>2, Transferred
      <4> QED
        BY <4>1, <4>3, RestMoved, Sizes
    <3>2. CASE ~(ep /\ inten /\ remain > 0)
      <4>1. UNCHANGED <<remain, buf>> /\ nbytes' \in {0, nbytes}
        BY <1>9, <3>2 DEF HandleIrq, HalReset
      <4> QED
        BY <1>0, <4>1, Sizes DEF PlaceTypes
    <3> QED
      BY <3>1, <3>2
  <2> QED
    BY <1>0, <2>1, <2>2 DEF hosts, PlaceTypes
<1>10. CASE HostReset
  <2>1. <<>> \in Seq(Units) /\ got' = <<>> /\ events' = events + 1 /\ events < MaxEvents
        /\ UNCHANGED <<regs, pc, blk, d>>
    BY <1>10 DEF HostReset
  <2> QED
    BY <1>0, <2>1, Sizes DEF regs, PlaceTypes
<1>11. CASE HostSuspend
  <2>1. events' = events + 1 /\ events < MaxEvents /\ UNCHANGED <<regs, pc, blk, d, got>>
    BY <1>11 DEF HostSuspend
  <2> QED
    BY <1>0, <2>1, Sizes DEF regs, PlaceTypes
<1>12. CASE HostResume \/ HostRequest \/ HostAck \/ HostCommand
  <2>1. UNCHANGED <<regs, pc, blk, d, got, events>>
    BY <1>12 DEF HostResume, HostRequest, HostAck, HostCommand, hosts
  <2> QED
    BY <1>0, <2>1 DEF regs, PlaceTypes
<1>13. CASE HostIn
  <2>1. UNCHANGED <<nbytes, remain, buf, index, pc, blk, d, events>>
    BY <1>13 DEF HostIn
  <2>2. got' \in Seq(Units)
    BY <1>13, PacketTaken
  <2> QED
    BY <1>0, <2>1, <2>2 DEF PlaceTypes
<1> QED
  BY <1>1, <1>2, <1>3, <1>4, <1>5, <1>6, <1>7, <1>8, <1>9, <1>10, <1>11, <1>12, <1>13
     DEF Next, Thread4, Host

\* The words keep their types.
LEMMA WordsKept ==
  ASSUME TypeOK, Next
  PROVE  WordTypes'
<1>0. WordTypes
  BY DEF TypeOK, WordTypes, Requests
<1>1. CASE StartDump \/ NextSend \/ SendData \/ WaitINReady \/ Write \/ ClearIN \/ ConfigureEndpoints
  <2>1. UNCHANGED <<dev, setup, req, ack, bus, host>>
    BY <1>1 DEF StartDump, NextSend, SendData, WaitINReady, Write, ClearIN, ConfigureEndpoints, hosts
  <2>2. (job' = job \/ (job' = cmd /\ cmd # "none")) /\ cmd' \in {cmd, "none"}
    BY <1>1 DEF StartDump, NextSend, SendData, WaitINReady, Write, ClearIN, ConfigureEndpoints
  <2> QED
    BY <1>0, <2>1, <2>2 DEF WordTypes
<1>2. CASE TakeRequest
  BY <1>0, <1>2 DEF TakeRequest, WordTypes, hosts
<1>3. CASE Apply
  BY <1>0, <1>3 DEF Apply, WordTypes, hosts
<1>4. CASE HandleIrq
  <2>1. DeviceStatus /\ UNCHANGED <<req, job, cmd, hosts>>
    BY <1>4 DEF HandleIrq
  <2>2. dev' \in {dev, "Default", "Suspended"} /\ setup' \in {setup, "none"} /\ ack' \in {ack, "none"}
    BY <2>1 DEF DeviceStatus
  <2> QED
    BY <1>0, <2>1, <2>2 DEF WordTypes, hosts
<1>5. CASE HostReset \/ HostSuspend \/ HostResume
  <2>1. /\ UNCHANGED <<dev, setup, req, job, cmd, ack>>
        /\ bus' \in {"on", "suspended"} /\ host' \in {host, "reset"}
    BY <1>5 DEF HostReset, HostSuspend, HostResume
  <2> QED
    BY <1>0, <2>1 DEF WordTypes
<1>6. CASE HostRequest \/ HostAck \/ HostCommand \/ HostIn
  <2>1. /\ UNCHANGED <<dev, req, job, bus>> /\ (cmd' = cmd \/ cmd' \in Commands)
        /\ setup' \in {setup, "address", "config"} /\ ack' \in {ack, "none"}
        /\ host' \in {host, "addressed", "configured"}
    BY <1>6 DEF HostRequest, HostAck, HostCommand, HostIn, hosts
  <2> QED
    BY <1>0, <2>1 DEF WordTypes
<1> QED
  BY <1>1, <1>2, <1>3, <1>4, <1>5, <1>6 DEF Next, Thread4, Host

\* The flags are flags.
LEMMA FlagsKept ==
  ASSUME TypeOK, Next
  PROVE  FlagTypes'
<1>0. FlagTypes
  BY DEF TypeOK, FlagTypes
<1>1. active' = active \/ active' = TRUE \/ active' = FALSE
  <2>1. CASE Thread4
    BY <2>1 DEF Thread4, StartDump, NextSend, SendData, WaitINReady, Write, ClearIN, TakeRequest, Apply,
       ConfigureEndpoints, DcdDataTransfer, regs
  <2>2. CASE HandleIrq
    BY <2>2 DEF HandleIrq, HalReset, ContinueIN, DcdDataTransfer
  <2>3. CASE Host
    BY <2>3 DEF Host, HostReset, HostSuspend, HostResume, HostRequest, HostAck, HostCommand, HostIn, regs
  <2> QED
    BY <2>1, <2>2, <2>3 DEF Next
<1>2. inten' = inten \/ inten' = TRUE \/ inten' = (inten /\ ~dreset)
  <2>1. CASE Thread4
    BY <2>1 DEF Thread4, StartDump, NextSend, SendData, WaitINReady, Write, ClearIN, TakeRequest, Apply,
       ConfigureEndpoints, regs
  <2>2. CASE HandleIrq
    BY <2>2 DEF HandleIrq
  <2>3. CASE Host
    BY <2>3 DEF Host, HostReset, HostSuspend, HostResume, HostRequest, HostAck, HostCommand, HostIn, regs
  <2> QED
    BY <2>1, <2>2, <2>3 DEF Next
<1>3. /\ ep' = ep \/ ep' = TRUE \/ ep' = (ep /\ ~inten /\ ~dreset)
      /\ dreset' = dreset \/ dreset' = TRUE \/ dreset' = FALSE
      /\ dsus' = dsus \/ dsus' = TRUE \/ dsus' = FALSE \/ dsus' = (dsus \/ bus = "suspended")
  <2>1. CASE Thread4
    <3>1. UNCHANGED irqs
      BY <2>1 DEF Thread4, StartDump, NextSend, SendData, WaitINReady, Write, ClearIN, TakeRequest, Apply,
         ConfigureEndpoints
    <3> QED
      BY <3>1 DEF irqs
  <2>2. CASE HandleIrq
    BY <2>2 DEF HandleIrq
  <2>3. CASE Host
    BY <2>3 DEF Host, HostReset, HostSuspend, HostResume, HostRequest, HostAck, HostCommand, HostIn, irqs
  <2> QED
    BY <2>1, <2>2, <2>3 DEF Next
<1>4. disturbed' = disturbed \/ disturbed' = TRUE \/ disturbed' = FALSE
  <2>1. CASE Thread4
    BY <2>1 DEF Thread4, StartDump, NextSend, SendData, WaitINReady, Write, ClearIN, TakeRequest, Apply,
       ConfigureEndpoints
  <2>2. CASE HandleIrq
    BY <2>2 DEF HandleIrq
  <2>3. CASE Host
    BY <2>3 DEF Host, HostReset, HostSuspend, HostResume, HostRequest, HostAck, HostCommand, HostIn
  <2> QED
    BY <2>1, <2>2, <2>3 DEF Next
<1>5. /\ active \in BOOLEAN /\ inten \in BOOLEAN /\ dreset \in BOOLEAN /\ dsus \in BOOLEAN
      /\ ep \in BOOLEAN /\ disturbed \in BOOLEAN
  BY <1>0 DEF FlagTypes
<1>6. active' \in BOOLEAN
  BY ONLY <1>1, <1>5
<1>7. inten' \in BOOLEAN
  BY ONLY <1>2, <1>5
<1>8. ep' \in BOOLEAN
  BY ONLY <1>3, <1>5
<1>9. dreset' \in BOOLEAN
  BY ONLY <1>3, <1>5
<1>10. dsus' \in BOOLEAN
  BY ONLY <1>3, <1>5
<1>11. disturbed' \in BOOLEAN
  BY ONLY <1>4, <1>5
<1> QED
  BY <1>6, <1>7, <1>8, <1>9, <1>10, <1>11 DEF FlagTypes

\* Every variable keeps its type.
LEMMA TypesKept ==
  ASSUME TypeOK, IndexFits, ControllerFits, Next
  PROVE  TypeOK'
<1>1. PlaceTypes' /\ WordTypes' /\ FlagTypes'
  BY PlacesKept, WordsKept, FlagsKept
<1> QED
  BY <1>1 DEF PlaceTypes, WordTypes, FlagTypes, TypeOK, Requests

\* The index of the buffer.
LEMMA IndexKept ==
  ASSUME TypeOK, IndexFits, Next
  PROVE  IndexFits'
<1>1. CASE StartDump
  <2>1. pc = "idle" /\ pc' \in {"next", "send"} /\ blk' = 1 /\ job' = cmd /\ cmd \in Commands /\ index' = index
    BY <1>1 DEF StartDump, BeginSend, regs, TypeOK
  <2>2. 1 =< Sends(cmd) /\ index = 0
    BY <2>1, SendFits, Sizes DEF IndexFits
  <2> QED
    BY <2>1, <2>2 DEF IndexFits
<1>2. CASE NextSend \/ SendData
  <2>1. pc \in Dumping /\ pc' \in {"wait", "send", "idle", "next"} /\ job' = job
    BY <1>2 DEF NextSend, SendData, AfterSend, BeginSend, Dumping
  <2>2. index' = 0
    BY <1>2 DEF NextSend, SendData, IndexFits, regs
  <2>3. blk' = blk \/ (blk' = blk + 1 /\ pc' = AfterSend)
    BY <1>2 DEF NextSend, SendData
  <2>4. pc' \in Dumping => blk' =< Sends(job)
    <3>1. blk \in 1 .. Sends(job) /\ Sends(job) \in Nat
      BY <2>1, SendNumber, Sizes
    <3>2. AfterSend \in Dumping => ~(blk >= Sends(job))
      BY DEF AfterSend, BeginSend, Dumping
    <3> QED
      BY <2>3, <3>1, <3>2
  <2> QED
    BY <2>1, <2>2, <2>4 DEF IndexFits
<1>3. CASE WaitINReady
  <2>1. pc = "wait" /\ index = 0 /\ pc' = "write" /\ UNCHANGED <<index, blk, job>>
    BY <1>3 DEF WaitINReady, regs, IndexFits
  <2>2. 0 < SendLength(job, blk) /\ blk =< Sends(job)
    BY <2>1, SendNumber, Sizes DEF Dumping
  <2> QED
    BY <2>1, <2>2 DEF IndexFits
<1>4. CASE Write
  <2>1. /\ pc = "write" /\ index' = index + 1 /\ UNCHANGED <<blk, job>>
        /\ pc' = (IF index + 1 = SendLength(job, blk) THEN "clear" ELSE "write")
        /\ index < SendLength(job, blk) /\ index \in Nat
    BY <1>4, Sizes DEF Write, IndexFits, TypeOK
  <2>2. SendLength(job, blk) \in 1 .. BlockUnits /\ blk =< Sends(job)
    BY <2>1, SendNumber DEF Dumping, IndexFits
  <2>3. index' < SendLength(job, blk) \/ index' = SendLength(job, blk)
    BY ONLY <2>1, <2>2, Sizes
  <2> QED
    BY <2>1, <2>2, <2>3 DEF IndexFits
<1>5. CASE ClearIN
  <2>1. pc = "clear" /\ pc' = AfterSend /\ blk' = blk + 1 /\ job' = job /\ index' = 0
    BY <1>5 DEF ClearIN
  <2>2. pc' \notin {"write", "clear"} /\ (pc' \in Dumping => ~(blk >= Sends(job)))
    BY <2>1 DEF AfterSend, BeginSend, Dumping
  <2>3. blk \in 1 .. Sends(job) /\ Sends(job) \in Nat
    BY <2>1, SendNumber, Sizes DEF Dumping
  <2> QED
    BY <2>1, <2>2, <2>3 DEF IndexFits
<1>6. CASE TakeRequest \/ Apply \/ ConfigureEndpoints
  BY <1>6 DEF TakeRequest, Apply, ConfigureEndpoints, regs, IndexFits, Dumping
<1>7. CASE HandleIrq \/ Host
  <2>1. UNCHANGED <<pc, blk, job, index>>
    BY <1>7 DEF HandleIrq, Host, HostReset, HostSuspend, HostResume, HostRequest, HostAck, HostCommand,
       HostIn, regs
  <2> QED
    BY <2>1 DEF IndexFits
<1> QED
  BY <1>1, <1>2, <1>3, <1>4, <1>5, <1>6, <1>7 DEF Next, Thread4

\* The interrupt of a packet is served before Thread4 goes on.
LEMMA ServedFirst ==
  ASSUME HostAgrees, ThreadRuns
  PROVE  ~ep /\ ~dreset /\ ~dsus
BY DEF HostAgrees, ThreadRuns, Interrupted

\* The controller's part of the buffer.
LEMMA ControllerKept ==
  ASSUME TypeOK, IndexFits, ControllerFits, HostAgrees, Next
  PROVE  ControllerFits'
<1>1. CASE StartDump \/ NextSend \/ SendData \/ TakeRequest \/ Apply
  <2>1. UNCHANGED <<active, nbytes, remain, ep>> /\ pc' \notin {"write", "clear"}
    BY <1>1 DEF StartDump, NextSend, SendData, AfterSend, BeginSend, TakeRequest, Apply, regs, irqs
  <2> QED
    BY <2>1 DEF ControllerFits
<1>2. CASE WaitINReady
  <2>1. ~active /\ ~ep
    BY <1>2, ServedFirst DEF WaitINReady
  <2> QED
    BY <1>2, <2>1 DEF WaitINReady, regs, irqs, ControllerFits
<1>3. CASE Write
  BY <1>3 DEF Write, irqs, ControllerFits
<1>4. CASE ClearIN
  <2>1. DcdDataTransfer(index) /\ pc' \in {"idle", "next", "send"} /\ ep' = ep /\ index \in 1 .. BlockUnits
    BY <1>4, SendNumber DEF ClearIN, AfterSend, BeginSend, irqs, IndexFits, Dumping
  <2>2. ~ep
    BY <1>4, ServedFirst DEF ClearIN
  <2>3. /\ active' = TRUE /\ nbytes' \in 1 .. PacketUnits
        /\ nbytes' + remain' = index /\ (remain' > 0 => nbytes' = PacketUnits)
    BY <2>1, Transferred
  <2> QED
    BY <2>1, <2>2, <2>3, Sizes DEF ControllerFits
<1>5. CASE ConfigureEndpoints
  <2>1. ~ep /\ active' = FALSE /\ ep' = ep /\ pc' = "idle"
    BY <1>5, ServedFirst DEF ConfigureEndpoints, irqs
  <2> QED
    BY <2>1 DEF ControllerFits
<1>6. CASE HandleIrq
  <2>1. ~ep'
    BY <1>6 DEF HandleIrq, HostAgrees
  <2>2. CASE ep /\ inten /\ remain > 0
    <3>1. DcdDataTransfer(remain) /\ remain \in 1 .. BlockUnits /\ pc' = pc
      BY <1>6, <2>2, Sizes DEF HandleIrq, ContinueIN, TypeOK
    <3>2. /\ active' = TRUE /\ nbytes' \in 1 .. PacketUnits
          /\ nbytes' + remain' = remain /\ (remain' > 0 => nbytes' = PacketUnits)
      BY <3>1, Transferred
    <3>3. pc \notin {"write", "clear"}
      BY <2>2 DEF ControllerFits
    <3> QED
      BY <2>1, <3>1, <3>2, <3>3, Sizes DEF ControllerFits
  <2>3. CASE ~(ep /\ inten /\ remain > 0)
    <3>1. pc' = pc /\ remain' = remain
          /\ (active' = FALSE \/ (active' = active /\ nbytes' = nbytes))
      BY <1>6, <2>3 DEF HandleIrq, HalReset
    <3> QED
      BY <2>1, <3>1 DEF ControllerFits
  <2> QED
    BY <2>2, <2>3
<1>7. CASE HostReset \/ HostSuspend \/ HostResume \/ HostRequest \/ HostAck \/ HostCommand
  <2>1. UNCHANGED <<active, nbytes, remain, ep, pc>>
    BY <1>7 DEF HostReset, HostSuspend, HostResume, HostRequest, HostAck, HostCommand, regs, irqs
  <2> QED
    BY <2>1 DEF ControllerFits
<1>8. CASE HostIn
  <2>1. active /\ active' = FALSE /\ ep' = TRUE /\ UNCHANGED <<nbytes, remain, pc>>
    BY <1>8 DEF HostIn
  <2> QED
    BY <2>1 DEF ControllerFits
<1> QED
  BY <1>1, <1>2, <1>3, <1>4, <1>5, <1>6, <1>7, <1>8 DEF Next, Thread4, Host

-----------------------------------------------------------------------------
(* The host and the device.                                                *)

\* The host's idea of the device is never ahead of it.
LEMMA HostKept ==
  ASSUME TypeOK, HostAgrees, Next
  PROVE  HostAgrees'
<1>0. /\ ack \in {"address", "config", "none"}
      /\ pc \in Dumping \cup {"idle", "apply", "configure"}
  BY DEF TypeOK, Requests
<1>1. CASE StartDump \/ NextSend \/ SendData \/ WaitINReady \/ Write
  <2>1. /\ UNCHANGED <<irqs, setup, req, ack, hosts, inten, active>>
        /\ pc' \notin {"apply", "configure"}
        /\ pc # "apply" /\ pc # "configure" /\ (pc = "idle" => cmd # "none")
    BY <1>1 DEF StartDump, NextSend, SendData, WaitINReady, Write, AfterSend, BeginSend, regs
  <2>2. ack # "config"
    BY <2>1 DEF HostAgrees
  <2> QED
    BY <2>1, <2>2 DEF HostAgrees, irqs, hosts
<1>2. CASE ClearIN
  <2>1. /\ UNCHANGED <<irqs, setup, ack, hosts, inten>> /\ pc = "clear"
        /\ pc' \notin {"apply", "configure"}
    BY <1>2 DEF ClearIN, AfterSend, BeginSend
  <2>2. ack # "config"
    BY <2>1 DEF HostAgrees
  <2> QED
    BY <2>1, <2>2 DEF HostAgrees, irqs, hosts
<1>3. CASE TakeRequest
  <2>1. /\ setup # "none" /\ setup' = "none" /\ ack' = setup /\ req' = setup /\ pc' = "apply"
        /\ UNCHANGED <<irqs, hosts, inten>>
    BY <1>3 DEF TakeRequest, regs
  <2> QED
    BY <2>1 DEF HostAgrees, irqs, hosts
<1>4. CASE Apply
  <2>1. /\ pc = "apply" /\ UNCHANGED <<irqs, hosts, inten, setup, ack>>
        /\ pc' = IF req = "address" THEN "idle" ELSE "configure"
    BY <1>4 DEF Apply, regs
  <2> QED
    BY <2>1 DEF HostAgrees, irqs, hosts
<1>5. CASE ConfigureEndpoints
  <2>1. /\ pc = "configure" /\ UNCHANGED <<irqs, hosts, setup, ack>>
        /\ active' = FALSE /\ inten' = TRUE /\ cmd' = "none" /\ pc' = "idle"
    BY <1>5 DEF ConfigureEndpoints
  <2> QED
    BY <2>1 DEF HostAgrees, irqs, hosts
<1>6. CASE HandleIrq
  <2>1. /\ dreset' = FALSE /\ UNCHANGED <<pc, req, cmd, hosts>> /\ (ep' => ep)
        /\ ack' = (IF dreset THEN "none" ELSE ack)
        /\ setup' = (IF dreset \/ dsus THEN "none" ELSE setup)
    BY <1>6 DEF HandleIrq, DeviceStatus
  <2>2. inten /\ ~dreset => inten'
    BY <1>6 DEF HandleIrq
  <2>3. ack' = "config" /\ ~active => ~active'
    <3>1. ack = "config" /\ ~dreset => ~ep
      BY DEF HostAgrees
    <3> QED
      BY <1>6, <2>1, <3>1 DEF HandleIrq
  <2>4. host = "configured" => ~dreset
    BY DEF HostAgrees
  <2> QED
    BY <2>1, <2>2, <2>3, <2>4 DEF HostAgrees, hosts
<1>7. CASE HostReset
  <2>1. /\ dreset' = TRUE /\ host' = "reset" /\ got' = <<>> /\ UNCHANGED <<regs, ep, setup, pc, req, ack, cmd>>
        /\ ~(ep /\ inten)
    BY <1>7 DEF HostReset
  <2>2. ~ep
    BY <2>1 DEF HostAgrees
  <2> QED
    BY <2>1, <2>2 DEF HostAgrees, regs
<1>8. CASE HostSuspend \/ HostResume
  <2>1. UNCHANGED <<regs, dreset, ep, setup, pc, req, ack, cmd, host, got>>
    BY <1>8 DEF HostSuspend, HostResume
  <2> QED
    BY <2>1 DEF HostAgrees, regs
<1>9. CASE HostRequest
  <2>1. /\ ack = "none" /\ host \in {"reset", "addressed"}
        /\ UNCHANGED <<regs, irqs, pc, req, ack, cmd, hosts>>
    BY <1>9 DEF HostRequest
  <2> QED
    BY <2>1 DEF HostAgrees, regs, irqs, hosts
<1>10. CASE HostAck
  <2>1. /\ ack # "none" /\ ack' = "none" /\ pc \notin {"apply", "configure"} /\ ~dreset
        /\ host' = (IF ack = "address" THEN "addressed" ELSE "configured")
        /\ UNCHANGED <<regs, irqs, setup, pc, req, cmd, got>>
    BY <1>10 DEF HostAck
  <2>2. setup = "none" /\ host # "configured" /\ ~ep
    BY <2>1 DEF HostAgrees
  <2>3. host' = "configured" => inten
    BY <1>0, <2>1 DEF HostAgrees
  <2> QED
    BY <2>1, <2>2, <2>3 DEF HostAgrees, regs, irqs
<1>11. CASE HostCommand
  <2>1. /\ host = "configured" /\ UNCHANGED <<regs, irqs, setup, pc, req, hosts, ack>>
    BY <1>11 DEF HostCommand
  <2> QED
    BY <2>1 DEF HostAgrees, regs, irqs, hosts
<1>12. CASE HostIn
  <2>1. host = "configured" /\ UNCHANGED <<inten, dreset, setup, pc, host, ack>>
    BY <1>12 DEF HostIn
  <2> QED
    BY <2>1 DEF HostAgrees
<1> QED
  BY <1>1, <1>2, <1>3, <1>4, <1>5, <1>6, <1>7, <1>8, <1>9, <1>10, <1>11, <1>12
     DEF Next, Thread4, Host

\* A dump starts on a device that the host has configured since its last reset.
LEMMA StartsAwake ==
  ASSUME TypeOK, HostAgrees, CommandIsNew, StartDump
  PROVE  host = "configured" /\ bus = "on" /\ ~dsus /\ dev = "Configured"
<1>1. ~ep /\ ~dreset /\ ~dsus /\ cmd # "none" /\ pc = "idle" /\ dev = "Configured"
  BY ServedFirst DEF StartDump
<1> QED
  BY <1>1 DEF CommandIsNew, TypeOK

\* No dump answers a command of a time before.
LEMMA CommandKept ==
  ASSUME TypeOK, HostAgrees, CommandIsNew, Next
  PROVE  CommandIsNew'
<1>1. CASE StartDump \/ NextSend \/ SendData \/ WaitINReady \/ Write \/ ClearIN
  <2>1. /\ UNCHANGED <<irqs, hosts, dev>> /\ pc # "configure" /\ (cmd' = "none" \/ cmd' = cmd)
    BY <1>1 DEF StartDump, NextSend, SendData, WaitINReady, Write, ClearIN
  <2> QED
    BY <2>1 DEF CommandIsNew, irqs, hosts
<1>2. CASE TakeRequest
  <2>1. /\ UNCHANGED <<irqs, hosts, dev, cmd>> /\ pc = "idle"
    BY <1>2 DEF TakeRequest
  <2> QED
    BY <2>1 DEF CommandIsNew, irqs, hosts
<1>3. CASE Apply
  <2>1. /\ UNCHANGED <<irqs, hosts, cmd>> /\ pc = "apply"
        /\ pc' = (IF req = "address" THEN "idle" ELSE "configure")
        /\ dev' = (IF req = "address" THEN "Addressed" ELSE "Configured")
    BY <1>3 DEF Apply
  <2>2. host # "configured"
    BY <2>1 DEF HostAgrees
  <2> QED
    BY <2>1, <2>2 DEF CommandIsNew, irqs, hosts
<1>4. CASE ConfigureEndpoints
  <2>1. UNCHANGED <<irqs, hosts, dev>> /\ cmd' = "none"
    BY <1>4 DEF ConfigureEndpoints
  <2> QED
    BY <2>1 DEF CommandIsNew, irqs, hosts
<1>5. CASE HandleIrq
  <2>1. /\ UNCHANGED <<pc, cmd, hosts>>
        /\ dev' = CASE dsus /\ bus = "suspended" -> "Suspended"
                    [] dreset /\ ~(dsus /\ bus = "suspended") -> "Default"
                    [] OTHER -> dev
    BY <1>5 DEF HandleIrq, DeviceStatus
  <2>2. /\ dsus /\ bus = "suspended" => dev' = "Suspended"
        /\ dreset => dev' \in {"Suspended", "Default"}
        /\ dev' \in {"Suspended", "Default", dev}
    BY <2>1
  <2> QED
    BY <2>1, <2>2 DEF CommandIsNew, hosts
<1>6. CASE HostReset
  BY <1>6 DEF HostReset, CommandIsNew
<1>7. CASE HostSuspend \/ HostResume
  BY <1>7 DEF HostSuspend, HostResume, CommandIsNew
<1>8. CASE HostRequest \/ HostIn
  <2>1. UNCHANGED <<dreset, dsus, dev, pc, cmd, host, bus>>
    BY <1>8 DEF HostRequest, HostIn, irqs, hosts
  <2> QED
    BY <2>1 DEF CommandIsNew
<1>9. CASE HostAck
  <2>1. ack # "none" /\ bus = "on" /\ UNCHANGED <<irqs, dev, pc, cmd, bus>>
    BY <1>9 DEF HostAck
  <2>2. host # "configured"
    BY <2>1 DEF HostAgrees
  <2> QED
    BY <2>1, <2>2 DEF CommandIsNew, irqs
<1>10. CASE HostCommand
  <2>1. host = "configured" /\ bus = "on" /\ UNCHANGED <<irqs, dev, pc, hosts>>
    BY <1>10 DEF HostCommand
  <2> QED
    BY <2>1 DEF CommandIsNew, irqs, hosts
<1> QED
  BY <1>1, <1>2, <1>3, <1>4, <1>5, <1>6, <1>7, <1>8, <1>9, <1>10 DEF Next, Thread4, Host

\* What a dump that nothing disturbs counts on stays.
LEMMA UndisturbedKept ==
  ASSUME TypeOK, HostAgrees, CommandIsNew, Undisturbed, Next
  PROVE  Undisturbed'
<1>1. CASE StartDump
  <2>1. UNCHANGED <<irqs, hosts, dev>>
    BY <1>1 DEF StartDump
  <2> QED
    BY <1>1, <2>1, StartsAwake DEF Undisturbed, irqs, hosts
<1>2. CASE NextSend \/ SendData \/ WaitINReady \/ Write \/ ClearIN \/ TakeRequest
  <2>1. UNCHANGED <<irqs, hosts, dev, d, disturbed>>
    BY <1>2 DEF NextSend, SendData, WaitINReady, Write, ClearIN, TakeRequest
  <2> QED
    BY <2>1 DEF Undisturbed, irqs, hosts
<1>3. CASE Apply
  <2>1. host # "configured" /\ UNCHANGED <<d, disturbed>>
    BY <1>3 DEF Apply, HostAgrees
  <2> QED
    BY <2>1 DEF Undisturbed
<1>4. CASE ConfigureEndpoints \/ HostReset \/ HostSuspend
  <2>1. disturbed' = TRUE
    BY <1>4 DEF ConfigureEndpoints, HostReset, HostSuspend
  <2> QED
    BY <2>1 DEF Undisturbed
<1>5. CASE HandleIrq
  <2>1. /\ UNCHANGED <<d, disturbed, hosts>> /\ dsus' = FALSE
        /\ dev' = CASE dsus /\ bus = "suspended" -> "Suspended"
                    [] dreset /\ ~(dsus /\ bus = "suspended") -> "Default"
                    [] OTHER -> dev
    BY <1>5 DEF HandleIrq, DeviceStatus
  <2>2. host = "configured" => ~dreset
    BY DEF HostAgrees
  <2>3. ~dreset /\ ~dsus => dev' = dev
    BY <2>1
  <2> QED
    BY <2>1, <2>2, <2>3 DEF Undisturbed, hosts
<1>6. CASE HostResume
  <2>1. bus = "suspended" /\ UNCHANGED <<d, disturbed>>
    BY <1>6 DEF HostResume
  <2> QED
    BY <2>1 DEF Undisturbed
<1>7. CASE HostAck
  <2>1. host # "configured" /\ UNCHANGED <<d, disturbed>>
    BY <1>7 DEF HostAck, HostAgrees
  <2> QED
    BY <2>1 DEF Undisturbed
<1>8. CASE HostRequest \/ HostCommand \/ HostIn
  <2>1. UNCHANGED <<d, disturbed, host, bus, dsus, dev>>
    BY <1>8 DEF HostRequest, HostCommand, HostIn, hosts, irqs
  <2> QED
    BY <2>1 DEF Undisturbed
<1> QED
  BY <1>1, <1>2, <1>3, <1>4, <1>5, <1>6, <1>7, <1>8 DEF Next, Thread4, Host

-----------------------------------------------------------------------------
(* The stream of units.                                                    *)

\* What has been taken and what is held are units.
LEMMA StreamTypes ==
  ASSUME TypeOK, ControllerFits
  PROVE  /\ Held \in Nat /\ \A i \in 1 .. Held : buf[Offset + i] \in Units
         /\ Taken \in Units /\ LastSent \in Units /\ LastSent.d \in Nat /\ LastSent.k \in Nat
         /\ Len(got) \in Nat /\ DOMAIN got = 1 .. Len(got)
         /\ \A i \in 1 .. Len(got) : got[i] \in Units /\ got[i].k \in Nat /\ got[i].d \in Nat
         /\ d \in Nat /\ nbytes \in Nat /\ remain \in Nat /\ index \in Nat
<1>1. /\ nbytes \in 0..PacketUnits /\ remain \in 0..(BlockUnits - PacketUnits) /\ got \in Seq(Units)
      /\ buf \in [1..BlockUnits -> Units] /\ d \in 0 .. MaxDumps /\ index \in 0 .. BlockUnits
  BY DEF TypeOK
<1>2. nbytes \in Nat /\ remain \in Nat /\ d \in Nat /\ index \in Nat
  BY <1>1, Sizes
<1>3. Held \in Nat
  BY <1>2 DEF Held
<1>4. \A i \in 1 .. Held : Offset + i \in 1 .. BlockUnits
  <2>1. CASE active
    BY <1>1, <1>2, <2>1, Sizes DEF Held, Offset, ControllerFits
  <2>2. CASE ~active
    <3>1. Held =< remain /\ Offset = PacketUnits
      BY <1>2, <2>2 DEF Held, Offset
    <3> QED
      BY <1>1, <1>2, <1>3, <3>1, Sizes
  <2> QED
    BY <2>1, <2>2
<1>5. \A i \in 1 .. Held : buf[Offset + i] \in Units
  BY <1>1, <1>4
<1>6. /\ Len(got) \in Nat /\ DOMAIN got = 1 .. Len(got) /\ \A i \in 1 .. Len(got) : got[i] \in Units
      /\ got # <<>> => Len(got) \in 1 .. Len(got)
  BY <1>1
<1>7. Unused \in Units
  <2>1. 0 \in 0 .. MaxDumps /\ 0 \in 0 .. Total
    BY Sizes
  <2> QED
    BY <2>1 DEF Unused, Units
<1>8. Taken \in Units
  BY <1>6, <1>7 DEF Taken
<1>9. LastSent \in Units
  <2>1. Held > 0 => Held \in 1 .. Held
    BY <1>3
  <2> QED
    BY <1>5, <1>8, <2>1 DEF LastSent
<1>10. \A u \in Units : u.d \in Nat /\ u.k \in Nat
  <2>1. \A u \in Units : u.d \in 0 .. MaxDumps /\ u.k \in 0 .. Total
    BY DEF Units
  <2>2. 0 .. MaxDumps \subseteq Nat /\ 0 .. Total \subseteq Nat
    BY Sizes
  <2> QED
    BY <2>1, <2>2
<1> QED
  BY <1>2, <1>3, <1>5, <1>6, <1>8, <1>9, <1>10

\* Nothing is sent or taken.
LEMMA StreamStays ==
  ASSUME HeldInOrder, TakenInOrder, UNCHANGED <<active, nbytes, remain, ep, buf, got>>
  PROVE  HeldInOrder' /\ TakenInOrder' /\ LastSent' = LastSent
<1>1. Held' = Held /\ Offset' = Offset /\ Taken' = Taken
  BY DEF Held, Offset, Taken
<1>2. HeldInOrder'
  BY <1>1 DEF HeldInOrder, Follows
<1>3. TakenInOrder'
  BY DEF TakenInOrder, StreamInOrder
<1> QED
  BY <1>1, <1>2, <1>3 DEF LastSent

\* Thread4 goes on with its dump, or ends it.
LEMMA ThreadStream ==
  ASSUME FitInv, AgreeInv, Stream, host = "configured",
         StartDump \/ NextSend \/ SendData \/ WaitINReady
  PROVE  Stream'
<1>0. HeldInOrder /\ TakenInOrder /\ WrittenInOrder /\ GoesOn /\ Undisturbed /\ IndexFits
  BY DEF Stream, AgreeInv, FitInv
<1>1. UNCHANGED <<active, nbytes, remain, ep, buf, got, index, host>>
  BY DEF StartDump, NextSend, SendData, WaitINReady, regs, irqs, hosts
<1>2. HeldInOrder' /\ TakenInOrder' /\ LastSent' = LastSent
  BY <1>0, <1>1, StreamStays
<1>3. LastSent.d \in Nat /\ d \in Nat
  BY StreamTypes DEF FitInv
<1>4. CASE StartDump
  <2>1. pc' \in {"next", "send"} /\ d' = d + 1 /\ blk' = 1
    BY <1>4 DEF StartDump, BeginSend
  <2>2. LastSent'.d < d' /\ LastSent'.d =< d'
    BY <1>0, <1>2, <1>3, <2>1 DEF GoesOn
  <2>3. WrittenInOrder'
    BY <2>1 DEF WrittenInOrder
  <2>4. GoesOn'
    BY <2>1, <2>2 DEF GoesOn, Dumping
  <2> QED
    BY <1>2, <2>3, <2>4 DEF Stream
<1>5. CASE NextSend
  <2>1. /\ pc = "next" /\ pc' = (IF dev = "Configured" THEN "send" ELSE "idle")
        /\ UNCHANGED <<blk, d, job, dev, disturbed>>
    BY <1>5 DEF NextSend
  <2>2. WrittenInOrder'
    BY <2>1 DEF WrittenInOrder
  <2>3. OnTrack' => OnTrack
    BY <2>1 DEF OnTrack
  <2>4. d' > 0 /\ ~disturbed' => pc' \in Dumping
    BY <1>0, <2>1 DEF Undisturbed, Dumping
  <2>5. GoesOn'
    BY <1>0, <1>2, <2>1, <2>3, <2>4 DEF GoesOn
  <2> QED
    BY <1>2, <2>2, <2>5 DEF Stream
<1>6. CASE SendData
  <2>1. /\ pc = "send" /\ UNCHANGED <<d, job, dev, disturbed>> /\ pc' \in {"wait", "idle", "next", "send"}
        /\ dev = "Configured" => pc' = "wait" /\ blk' = blk
        /\ dev # "Configured" => pc' # "wait"
    BY <1>6 DEF SendData, AfterSend, BeginSend
  <2>2. WrittenInOrder'
    BY <2>1 DEF WrittenInOrder
  <2>3. OnTrack' => OnTrack /\ blk' = blk
    BY <2>1 DEF OnTrack
  <2>4. d' > 0 /\ ~disturbed' => pc' \in Dumping
    BY <1>0, <2>1 DEF Undisturbed, Dumping
  <2>5. GoesOn'
    BY <1>0, <1>2, <2>1, <2>3, <2>4 DEF GoesOn
  <2> QED
    BY <1>2, <2>2, <2>5 DEF Stream
<1>7. CASE WaitINReady
  <2>1. pc = "wait" /\ pc' = "write" /\ UNCHANGED <<blk, d, job>> /\ index = 0
    BY <1>0, <1>7 DEF WaitINReady, IndexFits
  <2>2. WrittenInOrder'
    BY <1>1, <2>1 DEF WrittenInOrder
  <2>3. OnTrack /\ pc' \in Dumping
    BY <2>1 DEF OnTrack, Dumping
  <2>4. GoesOn'
    BY <1>0, <1>2, <2>1, <2>3 DEF GoesOn
  <2> QED
    BY <1>2, <2>2, <2>4 DEF Stream
<1> QED
  BY <1>4, <1>5, <1>6, <1>7

\* Thread4 writes a unit into the buffer, that the controller does not use then.
LEMMA WriteStream ==
  ASSUME FitInv, AgreeInv, Stream, host = "configured", Write
  PROVE  Stream'
<1>0. /\ HeldInOrder /\ TakenInOrder /\ WrittenInOrder /\ GoesOn
      /\ TypeOK /\ IndexFits /\ ControllerFits
  BY DEF Stream, FitInv
<1>1. /\ pc = "write" /\ index' = index + 1 /\ pc' \in {"clear", "write"}
      /\ buf' = [buf EXCEPT ![index + 1] = [d |-> d, k |-> Before(job, blk) + index + 1]]
      /\ UNCHANGED <<active, ep, blk, d, job, got, host>>
  BY DEF Write, irqs, hosts
<1>2. Held = 0 /\ Held' = 0
  BY <1>0, <1>1 DEF Held, ControllerFits
<1>3. Taken' = Taken /\ LastSent = Taken /\ LastSent' = Taken
  BY <1>1, <1>2 DEF LastSent, Taken
<1>4. HeldInOrder'
  BY <1>2 DEF HeldInOrder
<1>5. TakenInOrder'
  BY <1>0, <1>1 DEF TakenInOrder, StreamInOrder
<1>6. WrittenInOrder'
  <2>1. /\ Before(job, blk) + index + 1 = Before(job, blk) + (index + 1)
        /\ index + 1 \in 1 .. BlockUnits
    BY <1>0, <1>1, UnitWritten
  <2>2. /\ buf' = [buf EXCEPT ![index + 1] = [d |-> d, k |-> Before(job, blk) + (index + 1)]]
        /\ buf \in [1 .. BlockUnits -> Units] /\ index \in 0 .. BlockUnits
    BY <1>0, <1>1, <2>1 DEF TypeOK
  <2>3. \A i \in 1 .. index + 1 : i \in 1 .. BlockUnits /\ (i = index + 1 \/ i \in 1 .. index)
    BY <2>1, <2>2, Sizes
  <2>4. \A i \in 1 .. index + 1 : buf'[i] = [d |-> d, k |-> Before(job, blk) + i]
    BY <1>0, <1>1, <2>2, <2>3 DEF WrittenInOrder
  <2> QED
    BY <1>1, <2>4 DEF WrittenInOrder
<1>7. GoesOn'
  <2>1. OnTrack /\ pc' \in Dumping
    BY <1>1 DEF OnTrack, Dumping
  <2> QED
    BY <1>0, <1>1, <1>3, <2>1 DEF GoesOn
<1> QED
  BY <1>4, <1>5, <1>6, <1>7 DEF Stream

\* Thread4 hands the buffer to the controller.
LEMMA ClearStream ==
  ASSUME FitInv, AgreeInv, Stream, host = "configured", ClearIN
  PROVE  Stream'
<1>0. /\ HeldInOrder /\ TakenInOrder /\ WrittenInOrder /\ GoesOn
      /\ TypeOK /\ IndexFits /\ ControllerFits /\ HostAgrees
  BY DEF Stream, FitInv, AgreeInv
<1>1. /\ pc = "clear" /\ DcdDataTransfer(index) /\ blk' = blk + 1
      /\ pc' = AfterSend
      /\ UNCHANGED <<buf, d, job, got, ep>> /\ ~ep
  <2>1. ~ep
    BY <1>0, ServedFirst DEF ClearIN
  <2> QED
    BY <2>1 DEF ClearIN, irqs, hosts
<1>2. /\ index = SendLength(job, blk) /\ index \in 1 .. BlockUnits /\ blk \in 1 .. Sends(job)
      /\ Before(job, blk) \in Nat /\ d \in Nat /\ BlockUnits \in Nat /\ Sends(job) \in Nat
      /\ job \in Commands
  <2>1. index = SendLength(job, blk)
    BY <1>0, <1>1 DEF IndexFits
  <2>2. blk \in 1 .. Sends(job) /\ job \in Commands /\ SendLength(job, blk) \in 1 .. BlockUnits /\ Sends(job) \in Nat
    BY <1>0, <1>1, SendNumber, Sizes DEF Dumping
  <2> QED
    BY <1>0, <2>1, <2>2, SendsFollow, StreamTypes, Sizes
<1>3. active' = TRUE /\ nbytes' + remain' = index
  BY <1>1, <1>2, Transferred
<1>4. Held' = index /\ Offset' = 0 /\ Taken' = Taken
  BY <1>1, <1>3 DEF Held, Offset, Taken
<1>5. LastSent = Taken /\ Taken.d \in Nat /\ Taken.k \in Nat
  <2>1. Held = 0
    BY <1>0, <1>1 DEF Held, ControllerFits
  <2>2. LastSent = Taken
    BY <2>1 DEF LastSent
  <2> QED
    BY <1>0, <2>2, StreamTypes
<1>6. \A i \in 1 .. index : buf[i] = [d |-> d, k |-> Before(job, blk) + i] /\ 0 + i = i
  BY <1>0, <1>1, <1>2 DEF WrittenInOrder
<1>7. /\ 1 \in 1 .. index /\ index \in 1 .. index /\ 0 + 1 = 1 /\ 0 + index = index /\ index > 0
  BY <1>2
<1>8. buf[1].d = d /\ buf[1].k = Before(job, blk) + 1
  <2>1. buf[1] = [d |-> d, k |-> Before(job, blk) + 1]
    BY ONLY <1>6, <1>7
  <2> QED
    BY ONLY <2>1
<1>9. HeldInOrder'
  <2>1. \A i \in 1 .. index : buf[i] = [d |-> buf[1].d, k |-> buf[1].k + (i - 1)]
    <3>1. \A i \in 1 .. index : Before(job, blk) + i = Before(job, blk) + 1 + (i - 1)
      BY ONLY <1>2
    <3> QED
      BY <1>6, <1>8, <3>1
  <2>2. Follows(Taken, buf[1])
    <3>1. IF blk = 1 THEN Taken.d < d ELSE Taken = [d |-> d, k |-> Before(job, blk)]
      BY <1>0, <1>1, <1>5 DEF GoesOn, OnTrack
    <3>2. CASE blk = 1
      <4>1. Before(job, blk) = 0
        BY <1>2, <3>2, SendsFollow
      <4> QED
        BY <1>2, <1>5, <1>8, <3>1, <3>2, <4>1 DEF Follows
    <3>3. CASE blk # 1
      BY <1>8, <3>1, <3>3 DEF Follows
    <3> QED
      BY <3>2, <3>3
  <2>3. Follows(Taken, buf[1])'
    BY <1>1, <1>4, <2>2 DEF Follows
  <2> QED
    BY <1>1, <1>4, <1>6, <1>7, <2>1, <2>3 DEF HeldInOrder
<1>10. TakenInOrder'
  BY <1>0, <1>1 DEF TakenInOrder, StreamInOrder
<1>11. WrittenInOrder'
  BY <1>1 DEF WrittenInOrder, AfterSend, BeginSend
<1>12. LastSent' = [d |-> d, k |-> Before(job, blk) + index]
  BY <1>1, <1>4, <1>6, <1>7 DEF LastSent
<1>13. GoesOn'
  <2>1. LastSent'.d =< d'
    BY <1>1, <1>2, <1>12
  <2>2. CASE blk >= Sends(job)
    <3>1. pc' = "idle" /\ blk = Sends(job)
      BY <1>1, <1>2, <2>2 DEF AfterSend
    <3>2. Before(job, blk) + index = AnswerLength(job)
      BY <1>2, <3>1, SendsFollow
    <3> QED
      BY <1>1, <1>12, <2>1, <3>1, <3>2 DEF GoesOn, OnTrack
  <2>3. CASE ~(blk >= Sends(job))
    <3>1. pc' \in {"next", "send"} /\ blk < Sends(job) /\ blk' = blk + 1 /\ blk' # 1
      BY <1>1, <1>2, <2>3 DEF AfterSend, BeginSend
    <3>2. Before(job, blk + 1) = Before(job, blk) + index
      BY <1>2, <3>1, SendsFollow
    <3>3. LastSent' = [d |-> d', k |-> Before(job', blk')]
      BY <1>1, <1>12, <3>1, <3>2
    <3>4. pc' \in Dumping
      BY <3>1 DEF Dumping
    <3> QED
      BY <1>1, <2>1, <3>1, <3>3, <3>4 DEF GoesOn
  <2> QED
    BY <2>2, <2>3
<1> QED
  BY <1>9, <1>10, <1>11, <1>13 DEF Stream

\* The interrupt handler hands the rest of the buffer to the controller.
LEMMA IrqStream ==
  ASSUME FitInv, AgreeInv, Stream, host = "configured", HandleIrq
  PROVE  Stream'
<1>0. /\ HeldInOrder /\ TakenInOrder /\ WrittenInOrder /\ GoesOn
      /\ TypeOK /\ IndexFits /\ ControllerFits /\ HostAgrees
  BY DEF Stream, FitInv, AgreeInv
<1>1. inten /\ ~dreset /\ (ep => ~active) /\ (ep => pc \notin {"write", "clear"})
  BY <1>0 DEF HostAgrees, ControllerFits
<1>2. /\ UNCHANGED <<index, pc, blk, d, job, got, host, disturbed>> /\ ~ep'
      /\ dev' \in {dev, "Suspended"}
  BY <1>1 DEF HandleIrq, hosts, DeviceStatus
<1>3. HeldInOrder' /\ TakenInOrder' /\ LastSent' = LastSent /\ WrittenInOrder'
  <2>1. Taken' = Taken /\ TakenInOrder'
    BY <1>0, <1>2 DEF Taken, TakenInOrder, StreamInOrder
  <2>2. CASE ep /\ remain > 0
    <3>1. ContinueIN /\ DcdDataTransfer(remain)
      BY <1>1, <2>2 DEF HandleIrq, ContinueIN
    <3>2. /\ remain \in 1 .. BlockUnits
      BY <1>0, <2>2, Sizes DEF TypeOK
    <3>3. active' = TRUE /\ nbytes' + remain' = remain
      BY <3>1, <3>2, Transferred
    <3>4. Held = remain /\ Offset = PacketUnits /\ Held' = remain /\ Offset' = 0
      BY <1>1, <2>2, <3>3 DEF Held, Offset
    <3>5. \A i \in 1 .. remain : buf'[i] = buf[PacketUnits + i] /\ 0 + i = i
      BY <1>0, <3>1, <3>2, RestMoved
    <3>6. 1 \in 1 .. remain /\ remain \in 1 .. remain /\ 0 + 1 = 1
      BY <3>2, Sizes
    <3>7. \A i \in 1 .. Held' : buf'[Offset' + i] = buf[Offset + i]
      BY <3>4, <3>5
    <3>8. buf'[Offset' + 1] = buf[Offset + 1] /\ buf'[Offset' + Held'] = buf[Offset + Held]
      BY <3>4, <3>6, <3>7
    <3>9. HeldInOrder'
      BY <1>0, <2>1, <3>4, <3>7, <3>8 DEF HeldInOrder, Follows
    <3>10. LastSent' = LastSent
      BY <2>1, <3>4, <3>8 DEF LastSent
    <3>11. WrittenInOrder'
      BY <1>1, <1>2, <2>2 DEF WrittenInOrder
    <3> QED
      BY <2>1, <3>9, <3>10, <3>11
  <2>3. CASE ~(ep /\ remain > 0)
    <3>1. UNCHANGED <<active, nbytes, remain, buf>>
      BY <1>1, <2>3 DEF HandleIrq
    <3>2. Held' = Held /\ (Held > 0 => Offset' = Offset)
      <4>1. CASE active
        BY <3>1, <4>1 DEF Held, Offset
      <4>2. CASE ~active /\ ~ep
        BY <1>2, <3>1, <4>2 DEF Held, Offset
      <4>3. CASE ~active /\ ep
        <5>1. remain = 0
          BY <1>0, <2>3, <4>3, StreamTypes
        <5> QED
          BY <1>2, <3>1, <4>3, <5>1 DEF Held, Offset
      <4> QED
        BY <4>1, <4>2, <4>3
    <3>3. LastSent' = LastSent
      BY <2>1, <3>1, <3>2 DEF LastSent
    <3>4. Offset' = Offset
      BY <3>1 DEF Offset
    <3>5. HeldInOrder'
      BY <1>0, <2>1, <3>1, <3>2, <3>4 DEF HeldInOrder, Follows
    <3>6. WrittenInOrder'
      BY <1>0, <1>2, <3>1 DEF WrittenInOrder
    <3> QED
      BY <2>1, <3>3, <3>5, <3>6
  <2> QED
    BY <2>2, <2>3
<1>4. GoesOn'
  <2>1. OnTrack' => OnTrack
    BY <1>2 DEF OnTrack
  <2> QED
    BY <1>0, <1>2, <1>3, <2>1 DEF GoesOn
<1> QED
  BY <1>3, <1>4 DEF Stream

\* The host takes a packet.
LEMMA InStream ==
  ASSUME FitInv, AgreeInv, Stream, HostIn
  PROVE  Stream'
<1>0. /\ HeldInOrder /\ TakenInOrder /\ WrittenInOrder /\ GoesOn
      /\ TypeOK /\ IndexFits /\ ControllerFits
  BY DEF Stream, FitInv, HostIn
<1>1. /\ active /\ active' = FALSE /\ ep' = TRUE
      /\ UNCHANGED <<dev, nbytes, remain, buf, index, pc, blk, d, job, host, disturbed>>
  BY DEF HostIn
<1>2. /\ nbytes \in Nat /\ remain \in Nat /\ 1 =< nbytes /\ (remain > 0 => nbytes = PacketUnits)
      /\ PacketUnits \in Nat
  BY <1>0, <1>1, StreamTypes, Sizes DEF ControllerFits
<1>3. Held = nbytes + remain /\ Offset = 0 /\ Held' = remain /\ Offset' = PacketUnits
  BY <1>1 DEF Held, Offset
<1>4. /\ \A i \in 1 .. nbytes + remain : buf[i] = [d |-> buf[1].d, k |-> buf[1].k + (i - 1)]
      /\ Follows(Taken, buf[1]) /\ buf[1] \in Units /\ buf[1].d \in Nat /\ buf[1].k \in Nat
  <2>1. \A i \in 1 .. nbytes + remain : 0 + i = i
    BY <1>2
  <2>2. 1 \in 1 .. nbytes + remain /\ nbytes + remain > 0 /\ 0 + 1 = 1
    BY <1>2
  <2>3. buf[1] \in Units
    BY <1>0, <1>3, <2>2, StreamTypes
  <2>4. buf[1].d \in Nat /\ buf[1].k \in Nat
    <3>1. buf[1].d \in 0 .. MaxDumps /\ buf[1].k \in 0 .. Total
      BY <2>3 DEF Units
    <3> QED
      BY <3>1, Sizes
  <2>5. \A i \in 1 .. nbytes + remain : buf[i] = [d |-> buf[1].d, k |-> buf[1].k + (i - 1)]
    BY <1>0, <1>3, <2>1, <2>2 DEF HeldInOrder
  <2>6. Follows(Taken, buf[1])
    BY <1>0, <1>3, <2>2 DEF HeldInOrder
  <2> QED
    BY <2>3, <2>4, <2>5, <2>6
<1>5. /\ Len(got') = Len(got) + nbytes /\ got' \in Seq(Units)
      /\ \A i \in 1 .. Len(got) : got'[i] = got[i]
      /\ \A i \in 1 .. nbytes : got'[Len(got) + i] = buf[i]
      /\ Len(got) \in Nat
  BY <1>0, PacketTaken, StreamTypes
<1>6. /\ nbytes \in 1 .. nbytes + remain /\ nbytes \in 1 .. nbytes
      /\ buf[nbytes] = [d |-> buf[1].d, k |-> buf[1].k + (nbytes - 1)]
  BY <1>2, <1>4
<1>7. Taken' = buf[nbytes]
  <2>1. got' # <<>>
    BY <1>2, <1>5
  <2>2. got'[Len(got')] = buf[nbytes]
    BY <1>5, <1>6
  <2> QED
    BY <2>1, <2>2 DEF Taken
<1>8. HeldInOrder'
  <2>1. CASE remain = 0
    BY <1>1, <1>3, <2>1 DEF HeldInOrder
  <2>2. CASE remain > 0
    <3>1. nbytes = PacketUnits
      BY <1>2, <2>2
    <3>2. /\ \A i \in 1 .. remain : PacketUnits + i \in 1 .. nbytes + remain
          /\ 1 \in 1 .. remain
      BY ONLY <1>2, <2>2, <3>1
    <3> DEFINE e == buf[1].d
               f == buf[1].k
    <3>3. \A i \in 1 .. nbytes + remain : buf[i] = [d |-> e, k |-> f + (i - 1)]
      BY <1>4
    <3>4. e \in Nat /\ f \in Nat
      BY <1>4
    <3> HIDE DEF e, f
    <3>5. ASSUME NEW i \in 1 .. remain
          PROVE  buf[PacketUnits + i] = [d |-> e, k |-> f + (PacketUnits + i - 1)]
      <4>1. PacketUnits + i \in 1 .. nbytes + remain
        BY <3>2
      <4>2. PICK j : j = PacketUnits + i
        OBVIOUS
      <4>3. buf[j] = [d |-> e, k |-> f + (j - 1)]
        BY <3>3, <4>1, <4>2
      <4>4. f + (j - 1) = f + (PacketUnits + i - 1)
        BY <1>2, <3>4, <4>2
      <4> QED
        BY <4>2, <4>3, <4>4
    <3>6. buf[nbytes] = [d |-> e, k |-> f + (PacketUnits - 1)]
      BY <1>6, <3>1 DEF e, f
    <3>7. buf[PacketUnits + 1] = [d |-> e, k |-> f + (PacketUnits + 1 - 1)]
      BY <3>2, <3>5
    <3>8. buf[PacketUnits + 1].d = e /\ buf[PacketUnits + 1].k = f + PacketUnits
      <4>1. f + (PacketUnits + 1 - 1) = f + PacketUnits
        BY <1>2, <3>4
      <4> QED
        BY <3>7, <4>1
    <3>9. \A i \in 1 .. remain :
            buf[PacketUnits + i] = [d |-> buf[PacketUnits + 1].d, k |-> buf[PacketUnits + 1].k + (i - 1)]
      <4>1. \A i \in 1 .. remain : f + (PacketUnits + i - 1) = f + PacketUnits + (i - 1)
        BY <1>2, <3>4
      <4> QED
        BY <3>5, <3>8, <4>1
    <3>10. Follows(buf[nbytes], buf[PacketUnits + 1])
      <4>1. buf[nbytes].d = e /\ buf[nbytes].k = f + (PacketUnits - 1)
        BY <3>6
      <4>2. f + PacketUnits = f + (PacketUnits - 1) + 1
        BY <1>2, <3>4
      <4> QED
        BY <3>8, <4>1, <4>2 DEF Follows
    <3> QED
      BY <1>1, <1>3, <1>7, <3>9, <3>10 DEF HeldInOrder, Follows
  <2> QED
    BY <1>2, <2>1, <2>2
<1>9. TakenInOrder'
  <2>1. /\ DOMAIN got = 1 .. Len(got) /\ DOMAIN got' = 1 .. Len(got) + nbytes
    BY <1>0, <1>5, StreamTypes
  <2>2. ASSUME NEW j \in 1 .. Len(got) + nbytes
        PROVE  /\ \/ got'[j].k = 1 /\ (j > 1 => got'[j].d > got'[j - 1].d)
                  \/ j > 1 /\ got'[j].d = got'[j - 1].d /\ got'[j].k = got'[j - 1].k + 1
               /\ got'[j].k =< j
    <3>1. CASE j =< Len(got)
      <4>1. j \in 1 .. Len(got) /\ (j > 1 => j - 1 \in 1 .. Len(got))
        BY <1>5, <3>1
      <4>2. got'[j] = got[j] /\ (j > 1 => got'[j - 1] = got[j - 1])
        BY <1>5, <4>1
      <4> QED
        BY <1>0, <2>1, <4>1, <4>2 DEF TakenInOrder, StreamInOrder
    <3>2. CASE j = Len(got) + 1
      <4>1. 1 \in 1 .. nbytes /\ got'[j] = buf[1]
        BY <1>2, <1>5, <3>2
      <4>2. CASE got = <<>>
        <5>1. Taken = Unused /\ Len(got) = 0 /\ j = 1
          BY <3>2, <4>2 DEF Taken
        <5>2. Unused.k = 0
          BY DEF Unused
        <5>3. buf[1].k = 1
          BY <1>4, <5>1, <5>2 DEF Follows
        <5> QED
          BY <4>1, <5>1, <5>3
      <4>3. CASE got # <<>>
        <5>1. Len(got) \in 1 .. Len(got) /\ Taken = got[Len(got)] /\ j > 1 /\ j - 1 = Len(got)
          BY <1>0, <1>5, <3>2, <4>3 DEF Taken, TypeOK
        <5>2. got'[j - 1] = Taken
          BY <1>5, <5>1
        <5>3. Taken.k =< Len(got) /\ Taken.k \in Nat
          BY <1>0, <2>1, <5>1, StreamTypes DEF TakenInOrder
        <5>4. buf[1].k =< j
          BY <1>4, <1>5, <3>2, <5>1, <5>3 DEF Follows
        <5> QED
          BY <1>4, <4>1, <5>1, <5>2, <5>4 DEF Follows
      <4> QED
        BY <4>2, <4>3
    <3>3. CASE j > Len(got) + 1
      <4>1. PICK i \in 2 .. nbytes : j = Len(got) + i
        <5>1. j - Len(got) \in 2 .. nbytes /\ j = Len(got) + (j - Len(got))
          BY <1>2, <1>5, <3>3
        <5> QED
          BY <5>1
      <4>2. /\ i \in 1 .. nbytes /\ i - 1 \in 1 .. nbytes /\ j - 1 = Len(got) + (i - 1) /\ j > 1
            /\ i \in 1 .. nbytes + remain /\ i - 1 \in 1 .. nbytes + remain
        BY <1>2, <1>5, <4>1
      <4>3. got'[j] = buf[i] /\ got'[j - 1] = buf[i - 1]
        BY <1>5, <4>1, <4>2
      <4>4. /\ buf[i] = [d |-> buf[1].d, k |-> buf[1].k + (i - 1)]
            /\ buf[i - 1] = [d |-> buf[1].d, k |-> buf[1].k + (i - 1 - 1)]
        BY <1>4, <4>2
      <4> DEFINE f == buf[1].k
      <4>5. /\ got'[j].d = buf[1].d /\ got'[j - 1].d = buf[1].d
            /\ got'[j].k = f + (i - 1) /\ got'[j - 1].k = f + (i - 1 - 1)
        BY <4>3, <4>4
      <4>6. f \in Nat /\ f =< Len(got) + 1
        <5>1. Taken.k \in Nat /\ Taken.k =< Len(got)
          <6>1. CASE got = <<>>
            BY <1>5, <6>1 DEF Taken, Unused
          <6>2. CASE got # <<>>
            <7>1. Len(got) \in 1 .. Len(got) /\ Taken = got[Len(got)]
              BY <1>0, <1>5, <6>2 DEF Taken, TypeOK
            <7> QED
              BY <1>0, <2>1, <7>1, StreamTypes DEF TakenInOrder
          <6> QED
            BY <6>1, <6>2
        <5> QED
          BY <1>4, <1>5, <5>1 DEF Follows
      <4> HIDE DEF f
      <4>7. f + (i - 1) = f + (i - 1 - 1) + 1 /\ f + (i - 1) =< j
        BY ONLY <1>2, <1>5, <4>1, <4>6
      <4> QED
        BY <4>2, <4>5, <4>7
    <3> QED
      BY <1>5, <3>1, <3>2, <3>3
  <2>3. /\ \A j \in DOMAIN got' :
             \/ got'[j].k = 1 /\ (j > 1 => got'[j].d > got'[j - 1].d)
             \/ j > 1 /\ got'[j].d = got'[j - 1].d /\ got'[j].k = got'[j - 1].k + 1
        /\ \A j \in DOMAIN got' : got'[j].k =< j
    BY <2>1, <2>2
  <2> QED
    BY <2>3 DEF TakenInOrder, StreamInOrder
<1>10. LastSent' = LastSent
  <2>1. CASE remain > 0
    BY <1>1, <1>2, <1>3, <2>1 DEF LastSent
  <2>2. CASE remain = 0
    <3>1. Held = nbytes /\ Held > 0 /\ Offset + Held = nbytes /\ ~(Held' > 0)
      BY <1>2, <1>3, <2>2
    <3> QED
      BY <1>7, <3>1 DEF LastSent
  <2> QED
    BY <1>2, <2>1, <2>2
<1>11. WrittenInOrder' /\ GoesOn'
  <2>1. WrittenInOrder'
    BY <1>0, <1>1 DEF WrittenInOrder
  <2>2. OnTrack' => OnTrack
    BY <1>1 DEF OnTrack
  <2>3. GoesOn'
    BY <1>0, <1>1, <1>10, <2>2 DEF GoesOn
  <2> QED
    BY <2>1, <2>3
<1> QED
  BY <1>8, <1>9, <1>11 DEF Stream

\* The host does something else.
LEMMA HostStream ==
  ASSUME FitInv, AgreeInv, Stream,
         HostReset \/ HostSuspend \/ HostResume \/ HostRequest \/ HostAck \/ HostCommand
  PROVE  Stream'
<1>0. TypeOK /\ IndexFits /\ ControllerFits /\ HostAgrees /\ Undisturbed
  BY DEF FitInv, AgreeInv
<1>1. CASE HostReset
  BY <1>1 DEF HostReset, Stream
<1>2. CASE HostRequest
  BY <1>2 DEF HostRequest, Stream, hosts
<1>3. CASE HostAck
  <2>1. /\ ack # "none" /\ pc \notin {"apply", "configure"}
        /\ host' = (IF ack = "address" THEN "addressed" ELSE "configured")
        /\ UNCHANGED <<regs, ep, pc, blk, d, job, dev, disturbed, got>>
    BY <1>3 DEF HostAck, irqs
  <2>2. host # "configured" /\ got = <<>> /\ ~ep
    BY <1>0, <2>1 DEF HostAgrees
  <2> SUFFICES ASSUME host' = "configured" PROVE Stream'
    BY DEF Stream
  <2>3. ack = "config"
    BY <1>0, <2>1 DEF TypeOK, Requests
  <2>4. pc = "idle" /\ ~active
    BY <1>0, <2>1, <2>3 DEF HostAgrees
  <2>5. Held' = 0 /\ Taken' = Unused
    BY <2>1, <2>2, <2>4 DEF Held, Taken, regs
  <2>6. LastSent' = Unused
    BY <2>5 DEF LastSent
  <2>7. HeldInOrder'
    BY <2>5 DEF HeldInOrder
  <2>8. TakenInOrder'
    <3>1. DOMAIN got' = {}
      BY <2>1, <2>2
    <3> QED
      BY <3>1 DEF TakenInOrder, StreamInOrder
  <2>9. WrittenInOrder'
    BY <2>1, <2>4 DEF WrittenInOrder
  <2>10. GoesOn'
    <3>1. ~OnTrack' /\ ~(d > 0 /\ ~disturbed)
      BY <1>0, <2>1, <2>2, <2>4 DEF OnTrack, Undisturbed
    <3>2. LastSent'.d =< d
      BY <1>0, <2>6, StreamTypes DEF Unused
    <3> QED
      BY <2>1, <3>1, <3>2 DEF GoesOn
  <2> QED
    BY <2>7, <2>8, <2>9, <2>10 DEF Stream
<1>4. CASE HostSuspend \/ HostResume \/ HostCommand
  <2>1. /\ UNCHANGED <<regs, ep, pc, blk, d, job, dev, host, got>> /\ (~disturbed' => ~disturbed)
    BY <1>4 DEF HostSuspend, HostResume, HostCommand, irqs, hosts
  <2> SUFFICES ASSUME host = "configured" PROVE Stream'
    BY <2>1 DEF Stream
  <2>2. HeldInOrder /\ TakenInOrder /\ WrittenInOrder /\ GoesOn
    BY DEF Stream
  <2>3. HeldInOrder' /\ TakenInOrder' /\ LastSent' = LastSent
    BY <2>1, <2>2, StreamStays DEF regs
  <2>4. WrittenInOrder'
    BY <2>1, <2>2 DEF WrittenInOrder, regs
  <2>5. OnTrack' => OnTrack
    BY <2>1 DEF OnTrack
  <2>6. GoesOn'
    BY <2>1, <2>2, <2>3, <2>5 DEF GoesOn
  <2> QED
    BY <2>3, <2>4, <2>6 DEF Stream
<1> QED
  BY <1>1, <1>2, <1>3, <1>4

-----------------------------------------------------------------------------
(* The theorems.                                                           *)

Inv == FitInv /\ AgreeInv /\ Stream

\* At the start.
LEMMA InitInv == Init => Inv
<1> SUFFICES ASSUME Init PROVE Inv
  OBVIOUS
<1>1. TypeOK
  <2>1. PlaceTypes
    <3>1. buf \in [1 .. BlockUnits -> Units]
      <4>1. Unused \in Units
        <5>1. 0 \in 0 .. MaxDumps /\ 0 \in 0 .. Total
          BY Sizes
        <5> QED
          BY <5>1 DEF Unused, Units
      <4> QED
        BY <4>1 DEF Init
    <3>2. <<>> \in Seq(Units)
      OBVIOUS
    <3> QED
      BY <3>1, <3>2, Sizes DEF Init, PlaceTypes
  <2>2. WordTypes
    BY DEF Init, WordTypes, Commands
  <2>3. FlagTypes
    BY Zenon DEF Init, FlagTypes
  <2> QED
    BY <2>1, <2>2, <2>3 DEF PlaceTypes, WordTypes, FlagTypes, TypeOK, Requests
<1>2. IndexFits /\ ControllerFits
  BY Sizes DEF Init, IndexFits, ControllerFits, Dumping
<1>3. HostAgrees /\ CommandIsNew /\ Undisturbed
  BY DEF Init, HostAgrees, CommandIsNew, Undisturbed
<1>4. Stream
  BY DEF Init, Stream
<1> QED
  BY <1>1, <1>2, <1>3, <1>4 DEF Inv, FitInv, AgreeInv

\* Every step keeps the stream.
LEMMA StreamKept ==
  ASSUME FitInv, AgreeInv, Stream, Next
  PROVE  Stream'
<1>0. HostAgrees
  BY DEF AgreeInv
<1>1. CASE HostIn
  BY <1>1, InStream
<1>2. CASE Host /\ ~HostIn
  BY <1>2, HostStream DEF Host
<1>3. CASE Thread4 \/ HandleIrq
  <2>1. host' = host
    BY <1>3 DEF Thread4, StartDump, NextSend, SendData, WaitINReady, Write, ClearIN, TakeRequest, Apply,
       ConfigureEndpoints, HandleIrq, hosts
  <2>2. CASE host # "configured"
    BY <2>1, <2>2 DEF Stream
  <2>3. CASE host = "configured"
    <3>1. ~(TakeRequest \/ Apply \/ ConfigureEndpoints)
      BY <1>0, <2>3 DEF TakeRequest, Apply, ConfigureEndpoints, HostAgrees
    <3> QED
      BY <1>3, <2>3, <3>1, ThreadStream, WriteStream, ClearStream, IrqStream DEF Thread4
  <2> QED
    BY <2>2, <2>3
<1> QED
  BY <1>1, <1>2, <1>3 DEF Next

\* Every step keeps the invariant.
LEMMA NextInv == Inv /\ [Next]_vars => Inv'
<1> SUFFICES ASSUME Inv, [Next]_vars PROVE Inv'
  OBVIOUS
<1>1. CASE Next
  <2>1. FitInv'
    BY <1>1, TypesKept, IndexKept, ControllerKept DEF Inv, FitInv, AgreeInv
  <2>2. AgreeInv'
    BY <1>1, HostKept, CommandKept, UndisturbedKept DEF Inv, FitInv, AgreeInv
  <2>3. Stream'
    BY <1>1, StreamKept DEF Inv
  <2> QED
    BY <2>1, <2>2, <2>3 DEF Inv
<1>2. CASE UNCHANGED vars
  <2>1. UNCHANGED <<dev, active, nbytes, remain, buf, index, inten, dreset, dsus, ep, setup, pc, req, blk, d,
                    job, cmd, bus, host, ack, got, events, disturbed>>
    BY <1>2 DEF vars, regs, irqs, hosts
  <2>2. FitInv'
    BY <2>1 DEF Inv, FitInv, TypeOK, IndexFits, ControllerFits
  <2>3. AgreeInv'
    BY <2>1 DEF Inv, AgreeInv, HostAgrees, CommandIsNew, Undisturbed
  <2>4. Stream'
    <3> SUFFICES ASSUME host = "configured" PROVE Stream'
      BY <2>1 DEF Stream
    <3>1. HeldInOrder /\ TakenInOrder /\ WrittenInOrder /\ GoesOn
      BY DEF Inv, Stream
    <3>2. HeldInOrder' /\ TakenInOrder' /\ LastSent' = LastSent
      BY <2>1, <3>1, StreamStays
    <3>3. WrittenInOrder'
      BY <2>1, <3>1 DEF WrittenInOrder
    <3>4. GoesOn'
      BY <2>1, <3>1, <3>2 DEF GoesOn, OnTrack
    <3> QED
      BY <3>2, <3>3, <3>4 DEF Stream
  <2> QED
    BY <2>2, <2>3, <2>4 DEF Inv
<1> QED
  BY <1>1, <1>2

\* The invariant holds.
LEMMA InvHolds == Spec => []Inv
BY InitInv, NextInv, PTL DEF Spec

\* The buffer index and Remain_length stay within the block, and every unit written is
\* one of the answer, through every reset, suspend and interrupt.
THEOREM DumpTypeCorrect == Spec => []TypeOK
<1>1. Inv => TypeOK
  BY DEF Inv, FitInv
<1> QED
  BY <1>1, InvHolds, PTL

\* What the host takes between two resets are the units of R's and D's answers in their
\* order, each after the one before it.
THEOREM DumpStaysInOrder == Spec => []StreamInOrder
<1>1. Inv => StreamInOrder
  <2> SUFFICES ASSUME Inv PROVE StreamInOrder
    OBVIOUS
  <2>1. CASE host = "configured"
    BY <2>1 DEF Inv, Stream, TakenInOrder
  <2>2. CASE host # "configured"
    <3>1. got = <<>>
      BY <2>2 DEF Inv, AgreeInv, HostAgrees
    <3> QED
      BY <3>1 DEF StreamInOrder
  <2> QED
    BY <2>1, <2>2
<1> QED
  BY <1>1, InvHolds, PTL

\* An answer, R's or D's, that no reset, suspend or new configuration meets reaches the
\* host whole.
THEOREM DumpArrivesWhole == Spec => []DumpArrives
<1>1. Inv => DumpArrives
  <2> SUFFICES ASSUME Inv, d > 0, pc \notin Dumping, ~disturbed, ~active, ~ep
               PROVE  Len(got) >= AnswerLength(job) /\ got[Len(got)] = [d |-> d, k |-> AnswerLength(job)]
    BY DEF DumpArrives
  <2>1. host = "configured"
    BY DEF Inv, AgreeInv, Undisturbed
  <2>2. TakenInOrder /\ GoesOn /\ TypeOK /\ ControllerFits
    BY <2>1 DEF Inv, Stream, FitInv
  <2>3. Taken = [d |-> d, k |-> AnswerLength(job)]
    <3>1. Held = 0
      BY DEF Held
    <3>2. LastSent = Taken
      BY <3>1 DEF LastSent
    <3> QED
      BY <2>2, <3>2 DEF GoesOn
  <2>4. Taken.k = AnswerLength(job) /\ AnswerLength(job) \in Nat /\ AnswerLength(job) >= 1
    BY <2>2, <2>3, Sizes DEF TypeOK, Commands, AnswerLength
  <2>5. got # <<>> /\ Taken = got[Len(got)]
    BY <2>4, Sizes DEF Taken, Unused
  <2>6. Len(got) \in 1 .. Len(got) /\ DOMAIN got = 1 .. Len(got) /\ Len(got) \in Nat
    BY <2>2, <2>5, StreamTypes DEF TypeOK
  <2>7. got[Len(got)].k =< Len(got)
    BY <2>2, <2>6 DEF TakenInOrder
  <2> QED
    BY <2>3, <2>4, <2>5, <2>6, <2>7, Sizes
<1> QED
  BY <1>1, InvHolds, PTL
=============================================================================
