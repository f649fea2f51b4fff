------------------------------- MODULE UsbDump -------------------------------
(***************************************************************************)
(* What Thread4 sends over the bulk IN endpoint of the USB device, the     *)
(* dump of the log for the command R and the two frames for the command D  *)
(* (VirtualSerial.c, CDCClassDevice.c, EndpointStream.c), the USB          *)
(* interrupt (Endpoint_LPC11Uxx.c) and a host that resets, suspends and    *)
(* resumes the bus, enumerates the device and takes packets, or does not.  *)
(*                                                                         *)
(* Bytes are counted in units of one log record (8 bytes): a packet of the *)
(* endpoint carries PacketUnits of them (16 bytes), a block of the dump    *)
(* BlockUnits (64 bytes), the terminator is one unit, and so is a frame of *)
(* D (4 bytes), which fits in a packet as a unit does.  Each unit is named *)
(* by its answer, R's or D's, counted from 1, and its place in it.         *)
(***************************************************************************)
EXTENDS Integers, Sequences

CONSTANTS Blocks,       \* blocks of records a dump sends
          BlockUnits,   \* records in a block
          PacketUnits,  \* records in a packet of the endpoint
          MaxDumps,     \* bound on the answers, of R and D together
          MaxEvents     \* bound on the resets and suspends of the bus

ASSUME UsbAssumption ==
  /\ Blocks \in Nat \ {0} /\ MaxDumps \in Nat /\ MaxEvents \in Nat
  /\ PacketUnits \in Nat \ {0, 1} /\ BlockUnits \in Nat
  /\ BlockUnits >= PacketUnits

VARIABLES dev,        \* USB_DeviceState[0]
          active,     \* EndPointCmdStsList[5][0].Active
          nbytes,     \* EndPointCmdStsList[5][0].NBytes
          remain,     \* Remain_length[2]
          buf,        \* usb_data_buffer_IN[0]
          index,      \* usb_data_buffer_IN_index[0]
          inten,      \* the endpoint's bit of INTEN
          dreset,     \* DRESET_C, the interrupt of a bus reset
          dsus,       \* DSUS_C, the interrupt of a suspend or resume
          ep,         \* the endpoint's bit of INTSTAT
          setup,      \* the request of a SETUP packet received
          pc,         \* Thread4
          req,        \* the request Thread4 works on
          blk,        \* the send of the answer, from 1: in a dump n of VS_SendAllLogs,
                      \* Blocks + 1 for the terminator
          d,          \* the answer
          job,        \* the command it answers
          cmd,        \* a command of the host not yet read by Thread4, or "none"
          bus,        \* "on", "suspended"
          host,       \* how far the host has enumerated the device
          ack,        \* the status stage the host has not yet seen
          got,        \* what the host took since the last reset of the bus
          events,     \* resets and suspends so far
          disturbed   \* a reset, a suspend or a new configuration in this answer

regs == <<active, nbytes, remain, buf, index, inten>>
irqs == <<dreset, dsus, ep>>
hosts == <<bus, host, got, events>>
vars == <<dev, regs, irqs, setup, pc, req, blk, d, job, cmd, hosts, ack, disturbed>>

Requests == {"address", "config"}
Commands == {"R", "D"}
Total == Blocks * BlockUnits + 1
Units == [d : 0..MaxDumps, k : 0..Total]
Unused == [d |-> 0, k |-> 0]
Dumping == {"next", "send", "wait", "write", "clear"}
MinOf(a, b) == IF a < b THEN a ELSE b

\* An interrupt is pending that the NVIC takes before the thread goes on: the few
\* cycles from the controller's clearing of Active to the interrupt's entry are
\* taken for one step.
Interrupted == dreset \/ dsus \/ (ep /\ inten)
ThreadRuns == ~Interrupted

\* The sends of the answer to j: the blocks and the terminator, or the two frames
\* of VS_DeleteAllLogs.
Sends(j) == IF j = "R" THEN Blocks + 1 ELSE 2

\* The length of its send b, the units of the answer before that send, and those
\* of the whole answer.
SendLength(j, b) == IF j = "R" /\ b =< Blocks THEN BlockUnits ELSE 1
Before(j, b) == IF j = "R" THEN (b - 1) * BlockUnits ELSE b - 1
AnswerLength(j) == IF j = "R" THEN Total ELSE 2

\* Mutant: what does not fit in a packet is not kept.
DcdDataTransfer_ForgetsRest(len) ==
  /\ nbytes' = MinOf(len, PacketUnits)
  /\ remain' = 0
  /\ active' = TRUE

\* Endpoint_ClearIN and USB_IRQHandler arm the endpoint with the first packet
\* of len units and keep what is left of them in Remain_length.
DcdDataTransfer(len) ==
  /\ nbytes' = MinOf(len, PacketUnits)
  /\ remain' = IF len >= PacketUnits THEN len - PacketUnits ELSE 0
  /\ active' = TRUE

-----------------------------------------------------------------------------
(* Thread4: the answer to a command.                                       *)

\* Where VS_SendAllLogs and VS_DeleteAllLogs begin a send: the first reads the
\* next block and looks at the state of the device before each, the second does
\* neither (logger_deleteLog between its frames does nothing).
BeginSend(j) == IF j = "R" THEN "next" ELSE "send"

\* VS_USBdataHandling has read the whole command and calls VS_SendAllLogs or
\* VS_DeleteAllLogs.
StartDump ==
  /\ pc = "idle" /\ ThreadRuns
  /\ dev = "Configured" /\ cmd # "none" /\ d < MaxDumps
  /\ cmd' = "none" /\ job' = cmd /\ d' = d + 1 /\ blk' = 1 /\ pc' = BeginSend(cmd)
  /\ disturbed' = FALSE
  /\ UNCHANGED <<dev, regs, irqs, setup, req, hosts, ack>>

\* Mutant: the dump waits for the device to be configured again.
NextSend_NeverGivesUp ==
  /\ pc = "next" /\ ThreadRuns
  /\ pc' = IF dev = "Configured" THEN "send" ELSE "next"
  /\ UNCHANGED <<dev, regs, irqs, setup, req, blk, d, job, cmd, hosts, ack, disturbed>>

\* A block has been read, or the log has ended: on a device that is no longer
\* configured VS_SendAllLogs gives up, after a CDC_Device_Flush that returns at
\* once on such a device.
NextSend ==
  /\ pc = "next" /\ ThreadRuns
  /\ pc' = IF dev = "Configured" THEN "send" ELSE "idle"
  /\ UNCHANGED <<dev, regs, irqs, setup, req, blk, d, job, cmd, hosts, ack, disturbed>>

\* The program counter after a send: the next one, or the end of the answer.
AfterSend == IF blk >= Sends(job) THEN "idle" ELSE BeginSend(job)

\* CDC_Device_SendData looks at the state once more: it discards the buffer on
\* a device that is not configured.
SendData ==
  /\ pc = "send" /\ ThreadRuns
  /\ IF dev = "Configured"
     THEN pc' = "wait" /\ UNCHANGED blk
     ELSE pc' = AfterSend /\ blk' = blk + 1
  /\ UNCHANGED <<dev, regs, irqs, setup, req, d, job, cmd, hosts, ack, disturbed>>

\* Endpoint_Write_Stream_LE spins until the controller has cleared Active.
WaitINReady ==
  /\ pc = "wait" /\ ThreadRuns
  /\ ~active
  /\ pc' = "write"
  /\ UNCHANGED <<dev, regs, irqs, setup, req, blk, d, job, cmd, hosts, ack, disturbed>>

\* Endpoint_Write_8, one unit at a time.
Write ==
  /\ pc = "write" /\ ThreadRuns
  /\ index' = index + 1
  /\ buf' = [buf EXCEPT ![index + 1] = [d |-> d, k |-> Before(job, blk) + index + 1]]
  /\ pc' = IF index + 1 = SendLength(job, blk) THEN "clear" ELSE "write"
  /\ UNCHANGED <<dev, active, nbytes, remain, inten, irqs, setup, req, blk, d, job,
                 cmd, hosts, ack, disturbed>>

\* Mutant: the index of the buffer is not reset.
ClearIN_IndexStays ==
  /\ pc = "clear" /\ ThreadRuns
  /\ DcdDataTransfer(index)
  /\ blk' = blk + 1 /\ pc' = AfterSend
  /\ UNCHANGED <<dev, buf, index, inten, irqs, setup, req, d, job, cmd, hosts, ack, disturbed>>

\* Endpoint_ClearIN: the buffer goes to the controller.
ClearIN ==
  /\ pc = "clear" /\ ThreadRuns
  /\ DcdDataTransfer(index)
  /\ index' = 0 /\ blk' = blk + 1 /\ pc' = AfterSend
  /\ UNCHANGED <<dev, buf, inten, irqs, setup, req, d, job, cmd, hosts, ack, disturbed>>

-----------------------------------------------------------------------------
(* Thread4: USB_USBTask, the requests on the control endpoint.             *)

\* A SETUP packet is there: the request is taken and its status stage begins.
TakeRequest ==
  /\ pc = "idle" /\ ThreadRuns
  /\ dev # "Unattached" /\ setup # "none"
  /\ req' = setup /\ ack' = setup /\ setup' = "none" /\ pc' = "apply"
  /\ UNCHANGED <<dev, regs, irqs, blk, d, job, cmd, hosts, disturbed>>

\* SetAddress, SetConfiguration: the new state of the device.  The library's
\* GlobalInterruptDisable around SetAddress is empty, so neither is protected.
Apply ==
  /\ pc = "apply" /\ ThreadRuns
  /\ dev' = IF req = "address" THEN "Addressed" ELSE "Configured"
  /\ pc' = IF req = "address" THEN "idle" ELSE "configure"
  /\ req' = "none"
  /\ UNCHANGED <<regs, irqs, setup, blk, d, job, cmd, hosts, ack, disturbed>>

\* EVENT_USB_Device_ConfigurationChanged: the endpoints are set up afresh, a
\* packet armed and a command received before are forgotten.  INTSTAT is
\* cleared by writing ones, so the endpoint's own bit is left as it was.
ConfigureEndpoints ==
  /\ pc = "configure" /\ ThreadRuns
  /\ active' = FALSE /\ nbytes' = 0 /\ inten' = TRUE /\ cmd' = "none"
  /\ pc' = "idle" /\ disturbed' = TRUE
  /\ UNCHANGED <<dev, remain, buf, index, irqs, setup, req, blk, d, job, hosts, ack>>

-----------------------------------------------------------------------------
(* USB_IRQHandler.                                                         *)

\* The device status part: a reset, then a suspend or a resume.  Its writes to
\* DEVCMDSTAT also clear the flag of a SETUP packet received.
DeviceStatus ==
  /\ dev' = CASE dsus /\ bus = "suspended" -> "Suspended"
              [] dreset /\ ~(dsus /\ bus = "suspended") -> "Default"
              [] OTHER -> dev
  /\ setup' = IF dreset \/ dsus THEN "none" ELSE setup
  /\ ack' = IF dreset THEN "none" ELSE ack

\* HAL_Reset forgets the command list and the interrupt enables, not
\* Remain_length and not the index of the buffer.
HalReset == active' = FALSE /\ nbytes' = 0

\* Mutant: the rest of the buffer is not moved to its front.
ContinueIN_NoShift ==
  /\ UNCHANGED buf
  /\ DcdDataTransfer(remain)

\* The IN endpoint part: the rest of the buffer moves to its front and is armed.
ContinueIN ==
  /\ buf' = [i \in 1..BlockUnits |-> IF i <= remain THEN buf[i + PacketUnits] ELSE buf[i]]
  /\ DcdDataTransfer(remain)

\* One interrupt serves everything that is pending, in this order; INTSTAT was
\* read at its start, so a packet done just before a reset is still continued.
HandleIrq ==
  /\ Interrupted
  /\ DeviceStatus
  /\ IF ep /\ inten /\ remain > 0
     THEN ContinueIN
     ELSE /\ UNCHANGED <<remain, buf>>
          /\ IF dreset THEN HalReset ELSE UNCHANGED <<active, nbytes>>
  /\ inten' = (inten /\ ~dreset)
  /\ ep' = (ep /\ ~inten /\ ~dreset)
  /\ dreset' = FALSE /\ dsus' = FALSE
  /\ UNCHANGED <<index, pc, req, blk, d, job, cmd, hosts, disturbed>>

-----------------------------------------------------------------------------
(* The host and the bus.                                                   *)

\* A reset lasts longer than the interrupt of a packet waits.
HostReset ==
  /\ events < MaxEvents
  /\ ~(ep /\ inten)
  /\ events' = events + 1
  /\ dsus' = (dsus \/ bus = "suspended")
  /\ bus' = "on" /\ dreset' = TRUE /\ host' = "reset" /\ got' = <<>>
  /\ disturbed' = TRUE
  /\ UNCHANGED <<dev, regs, ep, setup, pc, req, blk, d, job, cmd, ack>>

\* The host stops the traffic, or the cable is pulled: no start of frame.
HostSuspend ==
  /\ events < MaxEvents /\ bus = "on"
  /\ events' = events + 1
  /\ bus' = "suspended" /\ dsus' = TRUE /\ disturbed' = TRUE
  /\ UNCHANGED <<dev, regs, dreset, ep, setup, pc, req, blk, d, job, cmd, host, ack, got>>

HostResume ==
  /\ bus = "suspended"
  /\ bus' = "on" /\ dsus' = TRUE
  /\ UNCHANGED <<dev, regs, dreset, ep, setup, pc, req, blk, d, job, cmd, host, ack,
                 got, events, disturbed>>

\* The host sends SetAddress after a reset, SetConfiguration after that.
HostRequest ==
  /\ bus = "on" /\ ~dreset /\ setup = "none" /\ ack = "none"
  /\ host \in {"reset", "addressed"}
  /\ setup' = IF host = "reset" THEN "address" ELSE "config"
  /\ UNCHANGED <<dev, regs, irqs, pc, req, blk, d, job, cmd, hosts, ack, disturbed>>

\* The host sees the status stage of its request.  It uses the new configuration
\* only when the device has set up its endpoints, as the time a host gives a
\* device after a request allows.
HostAck ==
  /\ bus = "on" /\ ~dreset /\ ack # "none"
  /\ pc \notin {"apply", "configure"}
  /\ host' = IF ack = "address" THEN "addressed" ELSE "configured"
  /\ ack' = "none"
  /\ UNCHANGED <<dev, regs, irqs, setup, pc, req, blk, d, job, cmd, bus, got, events, disturbed>>

\* The host asks for the log, or for its deletion.
HostCommand ==
  /\ bus = "on" /\ ~dreset /\ host = "configured" /\ cmd = "none" /\ d < MaxDumps
  /\ cmd' \in Commands
  /\ UNCHANGED <<dev, regs, irqs, setup, pc, req, blk, d, job, hosts, ack, disturbed>>

\* An IN token finds the endpoint armed: the controller sends the packet from
\* the buffer, clears Active and raises the endpoint's interrupt.
HostIn ==
  /\ bus = "on" /\ ~dreset /\ host = "configured" /\ active
  /\ got' = got \o [i \in 1..nbytes |-> buf[i]]
  /\ active' = FALSE /\ ep' = TRUE
  /\ UNCHANGED <<dev, nbytes, remain, buf, index, inten, dreset, dsus, setup, pc,
                 req, blk, d, job, cmd, bus, host, ack, events, disturbed>>

-----------------------------------------------------------------------------
Init ==
  /\ dev = "Unattached" /\ active = FALSE /\ nbytes = 0 /\ remain = 0
  /\ buf = [i \in 1..BlockUnits |-> Unused] /\ index = 0 /\ inten = FALSE
  /\ dreset = FALSE /\ dsus = FALSE /\ ep = FALSE
  /\ setup = "none" /\ pc = "idle" /\ req = "none" /\ blk = 1 /\ d = 0
  /\ job = "R" /\ cmd = "none" /\ bus = "on" /\ host = "off" /\ ack = "none"
  /\ got = <<>> /\ events = 0 /\ disturbed = FALSE

Thread4 ==
  \/ StartDump \/ NextSend \/ SendData \/ WaitINReady \/ Write \/ ClearIN
  \/ TakeRequest \/ Apply \/ ConfigureEndpoints

Host ==
  \/ HostReset \/ HostSuspend \/ HostResume
  \/ HostRequest \/ HostAck \/ HostCommand \/ HostIn

Next == Thread4 \/ HandleIrq \/ Host

Spec == Init /\ [][Next]_vars

\* The device alone is fair: the interrupt is taken, and Thread4 shares its
\* processor only with threads that sleep in every round.  It gets binSem_T5 and
\* is not the thread that the display loses (Eeprom has both).
DeviceSpec == Spec /\ WF_vars(Thread4) /\ WF_vars(HandleIrq)

\* A host that resumes what it suspends and reads what it asked for as well.
FairSpec == DeviceSpec /\ WF_vars(HostResume) /\ WF_vars(HostIn)

-----------------------------------------------------------------------------
(* Properties.                                                             *)

\* Every variable keeps its type; the buffer index never passes the block.
TypeOK ==
  /\ dev \in {"Unattached", "Default", "Addressed", "Configured", "Suspended"}
  /\ active \in BOOLEAN /\ inten \in BOOLEAN /\ nbytes \in 0..PacketUnits
  /\ remain \in 0..(BlockUnits - PacketUnits) /\ index \in 0..BlockUnits
  /\ buf \in [1..BlockUnits -> Units]
  /\ dreset \in BOOLEAN /\ dsus \in BOOLEAN /\ ep \in BOOLEAN
  /\ setup \in Requests \cup {"none"} /\ req \in Requests \cup {"none"}
  /\ ack \in Requests \cup {"none"}
  /\ pc \in Dumping \cup {"idle", "apply", "configure"}
  /\ blk \in 1..(Blocks + 2) /\ d \in 0..MaxDumps
  /\ job \in Commands /\ cmd \in Commands \cup {"none"}
  /\ bus \in {"on", "suspended"} /\ host \in {"off", "reset", "addressed", "configured"}
  /\ got \in Seq(Units) /\ events \in 0..MaxEvents /\ disturbed \in BOOLEAN

\* CDC_Device_SendData, Endpoint_ClearIN and the IN branch of the interrupt
\* hand the host the units of an answer in their order: what follows a unit at
\* the host is the next one of its answer, or the first one of a later answer.
StreamInOrder ==
  \A i \in DOMAIN got :
    \/ got[i].k = 1 /\ (i > 1 => got[i].d > got[i - 1].d)
    \/ i > 1 /\ got[i].d = got[i - 1].d /\ got[i].k = got[i - 1].k + 1

\* VS_SendAllLogs and VS_DeleteAllLogs lose nothing by themselves: when Thread4 is
\* done with an answer that no reset, suspend or new configuration met, what the
\* host has taken and what the controller still holds are the whole answer, the
\* dump's terminator or D's second frame included.
DumpArrives ==
  (d > 0 /\ pc \notin Dumping /\ ~disturbed /\ ~active /\ ~ep) =>
    /\ Len(got) >= AnswerLength(job)
    /\ got[Len(got)] = [d |-> d, k |-> AnswerLength(job)]

\* With a host that reads and resumes, no send keeps VS_SendAllLogs or
\* VS_DeleteAllLogs for ever, whatever resets and suspends they meet: no wait of
\* EndpointStream.c:71 keeps binSem_T5.
DumpEnds == (pc \in Dumping) ~> (pc \notin Dumping)
=============================================================================
