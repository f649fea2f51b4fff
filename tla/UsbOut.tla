-------------------------------- MODULE UsbOut --------------------------------
(***************************************************************************)
(* The way of a command from the host to recv_byte: the OUT endpoints of   *)
(* the USB device (Endpoint_LPC11Uxx.c), the control requests Thread4      *)
(* serves (USBTask.c, DeviceStandardReq.c, CDCClassDevice.c) and the bytes *)
(* it reads, one in a pass, for VS_USBdataHandling (UsbCommand).           *)
(*                                                                         *)
(* A bank is armed by the interrupt of the NAK that an OUT token meets; it *)
(* is full from the packet to Endpoint_ClearOUT.  epout_primed tells the   *)
(* interrupt of a packet from that of a NAK; it is one flag for the bulk   *)
(* endpoint and for the control endpoint.  Physical endpoints are 0        *)
(* (control OUT) and 6 (bulk OUT).                                         *)
(***************************************************************************)
EXTENDS UsbCommand, Sequences

CONSTANTS
  Packets,     \* what the host sends on the bulk endpoint, a command or less
  MaxSetups,   \* control transfers besides SetConfiguration
  MaxEvents    \* resets and suspends of the bus

OutAssumption ==
  /\ Packets \subseteq Seq(Bytes) /\ <<>> \notin Packets
  /\ MaxSetups \in Nat /\ MaxEvents \in Nat
ASSUME OutAssumption

VARIABLES
  active,       \* EndPointCmdStsList[..][0].Active
  nbytes,       \* 0x200 - NBytes: what has been received in a bank
  epout_primed,
  intstat,      \* pending interrupts of endpoints
  inten,        \* the bulk endpoint's bit of INTEN
  buffer,       \* usb_data_buffer_OUT: what was written to it last, from its start
  size, index,  \* usb_data_buffer_OUT_size, usb_data_buffer_OUT_index
  setup,        \* the request of a SETUP packet received
  pc,           \* Thread4: "data", "control", "wait out"
  sending,      \* the packet the host is about to send, <<>> if none
  stage,        \* the host has a packet for the control endpoint
  setups, events,
  taken,        \* history: what was read since the packet in the bank came,
  crossed       \*   whether anything else met it (see BankHeld)

command == <<cells, count, configured, running, tail, pos, missed>>
bank == <<size, index>>
endpoints == <<active, nbytes, epout_primed, inten, buffer>>
host == <<sending, stage, setups, events>>
allVars == <<command, bank, endpoints, intstat, setup, pc, host, taken, crossed>>

ThreadRuns == intstat = {}

OutInit ==
  /\ Init
  /\ active = [e \in {0, 6} |-> FALSE] /\ nbytes = [e \in {0, 6} |-> 0]
  /\ epout_primed = FALSE /\ intstat = {} /\ inten = FALSE /\ buffer = <<>>
  /\ size = 0 /\ index = 0 /\ setup = "none" /\ pc = "data"
  /\ sending = <<>> /\ stage = "none" /\ setups = 0 /\ events = 0
  /\ taken = <<>> /\ crossed = FALSE

----------------------------------------------------------------------------
(* Thread4: VS_USBdataHandling.                                            *)

\* Mutant: the index of the buffer is not reset.
ClearOUT_IndexStays == nbytes' = [nbytes EXCEPT ![6] = 0] /\ UNCHANGED index

\* Endpoint_ClearOUT on the bulk endpoint.
ClearOUT == nbytes' = [nbytes EXCEPT ![6] = 0] /\ index' = 0

\* Endpoint_Read_8; past what packets have written the buffer is all zeros.
NextByte == IF index < Len(buffer) THEN buffer[index + 1] ELSE "other"

ThreadPasses == /\ pc = "data" /\ ThreadRuns /\ pc' = "control"
                /\ UNCHANGED <<active, epout_primed, intstat, inten, buffer, setup, host>>

PassUnconfigured ==
  /\ ThreadPasses /\ Unconfigured /\ UNCHANGED <<nbytes, bank, taken, crossed>>

PassEmpty ==
  /\ ThreadPasses /\ configured /\ nbytes[6] = 0
  /\ UNCHANGED <<command, nbytes, bank, taken, crossed>>

\* Mutant: a bank without bytes is left alone.
PassNoBytes_KeepsBank ==
  /\ ThreadPasses /\ configured /\ nbytes[6] > 0 /\ size = 0
  /\ UNCHANGED <<command, nbytes, bank, taken, crossed>>

\* CDC_Device_BytesReceived takes a bank without bytes for an empty packet.
PassNoBytes ==
  /\ ThreadPasses /\ configured /\ nbytes[6] > 0 /\ size = 0
  /\ ClearOUT /\ taken' = <<>> /\ crossed' = FALSE
  /\ UNCHANGED <<command, size>>

\* CDC_Device_ReceiveByte; after the last byte the bank is released.  With the
\* last byte of a command Thread4 is in it until it returns.
PassByte ==
  /\ ThreadPasses /\ nbytes[6] > 0 /\ size > 0
  /\ Receive(NextByte) /\ size' = size - 1
  /\ IF size' = 0
       THEN ClearOUT /\ taken' = <<>> /\ crossed' = FALSE
       ELSE /\ index' = index + 1 /\ taken' = Append(taken, NextByte)
            /\ UNCHANGED <<nbytes, crossed>>

CommandReturns ==
  /\ ThreadRuns /\ Return
  /\ UNCHANGED <<bank, endpoints, intstat, setup, pc, host, taken, crossed>>

----------------------------------------------------------------------------
(* Thread4: USB_DeviceTask.                                                *)

ThreadServes == pc = "control" /\ running = "none" /\ ThreadRuns

NoRequest ==
  /\ ThreadServes /\ setup = "none" /\ pc' = "data"
  /\ UNCHANGED <<command, bank, endpoints, intstat, setup, host, taken, crossed>>

\* SetConfiguration: the bulk endpoint is set up afresh; what it holds is forgotten.
SetConfiguration ==
  /\ ThreadServes /\ setup = "config" /\ setup' = "none" /\ pc' = "data"
  /\ Configure
  /\ active' = [active EXCEPT ![6] = FALSE] /\ nbytes' = [nbytes EXCEPT ![6] = 0]
  /\ inten' = TRUE /\ taken' = <<>> /\ stage' = "none"
  /\ UNCHANGED <<bank, epout_primed, intstat, buffer, sending, setups, events, crossed>>

\* GetDescriptor, GetStatus, GetLineEncoding: an IN stage, and the bank made ready
\* for the status stage, an empty packet of the host, which no one waits for.
ControlRead ==
  /\ ThreadServes /\ setup = "read" /\ setup' = "none" /\ pc' = "data"
  /\ nbytes' = [nbytes EXCEPT ![0] = 0] /\ stage' = "status"
  /\ UNCHANGED <<command, bank, active, epout_primed, intstat, inten, buffer,
                 sending, setups, events, taken, crossed>>

\* SetLineEncoding up to the loop that waits for its data ...
ControlWrite ==
  /\ ThreadServes /\ setup = "write" /\ setup' = "none" /\ pc' = "wait out"
  /\ UNCHANGED <<command, bank, endpoints, intstat, host, taken, crossed>>

\* ... and from there on.
LineEncodingReceived ==
  /\ pc = "wait out" /\ ThreadRuns /\ nbytes[0] > 0
  /\ nbytes' = [nbytes EXCEPT ![0] = 0] /\ pc' = "data"
  /\ UNCHANGED <<command, bank, active, epout_primed, intstat, inten, buffer,
                 setup, host, taken, crossed>>

----------------------------------------------------------------------------
(* USB_IRQHandler, the OUT endpoints in their order.                       *)

Arms(e) == nbytes[e] = 0

\* The flag after the interrupt of an endpoint that found it so: set by arming a
\* bank, reset when a full one is counted.
PrimedAfter(e, primed) == IF e \in intstat THEN Arms(e) ELSE primed

\* A full bank is counted only by an interrupt that finds the flag set.
HandleIrq ==
  /\ intstat # {} /\ intstat' = {}
  /\ IF setup # "none"
       THEN UNCHANGED <<active, epout_primed, size>>
       ELSE LET primed == PrimedAfter(0, epout_primed)
            IN  /\ epout_primed' = PrimedAfter(6, primed)
                /\ active' = [e \in {0, 6} |-> active[e] \/ (e \in intstat /\ Arms(e))]
                /\ size' = IF 6 \in intstat /\ nbytes[6] > 0 /\ primed THEN nbytes[6] ELSE size
  /\ UNCHANGED <<command, index, nbytes, inten, buffer, setup, pc, host, taken, crossed>>

\* HAL_Reset and Endpoint_ConfigureEndpointControl: the command list and the flag,
\* not the size and the index of the buffer.
HalReset ==
  /\ active' = [e \in {0, 6} |-> FALSE] /\ nbytes' = [e \in {0, 6} |-> 0]
  /\ epout_primed' = FALSE /\ intstat' = {} /\ inten' = FALSE

----------------------------------------------------------------------------
(* The bus.  An interrupt of a reset or a suspend is taken at once, and     *)
(* its write to DEVCMDSTAT clears the flag of a SETUP packet.               *)

\* What the device loses the host gives up.
BusEvent ==
  /\ events < MaxEvents /\ events' = events + 1
  /\ setup' = "none" /\ stage' = "none" /\ sending' = <<>> /\ crossed' = TRUE
  /\ UNCHANGED <<size, index, buffer, setups>>

Reset == BusEvent /\ HalReset /\ taken' = <<>>

Suspend == BusEvent /\ UNCHANGED <<active, nbytes, epout_primed, intstat, inten, taken>>

\* Between two passes of Thread4 or in a command, or between
\* CDC_Device_BytesReceived and CDC_Device_ReceiveByte.
BusEvents ==
  /\ ThreadRuns
  /\ Reset \/ Suspend
  /\ \/ configured /\ Deconfigure /\ UNCHANGED pc
     \/ ~configured /\ UNCHANGED <<command, pc>>
     \/ /\ pc = "data" /\ nbytes[6] > 0 /\ size > 0
        /\ ReceiveFails /\ pc' = "control"

----------------------------------------------------------------------------
(* The host.                                                               *)

\* What a control transfer meets between the arming of the bulk endpoint and the
\* release of its bank is marked.
Crossing == crossed' = (crossed \/ active[6] \/ nbytes[6] > 0)

HostSetup(request) ==
  /\ setup = "none" /\ stage = "none" /\ (pc = "wait out" => nbytes[0] = 0)
  /\ IF request = "config" THEN ~configured /\ UNCHANGED setups
                           ELSE setups < MaxSetups /\ setups' = setups + 1
  /\ setup' = request /\ stage' = IF request = "write" THEN "data" ELSE "none"
  /\ Crossing
  /\ UNCHANGED <<command, bank, endpoints, intstat, pc, sending, events, taken>>

\* The OUT token of a data or a status stage; one that meets a SETUP packet not
\* yet served, or a bank not armed, gets a NAK.
HostControlOut ==
  /\ stage # "none" /\ intstat' = intstat \cup {0} /\ Crossing
  /\ IF active[0] /\ setup = "none"
       THEN /\ active' = [active EXCEPT ![0] = FALSE] /\ stage' = "none"
            /\ nbytes' = [nbytes EXCEPT ![0] = IF stage = "data" THEN 7 ELSE 0]
       ELSE UNCHANGED <<active, nbytes, stage>>
  /\ UNCHANGED <<command, bank, epout_primed, inten, buffer, setup, pc, sending,
                 setups, events, taken>>

HostSend(p) ==
  /\ inten /\ sending = <<>> /\ sending' = p
  /\ UNCHANGED <<command, bank, endpoints, intstat, setup, pc, stage, setups, events,
                 taken, crossed>>

\* The OUT token of the bulk endpoint.  What was in the buffer stays behind the
\* packet.
HostOut ==
  /\ inten /\ sending # <<>> /\ intstat' = intstat \cup {6}
  /\ IF active[6]
       THEN /\ active' = [active EXCEPT ![6] = FALSE]
            /\ nbytes' = [nbytes EXCEPT ![6] = Len(sending)]
            /\ buffer' = sending \o SubSeq(buffer, Len(sending) + 1, Len(buffer))
            /\ sending' = <<>> /\ taken' = <<>>
       ELSE UNCHANGED <<active, nbytes, buffer, sending, taken>>
  /\ crossed' = (crossed \/ setup # "none" \/ stage # "none" \/ pc = "wait out")
  /\ UNCHANGED <<command, bank, epout_primed, inten, setup, pc, stage, setups, events>>

----------------------------------------------------------------------------
Thread4 ==
  \/ PassUnconfigured \/ PassEmpty \/ PassNoBytes \/ PassByte
  \/ NoRequest \/ SetConfiguration \/ ControlRead \/ ControlWrite \/ LineEncodingReceived

Host == \/ HostControlOut \/ HostOut
        \/ \E r \in {"config", "read", "write"} : HostSetup(r)
        \/ \E p \in Packets : HostSend(p)

OutNext == Thread4 \/ CommandReturns \/ HandleIrq \/ BusEvents \/ Host

OutSpec == OutInit /\ [][OutNext]_allVars

\* The interrupt is taken, the interrupts of repeated tokens leave time to Thread4,
\* which shares what they leave only with threads that sleep in every round, and a
\* host repeats a token that got a NAK.  Nothing makes a command return:
\* CDC_Device_SendData waits without a timeout (EndpointStream.c:71).  Outside of
\* commands Thread4 writes to the display when the connection comes or goes; that
\* it is not the thread which spiSend loses there (SpiLcd) is assumed.
FairOut ==
  /\ OutSpec
  /\ SF_allVars(Thread4) /\ WF_allVars(HandleIrq)
  /\ WF_allVars(HostControlOut) /\ WF_allVars(HostOut)

----------------------------------------------------------------------------
(* Properties.                                                             *)

\* CDC_Device_ReceiveByte hands on every byte of a packet, in order, once, before
\* the bank is released to the next one, unless a control transfer met the packet
\* on its way: then its interrupt may be passed over (line 246) or the shared flag
\* may be the other endpoint's, and the packet is dropped, or bytes are read
\* again; or a reset came in the middle of a packet, and the next one is read from
\* where the index was left.
BankHeld ==
  [][(pc = "data" /\ pc' = "control" /\ nbytes[6] > 0 /\ nbytes'[6] = 0 /\ ~(crossed \/ crossed')) =>
       /\ PassByte
       /\ Append(taken, NextByte) = SubSeq(buffer, 1, nbytes[6])]_allVars

\* A host that repeats its token gets its packet through, whatever control
\* transfers and lost bytes came between: the endpoint is armed again and again,
\* as long as the device is configured.  Two waits without a timeout keep Thread4
\* from it for ever: for the data of a SetLineEncoding that a reset has cut off,
\* and in a command, for a host that does not read what the command sends (or for
\* a semaphore that is kept).  A Thread4 lost in the display is left out (FairOut).
PacketTaken ==
  sending # <<>> ~>
    (sending = <<>> \/ ~configured \/ [](pc = "wait out") \/ [](running # "none"))
=============================================================================
