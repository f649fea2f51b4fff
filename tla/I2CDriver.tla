------------------------------ MODULE I2CDriver ------------------------------
(***************************************************************************)
(* The I2C driver: i2c.c (state, mutual exclusion) over i2c_lld.c of the   *)
(* LPC11Uxx port, whose interrupt handler moves the bytes.  HP03.c,        *)
(* RTC_r2051.c and eeprom.c call it from Thread2, Thread3, Thread4 and     *)
(* Thread5, each with its own device, always between i2cAcquireBus and     *)
(* i2cReleaseBus and always with TIME_INFINITE, so the timeout paths never *)
(* run.  The peripheral (STA, STO and AA bits, status, bus) is external.   *)
(*                                                                         *)
(* A byte is who it belongs to: "own" to the call in progress, "old" to    *)
(* the buffer an earlier call left in txbuf.                               *)
(***************************************************************************)
EXTENDS Naturals, Sequences, SequencesExt

CONSTANTS
  Users,      \* threads, and the devices they talk to
  NULL,
  MaxBytes,   \* bytes one call sends or receives, at most
  Faults      \* of "nack" (device), "arb" (arbitration), "bus" (bus error)

ASSUME I2CAssumption == NULL \notin Users /\ MaxBytes \in Nat \ {0}

VARIABLES
  pc,                                    \* where each thread is
  owner,                                 \* i2cp->mutex
  call,                                  \* the arguments of the last call
  state, errors, addr, txbuf, txbytes, rxbytes, thread,   \* I2CDriver
  rdymsg,                                \* what each thread was woken with
  STA, STO, AA, stat,                    \* peripheral: CON bits; STAT while SI is set
  job,                                   \* peripheral: what it does with the bus next
  bus,                                   \* whether the master holds the bus
  wire                                   \* history: the call's traffic

driverVars == <<state, errors, addr, txbuf, txbytes, rxbytes, thread>>
conVars == <<STA, STO, AA>>
hwVars == <<conVars, stat, job, bus, wire>>
vars == <<pc, owner, call, driverVars, rdymsg, hwVars>>

Quiet == "none"
Nacks == {"SLAW_NACK", "SLAR_NACK", "TDAT_NACK"}
Losses == {"ARB_LOST", "BUS_ERROR"}

Init ==
  /\ pc = [t \in Users |-> "idle"] /\ owner = NULL
  /\ call = [tx |-> 0, rx |-> 0, stale |-> FALSE]
  /\ state = "READY" /\ errors = {} /\ addr = NULL
  /\ txbuf = "own" /\ txbytes = 0 /\ rxbytes = 0 /\ thread = NULL
  /\ rdymsg = [t \in Users |-> "RDY_OK"]
  /\ STA = FALSE /\ STO = FALSE /\ AA = FALSE
  /\ stat = Quiet /\ job = Quiet /\ bus = FALSE /\ wire = <<>>

----------------------------------------------------------------------------
(* Threads.                                                                *)

\* Mutant: the bus is taken whoever has it.
AcquireBus_NoMutex(t) ==
  /\ pc[t] = "idle"
  /\ owner' = t /\ pc' = [pc EXCEPT ![t] = "bus"]
  /\ UNCHANGED <<call, driverVars, rdymsg, hwVars>>

AcquireBus(t) ==
  /\ pc[t] = "idle" /\ owner = NULL
  /\ owner' = t /\ pc' = [pc EXCEPT ![t] = "bus"]
  /\ UNCHANGED <<call, driverVars, rdymsg, hwVars>>

ReleaseBus(t) ==
  /\ pc[t] = "bus"
  /\ owner' = NULL /\ pc' = [pc EXCEPT ![t] = "idle"]
  /\ UNCHANGED <<call, driverVars, rdymsg, hwVars>>

\* i2cMasterTransmitTimeout, i2cMasterReceiveTimeout up to the place where the
\* low level driver gives the kernel lock back.
EnterTransmit(t) ==
  /\ pc[t] = "bus"
  /\ state' = "ACTIVE_TX" /\ errors' = {} /\ addr' = t
  /\ \E n \in 1 .. MaxBytes, m \in 0 .. MaxBytes :
       call' = [tx |-> n, rx |-> m, stale |-> FALSE]
  /\ pc' = [pc EXCEPT ![t] = "fields"]
  /\ UNCHANGED <<owner, txbuf, txbytes, rxbytes, thread, rdymsg, hwVars>>

EnterReceive(t) ==
  /\ pc[t] = "bus"
  /\ state' = "ACTIVE_RX" /\ errors' = {} /\ addr' = t
  /\ \E m \in 1 .. MaxBytes : call' = [tx |-> 0, rx |-> m, stale |-> txbytes > 0]
  /\ pc' = [pc EXCEPT ![t] = "fields"]
  /\ UNCHANGED <<owner, txbuf, txbytes, rxbytes, thread, rdymsg, hwVars>>

\* The driver's fields, set without the lock.  A receive leaves txbuf and txbytes
\* as the call before it left them.
SetFields(t) ==
  /\ pc[t] = "fields"
  /\ errors' = {} /\ rxbytes' = call.rx
  /\ IF state = "ACTIVE_TX" THEN txbuf' = "own" /\ txbytes' = call.tx
                            ELSE txbuf' = "old" /\ UNCHANGED txbytes
  /\ pc' = [pc EXCEPT ![t] = "start"]
  /\ UNCHANGED <<owner, call, state, addr, thread, rdymsg, hwVars>>

\* Under the kernel lock: no interrupt between the START bit and the sleep.
StartTransfer(t) ==
  /\ pc[t] = "start"
  /\ STA' = TRUE /\ wire' = <<>>
  /\ thread' = t
  /\ pc' = [pc EXCEPT ![t] = "asleep"]
  /\ UNCHANGED <<owner, call, state, errors, addr, txbuf, txbytes, rxbytes, rdymsg,
                 STO, AA, stat, job, bus>>

\* Back in i2c.c.
ReturnFromCall(t) ==
  /\ pc[t] = "awake"
  /\ state' = "READY"
  /\ pc' = [pc EXCEPT ![t] = "bus"]
  /\ UNCHANGED <<owner, call, errors, addr, txbuf, txbytes, rxbytes, thread, rdymsg, hwVars>>

----------------------------------------------------------------------------
(* The interrupt handler, one action per case of its switch.               *)

Wakeup(msg) ==
  IF thread = NULL THEN UNCHANGED <<thread, rdymsg, pc>>
  ELSE /\ thread' = NULL
       /\ rdymsg' = [rdymsg EXCEPT ![thread] = msg]
       /\ pc' = [pc EXCEPT ![thread] = "awake"]

SendData ==
  /\ job' = "write" /\ txbytes' = txbytes - 1
  /\ UNCHANGED <<conVars, rxbytes, thread, rdymsg, pc>>

IsrStart ==
  /\ stat = "START"
  /\ job' = IF txbytes > 0 THEN "addrW" ELSE "addrR"
  /\ STA' = FALSE /\ stat' = Quiet
  /\ UNCHANGED <<pc, owner, call, driverVars, rdymsg, STO, AA, bus, wire>>

\* Mutant: no STOP after a NACK.
IsrNack_NoStop ==
  /\ stat \in Nacks
  /\ errors' = {"ACK_FAILURE"} /\ Wakeup("RDY_RESET")
  /\ stat' = Quiet
  /\ UNCHANGED <<owner, call, state, addr, txbuf, txbytes, rxbytes, conVars, job,
                 bus, wire>>

\* Mutant: a call that is not acknowledged is started over, for ever.
IsrNack_Retries ==
  /\ stat \in Nacks
  /\ STA' = TRUE /\ STO' = TRUE /\ stat' = Quiet
  /\ txbytes' = call.tx /\ wire' = <<>>
  /\ UNCHANGED <<pc, owner, call, state, errors, addr, txbuf, rxbytes, thread, rdymsg,
                 AA, job, bus>>

\* SLAR_NACK, TDAT_NACK, SLAW_NACK, and i2c_lld_serve_error_interrupt.
IsrNack ==
  /\ stat \in Nacks
  /\ STO' = TRUE /\ stat' = Quiet
  /\ errors' = {"ACK_FAILURE"} /\ Wakeup("RDY_RESET")
  /\ UNCHANGED <<owner, call, state, addr, txbuf, txbytes, rxbytes, STA, AA, job,
                 bus, wire>>

\* SLAW_ACK, TDAT_ACK: the next byte, else STOP, with a START if a read follows.
IsrWriteAck ==
  /\ stat \in {"SLAW_ACK", "TDAT_ACK"}
  /\ IF txbytes > 0 THEN SendData
     ELSE /\ STO' = TRUE
          /\ IF rxbytes > 0 THEN STA' = TRUE /\ UNCHANGED <<thread, rdymsg, pc>>
                            ELSE UNCHANGED STA /\ Wakeup("RDY_OK")
          /\ UNCHANGED <<AA, job, txbytes, rxbytes>>
  /\ stat' = Quiet
  /\ UNCHANGED <<owner, call, state, errors, addr, txbuf, bus, wire>>

\* Mutant: the acknowledge is withdrawn one byte late.
IsrReadAck_LateNack ==
  /\ stat \in {"SLAR_ACK", "RDAT_ACK"}
  /\ rxbytes' = IF stat = "RDAT_ACK" THEN rxbytes - 1 ELSE rxbytes
  /\ AA' = (rxbytes' # 0)
  /\ job' = "read" /\ stat' = Quiet
  /\ UNCHANGED <<pc, owner, call, state, errors, addr, txbuf, txbytes, thread, rdymsg,
                 STA, STO, bus, wire>>

\* SLAR_ACK, RDAT_ACK: the last byte will not be acknowledged.
IsrReadAck ==
  /\ stat \in {"SLAR_ACK", "RDAT_ACK"}
  /\ rxbytes' = IF stat = "RDAT_ACK" THEN rxbytes - 1 ELSE rxbytes
  /\ AA' = (rxbytes' # 1)
  /\ job' = "read" /\ stat' = Quiet
  /\ UNCHANGED <<pc, owner, call, state, errors, addr, txbuf, txbytes, thread, rdymsg,
                 STA, STO, bus, wire>>

IsrReadNack ==
  /\ stat = "RDAT_NACK"
  /\ rxbytes' = rxbytes - 1
  /\ STO' = TRUE /\ stat' = Quiet
  /\ Wakeup("RDY_OK")
  /\ UNCHANGED <<owner, call, state, errors, addr, txbuf, txbytes, STA, AA, job, bus, wire>>

IsrLoss ==
  /\ stat \in Losses
  /\ stat' = Quiet
  /\ errors' = {IF stat = "ARB_LOST" THEN "ARBITRATION_LOST" ELSE "BUS_ERROR"}
  /\ Wakeup("RDY_RESET")
  /\ UNCHANGED <<owner, call, state, addr, txbuf, txbytes, rxbytes, conVars, job, bus, wire>>

Isr == IsrStart \/ IsrNack \/ IsrWriteAck \/ IsrReadAck \/ IsrReadNack \/ IsrLoss

----------------------------------------------------------------------------
(* The peripheral and the devices.  STOP goes before START when both bits  *)
(* are set; a START on a bus the master holds is a repeated START, whose   *)
(* status the handler has no case for.  A bus error is taken to leave the  *)
(* bus free, as lost arbitration does.                                     *)

SendStop ==
  /\ STO /\ stat = Quiet
  /\ STO' = FALSE /\ bus' = FALSE
  /\ UNCHANGED <<pc, owner, call, driverVars, rdymsg, STA, AA, stat, job, wire>>

SendStart ==
  /\ STA /\ ~STO /\ stat = Quiet /\ job = Quiet
  /\ stat' = IF bus THEN "RSTART" ELSE "START"
  /\ bus' = TRUE /\ wire' = Append(wire, "S")
  /\ UNCHANGED <<pc, owner, call, driverVars, rdymsg, conVars, job>>

Outcomes ==
  CASE job = "addrW" -> {"SLAW_ACK"} \cup (IF "nack" \in Faults THEN {"SLAW_NACK"} ELSE {})
    [] job = "addrR" -> {"SLAR_ACK"} \cup (IF "nack" \in Faults THEN {"SLAR_NACK"} ELSE {})
    [] job = "write" -> {"TDAT_ACK"} \cup (IF "nack" \in Faults THEN {"TDAT_NACK"} ELSE {})
    [] job = "read"  -> {IF AA THEN "RDAT_ACK" ELSE "RDAT_NACK"}

Symbol ==
  CASE job \in {"addrW", "addrR"} -> <<job, addr>>
    [] job = "write" -> txbuf
    [] job = "read"  -> IF AA THEN "ack" ELSE "nack"

MoveByte ==
  /\ job # Quiet /\ stat = Quiet
  /\ stat' \in Outcomes
  /\ job' = Quiet /\ wire' = Append(wire, Symbol)
  /\ UNCHANGED <<pc, owner, call, driverVars, rdymsg, conVars, bus>>

LoseBus ==
  /\ job # Quiet /\ stat = Quiet
  /\ \/ "arb" \in Faults /\ stat' = "ARB_LOST"
     \/ "bus" \in Faults /\ stat' = "BUS_ERROR"
  /\ job' = Quiet /\ bus' = FALSE
  /\ UNCHANGED <<pc, owner, call, driverVars, rdymsg, conVars, wire>>

Hardware == SendStop \/ SendStart \/ MoveByte \/ LoseBus

InCall(t) == SetFields(t) \/ StartTransfer(t) \/ ReturnFromCall(t)

User(t) == AcquireBus(t) \/ ReleaseBus(t) \/ EnterTransmit(t) \/ EnterReceive(t) \/ InCall(t)

Next == Isr \/ Hardware \/ \E t \in Users : User(t)

Spec == Init /\ [][Next]_vars

\* The interrupt is served, the peripheral goes on, and a thread inside a call
\* runs on.  A thread need not start a call.
FairSpec ==
  Spec /\ WF_vars(Isr) /\ WF_vars(Hardware) /\ \A t \in Users : WF_vars(InCall(t))

----------------------------------------------------------------------------
(* Properties.                                                             *)

\* The assertion "not ready" of i2c.c (lines 201 and 250), compiled out of the
\* product: a thread only calls when no call of another one is in progress.
ReadyWhenCalled == \A t \in Users : pc[t] = "bus" => state = "READY" /\ thread = NULL

\* An interrupt of a transfer always finds the thread to wake, and a status the
\* handler has a case for: STOP has released the bus before every START.
InterruptHasThread ==
  stat # Quiet => /\ thread # NULL /\ pc[thread] = "asleep"
                  /\ stat # "RSTART"

\* What the traffic of a call should be: the device's address and the bytes sent,
\* then, after a STOP, its address again and the bytes received, all but the
\* last acknowledged.
Repeat(s, n) == [i \in 1 .. n |-> s]
SendPart == IF call.tx = 0 THEN <<>> ELSE <<"S", <<"addrW", addr>> >> \o Repeat("own", call.tx)
ReceivePart ==
  IF call.rx = 0 THEN <<>>
  ELSE <<"S", <<"addrR", addr>> >> \o Repeat("ack", call.rx - 1) \o <<"nack">>
Expected == SendPart \o ReceivePart

\* Through every NACK, lost arbitration and interleaving, a call never puts
\* anything else on the bus, and all of it when it returns RDY_OK; when it does
\* not, and only then, i2cGetErrors tells why.  (A receive after a transmit that
\* failed early is the subject of OwnBytesOnly.)
TrafficExact ==
  \A t \in Users :
    /\ pc[t] \in {"asleep", "awake"} /\ ~call.stale =>
         /\ addr = t
         /\ IsPrefix(wire, Expected)
         /\ pc[t] = "awake" /\ rdymsg[t] = "RDY_OK" => wire = Expected /\ rxbytes = 0
    /\ pc[t] = "awake" => (errors = {} <=> rdymsg[t] = "RDY_OK")

\* Every call returns, though its caller waits with TIME_INFINITE.
CallReturns == \A t \in Users : pc[t] = "asleep" ~> pc[t] = "awake"

\* "Receives data via the I2C bus as master." (i2c_lld.c, line 307): a call sends
\* no byte that is not its own.
OwnBytesOnly == "old" \notin Range(wire)
=============================================================================
