------------------------------ MODULE I2CProofs ------------------------------
(***************************************************************************)
(* Calls of the I2C driver never overlap, no wake-up is lost, and what     *)
(* goes over the bus is what was asked for, for any number of threads, any *)
(* lengths and any set of faults.                                          *)
(***************************************************************************)
EXTENDS I2CDriver, SequenceTheorems, TLAPS

Answers == {"SLAW_ACK", "SLAR_ACK", "TDAT_ACK", "RDAT_ACK", "RDAT_NACK"} \cup Nacks

TypeInv ==
  /\ pc \in [Users -> {"idle", "bus", "fields", "start", "asleep", "awake"}]
  /\ owner \in Users \cup {NULL}
  /\ thread \in Users \cup {NULL}
  /\ stat \in {Quiet, "START"} \cup Answers \cup Losses
  /\ job \in {Quiet, "addrW", "addrR", "write", "read"}
  /\ STA \in BOOLEAN /\ STO \in BOOLEAN /\ bus \in BOOLEAN

\* The thread that is inside the driver's functions has the mutex.
OwnerAgrees == \A t \in Users : pc[t] # "idle" <=> owner = t

\* The thread that sleeps is the one the interrupt handler will wake.
SleeperAgrees == \A t \in Users : pc[t] = "asleep" <=> thread = t

\* Between two calls the driver is ready.
ReadyBetween == (\A t \in Users : pc[t] \in {"idle", "bus"}) => state = "READY"

\* A bus that nobody uses is free, or about to be.
Released == bus => STO

\* What the peripheral does when no thread sleeps: nothing but a last STOP.
Resting == stat = Quiet /\ job = Quiet /\ ~STA /\ Released

\* What it does while a thread sleeps: it has a START to send, has sent it, moves
\* a byte, or waits for the interrupt that a byte or a fault brings.
StartWanted == STA /\ stat = Quiet /\ job = Quiet /\ Released
StartSent == STA /\ stat = "START" /\ job = Quiet /\ ~STO
Moving == ~STA /\ stat = Quiet /\ job # Quiet /\ ~STO
Answered == ~STA /\ stat \in Answers \cup Losses /\ job = Quiet /\ ~STO
                 /\ (stat \in Losses => ~bus)

BusAgrees ==
  /\ thread = NULL => Resting
  /\ thread # NULL => StartWanted \/ StartSent \/ Moving \/ Answered

IInv == TypeInv /\ OwnerAgrees /\ SleeperAgrees /\ ReadyBetween /\ BusAgrees

-----------------------------------------------------------------------------
\* No status stands for two things.
LEMMA Words ==
  /\ Quiet \notin Answers \cup Losses /\ "START" \notin Answers \cup Losses
  /\ "RSTART" \notin {Quiet, "START"} \cup Answers \cup Losses
  /\ Nacks \subseteq Answers /\ Answers \cap Losses = {} /\ Quiet # "START"
  /\ "RDAT_NACK" \notin Losses
  /\ {"SLAW_ACK", "SLAR_ACK", "TDAT_ACK", "RDAT_ACK", "RDAT_NACK"} \subseteq Answers
  /\ Quiet \notin {"addrW", "addrR", "write", "read"}
BY DEF Quiet, Answers, Losses, Nacks

\* The invariant holds at the start.
LEMMA InitInv == Init => IInv
<1> SUFFICES ASSUME Init PROVE IInv
  OBVIOUS
<1>1. TypeInv
  BY DEF Init, TypeInv
<1>2. OwnerAgrees /\ SleeperAgrees
  BY I2CAssumption DEF Init, OwnerAgrees, SleeperAgrees
<1>3. ReadyBetween
  BY DEF Init, ReadyBetween
<1>4. BusAgrees
  BY DEF Init, BusAgrees, Resting, Released
<1> QED
  BY <1>1, <1>2, <1>3, <1>4 DEF IInv

\* The steps of a thread between two of its places, the sleep left aside.
LEMMA StepAwake ==
  ASSUME IInv, NEW t \in Users, NEW to \in {"idle", "bus", "fields", "start"},
         pc[t] # "asleep",
         pc' = [pc EXCEPT ![t] = to],
         owner' = IF to = "idle" THEN NULL ELSE t,
         owner = t \/ owner = NULL,
         to \in {"idle", "bus"} => state' = "READY",
         thread' = thread, UNCHANGED hwVars
  PROVE  IInv'
<1>1. TypeInv'
  BY I2CAssumption DEF IInv, TypeInv, hwVars, conVars
<1>2. OwnerAgrees'
  BY I2CAssumption DEF IInv, OwnerAgrees, TypeInv
<1>3. SleeperAgrees'
  BY DEF IInv, SleeperAgrees, TypeInv
<1>4. ReadyBetween'
  <2>1. pc'[t] = to
    BY DEF IInv, TypeInv
  <2> QED
    BY <2>1 DEF ReadyBetween
<1>5. BusAgrees'
  BY DEF IInv, BusAgrees, hwVars, conVars, Resting, Released, StartWanted, StartSent,
     Moving, Answered
<1> QED
  BY <1>1, <1>2, <1>3, <1>4, <1>5 DEF IInv

\* The steps of the threads keep it.
LEMMA UserStep ==
  ASSUME IInv, NEW t \in Users, User(t)
  PROVE  IInv'
<1>1. CASE AcquireBus(t)
  <2>1. state = "READY"
    BY <1>1, I2CAssumption DEF AcquireBus, IInv, OwnerAgrees, ReadyBetween
  <2> QED
    BY <1>1, <2>1, StepAwake DEF AcquireBus, driverVars
<1>2. CASE ReleaseBus(t)
  <2>1. owner = t /\ state = "READY"
    BY <1>2, I2CAssumption DEF ReleaseBus, IInv, OwnerAgrees, ReadyBetween, TypeInv
  <2> QED
    BY <1>2, <2>1, StepAwake DEF ReleaseBus, driverVars
<1>3. CASE EnterTransmit(t) \/ EnterReceive(t) \/ SetFields(t)
  <2>1. owner = t
    BY <1>3 DEF EnterTransmit, EnterReceive, SetFields, IInv, OwnerAgrees
  <2> QED
    BY <1>3, <2>1, StepAwake DEF EnterTransmit, EnterReceive, SetFields
<1>4. CASE ReturnFromCall(t)
  <2>1. owner = t
    BY <1>4 DEF ReturnFromCall, IInv, OwnerAgrees
  <2> QED
    BY <1>4, <2>1, StepAwake DEF ReturnFromCall
<1>5. CASE StartTransfer(t)
  <2>1. owner = t /\ thread = NULL
    BY <1>5, I2CAssumption DEF StartTransfer, IInv, OwnerAgrees, SleeperAgrees, TypeInv
  <2>2. Resting
    BY <2>1 DEF IInv, BusAgrees
  <2>3. TypeInv'
    BY <1>5 DEF StartTransfer, IInv, TypeInv
  <2>4. OwnerAgrees' /\ SleeperAgrees'
    BY <1>5, <2>1, I2CAssumption DEF StartTransfer, IInv, OwnerAgrees, SleeperAgrees, TypeInv
  <2>5. ReadyBetween'
    BY <1>5 DEF StartTransfer, ReadyBetween, IInv, TypeInv
  <2>6. StartWanted'
    BY <1>5, <2>2 DEF StartTransfer, StartWanted, Resting, Released
  <2>7. thread' # NULL
    BY <1>5, I2CAssumption DEF StartTransfer
  <2> QED
    BY <2>3, <2>4, <2>5, <2>6, <2>7 DEF IInv, BusAgrees
<1> QED
  BY <1>1, <1>2, <1>3, <1>4, <1>5 DEF User, InCall

-----------------------------------------------------------------------------
\* A step of the peripheral or of the handler that wakes nobody keeps what is
\* known of the threads.
LEMMA ThreadsKept ==
  ASSUME IInv, UNCHANGED <<pc, owner, state, thread>>, TypeInv', BusAgrees'
  PROVE  IInv'
BY DEF IInv, OwnerAgrees, SleeperAgrees, ReadyBetween

\* Whom a status finds.
LEMMA StatusFindsSleeper ==
  ASSUME IInv, stat # Quiet \/ job # Quiet
  PROVE  thread # NULL /\ thread \in Users
BY DEF IInv, BusAgrees, Resting, TypeInv

\* The end of a transfer: the thread is woken, and the bus free or about to be.
LEMMA WakeKeeps ==
  ASSUME IInv, stat # Quiet, NEW msg, Wakeup(msg), Resting',
         STA' = STA, STO' \in BOOLEAN, bus' = bus, job' = job, owner' = owner
  PROVE  IInv'
<1>1. thread \in Users /\ thread # NULL
  BY StatusFindsSleeper
<1>2. thread' = NULL /\ pc' = [pc EXCEPT ![thread] = "awake"]
  BY <1>1 DEF Wakeup
<1>3. TypeInv'
  BY <1>2 DEF IInv, TypeInv, Resting
<1>4. pc[thread] = "asleep" /\ owner = thread
  BY <1>1 DEF IInv, SleeperAgrees, OwnerAgrees
<1>5. OwnerAgrees'
  BY <1>1, <1>2, <1>4 DEF IInv, OwnerAgrees, TypeInv
<1>6. SleeperAgrees'
  BY <1>1, <1>2, I2CAssumption DEF IInv, SleeperAgrees, TypeInv
<1>7. ReadyBetween'
  <2>1. pc'[thread] = "awake"
    BY <1>1, <1>2 DEF IInv, TypeInv
  <2> QED
    BY <1>1, <2>1 DEF ReadyBetween
<1>8. BusAgrees'
  BY <1>2 DEF BusAgrees
<1> QED
  BY <1>3, <1>5, <1>6, <1>7, <1>8 DEF IInv

\* The steps of the interrupt keep it.
LEMMA IsrStep ==
  ASSUME IInv, Isr
  PROVE  IInv'
<1>1. stat # Quiet /\ stat \notin {"RSTART"}
  BY Words DEF Isr, IsrStart, IsrNack, IsrWriteAck, IsrReadAck, IsrReadNack, IsrLoss,
     IInv, TypeInv
<1>2. thread # NULL /\ thread \in Users
  BY <1>1, StatusFindsSleeper
<1>3. StartSent \/ Answered
  BY <1>1, <1>2 DEF IInv, BusAgrees, StartWanted, Moving
<1>4. CASE IsrStart
  <2>1. ~STO
    BY <1>3 DEF StartSent, Answered
  <2>2. UNCHANGED <<pc, owner, state, thread, STO, bus>> /\ STA' = FALSE /\ stat' = Quiet
    BY <1>4 DEF IsrStart, driverVars
  <2>3. job' \in {"addrW", "addrR"}
    BY <1>4 DEF IsrStart
  <2>4. Moving'
    BY <2>1, <2>2, <2>3, Words DEF Moving
  <2>5. TypeInv'
    BY <2>2, <2>3 DEF IInv, TypeInv
  <2> QED
    BY <1>2, <2>2, <2>4, <2>5, ThreadsKept DEF BusAgrees
<1>5. CASE IsrNack
  <2>1. Answered
    BY <1>3, <1>5, Words DEF IsrNack, StartSent
  <2>2. Resting'
    BY <1>5, <2>1 DEF IsrNack, Answered, Resting, Released
  <2> QED
    BY <1>1, <1>5, <2>2, WakeKeeps DEF IsrNack
<1>6. CASE IsrWriteAck
  <2>1. Answered
    BY <1>3, <1>6, Words DEF IsrWriteAck, StartSent
  <2>2. stat' = Quiet /\ bus' = bus /\ owner' = owner /\ state' = state
    BY <1>6 DEF IsrWriteAck
  <2>3. CASE txbytes > 0
    <3>1. UNCHANGED <<pc, thread, STA, STO>> /\ job' = "write"
      BY <1>6, <2>3 DEF IsrWriteAck, SendData, conVars
    <3>2. Moving'
      BY <2>1, <2>2, <3>1, Words DEF Moving, Answered
    <3>3. TypeInv'
      BY <2>2, <3>1 DEF IInv, TypeInv
    <3> QED
      BY <1>2, <2>2, <3>1, <3>2, <3>3, ThreadsKept DEF BusAgrees
  <2>4. CASE ~(txbytes > 0) /\ rxbytes > 0
    <3>1. UNCHANGED <<pc, thread, job>> /\ STA' = TRUE /\ STO' = TRUE
      BY <1>6, <2>4 DEF IsrWriteAck
    <3>2. StartWanted'
      BY <2>1, <2>2, <3>1 DEF StartWanted, Answered, Released
    <3>3. TypeInv'
      BY <2>2, <3>1 DEF IInv, TypeInv
    <3> QED
      BY <1>2, <2>2, <3>1, <3>2, <3>3, ThreadsKept DEF BusAgrees
  <2>5. CASE ~(txbytes > 0) /\ ~(rxbytes > 0)
    <3>1. Wakeup("RDY_OK") /\ STA' = STA /\ STO' = TRUE /\ job' = job
      BY <1>6, <2>5 DEF IsrWriteAck
    <3>2. Resting'
      BY <2>1, <2>2, <3>1 DEF Answered, Resting, Released
    <3> QED
      BY <1>1, <2>2, <3>1, <3>2, WakeKeeps
  <2> QED
    BY <2>3, <2>4, <2>5
<1>7. CASE IsrReadAck
  <2>1. Answered
    BY <1>3, <1>7, Words DEF IsrReadAck, StartSent
  <2>2. UNCHANGED <<pc, owner, state, thread, STA, STO, bus>> /\ job' = "read" /\ stat' = Quiet
    BY <1>7 DEF IsrReadAck
  <2>3. Moving'
    BY <2>1, <2>2, Words DEF Moving, Answered
  <2>4. TypeInv'
    BY <2>2 DEF IInv, TypeInv
  <2> QED
    BY <1>2, <2>2, <2>3, <2>4, ThreadsKept DEF BusAgrees
<1>8. CASE IsrReadNack
  <2>1. Answered
    BY <1>3, <1>8, Words DEF IsrReadNack, StartSent
  <2>2. Resting'
    BY <1>8, <2>1 DEF IsrReadNack, Answered, Resting, Released
  <2> QED
    BY <1>1, <1>8, <2>2, WakeKeeps DEF IsrReadNack
<1>9. CASE IsrLoss
  <2>1. Answered /\ ~bus
    BY <1>3, <1>9, Words DEF IsrLoss, StartSent, Answered
  <2>2. Resting'
    BY <1>9, <2>1 DEF IsrLoss, Answered, Resting, Released, conVars
  <2>3. STO' = STO /\ STA' = STA /\ Wakeup("RDY_RESET") /\ UNCHANGED <<owner, job, bus>>
    BY <1>9 DEF IsrLoss, conVars
  <2>4. STO' \in BOOLEAN
    BY <2>3 DEF IInv, TypeInv
  <2> QED
    BY <1>1, <2>2, <2>3, <2>4, WakeKeeps
<1> QED
  BY <1>4, <1>5, <1>6, <1>7, <1>8, <1>9 DEF Isr

\* A device answers an address or a byte, and nothing else.
LEMMA OutcomesAreAnswers ==
  ASSUME job \in {"addrW", "addrR", "write", "read"}
  PROVE  Outcomes \subseteq Answers
<1>1. CASE job = "addrW"
  BY <1>1 DEF Outcomes, Answers, Nacks
<1>2. CASE job = "addrR"
  BY <1>2 DEF Outcomes, Answers, Nacks
<1>3. CASE job = "write"
  BY <1>3 DEF Outcomes, Answers, Nacks
<1>4. CASE job = "read"
  BY <1>4 DEF Outcomes, Answers
<1> QED
  BY <1>1, <1>2, <1>3, <1>4

\* The steps of the bus keep it.
LEMMA HardwareStep ==
  ASSUME IInv, Hardware
  PROVE  IInv'
<1>1. CASE SendStop
  <2>1. UNCHANGED <<pc, owner, state, thread, STA, stat, job>> /\ STO' = FALSE /\ bus' = FALSE
        /\ STO /\ stat = Quiet
    BY <1>1 DEF SendStop, driverVars
  <2>2. TypeInv'
    BY <2>1 DEF IInv, TypeInv
  <2>3. thread = NULL => Resting'
    BY <2>1 DEF IInv, BusAgrees, Resting, Released
  <2>4. thread # NULL => StartWanted'
    BY <2>1, Words DEF IInv, BusAgrees, StartWanted, StartSent, Moving, Answered, Released
  <2> QED
    BY <2>1, <2>2, <2>3, <2>4, ThreadsKept DEF BusAgrees
<1>2. CASE SendStart
  <2>1. UNCHANGED <<pc, owner, state, thread, STA, STO, job>> /\ bus' = TRUE
        /\ STA /\ ~STO /\ stat = Quiet /\ job = Quiet
    BY <1>2 DEF SendStart, driverVars, conVars
  <2>2. thread # NULL /\ StartWanted
    BY <2>1, Words DEF IInv, BusAgrees, Resting, StartSent, Moving, Answered
  <2>3. stat' = "START"
    BY <1>2, <2>1, <2>2 DEF SendStart, StartWanted, Released
  <2>4. TypeInv'
    BY <2>1, <2>3 DEF IInv, TypeInv
  <2>5. StartSent'
    BY <2>1, <2>3 DEF StartSent
  <2> QED
    BY <2>1, <2>2, <2>4, <2>5, ThreadsKept DEF BusAgrees
<1>3. CASE MoveByte
  <2>1. UNCHANGED <<pc, owner, state, thread, STA, STO, bus>> /\ job' = Quiet
        /\ job # Quiet /\ stat' \in Outcomes
    BY <1>3 DEF MoveByte, driverVars, conVars
  <2>2. thread # NULL /\ Moving
    BY <2>1 DEF IInv, BusAgrees, Resting, StartWanted, StartSent, Answered
  <2>3. job \in {"addrW", "addrR", "write", "read"}
    BY <2>1 DEF IInv, TypeInv
  <2>4. stat' \in Answers
    BY <2>1, <2>3, OutcomesAreAnswers
  <2>5. TypeInv'
    BY <2>1, <2>4 DEF IInv, TypeInv
  <2>6. Answered'
    BY <2>1, <2>2, <2>4, Words DEF Answered, Moving
  <2> QED
    BY <2>1, <2>2, <2>5, <2>6, ThreadsKept DEF BusAgrees
<1>4. CASE LoseBus
  <2>1. UNCHANGED <<pc, owner, state, thread, STA, STO>> /\ job' = Quiet /\ bus' = FALSE
        /\ job # Quiet /\ stat' \in Losses
    BY <1>4 DEF LoseBus, driverVars, conVars, Losses
  <2>2. thread # NULL /\ Moving
    BY <2>1 DEF IInv, BusAgrees, Resting, StartWanted, StartSent, Answered
  <2>3. TypeInv'
    BY <2>1 DEF IInv, TypeInv
  <2>4. Answered'
    BY <2>1, <2>2 DEF Answered, Moving
  <2> QED
    BY <2>1, <2>2, <2>3, <2>4, ThreadsKept DEF BusAgrees
<1> QED
  BY <1>1, <1>2, <1>3, <1>4 DEF Hardware

\* Every step keeps it.
LEMMA NextInv == IInv /\ [Next]_vars => IInv'
<1> SUFFICES ASSUME IInv, [Next]_vars PROVE IInv'
  OBVIOUS
<1>1. CASE UNCHANGED vars
  BY <1>1 DEF vars, driverVars, hwVars, conVars, IInv, TypeInv, OwnerAgrees, SleeperAgrees,
     ReadyBetween, BusAgrees, Resting, Released, StartWanted, StartSent, Moving, Answered
<1> QED
  BY <1>1, UserStep, IsrStep, HardwareStep DEF Next

\* It holds in every behaviour.
LEMMA InvHolds == Spec => []IInv
BY InitInv, NextInv, PTL DEF Spec

-----------------------------------------------------------------------------
\* The assertion of i2c.c (lines 201 and 250), compiled out of the product, holds
\* for any number of threads: the mutex alone keeps calls apart.
THEOREM CallsDoNotOverlap == Spec => []ReadyWhenCalled
<1>1. IInv => ReadyWhenCalled
  <2> SUFFICES ASSUME IInv, NEW t \in Users, pc[t] = "bus"
               PROVE  state = "READY" /\ thread = NULL
    BY DEF ReadyWhenCalled
  <2>1. \A s \in Users : s # t => pc[s] = "idle"
    BY DEF IInv, OwnerAgrees
  <2>2. state = "READY"
    BY <2>1 DEF IInv, ReadyBetween
  <2>3. thread = NULL
    BY <2>1 DEF IInv, SleeperAgrees, TypeInv
  <2> QED
    BY <2>2, <2>3
<1> QED
  BY <1>1, InvHolds, PTL

\* No interrupt of a transfer finds nobody to wake, or a repeated START that the
\* handler has no case for, whatever faults came before.
THEOREM NoWakeupLost == Spec => []InterruptHasThread
<1>1. IInv => InterruptHasThread
  <2> SUFFICES ASSUME IInv, stat # Quiet
               PROVE  thread # NULL /\ pc[thread] = "asleep" /\ stat # "RSTART"
    BY DEF InterruptHasThread
  <2>1. thread # NULL /\ thread \in Users
    BY StatusFindsSleeper
  <2>2. pc[thread] = "asleep"
    BY <2>1 DEF IInv, SleeperAgrees
  <2>3. stat # "RSTART"
    BY Words DEF IInv, TypeInv
  <2> QED
    BY <2>1, <2>2, <2>3
<1> QED
  BY <1>1, InvHolds, PTL

-----------------------------------------------------------------------------
(* The traffic of a call.                                                  *)

Signals == {"S", "own", "old", "ack", "nack"} \cup ({"addrW", "addrR"} \X (Users \cup {NULL}))

TrafficTypes ==
  /\ txbytes \in Nat /\ wire \in Seq(Signals) /\ addr \in Users \cup {NULL}
  /\ txbuf \in {"own", "old"} /\ call \in [tx : Nat, rx : Nat, stale : BOOLEAN]
  /\ rdymsg \in [Users -> {"RDY_OK", "RDY_RESET"}]

\* What has been on the bus is the beginning of what should be.
Follows ==
  /\ Len(wire) =< Len(Expected)
  /\ \A i \in 1 .. Len(wire) : wire[i] = Expected[i]

\* The length of the part a call sends, of its two parts.
Sending == IF call.tx = 0 THEN 0 ELSE call.tx + 2

\* How much of it has been, by what the peripheral does and by the two counters: before
\* a START of the first or of the second part, ...
NothingYet == txbytes = call.tx /\ rxbytes = call.rx
AllSent == txbytes = 0 /\ rxbytes = call.rx /\ call.rx > 0

StartProgress ==
  /\ STA /\ stat = Quiet => \/ NothingYet /\ Len(wire) = 0
                            \/ AllSent /\ Len(wire) = Sending
  /\ stat = "START" => \/ NothingYet /\ Len(wire) = 1
                       \/ AllSent /\ Len(wire) = Sending + 1

\* ... while bytes are sent ...
SendProgress ==
  /\ job = "addrW" => NothingYet /\ call.tx > 0 /\ Len(wire) = 1
  /\ job = "write" => /\ rxbytes = call.rx /\ txbytes < call.tx
                      /\ Len(wire) = 1 + call.tx - txbytes
  /\ stat \in {"SLAW_ACK", "TDAT_ACK"} =>
       /\ rxbytes = call.rx /\ call.tx > 0 /\ txbytes =< call.tx
       /\ Len(wire) = 2 + call.tx - txbytes

\* ... and while they are received, all but the last to be acknowledged.
ReceiveProgress ==
  /\ job = "addrR" => AllSent /\ Len(wire) = Sending + 1
  /\ job = "read" => /\ txbytes = 0 /\ rxbytes \in 1 .. call.rx /\ (AA <=> rxbytes # 1)
                     /\ Len(wire) = Sending + 2 + call.rx - rxbytes
  /\ stat = "SLAR_ACK" => AllSent /\ Len(wire) = Sending + 2
  /\ stat = "RDAT_ACK" => /\ txbytes = 0 /\ rxbytes \in 2 .. call.rx
                          /\ Len(wire) = Sending + 3 + call.rx - rxbytes
  /\ stat = "RDAT_NACK" => /\ txbytes = 0 /\ rxbytes = 1 /\ call.rx > 0
                           /\ Len(wire) = Sending + 2 + call.rx

Progress == StartProgress /\ SendProgress /\ ReceiveProgress

\* The call a thread is in.
CallOf(t) ==
  /\ pc[t] \notin {"idle", "bus"} => addr = t /\ call.tx + call.rx > 0
  /\ pc[t] = "fields" => /\ state = "ACTIVE_TX" <=> call.tx > 0
                         /\ call.tx = 0 /\ ~call.stale => txbytes = 0
  /\ pc[t] \in {"start", "asleep"} => errors = {} /\ (call.tx > 0 => txbuf = "own")
  /\ pc[t] = "start" /\ ~call.stale => NothingYet
  /\ pc[t] = "asleep" /\ ~call.stale => Follows /\ Progress
  /\ pc[t] = "awake" => (errors = {} <=> rdymsg[t] = "RDY_OK")
  /\ pc[t] = "awake" /\ ~call.stale =>
       Follows /\ (rdymsg[t] = "RDY_OK" => Len(wire) = Len(Expected) /\ rxbytes = 0)

TrafficInv == TrafficTypes /\ \A t \in Users : CallOf(t)
Receiving == IF call.rx = 0 THEN 0 ELSE call.rx + 2

\* Two lists of signals, one after the other.
LEMMA Glued ==
  ASSUME NEW a \in Seq(Signals), NEW b \in Seq(Signals)
  PROVE  /\ a \o b \in Seq(Signals) /\ Len(a \o b) = Len(a) + Len(b)
         /\ \A i \in 1 .. Len(a) : (a \o b)[i] = a[i]
         /\ \A i \in 1 .. Len(b) : (a \o b)[Len(a) + i] = b[i]
<1>1. /\ a \o b \in Seq(Signals) /\ Len(a \o b) = Len(a) + Len(b)
      /\ \A i \in 1 .. Len(a) + Len(b) :
           (a \o b)[i] = IF i =< Len(a) THEN a[i] ELSE b[i - Len(a)]
  BY ConcatProperties
<1>2. Len(a) \in Nat /\ Len(b) \in Nat
  OBVIOUS
<1>3. ASSUME NEW i \in 1 .. Len(b) PROVE (a \o b)[Len(a) + i] = b[i]
  <2>1. Len(a) + i \in 1 .. Len(a) + Len(b) /\ ~(Len(a) + i =< Len(a)) /\ (Len(a) + i) - Len(a) = i
    BY <1>2
  <2> QED
    BY <1>1, <2>1
<1>4. ASSUME NEW i \in 1 .. Len(a) PROVE (a \o b)[i] = a[i]
  <2>1. i \in 1 .. Len(a) + Len(b) /\ i =< Len(a)
    BY <1>2
  <2> QED
    BY <1>1, <2>1
<1> QED
  BY <1>1, <1>3, <1>4

\* A signal over and over.
LEMMA Repeated ==
  ASSUME NEW s \in Signals, NEW n \in Nat
  PROVE  /\ Repeat(s, n) \in Seq(Signals) /\ Len(Repeat(s, n)) = n
         /\ \A i \in 1 .. n : Repeat(s, n)[i] = s
BY DEF Repeat

\* The address and the bytes a call sends.
LEMMA SendPartShape ==
  ASSUME TrafficTypes
  PROVE  /\ SendPart \in Seq(Signals) /\ Len(SendPart) = Sending /\ Sending \in Nat
         /\ call.tx > 0 => /\ SendPart[1] = "S" /\ SendPart[2] = <<"addrW", addr>>
                           /\ \A i \in 1 .. call.tx : SendPart[2 + i] = "own"
<1>1. call.tx \in Nat /\ addr \in Users \cup {NULL}
  BY DEF TrafficTypes
<1>2. CASE call.tx = 0
  BY <1>2 DEF SendPart, Sending
<1>3. CASE call.tx # 0
  <2> DEFINE a == <<"S", <<"addrW", addr>> >>
             b == Repeat("own", call.tx)
  <2>1. a \in Seq(Signals) /\ Len(a) = 2 /\ a[1] = "S" /\ a[2] = <<"addrW", addr>>
    BY <1>1 DEF Signals
  <2>2. b \in Seq(Signals) /\ Len(b) = call.tx /\ \A i \in 1 .. call.tx : b[i] = "own"
    <3>1. "own" \in Signals
      BY DEF Signals
    <3> QED
      BY <1>1, <3>1, Repeated
  <2>3. SendPart = a \o b /\ Sending = 2 + call.tx
    BY <1>1, <1>3 DEF SendPart, Sending
  <2> HIDE DEF a, b
  <2>4. /\ a \o b \in Seq(Signals) /\ Len(a \o b) = Len(a) + Len(b)
        /\ \A i \in 1 .. Len(a) : (a \o b)[i] = a[i]
        /\ \A i \in 1 .. Len(b) : (a \o b)[Len(a) + i] = b[i]
    BY ONLY <2>1, <2>2, Glued
  <2>5. 1 \in 1 .. Len(a) /\ 2 \in 1 .. Len(a)
    BY <2>1
  <2> QED
    BY <1>1, <2>1, <2>2, <2>3, <2>4, <2>5
<1> QED
  BY <1>2, <1>3

\* The address and the bytes it receives.
LEMMA ReceivePartShape ==
  ASSUME TrafficTypes
  PROVE  /\ ReceivePart \in Seq(Signals) /\ Len(ReceivePart) = Receiving /\ Receiving \in Nat
         /\ call.rx > 0 => /\ ReceivePart[1] = "S" /\ ReceivePart[2] = <<"addrR", addr>>
                           /\ \A i \in 1 .. call.rx - 1 : ReceivePart[2 + i] = "ack"
                           /\ ReceivePart[2 + call.rx] = "nack"
<1>1. call.rx \in Nat /\ addr \in Users \cup {NULL}
  BY DEF TrafficTypes
<1>2. CASE call.rx = 0
  BY <1>2 DEF ReceivePart, Receiving
<1>3. CASE call.rx # 0
  <2> DEFINE n == call.rx - 1
             a == <<"S", <<"addrR", addr>> >>
             b == Repeat("ack", n)
             c == <<"nack">>
  <2>0. n \in Nat /\ n + 1 = call.rx
    BY <1>1, <1>3
  <2>1. a \in Seq(Signals) /\ Len(a) = 2 /\ a[1] = "S" /\ a[2] = <<"addrR", addr>>
    BY <1>1 DEF Signals
  <2> HIDE DEF n
  <2>2. b \in Seq(Signals) /\ Len(b) = n /\ \A i \in 1 .. n : b[i] = "ack"
    <3>1. "ack" \in Signals
      BY DEF Signals
    <3> QED
      BY <2>0, <3>1, Repeated
  <2>3. c \in Seq(Signals) /\ Len(c) = 1 /\ c[1] = "nack"
    BY DEF Signals
  <2>4. ReceivePart = (a \o b) \o c /\ Receiving = call.rx + 2
    BY <1>1, <1>3 DEF ReceivePart, Receiving, n
  <2> HIDE DEF a, b, c
  <2>5. /\ a \o b \in Seq(Signals) /\ Len(a \o b) = Len(a) + Len(b)
        /\ \A i \in 1 .. Len(a) : (a \o b)[i] = a[i]
        /\ \A i \in 1 .. Len(b) : (a \o b)[Len(a) + i] = b[i]
    BY ONLY <2>1, <2>2, Glued
  <2> DEFINE ab == a \o b
  <2>6. /\ ab \in Seq(Signals) /\ Len(ab) = 2 + n /\ ab[1] = "S" /\ ab[2] = <<"addrR", addr>>
        /\ \A i \in 1 .. n : ab[2 + i] = "ack"
    <3>1. 1 \in 1 .. Len(a) /\ 2 \in 1 .. Len(a)
      BY <2>1
    <3> QED
      BY <2>1, <2>2, <2>5, <3>1
  <2> HIDE DEF ab
  <2>7. /\ ab \o c \in Seq(Signals) /\ Len(ab \o c) = Len(ab) + Len(c)
        /\ \A i \in 1 .. Len(ab) : (ab \o c)[i] = ab[i]
        /\ \A i \in 1 .. Len(c) : (ab \o c)[Len(ab) + i] = c[i]
    BY ONLY <2>3, <2>6, Glued
  <2> DEFINE abc == ab \o c
  <2>8. ReceivePart = abc
    BY <2>4 DEF ab
  <2>9. /\ abc \in Seq(Signals) /\ Len(abc) = n + 3 /\ abc[1] = "S" /\ abc[2] = <<"addrR", addr>>
        /\ \A i \in 1 .. n : abc[2 + i] = "ack"
        /\ abc[2 + (n + 1)] = "nack"
    <3>1. /\ 1 \in 1 .. Len(ab) /\ 2 \in 1 .. Len(ab) /\ 1 \in 1 .. Len(c)
          /\ \A i \in 1 .. n : 2 + i \in 1 .. Len(ab)
          /\ Len(ab) + 1 = 2 + (n + 1)
      BY ONLY <2>0, <2>3, <2>6
    <3>2. Len(abc) = n + 3
      BY ONLY <2>0, <2>3, <2>6, <2>7
    <3> QED
      BY <2>3, <2>6, <2>7, <3>1, <3>2
  <2> HIDE DEF abc
  <2> QED
    BY ONLY <1>1, <2>0, <2>4, <2>8, <2>9, Receiving = call.rx + 2
<1> QED
  BY <1>2, <1>3

\* The traffic of a call, place by place.
LEMMA ExpectedShape ==
  ASSUME TrafficTypes
  PROVE  /\ Expected \in Seq(Signals) /\ Len(Expected) = Sending + Receiving
         /\ Sending \in Nat /\ Receiving \in Nat
         /\ call.tx > 0 => /\ Expected[1] = "S" /\ Expected[2] = <<"addrW", addr>>
                           /\ \A i \in 1 .. call.tx : Expected[2 + i] = "own"
         /\ call.rx > 0 => /\ Expected[Sending + 1] = "S"
                           /\ Expected[Sending + 2] = <<"addrR", addr>>
                           /\ \A i \in 1 .. call.rx - 1 : Expected[Sending + (2 + i)] = "ack"
                           /\ Expected[Sending + (2 + call.rx)] = "nack"
<1> DEFINE s == SendPart
           r == ReceivePart
<1>1. /\ s \in Seq(Signals) /\ Len(s) = Sending /\ Sending \in Nat
      /\ call.tx > 0 => /\ s[1] = "S" /\ s[2] = <<"addrW", addr>>
                        /\ \A i \in 1 .. call.tx : s[2 + i] = "own"
  BY SendPartShape
<1>2. /\ r \in Seq(Signals) /\ Len(r) = Receiving /\ Receiving \in Nat
      /\ call.rx > 0 => /\ r[1] = "S" /\ r[2] = <<"addrR", addr>>
                        /\ \A i \in 1 .. call.rx - 1 : r[2 + i] = "ack"
                        /\ r[2 + call.rx] = "nack"
  BY ReceivePartShape
<1>3. Expected = s \o r
  BY DEF Expected
<1>4. /\ call.tx \in Nat /\ call.rx \in Nat
      /\ call.tx > 0 => Sending = call.tx + 2
      /\ call.rx > 0 => Receiving = call.rx + 2
  BY DEF TrafficTypes, Sending, Receiving
<1> HIDE DEF s, r
<1>5. /\ s \o r \in Seq(Signals) /\ Len(s \o r) = Len(s) + Len(r)
      /\ \A i \in 1 .. Len(s) : (s \o r)[i] = s[i]
      /\ \A i \in 1 .. Len(r) : (s \o r)[Len(s) + i] = r[i]
  BY ONLY <1>1, <1>2, Glued
<1>6. ASSUME call.tx > 0
      PROVE  /\ Expected[1] = "S" /\ Expected[2] = <<"addrW", addr>>
             /\ \A i \in 1 .. call.tx : Expected[2 + i] = "own"
  <2>1. /\ 1 \in 1 .. Sending /\ 2 \in 1 .. Sending
        /\ \A i \in 1 .. call.tx : 2 + i \in 1 .. Sending
    BY ONLY <1>4, <1>6
  <2> QED
    BY <1>1, <1>3, <1>5, <1>6, <2>1
<1>7. ASSUME call.rx > 0
      PROVE  /\ Expected[Sending + 1] = "S" /\ Expected[Sending + 2] = <<"addrR", addr>>
             /\ \A i \in 1 .. call.rx - 1 : Expected[Sending + (2 + i)] = "ack"
             /\ Expected[Sending + (2 + call.rx)] = "nack"
  <2>1. /\ 1 \in 1 .. Receiving /\ 2 \in 1 .. Receiving /\ 2 + call.rx \in 1 .. Receiving
        /\ \A i \in 1 .. call.rx - 1 : 2 + i \in 1 .. Receiving
    BY ONLY <1>4, <1>7
  <2> QED
    BY <1>1, <1>2, <1>3, <1>5, <1>7, <2>1
<1> QED
  BY <1>1, <1>2, <1>3, <1>5, <1>6, <1>7

\* One more signal, the one that is due.
LEMMA Appended ==
  ASSUME TrafficTypes, Follows, NEW x \in Signals, wire' = Append(wire, x),
         Len(wire) < Len(Expected), Expected[Len(wire) + 1] = x, UNCHANGED <<call, addr>>
  PROVE  /\ wire' \in Seq(Signals) /\ Len(wire') = Len(wire) + 1 /\ Follows'
<1>1. wire \in Seq(Signals) /\ Len(wire) \in Nat
  BY DEF TrafficTypes
<1>2. Expected' = Expected
  BY DEF Expected, SendPart, ReceivePart
<1>3. Len(Expected) \in Nat
  BY ExpectedShape
<1>4. /\ wire' \in Seq(Signals) /\ Len(wire') = Len(wire) + 1 /\ wire'[Len(wire) + 1] = x
      /\ \A i \in 1 .. Len(wire) : wire'[i] = wire[i]
  BY <1>1
<1>5. Len(wire') =< Len(Expected)
  BY ONLY <1>1, <1>3, <1>4, Len(wire) < Len(Expected)
<1>6. ASSUME NEW i \in 1 .. Len(wire') PROVE wire'[i] = Expected[i]
  <2>1. i \in 1 .. Len(wire) \/ i = Len(wire) + 1
    BY <1>1, <1>4
  <2> QED
    BY <1>4, <2>1 DEF Follows
<1> QED
  BY <1>2, <1>4, <1>5, <1>6 DEF Follows

-----------------------------------------------------------------------------
\* Nothing is said of a thread that is not in a call, and only one is.
LEMMA OneCall ==
  ASSUME IInv, NEW t \in Users, pc[t] # "idle",
         TrafficTypes', CallOf(t)', \A s \in Users : s # t => pc'[s] = pc[s]
  PROVE  TrafficInv'
<1>1. \A s \in Users : s # t => pc[s] = "idle"
  BY DEF IInv, OwnerAgrees
<1>2. \A s \in Users : s # t => CallOf(s)'
  BY <1>1 DEF CallOf
<1> QED
  BY <1>2 DEF TrafficInv

\* No traffic at the start.
LEMMA InitTraffic == Init => TrafficInv
<1> SUFFICES ASSUME Init PROVE TrafficInv
  OBVIOUS
<1>1. <<>> \in Seq(Signals)
  OBVIOUS
<1>2. TrafficTypes
  BY <1>1 DEF Init, TrafficTypes
<1>3. \A t \in Users : CallOf(t)
  BY DEF Init, CallOf
<1> QED
  BY <1>2, <1>3 DEF TrafficInv

\* A thread prepares a call, or is back from one.
LEMMA UserTraffic ==
  ASSUME IInv, TrafficInv, NEW t \in Users, User(t)
  PROVE  TrafficInv'
<1>0. TrafficTypes /\ CallOf(t) /\ pc \in [Users -> {"idle", "bus", "fields", "start", "asleep", "awake"}]
  BY DEF TrafficInv, IInv, TypeInv
<1>1. CASE AcquireBus(t)
  <2>1. pc' = [pc EXCEPT ![t] = "bus"] /\ UNCHANGED <<call, driverVars, rdymsg, hwVars>>
    BY <1>1 DEF AcquireBus
  <2>2. TrafficTypes'
    BY <1>0, <2>1 DEF TrafficTypes, driverVars, hwVars
  <2>3. \A s \in Users : pc'[s] \in {"idle", "bus"}
    <3>1. owner = NULL
      BY <1>1 DEF AcquireBus
    <3>2. \A s \in Users : pc[s] = "idle"
      BY <3>1, I2CAssumption DEF I2CAssumption, IInv, OwnerAgrees
    <3> QED
      BY <1>0, <2>1, <3>2
  <2>4. \A s \in Users : CallOf(s)'
    BY <2>3 DEF CallOf
  <2> QED
    BY <2>2, <2>4 DEF TrafficInv
<1>2. CASE ReleaseBus(t)
  <2>1. pc[t] = "bus" /\ pc' = [pc EXCEPT ![t] = "idle"] /\ UNCHANGED <<call, driverVars, rdymsg, hwVars>>
    BY <1>2 DEF ReleaseBus
  <2>2. TrafficTypes'
    BY <1>0, <2>1 DEF TrafficTypes, driverVars, hwVars
  <2>3. CallOf(t)'
    BY <1>0, <2>1 DEF CallOf
  <2> QED
    BY <1>0, <2>1, <2>2, <2>3, OneCall
<1>3. CASE EnterTransmit(t)
  <2>1. PICK n \in 1 .. MaxBytes, m \in 0 .. MaxBytes :
          call' = [tx |-> n, rx |-> m, stale |-> FALSE]
    BY <1>3 DEF EnterTransmit
  <2>2. /\ pc[t] = "bus" /\ pc' = [pc EXCEPT ![t] = "fields"] /\ addr' = t /\ state' = "ACTIVE_TX"
        /\ UNCHANGED <<txbuf, txbytes, rxbytes, thread, rdymsg, hwVars>>
    BY <1>3 DEF EnterTransmit
  <2>3. call'.tx \in Nat /\ call'.tx > 0 /\ call'.rx \in Nat /\ call' \in [tx : Nat, rx : Nat, stale : BOOLEAN]
    BY <2>1
  <2>4. TrafficTypes'
    BY <1>0, <2>2, <2>3 DEF TrafficTypes, hwVars
  <2>5. CallOf(t)'
    <3>1. pc'[t] = "fields" /\ call'.tx + call'.rx > 0 /\ call'.tx # 0
      BY <1>0, <2>2, <2>3
    <3> QED
      BY <2>2, <2>3, <3>1 DEF CallOf
  <2> QED
    BY <1>0, <2>2, <2>4, <2>5, OneCall
<1>4. CASE EnterReceive(t)
  <2>1. PICK m \in 1 .. MaxBytes : call' = [tx |-> 0, rx |-> m, stale |-> txbytes > 0]
    BY <1>4 DEF EnterReceive
  <2>2. /\ pc[t] = "bus" /\ pc' = [pc EXCEPT ![t] = "fields"] /\ addr' = t /\ state' = "ACTIVE_RX"
        /\ UNCHANGED <<txbuf, txbytes, rxbytes, thread, rdymsg, hwVars>>
    BY <1>4 DEF EnterReceive
  <2>3. /\ call'.tx = 0 /\ call'.rx \in Nat /\ call'.rx > 0 /\ call'.stale = (txbytes > 0)
        /\ (txbytes > 0) \in BOOLEAN
    BY <2>1
  <2>4. call' \in [tx : Nat, rx : Nat, stale : BOOLEAN]
    BY <2>1, <2>3
  <2>5. TrafficTypes'
    BY <1>0, <2>2, <2>4 DEF TrafficTypes, hwVars
  <2>6. CallOf(t)'
    <3>1. pc'[t] = "fields" /\ call'.tx + call'.rx > 0 /\ ~(call'.tx > 0)
      BY <1>0, <2>2, <2>3
    <3>2. ~call'.stale => ~(txbytes > 0)
      BY <2>3
    <3>3. ~(txbytes > 0) => txbytes = 0
      BY <1>0 DEF TrafficTypes
    <3> QED
      BY <2>2, <3>1, <3>2, <3>3 DEF CallOf
  <2> QED
    BY <1>0, <2>2, <2>5, <2>6, OneCall
<1>5. CASE SetFields(t)
  <2>1. /\ pc[t] = "fields" /\ pc' = [pc EXCEPT ![t] = "start"] /\ errors' = {} /\ rxbytes' = call.rx
        /\ UNCHANGED <<call, state, addr, thread, rdymsg, hwVars>>
    BY <1>5 DEF SetFields
  <2>2. /\ call.tx \in Nat /\ (state = "ACTIVE_TX" <=> call.tx > 0)
        /\ addr = t /\ call.tx + call.rx > 0
        /\ call.tx = 0 /\ ~call.stale => txbytes = 0
    BY <1>0, <2>1 DEF CallOf, TrafficTypes
  <2>3. CASE state = "ACTIVE_TX"
    <3>1. txbuf' = "own" /\ txbytes' = call.tx
      BY <1>5, <2>3 DEF SetFields
    <3>2. TrafficTypes'
      BY <1>0, <2>1, <2>2, <3>1 DEF TrafficTypes, hwVars
    <3>3. CallOf(t)'
      BY <1>0, <2>1, <2>2, <3>1 DEF CallOf, NothingYet
    <3> QED
      BY <1>0, <2>1, <3>2, <3>3, OneCall
  <2>4. CASE state # "ACTIVE_TX"
    <3>1. txbuf' = "old" /\ txbytes' = txbytes
      BY <1>5, <2>4 DEF SetFields
    <3>2. TrafficTypes'
      BY <1>0, <2>1, <3>1 DEF TrafficTypes, hwVars
    <3>3. ~(call.tx > 0) /\ call.tx = 0
      BY <2>2, <2>4
    <3>4. CallOf(t)'
      BY <1>0, <2>1, <2>2, <3>1, <3>3 DEF CallOf, NothingYet
    <3> QED
      BY <1>0, <2>1, <3>2, <3>4, OneCall
  <2> QED
    BY <2>3, <2>4
<1>6. CASE StartTransfer(t)
  <2>1. /\ pc[t] = "start" /\ pc' = [pc EXCEPT ![t] = "asleep"] /\ wire' = <<>>
        /\ UNCHANGED <<call, state, errors, addr, txbuf, txbytes, rxbytes, rdymsg, stat, job>>
    BY <1>6 DEF StartTransfer
  <2>2. thread = NULL
    BY <2>1 DEF IInv, SleeperAgrees, TypeInv, OwnerAgrees
  <2>3. stat = Quiet /\ job = Quiet
    BY <2>2 DEF IInv, BusAgrees, Resting
  <2>4. TrafficTypes'
    <3>1. <<>> \in Seq(Signals)
      OBVIOUS
    <3> QED
      BY <1>0, <2>1, <3>1 DEF TrafficTypes
  <2>5. Follows' /\ Len(wire') = 0
    <3>1. Len(Expected') \in Nat
      <4>1. Expected' = Expected
        BY <2>1 DEF Expected, SendPart, ReceivePart
      <4> QED
        BY <1>0, <4>1, ExpectedShape
    <3> QED
      BY <2>1, <3>1 DEF Follows
  <2>6. ~call.stale => Progress'
    <3>1. ~call.stale => NothingYet'
      BY <1>0, <2>1 DEF CallOf, NothingYet
    <3> QED
      BY <2>1, <2>3, <2>5, <3>1 DEF Progress, StartProgress, SendProgress, ReceiveProgress, Quiet
  <2>7. CallOf(t)'
    BY <1>0, <2>1, <2>5, <2>6 DEF CallOf
  <2> QED
    BY <1>0, <2>1, <2>4, <2>7, OneCall
<1>7. CASE ReturnFromCall(t)
  <2>1. /\ pc[t] = "awake" /\ pc' = [pc EXCEPT ![t] = "bus"]
        /\ UNCHANGED <<call, errors, addr, txbuf, txbytes, rxbytes, thread, rdymsg, hwVars>>
    BY <1>7 DEF ReturnFromCall
  <2>2. TrafficTypes'
    BY <1>0, <2>1 DEF TrafficTypes, hwVars
  <2>3. CallOf(t)'
    BY <1>0, <2>1 DEF CallOf
  <2> QED
    BY <1>0, <2>1, <2>2, <2>3, OneCall
<1> QED
  BY <1>1, <1>2, <1>3, <1>4, <1>5, <1>6, <1>7 DEF User, InCall

\* Nothing a call's traffic depends on changes.
LEMMA Untouched ==
  ASSUME TrafficInv,
         UNCHANGED <<pc, call, state, errors, addr, txbuf, txbytes, rxbytes, rdymsg, STA, AA, stat,
                     job, wire>>
  PROVE  TrafficInv'
<1>1. TrafficTypes'
  BY DEF TrafficInv, TrafficTypes
<1>2. Expected' = Expected /\ Sending' = Sending /\ (NothingYet' <=> NothingYet) /\ (AllSent' <=> AllSent)
  BY DEF Expected, SendPart, ReceivePart, Sending, NothingYet, AllSent
<1>3. Follows' <=> Follows
  BY ONLY <1>2, wire' = wire DEF Follows
<1>4. StartProgress' <=> StartProgress
  BY <1>2 DEF StartProgress
<1>5. SendProgress' <=> SendProgress
  BY <1>2 DEF SendProgress
<1>6. ReceiveProgress' <=> ReceiveProgress
  BY <1>2 DEF ReceiveProgress
<1>7. Progress' <=> Progress
  BY ONLY <1>4, <1>5, <1>6 DEF Progress
<1>8. ASSUME NEW t \in Users PROVE CallOf(t)'
  <2>1. CallOf(t)
    BY <1>8 DEF TrafficInv
  <2> QED
    BY <1>2, <1>3, <1>7, <2>1 DEF CallOf
<1> QED
  BY <1>1, <1>8 DEF TrafficInv

\* The arithmetic of a byte that is not the last.
LEMMA ToBeRead ==
  ASSUME NEW r \in Nat, NEW s \in Nat, NEW l \in Nat, NEW n \in 1 .. r, n # 1, NEW e,
         NEW q, r > 0, q = (IF r = 0 THEN 0 ELSE r + 2), e = s + q, l = s + 2 + r - n
  PROVE  /\ n \in 2 .. r /\ l < e /\ l + 1 = s + 3 + r - n
         /\ r - n + 1 \in 1 .. r - 1 /\ l + 1 = s + (2 + (r - n + 1))
OBVIOUS

\* The beginning of a sequence.
LEMMA SubSeqFromStart ==
  ASSUME NEW S, NEW e \in Seq(S), NEW n \in Nat, n =< Len(e)
  PROVE  /\ SubSeq(e, 1, n) \in Seq(S) /\ Len(SubSeq(e, 1, n)) = n
         /\ \A i \in 1 .. n : SubSeq(e, 1, n)[i] = e[i]
BY SubSeqProperties

-----------------------------------------------------------------------------
\* A thread that sleeps, its call and how far the traffic of it has come.
LEMMA Sleeper ==
  ASSUME IInv, TrafficInv, NEW t \in Users, thread = t
  PROVE  /\ pc[t] = "asleep" /\ addr = t /\ errors = {}
         /\ call.tx \in Nat /\ call.rx \in Nat /\ txbytes \in Nat /\ Len(wire) \in Nat
         /\ call.tx + call.rx > 0 /\ (call.tx > 0 => txbuf = "own")
         /\ Sending = (IF call.tx = 0 THEN 0 ELSE call.tx + 2)
         /\ Receiving = (IF call.rx = 0 THEN 0 ELSE call.rx + 2)
         /\ Len(Expected) = Sending + Receiving
         /\ ~call.stale => Follows /\ Progress
<1>1. pc[t] = "asleep"
  BY DEF IInv, TypeInv, SleeperAgrees
<1>2. TrafficTypes /\ CallOf(t)
  BY <1>1 DEF TrafficInv
<1> QED
  BY <1>1, <1>2, ExpectedShape DEF CallOf, TrafficTypes, Sending, Receiving

\* The call goes on: the thread sleeps on.
LEMMA GoesOn ==
  ASSUME IInv, TrafficInv, NEW t \in Users, thread = t, txbytes' \in Nat,
         wire' \in Seq(Signals), ~call.stale => Follows' /\ Progress',
         UNCHANGED <<pc, call, errors, addr, txbuf, rdymsg>>
  PROVE  TrafficInv'
<1>1. /\ pc[t] = "asleep" /\ addr = t /\ errors = {}
      /\ call.tx + call.rx > 0 /\ (call.tx > 0 => txbuf = "own")
  BY Sleeper
<1>2. TrafficTypes'
  BY DEF TrafficInv, TrafficTypes
<1>3. CallOf(t)'
  BY <1>1 DEF CallOf
<1> QED
  BY <1>1, <1>2, <1>3, OneCall

\* The beginning of the traffic is what it was.
LEMMA FollowsOn ==
  ASSUME Follows, UNCHANGED <<call, addr, wire>>
  PROVE  Follows'
BY DEF Follows, Expected, SendPart, ReceivePart

\* The call ends: the thread is woken with a message that i2cGetErrors bears out.
LEMMA Ends ==
  ASSUME IInv, TrafficInv, NEW t \in Users, thread = t, NEW msg \in {"RDY_OK", "RDY_RESET"},
         Wakeup(msg), UNCHANGED <<call, addr, txbuf, txbytes, wire>>,
         errors' = {} <=> msg = "RDY_OK",
         msg = "RDY_OK" /\ ~call.stale => Len(wire) = Len(Expected) /\ rxbytes' = 0
  PROVE  TrafficInv'
<1>1. /\ pc[t] = "asleep" /\ addr = t /\ call.tx + call.rx > 0
      /\ ~call.stale => Follows
  BY Sleeper
<1>2. thread # NULL
  BY I2CAssumption DEF I2CAssumption
<1>3. rdymsg' = [rdymsg EXCEPT ![t] = msg] /\ pc' = [pc EXCEPT ![t] = "awake"]
  BY <1>2 DEF Wakeup
<1>4. TrafficTypes'
  BY <1>3 DEF TrafficInv, TrafficTypes
<1>5. pc'[t] = "awake" /\ rdymsg'[t] = msg /\ \A s \in Users : s # t => pc'[s] = pc[s]
  BY <1>3 DEF IInv, TypeInv, TrafficInv, TrafficTypes
<1>6. Expected' = Expected
  BY DEF Expected, SendPart, ReceivePart
<1>7. CallOf(t)'
  BY <1>1, <1>5, <1>6, FollowsOn DEF CallOf
<1> QED
  BY <1>1, <1>4, <1>5, <1>7, OneCall

\* One byte less to come, one more on the bus.
LEMMA OneLess ==
  ASSUME NEW r \in Nat, NEW s \in Nat, NEW l \in Nat, NEW n \in 2 .. r, NEW m,
         l = s + 3 + r - n, m = n - 1
  PROVE  m \in 1 .. r /\ l = s + 2 + r - m
OBVIOUS

\* A byte is to be read.
LEMMA Reading ==
  ASSUME txbytes' = 0, rxbytes' \in 1 .. call.rx, Len(wire) = Sending + 2 + call.rx - rxbytes',
         ~STA, stat' = Quiet, job' = "read", AA' = (rxbytes' # 1), UNCHANGED <<call, STA, wire>>
  PROVE  Progress'
<1>1. StartProgress' /\ SendProgress'
  BY DEF StartProgress, SendProgress, Quiet
<1>2. ReceiveProgress'
  <2>1. AA' <=> rxbytes' # 1
    OBVIOUS
  <2>2. Sending' = Sending
    BY DEF Sending
  <2>3. stat' = "none"
    BY DEF Quiet
  <2> QED
    BY <2>1, <2>2, <2>3 DEF ReceiveProgress
<1> QED
  BY <1>1, <1>2 DEF Progress

\* The interrupt handler keeps to the call's traffic.
LEMMA IsrTraffic ==
  ASSUME IInv, TrafficInv, Isr
  PROVE  TrafficInv'
<1>1. stat # Quiet
  BY Words DEF Isr, IsrStart, IsrNack, IsrWriteAck, IsrReadAck, IsrReadNack, IsrLoss
<1>2. PICK t \in Users : thread = t
  BY <1>1, StatusFindsSleeper
<1>3. /\ call.tx \in Nat /\ call.rx \in Nat /\ txbytes \in Nat /\ Len(wire) \in Nat
      /\ errors = {} /\ call.tx + call.rx > 0
      /\ Sending = (IF call.tx = 0 THEN 0 ELSE call.tx + 2)
      /\ Receiving = (IF call.rx = 0 THEN 0 ELSE call.rx + 2)
      /\ Len(Expected) = Sending + Receiving
      /\ ~call.stale => Follows /\ Progress
  BY <1>2, Sleeper
<1>4. wire \in Seq(Signals)
  BY DEF TrafficInv, TrafficTypes
<1>5. job = Quiet /\ (stat # "START" => ~STA)
  BY <1>1, <1>2, I2CAssumption DEF I2CAssumption, IInv, BusAgrees, StartWanted, StartSent, Moving, Answered
<1>6. CASE IsrStart
  <2>1. /\ stat = "START" /\ STA' = FALSE /\ stat' = Quiet
        /\ job' = (IF txbytes > 0 THEN "addrW" ELSE "addrR")
        /\ UNCHANGED <<pc, call, errors, addr, txbuf, txbytes, rxbytes, rdymsg, wire>>
    BY <1>6 DEF IsrStart, driverVars
  <2>2. ASSUME ~call.stale PROVE Progress'
    <3>1. \/ NothingYet /\ Len(wire) = 1
          \/ AllSent /\ Len(wire) = Sending + 1
      BY <1>3, <2>1, <2>2 DEF Progress, StartProgress
    <3>2. CASE txbytes > 0
      <4>1. NothingYet /\ call.tx > 0 /\ Len(wire) = 1
        BY <1>3, <3>1, <3>2 DEF NothingYet, AllSent
      <4> QED
        BY <2>1, <3>2, <4>1 DEF Progress, StartProgress, SendProgress, ReceiveProgress, Quiet, NothingYet
    <3>3. CASE ~(txbytes > 0)
      <4>1. AllSent /\ Len(wire) = Sending + 1
        BY <1>3, <3>1, <3>3 DEF NothingYet, AllSent
      <4> QED
        BY <2>1, <3>3, <4>1 DEF Progress, StartProgress, SendProgress, ReceiveProgress, Quiet, AllSent, Sending
    <3> QED
      BY <3>2, <3>3
  <2> QED
    BY <1>2, <1>3, <1>4, <2>1, <2>2, GoesOn, FollowsOn
<1>7. CASE IsrNack
  <2>1. /\ errors' = {"ACK_FAILURE"} /\ Wakeup("RDY_RESET")
        /\ UNCHANGED <<call, addr, txbuf, txbytes, rxbytes, wire>>
    BY <1>7 DEF IsrNack
  <2> QED
    BY <1>2, <2>1, Ends
<1>8. CASE IsrWriteAck
  <2>1. /\ stat \in {"SLAW_ACK", "TDAT_ACK"} /\ stat' = Quiet
        /\ UNCHANGED <<call, errors, addr, txbuf, wire>> /\ ~STA
    BY <1>5, <1>8 DEF IsrWriteAck
  <2>2. ~call.stale => /\ rxbytes = call.rx /\ call.tx > 0 /\ txbytes =< call.tx
                       /\ Len(wire) = 2 + call.tx - txbytes
    BY <1>3, <2>1 DEF Progress, SendProgress
  <2>3. CASE txbytes > 0
    <3>1. job' = "write" /\ txbytes' = txbytes - 1 /\ UNCHANGED <<STA, rxbytes, rdymsg, pc>>
      BY <1>8, <2>3 DEF IsrWriteAck, SendData, conVars
    <3>2. txbytes' \in Nat
      BY <1>3, <2>3, <3>1
    <3>3. ASSUME ~call.stale PROVE Progress'
      <4>1. txbytes' < call.tx /\ Len(wire) = 1 + call.tx - txbytes'
        BY <1>3, <2>2, <2>3, <3>1, <3>3
      <4> QED
        BY <2>1, <2>2, <3>1, <3>3, <4>1 DEF Progress, StartProgress, SendProgress, ReceiveProgress, Quiet
    <3> QED
      BY <1>2, <1>3, <1>4, <2>1, <3>1, <3>2, <3>3, GoesOn, FollowsOn
  <2>4. CASE ~(txbytes > 0) /\ rxbytes > 0
    <3>1. STA' = TRUE /\ UNCHANGED <<rdymsg, pc, job, txbytes, rxbytes>>
      BY <1>8, <2>4 DEF IsrWriteAck
    <3>2. ASSUME ~call.stale PROVE Progress'
      <4>1. AllSent /\ Len(wire) = Sending
        BY <1>3, <2>2, <2>4, <3>2 DEF AllSent
      <4> QED
        BY <1>5, <2>1, <3>1, <4>1 DEF Progress, StartProgress, SendProgress, ReceiveProgress, Quiet, AllSent, Sending
    <3> QED
      BY <1>2, <1>3, <1>4, <2>1, <3>1, <3>2, GoesOn, FollowsOn
  <2>5. CASE ~(txbytes > 0) /\ ~(rxbytes > 0)
    <3>1. Wakeup("RDY_OK") /\ UNCHANGED <<txbytes, rxbytes>>
      BY <1>8, <2>5 DEF IsrWriteAck
    <3>2. ~call.stale => Len(wire) = Len(Expected) /\ rxbytes' = 0
      BY <1>3, <2>2, <2>5, <3>1
    <3> QED
      BY <1>2, <1>3, <2>1, <3>1, <3>2, Ends
  <2> QED
    BY <2>3, <2>4, <2>5
<1>9. CASE IsrReadAck
  <2>1. /\ stat \in {"SLAR_ACK", "RDAT_ACK"} /\ stat' = Quiet /\ job' = "read"
        /\ rxbytes' = (IF stat = "RDAT_ACK" THEN rxbytes - 1 ELSE rxbytes)
        /\ AA' = (rxbytes' # 1) /\ ~STA
        /\ UNCHANGED <<pc, call, errors, addr, txbuf, txbytes, rdymsg, STA, wire>>
    BY <1>5, <1>9 DEF IsrReadAck
  <2>2. ASSUME ~call.stale PROVE Progress'
    <3>1. Sending \in Nat
      BY <1>3
    <3>2. CASE stat = "SLAR_ACK"
      <4>1. txbytes = 0 /\ rxbytes = call.rx /\ call.rx > 0 /\ Len(wire) = Sending + 2
        BY <1>3, <2>2, <3>2 DEF Progress, ReceiveProgress, AllSent
      <4>2. rxbytes' = rxbytes
        BY <2>1, <3>2
      <4>3. rxbytes' \in 1 .. call.rx /\ Len(wire) = Sending + 2 + call.rx - rxbytes'
        BY ONLY <1>3, <3>1, <4>1, <4>2
      <4> QED
        BY <2>1, <4>1, <4>3, Reading
    <3>3. CASE stat = "RDAT_ACK"
      <4>1. txbytes = 0 /\ rxbytes \in 2 .. call.rx /\ Len(wire) = Sending + 3 + call.rx - rxbytes
        BY <1>3, <2>2, <3>3 DEF Progress, ReceiveProgress
      <4>2. rxbytes' = rxbytes - 1
        BY <2>1, <3>3
      <4> DEFINE r == call.rx
                 n == rxbytes
                 m == rxbytes'
                 s == Sending
                 l == Len(wire)
      <4>3. r \in Nat /\ s \in Nat /\ l \in Nat /\ n \in 2 .. r /\ l = s + 3 + r - n /\ m = n - 1
        BY <1>3, <3>1, <4>1, <4>2
      <4> HIDE DEF r, n, m, s, l
      <4>4. m \in 1 .. r /\ l = s + 2 + r - m
        BY ONLY <4>3, OneLess
      <4>5. rxbytes' \in 1 .. call.rx /\ Len(wire) = Sending + 2 + call.rx - rxbytes'
        BY <4>4 DEF r, m, s, l
      <4> QED
        BY <2>1, <4>1, <4>5, Reading
    <3> QED
      BY <2>1, <3>2, <3>3
  <2> QED
    BY <1>2, <1>3, <1>4, <2>1, <2>2, GoesOn, FollowsOn
<1>10. CASE IsrReadNack
  <2>1. /\ stat = "RDAT_NACK" /\ rxbytes' = rxbytes - 1 /\ Wakeup("RDY_OK")
        /\ UNCHANGED <<call, errors, addr, txbuf, txbytes, wire>>
    BY <1>10 DEF IsrReadNack
  <2>2. ~call.stale => Len(wire) = Len(Expected) /\ rxbytes' = 0
    <3>1. ~call.stale => rxbytes = 1 /\ call.rx > 0 /\ Len(wire) = Sending + 2 + call.rx
      BY <1>3, <2>1 DEF Progress, ReceiveProgress
    <3> QED
      BY <1>3, <2>1, <3>1
  <2> QED
    BY <1>2, <1>3, <2>1, <2>2, Ends
<1>11. CASE IsrLoss
  <2>1. /\ errors' # {} /\ Wakeup("RDY_RESET")
        /\ UNCHANGED <<call, addr, txbuf, txbytes, rxbytes, wire>>
    BY <1>11 DEF IsrLoss
  <2> QED
    BY <1>2, <2>1, Ends
<1> QED
  BY <1>6, <1>7, <1>8, <1>9, <1>10, <1>11 DEF Isr

-----------------------------------------------------------------------------
\* A start condition: of what is sent, or of what is received after it.
LEMMA StartsAsDue ==
  ASSUME IInv, TrafficInv, NEW t \in Users, thread = t, SendStart
  PROVE  TrafficInv'
<1>1. /\ STA /\ stat = Quiet /\ job = Quiet /\ wire' = Append(wire, "S")
      /\ stat' \in {"START", "RSTART"}
      /\ UNCHANGED <<pc, call, errors, addr, txbuf, txbytes, rxbytes, rdymsg, job>>
  BY DEF SendStart, driverVars
<1>2. TrafficTypes
  BY DEF TrafficInv
<1>3. /\ call.tx \in Nat /\ call.rx \in Nat /\ txbytes \in Nat /\ Len(wire) \in Nat
      /\ call.tx + call.rx > 0
      /\ Sending = (IF call.tx = 0 THEN 0 ELSE call.tx + 2)
      /\ Receiving = (IF call.rx = 0 THEN 0 ELSE call.rx + 2)
      /\ Len(Expected) = Sending + Receiving
      /\ ~call.stale => Follows /\ Progress
  BY Sleeper
<1>4. "S" \in Signals /\ wire \in Seq(Signals)
  BY <1>2 DEF TrafficTypes, Signals
<1>5. wire' \in Seq(Signals) /\ Len(wire') = Len(wire) + 1
  BY <1>1, <1>4
<1>6. ASSUME ~call.stale PROVE Follows' /\ Progress'
  <2>1. \/ NothingYet /\ Len(wire) = 0
        \/ AllSent /\ Len(wire) = Sending
    BY <1>1, <1>3, <1>6 DEF Progress, StartProgress
  <2>2. Len(wire) < Len(Expected) /\ Expected[Len(wire) + 1] = "S"
    <3>1. CASE NothingYet /\ Len(wire) = 0
      <4>1. CASE call.tx > 0
        BY <1>2, <1>3, <3>1, <4>1, ExpectedShape
      <4>2. CASE ~(call.tx > 0)
        <5>1. Sending = 0 /\ call.rx > 0
          BY <1>3, <4>2
        <5> QED
          BY <1>2, <1>3, <3>1, <5>1, ExpectedShape
      <4> QED
        BY <4>1, <4>2
    <3>2. CASE AllSent /\ Len(wire) = Sending
      <4>1. call.rx > 0
        BY <3>2 DEF AllSent
      <4> QED
        BY <1>2, <1>3, <3>2, <4>1, ExpectedShape
    <3> QED
      BY <2>1, <3>1, <3>2
  <2>3. Follows'
    BY <1>1, <1>2, <1>3, <1>4, <1>6, <2>2, Appended
  <2>4. \/ NothingYet' /\ Len(wire') = 1
        \/ AllSent' /\ Len(wire') = Sending' + 1
    BY <1>1, <1>5, <2>1 DEF NothingYet, AllSent, Sending
  <2>5. job' = Quiet /\ stat' # Quiet /\ stat' \in {"START", "RSTART"}
    BY <1>1 DEF Quiet
  <2>6. Progress'
    BY <2>4, <2>5 DEF Progress, StartProgress, SendProgress, ReceiveProgress, Quiet
  <2> QED
    BY <2>3, <2>6
<1> QED
  BY <1>1, <1>3, <1>5, <1>6, GoesOn

\* A byte or an address: the next of the call.
LEMMA MovesAsDue ==
  ASSUME IInv, TrafficInv, NEW t \in Users, thread = t, MoveByte
  PROVE  TrafficInv'
<1>1. /\ stat' \in Outcomes /\ job' = Quiet /\ wire' = Append(wire, Symbol)
      /\ UNCHANGED <<pc, call, errors, addr, txbuf, txbytes, rxbytes, rdymsg, STA, AA>>
  BY DEF MoveByte, driverVars, conVars
<1>2. TrafficTypes
  BY DEF TrafficInv
<1>3. /\ call.tx \in Nat /\ call.rx \in Nat /\ txbytes \in Nat /\ Len(wire) \in Nat
      /\ Sending = (IF call.tx = 0 THEN 0 ELSE call.tx + 2)
      /\ Receiving = (IF call.rx = 0 THEN 0 ELSE call.rx + 2)
      /\ Len(Expected) = Sending + Receiving /\ (call.tx > 0 => txbuf = "own")
      /\ ~call.stale => Follows /\ Progress
  BY Sleeper
<1>4. ~STA /\ stat = Quiet /\ job \in {"addrW", "addrR", "write", "read"}
  BY I2CAssumption, Words DEF I2CAssumption, MoveByte, IInv, TypeInv, BusAgrees, StartWanted, StartSent,
     Moving, Answered
<1>5. wire \in Seq(Signals) /\ Symbol \in Signals
  <2>1. addr \in Users \cup {NULL} /\ txbuf \in {"own", "old"} /\ wire \in Seq(Signals)
    BY <1>2 DEF TrafficTypes
  <2>2. CASE job \in {"addrW", "addrR"}
    BY <2>1, <2>2 DEF Symbol, Signals
  <2>3. CASE job = "write"
    BY <2>1, <2>3 DEF Symbol, Signals
  <2>4. CASE job = "read"
    BY <2>1, <2>4 DEF Symbol, Signals
  <2> QED
    BY <1>4, <2>1, <2>2, <2>3, <2>4
<1>6. wire' \in Seq(Signals) /\ Len(wire') = Len(wire) + 1
  BY <1>1, <1>5
<1>7. ASSUME ~call.stale PROVE Follows' /\ Progress'
  <2>1. Sending' = Sending /\ (NothingYet' <=> NothingYet) /\ (AllSent' <=> AllSent)
    BY <1>1 DEF Sending, NothingYet, AllSent
  <2>2. ASSUME Len(wire) < Len(Expected), Expected[Len(wire) + 1] = Symbol PROVE Follows'
    BY <1>1, <1>2, <1>3, <1>5, <1>7, <2>2, Appended
  <2>3. CASE job = "addrW"
    <3>1. NothingYet /\ call.tx > 0 /\ Len(wire) = 1
      BY <1>3, <1>7, <2>3 DEF Progress, SendProgress
    <3>2. Symbol = <<"addrW", addr>> /\ stat' \in {"SLAW_ACK", "SLAW_NACK"}
      BY <1>1, <2>3 DEF Symbol, Outcomes
    <3>3. Len(wire) < Len(Expected) /\ Expected[Len(wire) + 1] = Symbol
      BY <1>2, <1>3, <3>1, <3>2, ExpectedShape
    <3>4. rxbytes = call.rx /\ txbytes = call.tx
      BY <3>1 DEF NothingYet
    <3>5. txbytes =< call.tx /\ Len(wire') = 2 + call.tx - txbytes
      BY <1>3, <1>6, <3>1, <3>4
    <3>6. Progress'
      BY <1>1, <1>4, <3>1, <3>2, <3>4, <3>5
         DEF Progress, StartProgress, SendProgress, ReceiveProgress, Quiet
    <3> QED
      BY <2>2, <3>3, <3>6
  <2>4. CASE job = "write"
    <3>1. rxbytes = call.rx /\ txbytes < call.tx /\ Len(wire) = 1 + call.tx - txbytes
      BY <1>3, <1>7, <2>4 DEF Progress, SendProgress
    <3>2. stat' \in {"TDAT_ACK", "TDAT_NACK"} /\ Symbol = txbuf
      BY <1>1, <2>4 DEF Symbol, Outcomes
    <3>3. Symbol = "own" /\ call.tx > 0
      BY <1>3, <3>1, <3>2
    <3>4. /\ call.tx - txbytes \in 1 .. call.tx /\ Len(wire) + 1 = 2 + (call.tx - txbytes)
          /\ Len(wire) < Len(Expected)
      <4> DEFINE x == call.tx
                 b == txbytes
                 s == Sending
                 l == Len(wire)
                 e == Len(Expected)
                 q == Receiving
      <4>1. /\ x \in Nat /\ b \in Nat /\ b < x /\ s = x + 2 /\ l \in Nat /\ q \in Nat
            /\ e = s + q /\ l = 1 + x - b
        BY <1>3, <3>1, <3>3
      <4> HIDE DEF x, b, s, l, e, q
      <4>2. x - b \in 1 .. x /\ l + 1 = 2 + (x - b)
        BY ONLY <4>1
      <4>3. l < e
        BY ONLY <4>1
      <4> QED
        BY <4>2, <4>3 DEF x, b, l, e
    <3>5. Expected[Len(wire) + 1] = Symbol
      BY <1>2, <3>3, <3>4, ExpectedShape
    <3>6. txbytes =< call.tx /\ Len(wire') = 2 + call.tx - txbytes
      BY <1>3, <1>6, <3>1
    <3>7. Progress'
      BY <1>1, <1>4, <3>1, <3>2, <3>3, <3>6
         DEF Progress, StartProgress, SendProgress, ReceiveProgress, Quiet
    <3> QED
      BY <2>2, <3>4, <3>5, <3>7
  <2>5. CASE job = "addrR"
    <3>1. AllSent /\ Len(wire) = Sending + 1
      BY <1>3, <1>7, <2>5 DEF Progress, ReceiveProgress
    <3>2. Symbol = <<"addrR", addr>> /\ stat' \in {"SLAR_ACK", "SLAR_NACK"}
      BY <1>1, <2>5 DEF Symbol, Outcomes
    <3>3. call.rx > 0 /\ Sending \in Nat
      <4>1. call.rx > 0
        BY ONLY <3>1 DEF AllSent
      <4>2. call.tx \in Nat /\ Sending = (IF call.tx = 0 THEN 0 ELSE call.tx + 2)
        BY ONLY <1>3
      <4> QED
        BY ONLY <4>1, <4>2
    <3>4. Len(wire) + 1 = Sending + 2 /\ Len(wire) < Len(Expected)
      <4> DEFINE s == Sending
                 l == Len(wire)
                 e == Len(Expected)
                 q == Receiving
                 r == call.rx
      <4>1. l = s + 1 /\ r > 0 /\ s \in Nat
        BY ONLY <3>1, <3>3
      <4>2. r \in Nat /\ e = s + q /\ q = (IF r = 0 THEN 0 ELSE r + 2)
        BY ONLY <1>3
      <4> HIDE DEF s, l, e, q, r
      <4>3. l + 1 = s + 2 /\ l < e
        BY ONLY <4>1, <4>2
      <4> QED
        BY ONLY <4>3 DEF s, l, e
    <3>5. Expected[Len(wire) + 1] = Symbol
      BY <1>2, <3>2, <3>3, <3>4, ExpectedShape
    <3>6. Len(wire') = Sending' + 2 /\ AllSent'
      BY <1>6, <2>1, <3>1, <3>4
    <3>7. Progress'
      BY <1>1, <1>4, <3>2, <3>6
         DEF Progress, StartProgress, SendProgress, ReceiveProgress, Quiet
    <3> QED
      BY <2>2, <3>4, <3>5, <3>7
  <2>6. CASE job = "read"
    <3>1. /\ txbytes = 0 /\ rxbytes \in 1 .. call.rx /\ (AA <=> rxbytes # 1)
          /\ Len(wire) = Sending + 2 + call.rx - rxbytes
      BY <1>3, <1>7, <2>6 DEF Progress, ReceiveProgress
    <3>2. call.rx > 0 /\ Sending \in Nat
      <4>1. call.tx \in Nat /\ call.rx \in Nat /\ Sending = (IF call.tx = 0 THEN 0 ELSE call.tx + 2)
        BY ONLY <1>3
      <4>2. rxbytes \in 1 .. call.rx
        BY ONLY <3>1
      <4> QED
        BY ONLY <4>1, <4>2
    <3> DEFINE r == call.rx
               n == rxbytes
               s == Sending
               l == Len(wire)
               e == Len(Expected)
               q == Receiving
    <3>5. /\ r \in Nat /\ r > 0 /\ s \in Nat /\ l \in Nat /\ n \in 1 .. r
          /\ q = (IF r = 0 THEN 0 ELSE r + 2) /\ e = s + q /\ l = s + 2 + r - n
      BY <1>3, <3>1, <3>2
    <3> HIDE DEF r, n, s, l, e, q
    <3>3. CASE rxbytes # 1
      <4>1. stat' = "RDAT_ACK" /\ Symbol = "ack"
        BY <1>1, <2>6, <3>1, <3>3 DEF Symbol, Outcomes
      <4>2. /\ n \in 2 .. r /\ l < e /\ l + 1 = s + 3 + r - n
            /\ r - n + 1 \in 1 .. r - 1 /\ l + 1 = s + (2 + (r - n + 1))
        <5>1. n # 1
          BY <3>3 DEF n
        <5> QED
          BY ONLY <3>5, <5>1, ToBeRead
      <4>3. Expected[Len(wire) + 1] = Symbol
        BY <1>2, <3>2, <4>1, <4>2, ExpectedShape DEF r, l, s
      <4>4. Len(wire') = Sending' + 3 + call.rx - rxbytes
        BY <1>6, <2>1, <4>2 DEF r, n, l, s
      <4>5. Progress'
        BY <1>1, <1>4, <3>1, <4>1, <4>2, <4>4
           DEF r, n, Progress, StartProgress, SendProgress, ReceiveProgress, Quiet
      <4> QED
        BY <2>2, <4>2, <4>3, <4>5 DEF l, e
    <3>4. CASE rxbytes = 1
      <4>1. stat' = "RDAT_NACK" /\ Symbol = "nack"
        BY <1>1, <2>6, <3>1, <3>4 DEF Symbol, Outcomes
      <4>2. l < e /\ l = s + (1 + r) /\ l + 1 = s + (2 + r)
        <5>1. n = 1
          BY <3>4 DEF n
        <5> QED
          BY ONLY <3>5, <5>1
      <4>3. Expected[Len(wire) + 1] = Symbol
        BY <1>2, <3>2, <4>1, <4>2, ExpectedShape DEF l, s, r
      <4>4. Len(wire') = Sending' + 2 + call.rx
        <5>1. l + 1 = s + 2 + r
          BY ONLY <3>5, <4>2
        <5> QED
          BY <1>6, <2>1, <5>1 DEF l, s, r
      <4>5. Progress'
        BY <1>1, <1>4, <3>1, <3>2, <3>4, <4>1, <4>4
           DEF Progress, StartProgress, SendProgress, ReceiveProgress, Quiet
      <4> QED
        BY <2>2, <4>2, <4>3, <4>5 DEF l, e
    <3> QED
      BY <3>1, <3>3, <3>4
  <2> QED
    BY <1>4, <2>3, <2>4, <2>5, <2>6
<1> QED
  BY <1>1, <1>3, <1>6, <1>7, GoesOn

\* The peripheral keeps to the call's traffic.
LEMMA HardwareTraffic ==
  ASSUME IInv, TrafficInv, Hardware
  PROVE  TrafficInv'
<1>1. CASE SendStop
  <2>1. UNCHANGED <<pc, call, state, errors, addr, txbuf, txbytes, rxbytes, rdymsg, STA, AA, stat,
                    job, wire>>
    BY <1>1 DEF SendStop, driverVars
  <2> QED
    BY <2>1, Untouched
<1>2. ASSUME SendStart \/ MoveByte \/ LoseBus PROVE \E t \in Users : thread = t
  <2>1. STA \/ job # Quiet
    BY <1>2 DEF SendStart, MoveByte, LoseBus
  <2>2. thread # NULL
    BY <2>1 DEF IInv, BusAgrees, Resting
  <2> QED
    BY <2>2 DEF IInv, TypeInv
<1>3. CASE SendStart
  BY <1>2, <1>3, StartsAsDue
<1>4. CASE MoveByte
  BY <1>2, <1>4, MovesAsDue
<1>5. CASE LoseBus
  <2>1. PICK t \in Users : thread = t
    BY <1>2, <1>5
  <2>2. /\ stat' \in Losses /\ job' = Quiet
        /\ UNCHANGED <<pc, call, errors, addr, txbuf, txbytes, rxbytes, rdymsg, STA, wire>>
    BY <1>5 DEF LoseBus, driverVars, conVars, Losses
  <2>3. Progress'
    BY <2>2 DEF Progress, StartProgress, SendProgress, ReceiveProgress, Quiet, Losses
  <2>4. wire \in Seq(Signals) /\ txbytes \in Nat
    BY DEF TrafficInv, TrafficTypes
  <2>5. ~call.stale => Follows
    BY <2>1, Sleeper
  <2> QED
    BY <2>1, <2>2, <2>3, <2>4, <2>5, GoesOn, FollowsOn
<1> QED
  BY <1>1, <1>3, <1>4, <1>5 DEF Hardware

\* Every step keeps a call's traffic what it should be.
LEMMA NextTraffic == IInv /\ TrafficInv /\ [Next]_vars => TrafficInv'
<1> SUFFICES ASSUME IInv, TrafficInv, [Next]_vars PROVE TrafficInv'
  OBVIOUS
<1>1. CASE UNCHANGED vars
  BY <1>1, Untouched DEF vars, driverVars, hwVars, conVars
<1>2. CASE Next
  BY <1>2, IsrTraffic, HardwareTraffic, UserTraffic DEF Next
<1> QED
  BY <1>1, <1>2

\* What the traffic invariant says of a call is what TrafficExact does.
LEMMA TrafficIsTheCall == TrafficInv => TrafficExact
<1> SUFFICES ASSUME TrafficInv, NEW t \in Users
             PROVE  /\ pc[t] \in {"asleep", "awake"} /\ ~call.stale =>
                         /\ addr = t
                         /\ IsPrefix(wire, Expected)
                         /\ pc[t] = "awake" /\ rdymsg[t] = "RDY_OK" => wire = Expected /\ rxbytes = 0
                    /\ pc[t] = "awake" => (errors = {} <=> rdymsg[t] = "RDY_OK")
  BY DEF TrafficExact
<1>1. TrafficTypes /\ CallOf(t)
  BY DEF TrafficInv
<1>2. Expected \in Seq(Signals) /\ wire \in Seq(Signals)
  BY <1>1, ExpectedShape DEF TrafficTypes
<1>3. Follows => IsPrefix(wire, Expected)
  <2> SUFFICES ASSUME Follows PROVE IsPrefix(wire, Expected)
    OBVIOUS
  <2> DEFINE e == Expected
  <2>1. /\ Len(wire) =< Len(e) /\ \A i \in 1 .. Len(wire) : wire[i] = e[i]
        /\ e \in Seq(Signals) /\ wire \in Seq(Signals)
    BY <1>2 DEF Follows
  <2> HIDE DEF e
  <2>2. /\ SubSeq(e, 1, Len(wire)) \in Seq(Signals)
        /\ Len(SubSeq(e, 1, Len(wire))) = Len(wire)
        /\ \A i \in 1 .. Len(wire) : SubSeq(e, 1, Len(wire))[i] = e[i]
    BY ONLY <2>1, SubSeqFromStart
  <2>3. SubSeq(e, 1, Len(wire)) = wire
    BY ONLY <2>1, <2>2, SeqEqual
  <2> QED
    BY <2>1, <2>3 DEF IsPrefix, e
<1>4. Follows /\ Len(wire) = Len(Expected) => wire = Expected
  <2> DEFINE e == Expected
  <2>1. e \in Seq(Signals) /\ wire \in Seq(Signals)
        /\ (Follows => \A i \in 1 .. Len(wire) : wire[i] = e[i])
    BY <1>2 DEF Follows
  <2> HIDE DEF e
  <2>2. Follows /\ Len(wire) = Len(e) => wire = e
    BY ONLY <2>1, SeqEqual
  <2> QED
    BY <2>2 DEF e
<1> QED
  BY <1>1, <1>3, <1>4 DEF CallOf

\* Through every refusal, lost arbitration and interleaving of the threads, what a call
\* has put on the bus is the beginning of what it should put there, and all of it when
\* the interrupt handler wakes its thread with RDY_OK; i2cGetErrors tells the two ends
\* apart.
THEOREM TrafficIsExact == Spec => []TrafficExact
<1>1. Init => IInv /\ TrafficInv
  BY InitInv, InitTraffic
<1>2. IInv /\ TrafficInv /\ [Next]_vars => IInv' /\ TrafficInv'
  BY NextInv, NextTraffic
<1>3. TrafficInv => TrafficExact
  BY TrafficIsTheCall
<1> QED
  BY <1>1, <1>2, <1>3, PTL DEF Spec
=============================================================================
