------------------------------- MODULE SpiLcd -------------------------------
(***************************************************************************)
(* The display (LCD.c) on the SPI driver: spi.c and spi.h (state and the   *)
(* waiting thread) over spi_lld.c of the LPC11Uxx port (FIFO and interrupt *)
(* handler).  LCD.c drives the command/data pin itself, between calls of   *)
(* spiSend, and takes no mutex.  Before main() creates the threads it is   *)
(* the only writer; then Thread2 to Thread5 all write.  The SSP peripheral *)
(* and the display's controller are external.                              *)
(*                                                                         *)
(* A word is who sends it, whether it is meant as a command or as data,    *)
(* and its place in the buffer given to spiSend.                           *)
(***************************************************************************)
EXTENDS Integers, Sequences, FiniteSetsExt

CONSTANTS
  Writers,
  NULL,
  LPC_SSP_FIFO_DEPTH,
  MaxText,       \* bound: characters of a line
  ClearWords     \* bound: words LCD_clear sends, 918 in the product

ASSUME SpiAssumption ==
  /\ NULL \notin Writers /\ NULL \notin [of : Writers, kind : {"cmd", "data"}, i : Nat]
  /\ LPC_SSP_FIFO_DEPTH \in Nat \ {0} /\ MaxText \in Nat /\ ClearWords \in Nat

VARIABLES
  todo,            \* what each writer has still to do in its call of LCD.c
  pc,              \* "run" or "asleep" in spiSend
  CD,              \* the command/data pin
  state, thread, txptr, txcnt, rxcnt,   \* SPIDriver; txptr as its next word
  imsc,            \* interrupt sources: "off", "rx", "tx" (which has rx too)
  txFifo, shift, rxFifo,   \* SSP: words to send, on the wire; number received
  lcd              \* history: the last word the display took, and the pin then

driverVars == <<state, thread, txptr, txcnt, rxcnt, imsc>>
sspVars == <<txFifo, shift, rxFifo, lcd>>
vars == <<todo, pc, CD, driverVars, sspVars>>

CMD == "cmd"
DATA == "data"

----------------------------------------------------------------------------
(* LCD.c: what each function does, step by step.                           *)

LCD_CD(level) == [op |-> "pin", kind |-> level, n |-> 0]
SpiSend(kind, n) == [op |-> "send", kind |-> kind, n |-> n]

Times(n, steps) == [i \in 1 .. n * Len(steps) |-> steps[((i - 1) % Len(steps)) + 1]]

Place == <<LCD_CD(CMD), SpiSend(CMD, 1), SpiSend(CMD, 1), LCD_CD(DATA)>>

\* LCD_writeLine in the small font, and in the one of two rows.
SmallLine(len) == Place \o Times(len, <<SpiSend(DATA, 6)>>) \o <<LCD_CD(CMD)>>
TallLine(len) ==
  LET half == <<SpiSend(DATA, 10)>> \o Place
  IN Place \o Times(len, half \o half) \o <<LCD_CD(CMD)>>

LCD_writeLine == {SmallLine(len) : len \in 0 .. MaxText}
                 \cup {TallLine(len) : len \in 0 .. MaxText}

LCD_clear ==
  <<LCD_CD(CMD), SpiSend(CMD, 2), LCD_CD(DATA)>>
  \o Times(ClearWords, <<SpiSend(DATA, 1)>>) \o <<LCD_CD(CMD)>>

LCD_init ==
  <<LCD_CD(CMD), SpiSend(CMD, 7), SpiSend(CMD, 1), SpiSend(CMD, 1)>>
  \o LCD_clear \o <<SpiSend(CMD, 1), SpiSend(CMD, 1)>>

Begin(w) ==
  /\ pc[w] = "run" /\ todo[w] = <<>>
  /\ \E call \in LCD_writeLine : todo' = [todo EXCEPT ![w] = call]
  /\ UNCHANGED <<pc, CD, driverVars, sspVars>>

Due(w, op) == pc[w] = "run" /\ todo[w] # <<>> /\ Head(todo[w]).op = op
Proceed(w) == todo' = [todo EXCEPT ![w] = Tail(@)]

SetPin(w) ==
  /\ Due(w, "pin") /\ Proceed(w)
  /\ CD' = Head(todo[w]).kind
  /\ UNCHANGED <<pc, driverVars, sspVars>>

----------------------------------------------------------------------------
(* spiSend and the interrupt handler.                                      *)

\* ssp_fifo_preload: as many words as the FIFO has room for.
Preload(first, cnt) ==
  LET room == Min({cnt, LPC_SSP_FIFO_DEPTH - Len(txFifo)})
  IN /\ txFifo' = txFifo \o [j \in 1 .. room |-> [first EXCEPT !.i = @ + j - 1]]
     /\ txptr' = [first EXCEPT !.i = @ + room]
     /\ txcnt' = cnt - room

\* Mutant: the received words are not waited for.
Send_CountsSent(w) ==
  /\ Due(w, "send") /\ Proceed(w)
  /\ state' = "ACTIVE" /\ thread' = w /\ pc' = [pc EXCEPT ![w] = "asleep"]
  /\ LET n == Head(todo[w]).n
     IN /\ Preload([of |-> w, kind |-> Head(todo[w]).kind, i |-> 1], n)
        /\ rxcnt' = txcnt' + 1
  /\ imsc' = "tx"
  /\ UNCHANGED <<CD, shift, rxFifo, lcd>>

\* spiSend, spiStartSendI, spi_lld_send and _spi_wait_s, under the kernel lock.
Send(w) ==
  /\ Due(w, "send") /\ Proceed(w)
  /\ state' = "ACTIVE" /\ thread' = w /\ pc' = [pc EXCEPT ![w] = "asleep"]
  /\ LET n == Head(todo[w]).n
     IN /\ Preload([of |-> w, kind |-> Head(todo[w]).kind, i |-> 1], n)
        /\ rxcnt' = n
  /\ imsc' = "tx"
  /\ UNCHANGED <<CD, shift, rxFifo, lcd>>

\* TX FIFO half empty, RX FIFO half full, or a word left in it (timeout).
Interrupt ==
  \/ imsc = "tx" /\ Len(txFifo) <= LPC_SSP_FIFO_DEPTH \div 2
  \/ imsc # "off" /\ rxFifo > 0
     /\ (rxFifo >= LPC_SSP_FIFO_DEPTH \div 2 \/ (txFifo = <<>> /\ shift = NULL))

\* Mutant: the FIFO is filled before the received words are taken.
ServeMore_PreloadFirst ==
  /\ Interrupt /\ rxFifo < rxcnt
  /\ IF txcnt > 0 THEN UNCHANGED <<rxcnt, rxFifo>>
                  ELSE rxcnt' = rxcnt - rxFifo /\ rxFifo' = 0
  /\ Preload(txptr, txcnt)
  /\ imsc' = IF txcnt' = 0 THEN "rx" ELSE imsc
  /\ UNCHANGED <<todo, pc, CD, state, thread, shift, lcd>>

\* spi_serve_interrupt when words are still to come ...
ServeMore ==
  /\ Interrupt /\ rxFifo < rxcnt
  /\ rxFifo' = 0 /\ rxcnt' = rxcnt - rxFifo
  /\ Preload(txptr, txcnt)
  /\ imsc' = IF txcnt' = 0 THEN "rx" ELSE imsc
  /\ UNCHANGED <<todo, pc, CD, state, thread, shift, lcd>>

\* Mutant: the transfer starts over when it is done.
ServeLast_Circular ==
  /\ Interrupt /\ rxFifo >= rxcnt
  /\ rxFifo' = rxFifo - rxcnt /\ rxcnt' = txptr.i - 1
  /\ Preload([txptr EXCEPT !.i = 1], txptr.i - 1)
  /\ imsc' = "tx"
  /\ UNCHANGED <<todo, pc, CD, state, thread, shift, lcd>>

\* ... and when the last one came: _spi_isr_code, without a callback.
ServeLast ==
  /\ Interrupt /\ rxFifo >= rxcnt
  /\ rxFifo' = rxFifo - rxcnt /\ rxcnt' = 0
  /\ imsc' = "off" /\ state' = "READY"
  /\ IF thread = NULL THEN UNCHANGED <<thread, pc>>
     ELSE thread' = NULL /\ pc' = [pc EXCEPT ![thread] = "run"]
  /\ UNCHANGED <<todo, CD, txptr, txcnt, txFifo, shift, lcd>>

----------------------------------------------------------------------------
(* The peripheral shifts one word after the other into the display, which  *)
(* looks at the pin with the last bit, and gets a word back for each.      *)

ShiftOut ==
  /\ shift = NULL /\ txFifo # <<>>
  /\ shift' = Head(txFifo) /\ txFifo' = Tail(txFifo)
  /\ UNCHANGED <<todo, pc, CD, driverVars, rxFifo, lcd>>

\* A full RX FIFO loses the word.
ShiftedOut ==
  /\ shift # NULL
  /\ lcd' = [word |-> shift, pin |-> CD]
  /\ shift' = NULL
  /\ rxFifo' = Min({rxFifo + 1, LPC_SSP_FIFO_DEPTH})
  /\ UNCHANGED <<todo, pc, CD, driverVars, txFifo>>

----------------------------------------------------------------------------
NoWord == [of |-> NULL, kind |-> CMD, i |-> 0]

Idle ==
  /\ pc = [w \in Writers |-> "run"] /\ CD = CMD
  /\ state = "READY" /\ thread = NULL /\ txptr = NoWord /\ txcnt = 0 /\ rxcnt = 0
  /\ imsc = "off" /\ txFifo = <<>> /\ shift = NULL /\ rxFifo = 0
  /\ lcd = [word |-> NoWord, pin |-> CMD]

\* The boot, with LCD_init to run; and the threads, once it has been run.
Init == Idle /\ todo = [w \in Writers |-> LCD_init]
InitThreads == Idle /\ todo = [w \in Writers |-> <<>>]

Serve == ServeMore \/ ServeLast
Shift == ShiftOut \/ ShiftedOut
Call(w) == SetPin(w) \/ Send(w)

Next == Serve \/ Shift \/ \E w \in Writers : Begin(w) \/ Call(w)

Fairness == WF_vars(Serve) /\ WF_vars(Shift) /\ \A w \in Writers : WF_vars(Call(w))

Spec == Init /\ [][Next]_vars
FairSpec == Spec /\ Fairness
ThreadsSpec == InitThreads /\ [][Next]_vars /\ Fairness

----------------------------------------------------------------------------
(* Properties.                                                             *)

InFlight == Len(txFifo) + (IF shift = NULL THEN 0 ELSE 1) + rxFifo

\* The assertion "counter out of synch" (spi_lld.c, line 109) and what it rests
\* on: every word loaded and not yet counted back is in the peripheral.  "The
\* overflow condition should never happen" (lines 90-91): with at most ten words
\* a call, the received words always find room, however late the interrupt is.
CountersInStep ==
  /\ IF state = "ACTIVE" THEN rxcnt = txcnt + InFlight ELSE InFlight = 0
  /\ shift # NULL => rxFifo < LPC_SSP_FIFO_DEPTH

\* The display takes every word as what it is meant, since LCD.c moves the pin
\* only when spiSend is back, and spiSend returns to the thread that called it,
\* only when the display has taken the last word of its buffer.
CallsInOrder ==
  [][/\ lcd'.pin = lcd'.word.kind
     /\ \A w \in Writers : pc[w] = "asleep" /\ pc'[w] = "run" =>
          txcnt = 0 /\ lcd.word = [txptr EXCEPT !.i = @ - 1] /\ txptr.of = w]_vars

\* A thread always comes back from spiSend.
SendReturns == \A w \in Writers : pc[w] = "asleep" ~> pc[w] = "run"
=============================================================================
