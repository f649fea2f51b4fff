---------------------------- MODULE SpiLcdProofs ----------------------------
(***************************************************************************)
(* With one thread that writes, the display takes every word as it is      *)
(* meant and no received word is lost, for any text and any number of      *)
(* words to clear, and any FIFO of at least eight words.                   *)
(***************************************************************************)
EXTENDS SpiLcd, SequenceTheorems, TLAPS

\* The boot: main() alone writes to the display.
OneWriter == \E w : Writers = {w}

\* The FIFOs of the SSP are eight words deep; a call sends ten words at most.
DeepFifo == LPC_SSP_FIFO_DEPTH >= 8
MaxWords == 10

Kinds == {CMD, DATA}
Word == [of : Writers, kind : Kinds, i : Nat]
Step == [op : {"pin", "send"}, kind : Kinds, n : Nat]

-----------------------------------------------------------------------------
(* What the functions of LCD.c do to the pin.                              *)

\* The kind of a step is the level of the pin behind it, and a send leaves the pin
\* as it is: it follows a step of its own kind.
Scripted(s) ==
  /\ s \in Seq(Step)
  /\ \A i \in 1 .. Len(s) : s[i].op = "send" => s[i].n \in 1 .. MaxWords
  /\ \A i \in 1 .. Len(s) - 1 : s[i + 1].op = "send" => s[i + 1].kind = s[i].kind

\* s may be run with the pin at this level.
Entered(s, level) == s # <<>> /\ s[1].op = "send" => s[1].kind = level

\* The level of the pin behind s.
Leaves(s, level) == s # <<>> /\ s[Len(s)].kind = level

\* Two scripts, one after the other.
LEMMA Joined ==
  ASSUME NEW a, NEW b, NEW level, Scripted(a), Scripted(b),
         Leaves(a, level), Entered(b, level)
  PROVE  /\ Scripted(a \o b) /\ Len(a \o b) = Len(a) + Len(b)
         /\ \A l : Entered(a, l) => Entered(a \o b, l)
         /\ \A l : Leaves(b, l) => Leaves(a \o b, l)
         /\ b = <<>> => Leaves(a \o b, level)
<1>1. /\ a \in Seq(Step) /\ b \in Seq(Step) /\ Len(a) \in Nat \ {0} /\ Len(b) \in Nat
      /\ a[Len(a)].kind = level
  BY DEF Scripted, Leaves
<1> DEFINE c == a \o b
<1>2. /\ c \in Seq(Step) /\ Len(c) = Len(a) + Len(b)
      /\ \A i \in 1 .. Len(c) : c[i] = IF i =< Len(a) THEN a[i] ELSE b[i - Len(a)]
  BY <1>1, ConcatProperties
<1> HIDE DEF c
<1>3. \A i \in 1 .. Len(a) : c[i] = a[i] /\ i \in 1 .. Len(c)
  BY <1>1, <1>2
<1>4. \A i \in Len(a) + 1 .. Len(c) : c[i] = b[i - Len(a)] /\ i - Len(a) \in 1 .. Len(b)
  BY <1>1, <1>2
<1>5. \A i \in 1 .. Len(c) : c[i].op = "send" => c[i].n \in 1 .. MaxWords
  <2> SUFFICES ASSUME NEW i \in 1 .. Len(c) PROVE c[i].op = "send" => c[i].n \in 1 .. MaxWords
    OBVIOUS
  <2>1. CASE i \in 1 .. Len(a)
    BY <1>3, <2>1 DEF Scripted
  <2>2. CASE i \in Len(a) + 1 .. Len(c)
    BY <1>4, <2>2 DEF Scripted
  <2> QED
    BY <1>1, <1>2, <2>1, <2>2
<1>6. \A i \in 1 .. Len(c) - 1 : c[i + 1].op = "send" => c[i + 1].kind = c[i].kind
  <2> SUFFICES ASSUME NEW i \in 1 .. Len(c) - 1, c[i + 1].op = "send"
               PROVE  c[i + 1].kind = c[i].kind
    OBVIOUS
  <2>1. CASE i < Len(a)
    <3>1. i \in 1 .. Len(a) /\ i + 1 \in 1 .. Len(a) /\ i \in 1 .. Len(a) - 1
      BY <1>1, <2>1
    <3>2. c[i] = a[i] /\ c[i + 1] = a[i + 1]
      BY <1>3, <3>1
    <3> QED
      BY <3>1, <3>2 DEF Scripted
  <2>2. CASE i = Len(a)
    <3>1. i \in 1 .. Len(a) /\ i + 1 \in Len(a) + 1 .. Len(c) /\ (i + 1) - Len(a) = 1
          /\ Len(b) # 0
      BY <1>1, <1>2, <2>2
    <3>2. c[i] = a[Len(a)] /\ c[i + 1] = b[1]
      BY <1>3, <1>4, <2>2, <3>1
    <3> QED
      BY <1>1, <3>1, <3>2 DEF Entered
  <2>3. CASE i > Len(a)
    <3>1. /\ i \in Len(a) + 1 .. Len(c) /\ i + 1 \in Len(a) + 1 .. Len(c)
          /\ (i + 1) - Len(a) = (i - Len(a)) + 1 /\ i - Len(a) \in 1 .. Len(b) - 1
      BY <1>1, <1>2, <2>3
    <3>2. c[i] = b[i - Len(a)] /\ c[i + 1] = b[(i - Len(a)) + 1]
      <4>1. PICK j \in Len(a) + 1 .. Len(c) : j = i + 1
        BY ONLY <3>1
      <4>2. c[j] = b[j - Len(a)] /\ c[i] = b[i - Len(a)]
        BY ONLY <1>4, <3>1
      <4> QED
        BY <3>1, <4>1, <4>2
    <3> QED
      BY <3>1, <3>2 DEF Scripted
  <2> QED
    BY <1>1, <2>1, <2>2, <2>3
<1>7. Scripted(c) /\ c # <<>> /\ c[1] = a[1] /\ a # <<>>
  <2>1. Len(c) # 0 /\ Len(a) # 0 /\ 1 \in 1 .. Len(a)
    BY <1>1, <1>2
  <2> QED
    BY <1>2, <1>3, <1>5, <1>6, <2>1 DEF Scripted
<1>8. b # <<>> => c[Len(c)] = b[Len(b)]
  <2>1. b # <<>> => Len(b) # 0
    BY <1>1
  <2> QED
    BY <1>1, <1>2, <1>4, <2>1
<1>9. b = <<>> => c[Len(c)] = a[Len(a)]
  BY <1>1, <1>2
<1> QED
  BY <1>1, <1>2, <1>7, <1>8, <1>9 DEF Entered, Leaves, c

\* Indices round a loop of one step or of ten.
Round(i, L) == ((i - 1) % L) + 1

\* The index counts up to the length of the loop and begins again.
LEMMA Rounds ==
  ASSUME NEW L \in {1, 10}, NEW n \in Nat
  PROVE  /\ \A i \in 1 .. n * L : Round(i, L) \in 1 .. L
         /\ \A i \in 1 .. n * L - 1 :
              Round(i + 1, L) = IF Round(i, L) < L THEN Round(i, L) + 1 ELSE 1
         /\ n # 0 => Round(n * L, L) = L /\ 1 \in 1 .. n * L /\ n * L \in 1 .. n * L
         /\ Round(1, L) = 1 /\ n * L \in Nat
<1>1. CASE L = 1
  BY <1>1 DEF Round
<1>2. CASE L = 10
  BY <1>2 DEF Round
<1> QED
  BY <1>1, <1>2

\* Steps that can be done over and over.
LEMMA Looped ==
  ASSUME NEW steps, NEW level, NEW n \in Nat, Scripted(steps), Len(steps) \in {1, 10},
         Entered(steps, level), Leaves(steps, level)
  PROVE  /\ Scripted(Times(n, steps)) /\ Entered(Times(n, steps), level)
         /\ Times(n, steps) # <<>> => Leaves(Times(n, steps), level)
<1> DEFINE L == Len(steps)
           At(i) == Round(i, L)
           c == Times(n, steps)
<1>0. L \in {1, 10}
  OBVIOUS
<1> HIDE DEF L
<1>1. /\ L \in {1, 10} /\ L \in Nat /\ n * L \in Nat
      /\ \A i \in 1 .. n * L : At(i) \in 1 .. L
      /\ \A i \in 1 .. n * L - 1 : At(i + 1) = IF At(i) < L THEN At(i) + 1 ELSE 1
      /\ n # 0 => At(n * L) = L /\ 1 \in 1 .. n * L /\ n * L \in 1 .. n * L
      /\ At(1) = 1
  BY ONLY <1>0, n \in Nat, Rounds
<1>2. steps \in Seq(Step) /\ \A k \in 1 .. L : steps[k] \in Step
  BY DEF Scripted, L
<1>3. c = [i \in 1 .. n * L |-> steps[At(i)]]
  BY DEF Times, L, Round
<1> HIDE DEF At, c
<1>4. c \in Seq(Step) /\ Len(c) = n * L /\ \A i \in 1 .. n * L : c[i] = steps[At(i)]
  <2>1. \A i \in 1 .. n * L : steps[At(i)] \in Step
    BY <1>1, <1>2
  <2> QED
    BY ONLY <1>1, <1>3, <2>1
<1>5. \A i \in 1 .. Len(c) : c[i].op = "send" => c[i].n \in 1 .. MaxWords
  BY <1>1, <1>4 DEF Scripted, L
<1>6. \A i \in 1 .. Len(c) - 1 : c[i + 1].op = "send" => c[i + 1].kind = c[i].kind
  <2> SUFFICES ASSUME NEW i \in 1 .. n * L - 1, c[i + 1].op = "send"
               PROVE  c[i + 1].kind = c[i].kind
    BY <1>4
  <2>1. i \in 1 .. n * L /\ i + 1 \in 1 .. n * L
    BY <1>1
  <2>2. c[i] = steps[At(i)] /\ c[i + 1] = steps[At(i + 1)] /\ At(i) \in 1 .. L
    BY <1>1, <1>4, <2>1
  <2>3. CASE At(i) < L
    <3>1. At(i + 1) = At(i) + 1 /\ At(i) \in 1 .. L - 1
      BY <1>1, <2>2, <2>3
    <3> QED
      BY <2>2, <3>1 DEF Scripted, L
  <2>4. CASE ~(At(i) < L)
    <3>1. At(i + 1) = 1 /\ At(i) = L
      BY <1>1, <2>2, <2>4
    <3> QED
      BY <2>2, <3>1 DEF Entered, Leaves, L
  <2> QED
    BY <2>3, <2>4
<1>7. Scripted(c)
  BY <1>4, <1>5, <1>6 DEF Scripted
<1>8. ASSUME c # <<>>
      PROVE  c[1] = steps[1] /\ c[Len(c)] = steps[L] /\ steps # <<>>
  <2>1. n * L # 0
    BY <1>4, <1>8
  <2>2. n # 0
    BY <1>1, <2>1
  <2>3. At(n * L) = L /\ 1 \in 1 .. n * L /\ n * L \in 1 .. n * L /\ At(1) = 1
    BY <1>1, <2>2
  <2>4. c[1] = steps[1] /\ c[n * L] = steps[L] /\ Len(c) = n * L
    BY ONLY <1>4, <2>3
  <2>5. steps # <<>>
    BY DEF Leaves
  <2> QED
    BY ONLY <2>4, <2>5
<1> QED
  BY <1>7, <1>8 DEF Entered, Leaves, L, c

\* The pieces LCD.c is made of.
LEMMA Pieces ==
  /\ Scripted(Place) /\ (\A l : Entered(Place, l)) /\ Leaves(Place, DATA) /\ Len(Place) = 4
  /\ Scripted(<<LCD_CD(CMD)>>) /\ (\A l : Entered(<<LCD_CD(CMD)>>, l))
  /\ Leaves(<<LCD_CD(CMD)>>, CMD)
  /\ \A n \in 1 .. MaxWords, k \in Kinds :
       /\ Scripted(<<SpiSend(k, n)>>) /\ Entered(<<SpiSend(k, n)>>, k)
       /\ Leaves(<<SpiSend(k, n)>>, k) /\ Len(<<SpiSend(k, n)>>) = 1
<1> USE DEF CMD, DATA, Kinds, MaxWords, Step, LCD_CD, SpiSend
<1>1. LCD_CD(CMD) \in Step /\ LCD_CD(DATA) \in Step /\ \A n \in 1 .. MaxWords, k \in Kinds : SpiSend(k, n) \in Step
  OBVIOUS
<1>2. Place \in Seq(Step) /\ Len(Place) = 4
  BY <1>1 DEF Place
<1>3. \A i \in 1 .. 4 : Place[i].op = "send" => Place[i].n = 1
  BY DEF Place
<1>4. \A i \in 1 .. 3 : Place[i + 1].op = "send" => Place[i + 1].kind = Place[i].kind
  BY DEF Place
<1>5. Place # <<>> /\ Place[1].op = "pin" /\ Place[4].kind = DATA
  BY DEF Place
<1>6. Scripted(Place) /\ (\A l : Entered(Place, l)) /\ Leaves(Place, DATA)
  BY <1>2, <1>3, <1>4, <1>5 DEF Scripted, Entered, Leaves
<1>7. /\ Scripted(<<LCD_CD(CMD)>>) /\ (\A l : Entered(<<LCD_CD(CMD)>>, l))
      /\ Leaves(<<LCD_CD(CMD)>>, CMD)
  BY <1>1 DEF Scripted, Entered, Leaves
<1>8. ASSUME NEW n \in 1 .. MaxWords, NEW k \in Kinds
      PROVE  /\ Scripted(<<SpiSend(k, n)>>) /\ Entered(<<SpiSend(k, n)>>, k)
             /\ Leaves(<<SpiSend(k, n)>>, k) /\ Len(<<SpiSend(k, n)>>) = 1
  BY <1>1 DEF Scripted, Entered, Leaves
<1> QED
  BY <1>2, <1>6, <1>7, <1>8

\* LCD_writeLine moves the pin itself before its first word.
LEMMA LineScripted ==
  ASSUME NEW call \in LCD_writeLine
  PROVE  Scripted(call) /\ \A l : Entered(call, l)
<1> USE SpiAssumption DEF SpiAssumption
<1>1. \A m \in 1 .. MaxWords : m \in 1 .. MaxWords /\ DATA \in Kinds
  BY DEF Kinds
<1>2. ASSUME NEW len \in 0 .. MaxText PROVE Scripted(SmallLine(len)) /\ \A l : Entered(SmallLine(len), l)
  <2> DEFINE word == <<SpiSend(DATA, 6)>>
             text == Times(len, word)
             end == <<LCD_CD(CMD)>>
  <2>1. Scripted(word) /\ Entered(word, DATA) /\ Leaves(word, DATA) /\ Len(word) \in {1, 10}
    BY Pieces DEF Kinds, MaxWords
  <2> HIDE DEF word
  <2>2. Scripted(text) /\ Entered(text, DATA) /\ (text # <<>> => Leaves(text, DATA))
    BY <2>1, Looped
  <2> HIDE DEF text
  <2>3. Scripted(Place \o text) /\ (\A l : Entered(Place \o text, l)) /\ Leaves(Place \o text, DATA)
    BY <2>2, Pieces, Joined
  <2>4. Scripted(end) /\ Entered(end, DATA)
    BY Pieces
  <2> HIDE DEF end
  <2>5. Scripted((Place \o text) \o end) /\ \A l : Entered((Place \o text) \o end, l)
    BY ONLY <2>3, <2>4, Joined
  <2> QED
    BY <2>5 DEF SmallLine, text, word, end
<1>3. ASSUME NEW len \in 0 .. MaxText PROVE Scripted(TallLine(len)) /\ \A l : Entered(TallLine(len), l)
  <2> DEFINE word == <<SpiSend(DATA, 10)>>
             half == word \o Place
             both == half \o half
             text == Times(len, both)
             end == <<LCD_CD(CMD)>>
  <2>1. Scripted(word) /\ Entered(word, DATA) /\ Leaves(word, DATA) /\ Len(word) = 1
    BY Pieces DEF Kinds, MaxWords
  <2> HIDE DEF word
  <2>2. Scripted(half) /\ Entered(half, DATA) /\ Leaves(half, DATA)
    BY <2>1, Pieces, Joined
  <2>3. Len(half) = 5
    <3>1. Len(half) = Len(word) + Len(Place)
      BY ONLY <2>1, Pieces, Joined
    <3> QED
      BY ONLY <2>1, <3>1, Pieces
  <2> HIDE DEF half
  <2>4. Scripted(both) /\ Entered(both, DATA) /\ Leaves(both, DATA)
    BY <2>2, Joined
  <2>5. Len(both) \in {1, 10}
    <3>1. Len(both) = Len(half) + Len(half)
      BY ONLY <2>2, Joined
    <3> QED
      BY ONLY <2>3, <3>1
  <2> HIDE DEF both
  <2>6. Scripted(text) /\ Entered(text, DATA) /\ (text # <<>> => Leaves(text, DATA))
    BY <2>4, <2>5, Looped
  <2> HIDE DEF text
  <2>7. Scripted(Place \o text) /\ (\A l : Entered(Place \o text, l)) /\ Leaves(Place \o text, DATA)
    BY <2>6, Pieces, Joined
  <2>8. Scripted(end) /\ Entered(end, DATA)
    BY Pieces
  <2> HIDE DEF end
  <2>9. Scripted((Place \o text) \o end) /\ \A l : Entered((Place \o text) \o end, l)
    BY ONLY <2>7, <2>8, Joined
  <2> QED
    BY <2>9 DEF TallLine, text, both, half, word, end
<1> QED
  BY <1>2, <1>3 DEF LCD_writeLine

\* LCD_init and the LCD_clear in it, likewise.
LEMMA InitScripted == Scripted(LCD_init) /\ Entered(LCD_init, CMD)
<1> DEFINE word == <<SpiSend(DATA, 1)>>
           text == Times(ClearWords, word)
           end == <<LCD_CD(CMD)>>
           clear == <<LCD_CD(CMD), SpiSend(CMD, 2), LCD_CD(DATA)>>
           setup == <<LCD_CD(CMD), SpiSend(CMD, 7), SpiSend(CMD, 1), SpiSend(CMD, 1)>>
           on == <<SpiSend(CMD, 1), SpiSend(CMD, 1)>>
<1>1. /\ Scripted(clear) /\ Entered(clear, CMD) /\ Leaves(clear, DATA)
      /\ Scripted(setup) /\ Entered(setup, CMD) /\ Leaves(setup, CMD)
      /\ Scripted(on) /\ Entered(on, CMD)
  <2> USE DEF CMD, DATA, Kinds, MaxWords, Step, LCD_CD, SpiSend
  <2>1. Scripted(clear) /\ Entered(clear, CMD) /\ Leaves(clear, DATA)
    <3>1. clear \in Seq(Step) /\ Len(clear) = 3
      OBVIOUS
    <3>2. \A i \in 1 .. 3 : clear[i].op = "send" => clear[i].n = 2
      OBVIOUS
    <3>3. \A i \in 1 .. 2 : clear[i + 1].op = "send" => clear[i + 1].kind = clear[i].kind
      OBVIOUS
    <3>4. clear # <<>> /\ clear[1].op = "pin" /\ clear[3].kind = DATA
      OBVIOUS
    <3> HIDE DEF clear
    <3> QED
      BY <3>1, <3>2, <3>3, <3>4 DEF Scripted, Entered, Leaves
  <2>2. Scripted(setup) /\ Entered(setup, CMD) /\ Leaves(setup, CMD)
    <3>1. setup \in Seq(Step) /\ Len(setup) = 4
      OBVIOUS
    <3>2. \A i \in 1 .. 4 : setup[i].op = "send" => setup[i].n \in {1, 7}
      OBVIOUS
    <3>3. \A i \in 1 .. 3 : setup[i + 1].op = "send" => setup[i + 1].kind = setup[i].kind
      OBVIOUS
    <3>4. setup # <<>> /\ setup[1].op = "pin" /\ setup[4].kind = CMD
      OBVIOUS
    <3> HIDE DEF setup
    <3> QED
      BY <3>1, <3>2, <3>3, <3>4 DEF Scripted, Entered, Leaves
  <2>3. Scripted(on) /\ Entered(on, CMD)
    <3>1. on \in Seq(Step) /\ Len(on) = 2
      OBVIOUS
    <3>2. \A i \in 1 .. 2 : on[i].op = "send" => on[i].n = 1
      OBVIOUS
    <3>3. \A i \in 1 .. 2 : on[i].kind = CMD
      OBVIOUS
    <3> HIDE DEF on
    <3> QED
      BY <3>1, <3>2, <3>3 DEF Scripted, Entered
  <2> QED
    BY <2>1, <2>2, <2>3
<1>2. Scripted(word) /\ Entered(word, DATA) /\ Leaves(word, DATA) /\ Len(word) \in {1, 10}
  BY Pieces DEF Kinds, MaxWords
<1>3. Scripted(end) /\ Entered(end, DATA) /\ Leaves(end, CMD)
  BY Pieces
<1> HIDE DEF word, end, clear, setup, on
<1>4. Scripted(text) /\ Entered(text, DATA) /\ (text # <<>> => Leaves(text, DATA))
  BY <1>2, Looped, SpiAssumption DEF SpiAssumption
<1> HIDE DEF text
<1>5. Scripted(clear \o text) /\ Entered(clear \o text, CMD) /\ Leaves(clear \o text, DATA)
  BY ONLY <1>1, <1>4, Joined
<1> DEFINE cleared == (clear \o text) \o end
<1>6. Scripted(cleared) /\ Entered(cleared, CMD) /\ Leaves(cleared, CMD)
  BY ONLY <1>3, <1>5, Joined
<1> HIDE DEF cleared
<1>7. Scripted(setup \o cleared) /\ Entered(setup \o cleared, CMD) /\ Leaves(setup \o cleared, CMD)
  BY ONLY <1>1, <1>6, Joined
<1>8. Scripted((setup \o cleared) \o on) /\ Entered((setup \o cleared) \o on, CMD)
  BY ONLY <1>1, <1>7, Joined
<1> QED
  BY <1>8 DEF LCD_init, LCD_clear, cleared, setup, on, clear, text, word, end

-----------------------------------------------------------------------------
(* The driver.                                                             *)

Anything == [of : Writers \cup {NULL}, kind : Kinds, i : Nat]

TypeInv ==
  /\ pc \in [Writers -> {"run", "asleep"}] /\ CD \in Kinds
  /\ thread \in Writers \cup {NULL} /\ imsc \in {"off", "rx", "tx"}
  /\ txptr \in Anything /\ txcnt \in Nat /\ rxcnt \in Nat /\ rxFifo \in Nat
  /\ txFifo \in Seq(Word) /\ shift \in Word \cup {NULL}
  /\ lcd \in [word : Anything, pin : Kinds]

\* Between two calls of spiSend nothing is under way; in one its thread is noted.
Resting ==
  \A w \in Writers :
    IF pc[w] = "run"
      THEN /\ state = "READY" /\ thread = NULL /\ imsc = "off" /\ txcnt = 0
           /\ txFifo = <<>> /\ shift = NULL /\ rxFifo = 0
      ELSE /\ state = "ACTIVE" /\ thread = w /\ imsc # "off"
           /\ txptr.of = w /\ txptr.kind = CD /\ txptr.i + txcnt >= 2

OnWire == IF shift = NULL THEN 0 ELSE 1

\* What is still to be counted back fits in the FIFO: at once, or from the first
\* interrupt on, which comes when some words have been taken.
RoomForAll ==
  state = "ACTIVE" =>
    /\ rxcnt = txcnt + InFlight
    /\ InFlight =< LPC_SSP_FIFO_DEPTH
    /\ rxcnt =< LPC_SSP_FIFO_DEPTH \/ (rxcnt =< MaxWords /\ InFlight = LPC_SSP_FIFO_DEPTH)

\* The k-th word of the call in progress.
Nth(k) == [of |-> txptr.of, kind |-> txptr.kind, i |-> k]

\* The words loaded are the last ones before txptr, in their order: in the FIFO, on
\* the wire and, once the wire is clear, at the display.
WordsInOrder ==
  state = "ACTIVE" =>
    /\ \A j \in 1 .. Len(txFifo) : txFifo[j] = Nth(txptr.i - Len(txFifo) + j - 1)
    /\ shift # NULL => shift = Nth(txptr.i - Len(txFifo) - 1)
    /\ shift = NULL => \/ txptr.i - Len(txFifo) = 1
                       \/ lcd.word = Nth(txptr.i - Len(txFifo) - 1)

\* The display has taken the last word as what it is meant.
TakenAsMeant == lcd.pin = lcd.word.kind

\* What is left to do of a call of LCD.c fits the level of the pin.
PinFits == \A w \in Writers : Scripted(todo[w]) /\ Entered(todo[w], CD)

IInv ==
  /\ TypeInv /\ Resting /\ RoomForAll /\ WordsInOrder /\ TakenAsMeant
  /\ todo \in [Writers -> Seq(Step)] /\ PinFits

\* The smaller of two numbers.
LEMMA MinOfTwo ==
  ASSUME NEW a \in Nat, NEW b \in Nat
  PROVE  Min({a, b}) = IF a =< b THEN a ELSE b
<1>1. \E x \in {a, b} : \A y \in {a, b} : x =< y
  OBVIOUS
<1>2. Min({a, b}) \in {a, b} /\ \A y \in {a, b} : Min({a, b}) =< y
  BY <1>1 DEF Min
<1> QED
  BY <1>2

\* ssp_fifo_preload appends the next words, up to the room there is.
LEMMA PreloadFacts ==
  ASSUME txFifo \in Seq(Word), Len(txFifo) =< LPC_SSP_FIFO_DEPTH, NEW first \in Word,
         NEW cnt \in Nat, Preload(first, cnt)
  PROVE  \E room \in Nat :
           /\ room =< cnt /\ Len(txFifo) + room =< LPC_SSP_FIFO_DEPTH
           /\ room = cnt \/ Len(txFifo) + room = LPC_SSP_FIFO_DEPTH
           /\ txFifo' \in Seq(Word) /\ Len(txFifo') = Len(txFifo) + room
           /\ \A j \in 1 .. Len(txFifo) : txFifo'[j] = txFifo[j]
           /\ \A j \in 1 .. room : txFifo'[Len(txFifo) + j]
                                     = [of |-> first.of, kind |-> first.kind, i |-> first.i + j - 1]
           /\ txptr' = [of |-> first.of, kind |-> first.kind, i |-> first.i + room]
           /\ txcnt' = cnt - room
<1> DEFINE left == LPC_SSP_FIFO_DEPTH - Len(txFifo)
           room == Min({cnt, left})
           Elt(j) == [first EXCEPT !.i = @ + j - 1]
           more == [j \in 1 .. room |-> Elt(j)]
<1>1. left \in Nat /\ Len(txFifo) \in Nat /\ LPC_SSP_FIFO_DEPTH \in Nat
  BY SpiAssumption DEF SpiAssumption
<1>2. room = IF cnt =< left THEN cnt ELSE left
  <2> HIDE DEF left
  <2> QED
    BY <1>1, MinOfTwo
<1>3. /\ txFifo' = txFifo \o more
      /\ txptr' = [first EXCEPT !.i = @ + room]
      /\ txcnt' = cnt - room
  BY DEF Preload
<1>4. room \in Nat /\ room =< cnt /\ Len(txFifo) + room =< LPC_SSP_FIFO_DEPTH
      /\ (room = cnt \/ Len(txFifo) + room = LPC_SSP_FIFO_DEPTH)
  <2> HIDE DEF room
  <2> QED
    BY <1>1, <1>2
<1> HIDE DEF room, left
<1>5. \A j \in 1 .. room : Elt(j) \in Word
           /\ Elt(j) = [of |-> first.of, kind |-> first.kind, i |-> first.i + j - 1]
  <2> SUFFICES ASSUME NEW j \in 1 .. room
               PROVE  Elt(j) \in Word
                      /\ Elt(j) = [of |-> first.of, kind |-> first.kind, i |-> first.i + j - 1]
    OBVIOUS
  <2>1. first.i + j - 1 \in Nat
    BY <1>4 DEF Word
  <2> QED
    BY <2>1 DEF Word
<1> HIDE DEF Elt
<1>6. more \in Seq(Word) /\ Len(more) = room /\ \A j \in 1 .. room : more[j] = Elt(j)
  BY ONLY <1>4, <1>5
<1>7. txptr' = [of |-> first.of, kind |-> first.kind, i |-> first.i + room]
  BY <1>3, <1>4 DEF Word
<1> HIDE DEF more
<1>8. /\ txFifo \o more \in Seq(Word) /\ Len(txFifo \o more) = Len(txFifo) + Len(more)
      /\ \A k \in 1 .. Len(txFifo) + Len(more) :
           (txFifo \o more)[k] = IF k =< Len(txFifo) THEN txFifo[k] ELSE more[k - Len(txFifo)]
  BY ONLY <1>6, txFifo \in Seq(Word), ConcatProperties
<1>9. \A j \in 1 .. Len(txFifo) : txFifo'[j] = txFifo[j]
  BY <1>1, <1>3, <1>4, <1>6, <1>8
<1>10. \A j \in 1 .. room : txFifo'[Len(txFifo) + j] = Elt(j)
  <2> SUFFICES ASSUME NEW j \in 1 .. room PROVE txFifo'[Len(txFifo) + j] = Elt(j)
    OBVIOUS
  <2>1. Len(txFifo) + j \in 1 .. Len(txFifo) + Len(more) /\ ~(Len(txFifo) + j =< Len(txFifo))
        /\ (Len(txFifo) + j) - Len(txFifo) = j
    BY <1>1, <1>4, <1>6
  <2> QED
    BY <1>3, <1>6, <1>8, <2>1
<1> QED
  BY <1>3, <1>4, <1>5, <1>6, <1>7, <1>8, <1>9, <1>10

\* The FIFO as the list of its words.
LEMMA HeadAndTail ==
  ASSUME NEW s \in Seq(Word), s # <<>>
  PROVE  /\ Head(s) = s[1] /\ s[1] \in Word /\ Len(s) \in Nat \ {0}
         /\ Tail(s) \in Seq(Word) /\ Len(Tail(s)) = Len(s) - 1
         /\ \A j \in 1 .. Len(s) - 1 : Tail(s)[j] = s[j + 1]
OBVIOUS

-----------------------------------------------------------------------------
(* The steps.                                                              *)

\* The invariant holds at the start.
LEMMA InitInv == Init => IInv
<1> SUFFICES ASSUME Init PROVE IInv
  OBVIOUS
<1> USE DEF Init, Idle
<1>1. NoWord \in Anything
  BY DEF NoWord, Anything, Kinds, CMD
<1>2. TypeInv
  BY <1>1 DEF TypeInv, Kinds, CMD, NoWord
<1>3. Resting
  BY DEF Resting
<1>4. RoomForAll /\ WordsInOrder
  BY DEF RoomForAll, WordsInOrder
<1>5. TakenAsMeant
  BY DEF TakenAsMeant, NoWord
<1>6. todo \in [Writers -> Seq(Step)] /\ PinFits
  BY InitScripted DEF PinFits, Scripted
<1> QED
  BY <1>2, <1>3, <1>4, <1>5, <1>6 DEF IInv

\* A call of LCD.c begins.
LEMMA BeginStep ==
  ASSUME OneWriter, IInv, NEW w \in Writers, Begin(w)
  PROVE  IInv'
<1>1. UNCHANGED <<pc, CD, driverVars, sspVars>>
  BY DEF Begin
<1>2. TypeInv' /\ Resting' /\ RoomForAll' /\ WordsInOrder' /\ TakenAsMeant'
  BY <1>1 DEF IInv, TypeInv, Resting, RoomForAll, InFlight, WordsInOrder, Nth, TakenAsMeant, driverVars, sspVars
<1>3. PICK call \in LCD_writeLine : todo' = [todo EXCEPT ![w] = call]
  BY DEF Begin
<1>4. Scripted(call) /\ \A l : Entered(call, l)
  BY LineScripted
<1> QED
  BY <1>1, <1>2, <1>3, <1>4 DEF IInv, PinFits, Scripted

\* With one writer, whoever it is.
LEMMA Alone ==
  ASSUME OneWriter, NEW v \in Writers
  PROVE  Writers = {v}
BY DEF OneWriter

\* What is left of a script is one, and starts behind the step that was done.
LEMMA Continued ==
  ASSUME NEW s, Scripted(s), s # <<>>
  PROVE  /\ Scripted(Tail(s)) /\ Entered(Tail(s), Head(s).kind)
         /\ Head(s) = s[1] /\ Head(s) \in Step
         /\ Head(s).op = "send" => Head(s).n \in 1 .. MaxWords
<1>1. s \in Seq(Step) /\ Len(s) \in Nat \ {0}
  BY DEF Scripted
<1>2. /\ Head(s) = s[1] /\ s[1] \in Step /\ Tail(s) \in Seq(Step) /\ Len(Tail(s)) = Len(s) - 1
      /\ \A j \in 1 .. Len(s) - 1 : Tail(s)[j] = s[j + 1]
  BY <1>1
<1> DEFINE t == Tail(s)
<1> HIDE DEF t
<1>3. /\ t \in Seq(Step) /\ Len(t) = Len(s) - 1 /\ \A j \in 1 .. Len(s) - 1 : t[j] = s[j + 1]
  BY <1>2 DEF t
<1>4. \A j \in 1 .. Len(t) : t[j].op = "send" => t[j].n \in 1 .. MaxWords
  <2>1. \A j \in 1 .. Len(t) : t[j] = s[j + 1] /\ j + 1 \in 1 .. Len(s)
    BY <1>1, <1>3
  <2> QED
    BY <2>1 DEF Scripted
<1>5. \A j \in 1 .. Len(t) - 1 : t[j + 1].op = "send" => t[j + 1].kind = t[j].kind
  <2>1. \A j \in 1 .. Len(t) - 1 : /\ t[j] = s[j + 1] /\ t[j + 1] = s[(j + 1) + 1]
                                   /\ j + 1 \in 1 .. Len(s) - 1
    BY <1>1, <1>3
  <2> QED
    BY <2>1 DEF Scripted
<1>6. t # <<>> => t[1] = s[1 + 1] /\ 1 \in 1 .. Len(s) - 1
  <2>1. t # <<>> => Len(t) # 0
    BY <1>3
  <2> QED
    BY <1>1, <1>3, <2>1
<1>7. Entered(t, s[1].kind)
  BY <1>6 DEF Entered, Scripted
<1> QED
  BY <1>1, <1>2, <1>3, <1>4, <1>5, <1>7 DEF Scripted, t

\* LCD_CD: nothing is under way that could be taken for something else.
LEMMA SetPinStep ==
  ASSUME OneWriter, IInv, NEW w \in Writers, SetPin(w)
  PROVE  IInv'
<1>1. /\ pc[w] = "run" /\ todo[w] # <<>> /\ todo' = [todo EXCEPT ![w] = Tail(todo[w])]
      /\ CD' = Head(todo[w]).kind /\ UNCHANGED <<pc, driverVars, sspVars>>
  BY DEF SetPin, Due, Proceed
<1>2. Writers = {w}
  BY Alone
<1>3. Scripted(todo[w]) /\ todo \in [Writers -> Seq(Step)]
  BY DEF IInv, PinFits
<1>4. /\ Scripted(Tail(todo[w])) /\ Entered(Tail(todo[w]), Head(todo[w]).kind)
      /\ Head(todo[w]) \in Step
  BY <1>1, <1>3, Continued
<1>5. CD' \in Kinds
  BY <1>1, <1>4 DEF Step
<1>6. todo' \in [Writers -> Seq(Step)] /\ PinFits'
  BY <1>1, <1>2, <1>3, <1>4 DEF PinFits, Scripted
<1>7. TypeInv'
  BY <1>1, <1>5 DEF IInv, TypeInv, driverVars, sspVars
<1>8. Resting'
  BY <1>1, <1>2 DEF IInv, Resting, driverVars, sspVars
<1>9. RoomForAll' /\ WordsInOrder' /\ TakenAsMeant'
  BY <1>1 DEF IInv, RoomForAll, InFlight, WordsInOrder, Nth, TakenAsMeant, driverVars, sspVars
<1> QED
  BY <1>6, <1>7, <1>8, <1>9 DEF IInv

\* spiSend: the first words of the buffer are loaded into an empty FIFO.
LEMMA SendStep ==
  ASSUME OneWriter, DeepFifo, IInv, NEW w \in Writers, Send(w)
  PROVE  IInv'
<1> DEFINE step == Head(todo[w])
           first == [of |-> w, kind |-> step.kind, i |-> 1]
<1>1. /\ pc[w] = "run" /\ todo[w] # <<>> /\ step.op = "send"
      /\ todo' = [todo EXCEPT ![w] = Tail(todo[w])]
      /\ state' = "ACTIVE" /\ thread' = w /\ pc' = [pc EXCEPT ![w] = "asleep"]
      /\ Preload(first, step.n) /\ rxcnt' = step.n /\ imsc' = "tx"
      /\ UNCHANGED <<CD, shift, rxFifo, lcd>>
  BY DEF Send, Due, Proceed
<1>2. Writers = {w}
  BY Alone
<1>3. /\ Scripted(todo[w]) /\ Entered(todo[w], CD) /\ todo \in [Writers -> Seq(Step)]
      /\ CD \in Kinds /\ pc \in [Writers -> {"run", "asleep"}]
  BY DEF IInv, PinFits, TypeInv
<1>4. /\ Scripted(Tail(todo[w])) /\ Entered(Tail(todo[w]), step.kind)
      /\ step = todo[w][1] /\ step \in Step /\ step.n \in 1 .. MaxWords
  BY <1>1, <1>3, Continued
<1>5. step.kind = CD
  BY <1>1, <1>3, <1>4 DEF Entered
<1>6. txFifo = <<>> /\ shift = NULL /\ rxFifo = 0
  BY <1>1 DEF IInv, Resting
<1>7. first \in Word /\ step.n \in Nat /\ step.n =< MaxWords /\ step.n >= 1
  BY <1>3, <1>4, <1>5 DEF Word, MaxWords
<1> HIDE DEF step
<1>8. txFifo \in Seq(Word) /\ Len(txFifo) = 0 /\ Len(txFifo) =< LPC_SSP_FIFO_DEPTH
      /\ LPC_SSP_FIFO_DEPTH \in Nat
  BY <1>6, SpiAssumption DEF SpiAssumption
<1> HIDE DEF first
<1>9. PICK room \in Nat :
        /\ room =< step.n /\ room =< LPC_SSP_FIFO_DEPTH
        /\ room = step.n \/ room = LPC_SSP_FIFO_DEPTH
        /\ txFifo' \in Seq(Word) /\ Len(txFifo') = room
        /\ \A j \in 1 .. room : txFifo'[j] = [of |-> first.of, kind |-> first.kind, i |-> first.i + j - 1]
        /\ txptr' = [of |-> first.of, kind |-> first.kind, i |-> first.i + room]
        /\ txcnt' = step.n - room
  <2>1. PICK room \in Nat :
           /\ room =< step.n /\ Len(txFifo) + room =< LPC_SSP_FIFO_DEPTH
           /\ room = step.n \/ Len(txFifo) + room = LPC_SSP_FIFO_DEPTH
           /\ txFifo' \in Seq(Word) /\ Len(txFifo') = Len(txFifo) + room
           /\ \A j \in 1 .. Len(txFifo) : txFifo'[j] = txFifo[j]
           /\ \A j \in 1 .. room : txFifo'[Len(txFifo) + j]
                                     = [of |-> first.of, kind |-> first.kind, i |-> first.i + j - 1]
           /\ txptr' = [of |-> first.of, kind |-> first.kind, i |-> first.i + room]
           /\ txcnt' = step.n - room
    BY <1>1, <1>7, <1>8, PreloadFacts
  <2> QED
    BY <1>8, <2>1
<1>10. first.of = w /\ first.kind = CD /\ first.i = 1
  BY <1>5 DEF first
<1>11. /\ txptr' = [of |-> w, kind |-> CD, i |-> 1 + room]
       /\ \A j \in 1 .. room : txFifo'[j] = [of |-> w, kind |-> CD, i |-> j]
       /\ txptr'.of = w /\ txptr'.kind = CD /\ txptr'.i = 1 + room
  <2>1. \A j \in 1 .. room : 1 + j - 1 = j
    OBVIOUS
  <2> QED
    BY <1>9, <1>10, <2>1
<1>12. txcnt' \in Nat /\ txcnt' + room = step.n
  BY <1>7, <1>9
<1>13. TypeInv'
  <2>1. txptr' \in Anything
    BY <1>3, <1>11 DEF Anything
  <2> QED
    BY <1>1, <1>7, <1>9, <1>12, <2>1 DEF IInv, TypeInv
<1>14. Resting'
  <2>1. pc'[w] = "asleep" /\ txptr'.i + txcnt' >= 2
    BY <1>1, <1>3, <1>7, <1>11, <1>12
  <2> QED
    BY <1>1, <1>2, <1>11, <2>1 DEF Resting
<1>15. RoomForAll'
  <2>1. InFlight' = room
    BY <1>1, <1>6, <1>9 DEF InFlight
  <2> QED
    BY <1>1, <1>7, <1>8, <1>9, <1>12, <2>1 DEF RoomForAll, MaxWords
<1>16. WordsInOrder'
  <2>1. txptr'.i - Len(txFifo') = 1 /\ shift' = NULL
    BY <1>1, <1>6, <1>9, <1>11
  <2>2. \A j \in 1 .. Len(txFifo') :
          txFifo'[j] = [of |-> txptr'.of, kind |-> txptr'.kind, i |-> txptr'.i - Len(txFifo') + j - 1]
    <3>1. \A j \in 1 .. room : 1 + j - 1 = j
      OBVIOUS
    <3> QED
      BY <1>9, <1>11, <2>1, <3>1
  <2> QED
    BY <2>1, <2>2 DEF WordsInOrder, Nth
<1>17. TakenAsMeant'
  BY <1>1 DEF IInv, TakenAsMeant
<1>18. todo' \in [Writers -> Seq(Step)] /\ PinFits'
  BY <1>1, <1>2, <1>3, <1>4, <1>5 DEF PinFits, Scripted
<1> QED
  BY <1>13, <1>14, <1>15, <1>16, <1>17, <1>18 DEF IInv

\* What the invariant says while a call is in progress.
LEMMA Sending ==
  ASSUME OneWriter, IInv, imsc # "off" \/ shift # NULL \/ txFifo # <<>>
  PROVE  \E w \in Writers :
           /\ Writers = {w} /\ pc[w] = "asleep" /\ thread = w /\ state = "ACTIVE" /\ imsc # "off"
           /\ txptr \in Word /\ txptr.of = w /\ txptr.kind = CD
           /\ txptr.i + txcnt >= 2 /\ w # NULL /\ CD \in Kinds
<1>1. PICK w : Writers = {w}
  BY DEF OneWriter
<1>2. pc[w] = "asleep"
  BY <1>1 DEF IInv, Resting, TypeInv
<1>3. /\ thread = w /\ state = "ACTIVE" /\ imsc # "off"
      /\ txptr.of = w /\ txptr.kind = CD /\ txptr.i + txcnt >= 2
  BY <1>1, <1>2 DEF IInv, Resting
<1>4. txptr \in Word
  BY <1>1, <1>3 DEF IInv, TypeInv, Anything, Word
<1>5. w # NULL /\ CD \in Kinds
  BY <1>1, SpiAssumption DEF SpiAssumption, IInv, TypeInv
<1> QED
  BY <1>1, <1>2, <1>3, <1>4, <1>5

\* spi_serve_interrupt: the words that came are taken, and more are loaded.
LEMMA ServeMoreStep ==
  ASSUME OneWriter, DeepFifo, IInv, ServeMore
  PROVE  IInv'
<1> DEFINE D == LPC_SSP_FIFO_DEPTH
<1>1. /\ rxFifo < rxcnt /\ rxFifo' = 0 /\ rxcnt' = rxcnt - rxFifo
      /\ Preload(txptr, txcnt) /\ imsc' = (IF txcnt' = 0 THEN "rx" ELSE imsc)
      /\ UNCHANGED <<todo, pc, CD, state, thread, shift, lcd>>
  BY DEF ServeMore
<1>2. /\ imsc # "off"
      /\ \/ Len(txFifo) =< D \div 2
         \/ rxFifo > 0 /\ (rxFifo >= D \div 2 \/ (txFifo = <<>> /\ shift = NULL))
  BY DEF ServeMore, Interrupt
<1>3. PICK w \in Writers :
        /\ Writers = {w} /\ pc[w] = "asleep" /\ thread = w /\ state = "ACTIVE" /\ imsc # "off"
        /\ txptr \in Word /\ txptr.of = w /\ txptr.kind = CD
        /\ txptr.i + txcnt >= 2 /\ w # NULL /\ CD \in Kinds
  BY <1>2, Sending
<1>4. /\ txFifo \in Seq(Word) /\ txcnt \in Nat /\ rxcnt \in Nat /\ rxFifo \in Nat
      /\ txptr.i \in Nat /\ Len(txFifo) \in Nat /\ D \in Nat /\ D >= 8
  BY <1>3, SpiAssumption DEF IInv, TypeInv, Word, SpiAssumption, DeepFifo
<1>5. /\ OnWire \in {0, 1} /\ InFlight = Len(txFifo) + OnWire + rxFifo
      /\ rxcnt = txcnt + InFlight /\ InFlight =< D
      /\ rxcnt =< D \/ (rxcnt =< 10 /\ InFlight = D)
  BY <1>3 DEF IInv, RoomForAll, InFlight, OnWire, MaxWords
<1>6. txFifo = <<>> => Len(txFifo) = 0
  OBVIOUS
<1>7. PICK room \in Nat :
        /\ room =< txcnt /\ Len(txFifo) + room =< D
        /\ txFifo' \in Seq(Word) /\ Len(txFifo') = Len(txFifo) + room
        /\ \A j \in 1 .. Len(txFifo) : txFifo'[j] = txFifo[j]
        /\ \A j \in 1 .. room : txFifo'[Len(txFifo) + j]
                                  = [of |-> txptr.of, kind |-> txptr.kind, i |-> txptr.i + j - 1]
        /\ txptr' = [of |-> txptr.of, kind |-> txptr.kind, i |-> txptr.i + room]
        /\ txcnt' = txcnt - room
  <2>1. Len(txFifo) =< D
    BY <1>4, <1>5
  <2> QED
    BY <1>1, <1>3, <1>4, <2>1, PreloadFacts
<1>8. txptr'.of = w /\ txptr'.kind = CD /\ txptr'.i = txptr.i + room /\ txptr'.i \in Nat
  BY <1>3, <1>4, <1>7
<1>9. rxcnt' =< D
  <2>1. CASE rxcnt =< D
    BY <1>1, <1>4, <2>1
  <2>2. CASE rxcnt =< 10 /\ InFlight = D
    <3>1. CASE Len(txFifo) =< D \div 2
      BY <1>1, <1>4, <1>5, <2>2, <3>1
    <3>2. CASE rxFifo >= D \div 2
      BY <1>1, <1>4, <1>5, <2>2, <3>2
    <3>3. CASE txFifo = <<>> /\ shift = NULL
      <4>1. OnWire = 0
        BY <3>3 DEF OnWire
      <4> QED
        BY <1>1, <1>4, <1>5, <1>6, <2>2, <3>3, <4>1
    <3> QED
      BY <1>2, <3>1, <3>2, <3>3
  <2> QED
    BY <1>5, <2>1, <2>2
<1>10. InFlight' = Len(txFifo) + room + OnWire /\ rxcnt' = txcnt' + InFlight' /\ InFlight' =< D
  <2>1. InFlight' = Len(txFifo) + room + OnWire
    BY <1>1, <1>4, <1>5, <1>7 DEF InFlight, OnWire
  <2>2. /\ rxcnt' = rxcnt - rxFifo /\ txcnt' = txcnt - room /\ room =< txcnt /\ room \in Nat
        /\ rxcnt = txcnt + (Len(txFifo) + OnWire + rxFifo)
    BY <1>1, <1>5, <1>7
  <2>3. /\ rxcnt' = txcnt' + InFlight'
        /\ txcnt' \in Nat /\ InFlight' \in Nat /\ rxcnt' \in Nat
    <3>1. OnWire \in Nat
      BY <1>5
    <3> QED
      BY ONLY <1>4, <2>1, <2>2, <3>1
  <2> QED
    BY ONLY <1>4, <1>9, <2>1, <2>3
<1>11. TypeInv'
  <2>1. txptr' \in Anything
    BY <1>3, <1>8, <1>7 DEF Anything
  <2>2. imsc' \in {"off", "rx", "tx"}
    BY <1>1 DEF IInv, TypeInv
  <2>3. txcnt' \in Nat /\ rxcnt' \in Nat /\ rxFifo' \in Nat
    BY <1>1, <1>4, <1>7
  <2> QED
    BY <1>1, <1>7, <2>1, <2>2, <2>3 DEF IInv, TypeInv
<1>12. Resting'
  <2>1. txptr'.i + txcnt' >= 2
    BY <1>3, <1>4, <1>7, <1>8
  <2>2. imsc' # "off"
    BY <1>1, <1>2
  <2> QED
    BY <1>1, <1>3, <1>8, <2>1, <2>2 DEF Resting
<1>13. RoomForAll'
  BY <1>9, <1>10 DEF RoomForAll
<1>14. WordsInOrder'
  <2>1. /\ \A j \in 1 .. Len(txFifo) :
             txFifo[j] = [of |-> txptr.of, kind |-> txptr.kind, i |-> txptr.i - Len(txFifo) + j - 1]
        /\ shift # NULL => shift = [of |-> txptr.of, kind |-> txptr.kind, i |-> txptr.i - Len(txFifo) - 1]
        /\ shift = NULL =>
             \/ txptr.i - Len(txFifo) = 1
             \/ lcd.word = [of |-> txptr.of, kind |-> txptr.kind, i |-> txptr.i - Len(txFifo) - 1]
    BY <1>3 DEF IInv, WordsInOrder, Nth
  <2>2. txptr'.i - Len(txFifo') = txptr.i - Len(txFifo)
    BY <1>4, <1>7, <1>8
  <2>3. ASSUME NEW j \in 1 .. Len(txFifo')
        PROVE  txFifo'[j] = [of |-> w, kind |-> CD, i |-> txptr.i - Len(txFifo) + j - 1]
    <3>1. CASE j \in 1 .. Len(txFifo)
      BY <1>3, <1>7, <2>1, <3>1
    <3>2. CASE j \notin 1 .. Len(txFifo)
      <4> DEFINE k == j - Len(txFifo)
      <4>1. k \in 1 .. room /\ Len(txFifo) + k = j /\ txptr.i + k - 1 = txptr.i - Len(txFifo) + j - 1
        BY <1>4, <1>7, <3>2
      <4> HIDE DEF k
      <4>2. txFifo'[Len(txFifo) + k] = [of |-> txptr.of, kind |-> txptr.kind, i |-> txptr.i + k - 1]
        BY <1>7, <4>1
      <4> QED
        BY <1>3, <4>1, <4>2
    <3> QED
      BY <3>1, <3>2
  <2> QED
    BY <1>1, <1>3, <1>8, <2>1, <2>2, <2>3 DEF WordsInOrder, Nth
<1>15. TakenAsMeant' /\ todo' \in [Writers -> Seq(Step)] /\ PinFits'
  BY <1>1 DEF IInv, TakenAsMeant, PinFits
<1> QED
  BY <1>11, <1>12, <1>13, <1>14, <1>15 DEF IInv

\* The call returns when the last word came back.
LEMMA ServeLastStep ==
  ASSUME OneWriter, IInv, ServeLast
  PROVE  /\ IInv'
         /\ txcnt = 0 /\ txFifo = <<>> /\ shift = NULL
         /\ \E w \in Writers : Writers = {w} /\ txptr.of = w
         /\ lcd.word = [txptr EXCEPT !.i = @ - 1]
<1>1. /\ rxFifo >= rxcnt /\ rxFifo' = rxFifo - rxcnt /\ rxcnt' = 0
      /\ imsc' = "off" /\ state' = "READY"
      /\ thread # NULL => thread' = NULL /\ pc' = [pc EXCEPT ![thread] = "run"]
      /\ UNCHANGED <<todo, CD, txptr, txcnt, txFifo, shift, lcd>>
  BY DEF ServeLast
<1>2. imsc # "off" \/ txFifo # <<>> \/ shift # NULL
  BY DEF ServeLast, Interrupt
<1>3. PICK w \in Writers :
        /\ Writers = {w} /\ pc[w] = "asleep" /\ thread = w /\ state = "ACTIVE" /\ imsc # "off"
        /\ txptr \in Word /\ txptr.of = w /\ txptr.kind = CD
        /\ txptr.i + txcnt >= 2 /\ w # NULL /\ CD \in Kinds
  BY <1>2, Sending
<1>4. /\ txFifo \in Seq(Word) /\ txcnt \in Nat /\ rxcnt \in Nat /\ rxFifo \in Nat
      /\ txptr.i \in Nat /\ Len(txFifo) \in Nat
  BY <1>3 DEF IInv, TypeInv, Word
<1>5. /\ OnWire \in {0, 1} /\ InFlight = Len(txFifo) + OnWire + rxFifo
      /\ rxcnt = txcnt + InFlight
  BY <1>3 DEF IInv, RoomForAll, InFlight, OnWire
<1>6. txcnt = 0 /\ Len(txFifo) = 0 /\ OnWire = 0 /\ rxFifo' = 0
  BY <1>1, <1>4, <1>5
<1>7. txFifo = <<>> /\ shift = NULL
  BY <1>4, <1>6 DEF OnWire
<1>8. lcd.word = [txptr EXCEPT !.i = @ - 1]
  <2>1. lcd.word = [of |-> txptr.of, kind |-> txptr.kind, i |-> txptr.i - 1]
    <3>1. txptr.i - Len(txFifo) # 1 /\ txptr.i - Len(txFifo) - 1 = txptr.i - 1
      BY <1>3, <1>4, <1>6
    <3> QED
      BY <1>3, <1>7, <3>1 DEF IInv, WordsInOrder, Nth
  <2> QED
    BY <1>3, <2>1 DEF Word
<1>9. thread' = NULL /\ pc' = [pc EXCEPT ![w] = "run"]
  BY <1>1, <1>3
<1>10. TypeInv'
  BY <1>1, <1>6, <1>9 DEF IInv, TypeInv
<1>11. Resting'
  <2>1. pc'[w] = "run"
    BY <1>3, <1>9 DEF IInv, TypeInv
  <2> QED
    BY <1>1, <1>3, <1>6, <1>7, <1>9, <2>1 DEF Resting
<1>12. RoomForAll' /\ WordsInOrder'
  BY <1>1 DEF RoomForAll, WordsInOrder
<1>13. TakenAsMeant' /\ todo' \in [Writers -> Seq(Step)] /\ PinFits'
  BY <1>1 DEF IInv, TakenAsMeant, PinFits
<1> QED
  BY <1>3, <1>6, <1>7, <1>8, <1>10, <1>11, <1>12, <1>13 DEF IInv

\* The next word goes to the wire.
LEMMA ShiftOutStep ==
  ASSUME OneWriter, IInv, ShiftOut
  PROVE  IInv'
<1>1. /\ shift = NULL /\ txFifo # <<>> /\ shift' = Head(txFifo) /\ txFifo' = Tail(txFifo)
      /\ UNCHANGED <<todo, pc, CD, driverVars, rxFifo, lcd>>
  BY DEF ShiftOut
<1>2. PICK w \in Writers :
        /\ Writers = {w} /\ pc[w] = "asleep" /\ thread = w /\ state = "ACTIVE" /\ imsc # "off"
        /\ txptr \in Word /\ txptr.of = w /\ txptr.kind = CD
        /\ txptr.i + txcnt >= 2 /\ w # NULL /\ CD \in Kinds
  BY <1>1, Sending
<1>3. txFifo \in Seq(Word) /\ txptr.i \in Nat /\ rxFifo \in Nat
  BY <1>2 DEF IInv, TypeInv, Word
<1>4. /\ shift' = txFifo[1] /\ txFifo[1] \in Word /\ Len(txFifo) \in Nat \ {0}
      /\ txFifo' \in Seq(Word) /\ Len(txFifo') = Len(txFifo) - 1
      /\ \A j \in 1 .. Len(txFifo) - 1 : txFifo'[j] = txFifo[j + 1]
  BY <1>1, <1>3, HeadAndTail
<1>5. shift' # NULL
  BY <1>4, SpiAssumption DEF SpiAssumption, Word, Kinds, CMD, DATA
<1>6. /\ UNCHANGED <<state, thread, txptr, txcnt, rxcnt, imsc>>
  BY <1>1 DEF driverVars
<1>7. TypeInv'
  BY <1>1, <1>4, <1>6 DEF IInv, TypeInv
<1>8. Resting'
  BY <1>1, <1>2, <1>6 DEF IInv, Resting
<1>9. RoomForAll'
  <2>1. InFlight' = InFlight
    BY <1>1, <1>3, <1>4, <1>5 DEF InFlight
  <2> QED
    BY <1>6, <2>1 DEF IInv, RoomForAll
<1>10. WordsInOrder'
  <2>1. \A j \in 1 .. Len(txFifo) : txFifo[j] = Nth(txptr.i - Len(txFifo) + j - 1)
    BY <1>2 DEF IInv, WordsInOrder
  <2>2. /\ txptr.i - Len(txFifo) + 1 - 1 = txptr.i - (Len(txFifo) - 1) - 1
        /\ \A j \in 1 .. Len(txFifo) - 1 :
             /\ j + 1 \in 1 .. Len(txFifo)
             /\ txptr.i - Len(txFifo) + (j + 1) - 1 = txptr.i - (Len(txFifo) - 1) + j - 1
    <3>1. txptr.i \in Nat /\ Len(txFifo) \in Nat \ {0}
      BY <1>3, <1>4
    <3> DEFINE at == txptr.i
               len == Len(txFifo)
    <3> HIDE DEF at, len
    <3>2. /\ at - len + 1 - 1 = at - (len - 1) - 1
          /\ \A j \in 1 .. len - 1 : /\ j + 1 \in 1 .. len
                                     /\ at - len + (j + 1) - 1 = at - (len - 1) + j - 1
      <4>1. at \in Nat /\ len \in Nat \ {0}
        BY <3>1 DEF at, len
      <4> QED
        BY ONLY <4>1
    <3> QED
      BY <3>2 DEF at, len
  <2>3. 1 \in 1 .. Len(txFifo)
    BY <1>4
  <2>4. shift' = Nth(txptr.i - Len(txFifo') - 1)
    BY <1>4, <2>1, <2>2, <2>3
  <2>5. \A j \in 1 .. Len(txFifo') : txFifo'[j] = Nth(txptr.i - Len(txFifo') + j - 1)
    BY <1>4, <2>1, <2>2
  <2> QED
    BY <1>5, <1>6, <2>4, <2>5 DEF WordsInOrder, Nth
<1>11. TakenAsMeant' /\ todo' \in [Writers -> Seq(Step)] /\ PinFits'
  BY <1>1 DEF IInv, TakenAsMeant, PinFits
<1> QED
  BY <1>7, <1>8, <1>9, <1>10, <1>11 DEF IInv

\* The display takes the word, and one comes back: there is room for it.
LEMMA ShiftedOutStep ==
  ASSUME OneWriter, IInv, ShiftedOut
  PROVE  IInv'
<1> DEFINE D == LPC_SSP_FIFO_DEPTH
<1>1. /\ shift # NULL /\ lcd' = [word |-> shift, pin |-> CD] /\ shift' = NULL
      /\ rxFifo' = Min({rxFifo + 1, D})
      /\ UNCHANGED <<todo, pc, CD, driverVars, txFifo>>
  BY DEF ShiftedOut
<1>2. PICK w \in Writers :
        /\ Writers = {w} /\ pc[w] = "asleep" /\ thread = w /\ state = "ACTIVE" /\ imsc # "off"
        /\ txptr \in Word /\ txptr.of = w /\ txptr.kind = CD
        /\ txptr.i + txcnt >= 2 /\ w # NULL /\ CD \in Kinds
  BY <1>1, Sending
<1>3. /\ txFifo \in Seq(Word) /\ txptr.i \in Nat /\ rxFifo \in Nat /\ shift \in Word
      /\ Len(txFifo) \in Nat /\ D \in Nat
  BY <1>1, <1>2, SpiAssumption DEF IInv, TypeInv, Word, SpiAssumption
<1>4. InFlight = Len(txFifo) + 1 + rxFifo /\ InFlight =< D
  BY <1>1, <1>2 DEF IInv, RoomForAll, InFlight
<1>5. rxFifo' = rxFifo + 1
  <2>1. rxFifo + 1 =< D /\ rxFifo + 1 \in Nat
    BY ONLY <1>3, <1>4
  <2> HIDE DEF D
  <2> QED
    BY <1>1, <1>3, <2>1, MinOfTwo
<1>6. UNCHANGED <<state, thread, txptr, txcnt, rxcnt, imsc>>
  BY <1>1 DEF driverVars
<1>7. shift = Nth(txptr.i - Len(txFifo) - 1)
  BY <1>1, <1>2 DEF IInv, WordsInOrder
<1>8. TypeInv'
  <2>1. lcd' \in [word : Anything, pin : Kinds]
    BY <1>1, <1>2, <1>3 DEF Word, Anything
  <2> QED
    BY <1>1, <1>3, <1>5, <1>6, <2>1 DEF IInv, TypeInv
<1>9. Resting'
  BY <1>1, <1>2, <1>6 DEF IInv, Resting
<1>10. RoomForAll'
  <2>1. InFlight' = Len(txFifo) + 0 + (rxFifo + 1)
    BY <1>1, <1>5 DEF InFlight
  <2>2. InFlight' = InFlight
    BY ONLY <1>3, <1>4, <2>1
  <2> QED
    BY <1>6, <2>2 DEF IInv, RoomForAll
<1>11. WordsInOrder'
  BY <1>1, <1>2, <1>6, <1>7 DEF IInv, WordsInOrder, Nth
<1>12. TakenAsMeant'
  BY <1>1, <1>2, <1>7 DEF TakenAsMeant, Nth
<1>13. todo' \in [Writers -> Seq(Step)] /\ PinFits'
  BY <1>1 DEF IInv, PinFits
<1> QED
  BY <1>8, <1>9, <1>10, <1>11, <1>12, <1>13 DEF IInv

\* Every step preserves the invariant.
LEMMA NextInv ==
  ASSUME OneWriter, DeepFifo, IInv, [Next]_vars
  PROVE  IInv'
<1>1. CASE UNCHANGED vars
  BY <1>1 DEF vars, driverVars, sspVars, IInv, TypeInv, Resting, RoomForAll, InFlight,
     WordsInOrder, Nth, TakenAsMeant, PinFits
<1>2. ASSUME NEW w \in Writers, Begin(w) PROVE IInv'
  BY <1>2, BeginStep
<1>3. ASSUME NEW w \in Writers, SetPin(w) PROVE IInv'
  BY <1>3, SetPinStep
<1>4. ASSUME NEW w \in Writers, Send(w) PROVE IInv'
  BY <1>4, SendStep
<1>5. CASE ServeMore
  BY <1>5, ServeMoreStep
<1>6. CASE ServeLast
  BY <1>6, ServeLastStep
<1>7. CASE ShiftOut
  BY <1>7, ShiftOutStep
<1>8. CASE ShiftedOut
  BY <1>8, ShiftedOutStep
<1> QED
  BY <1>1, <1>2, <1>3, <1>4, <1>5, <1>6, <1>7, <1>8 DEF Next, Serve, Shift, Call

-----------------------------------------------------------------------------
(* What follows from it.                                                   *)

\* The counters of the driver and the peripheral agree.
LEMMA InvCounters == ASSUME OneWriter, IInv PROVE CountersInStep
<1>1. PICK w \in Writers : Writers = {w}
  BY DEF OneWriter
<1>2. CASE pc[w] = "run"
  BY <1>1, <1>2 DEF IInv, Resting, CountersInStep, InFlight
<1>3. CASE pc[w] # "run"
  <2>1. state = "ACTIVE"
    BY <1>1, <1>3 DEF IInv, Resting
  <2>2. rxcnt = txcnt + InFlight /\ InFlight =< LPC_SSP_FIFO_DEPTH
    BY <2>1 DEF IInv, RoomForAll
  <2>3. shift # NULL => rxFifo < LPC_SSP_FIFO_DEPTH
    <3>1. SUFFICES ASSUME shift # NULL PROVE rxFifo < LPC_SSP_FIFO_DEPTH
      OBVIOUS
    <3>2. InFlight = Len(txFifo) + 1 + rxFifo
      BY <3>1 DEF InFlight
    <3>3. Len(txFifo) \in Nat /\ rxFifo \in Nat /\ LPC_SSP_FIFO_DEPTH \in Nat
      BY SpiAssumption DEF IInv, TypeInv, SpiAssumption
    <3> QED
      BY ONLY <2>2, <3>2, <3>3
  <2> QED
    BY <2>1, <2>2, <2>3 DEF CountersInStep
<1> QED
  BY <1>2, <1>3

\* A thread comes back from spiSend only when its last word was taken.
LEMMA StepInOrder ==
  ASSUME OneWriter, DeepFifo, IInv, [Next]_vars
  PROVE  /\ lcd'.pin = lcd'.word.kind
         /\ \A w \in Writers : pc[w] = "asleep" /\ pc'[w] = "run" =>
              txcnt = 0 /\ lcd.word = [txptr EXCEPT !.i = @ - 1] /\ txptr.of = w
<1>1. lcd'.pin = lcd'.word.kind
  BY NextInv DEF IInv, TakenAsMeant
<1> SUFFICES ASSUME NEW w \in Writers, pc[w] = "asleep", pc'[w] = "run"
             PROVE  txcnt = 0 /\ lcd.word = [txptr EXCEPT !.i = @ - 1] /\ txptr.of = w
  BY <1>1
<1>2. Writers = {w}
  BY Alone
<1>3. pc \in [Writers -> {"run", "asleep"}]
  BY DEF IInv, TypeInv
<1>4. ServeLast
  <2>1. ASSUME pc' = pc PROVE FALSE
    BY <2>1
  <2>2. UNCHANGED vars => pc' = pc
    BY DEF vars
  <2>3. \A v \in Writers : (Begin(v) => pc' = pc) /\ (SetPin(v) => pc' = pc)
    BY DEF Begin, SetPin
  <2>4. \A v \in Writers : ~Send(v)
    <3>1. ~Send(w)
      BY <1>3 DEF Send, Due
    <3> QED
      BY <1>2, <3>1
  <2>5. /\ ServeMore => pc' = pc
        /\ ShiftOut => pc' = pc
        /\ ShiftedOut => pc' = pc
    BY DEF ServeMore, ShiftOut, ShiftedOut
  <2> QED
    BY <2>1, <2>2, <2>3, <2>4, <2>5 DEF Next, Serve, Shift, Call
<1> QED
  BY <1>2, <1>4, ServeLastStep

\* While main() is the only one that writes, the driver's count of words still to
\* come is what the peripheral holds, the assertion of spi_lld.c (line 109) holds,
\* and the received words always find room (SpiLcd!CountersInStep).
THEOREM BootKeepsCount ==
  ASSUME OneWriter, DeepFifo
  PROVE  Spec => []CountersInStep
<1>1. Init => IInv
  BY InitInv
<1>2. IInv /\ [Next]_vars => IInv'
  BY NextInv
<1>3. IInv => CountersInStep
  BY InvCounters
<1> QED
  BY <1>1, <1>2, <1>3, PTL DEF Spec

\* While main() is the only one that writes, every word reaches the display under
\* the level of the pin it was meant for, and spiSend comes back only when the
\* display has the last word of the buffer (SpiLcd!CallsInOrder).
THEOREM BootInOrder ==
  ASSUME OneWriter, DeepFifo
  PROVE  Spec => CallsInOrder
<1>1. Init => IInv
  BY InitInv
<1>2. IInv /\ [Next]_vars => IInv'
  BY NextInv
<1>3. IInv /\ [Next]_vars =>
        [/\ lcd'.pin = lcd'.word.kind
         /\ \A w \in Writers : pc[w] = "asleep" /\ pc'[w] = "run" =>
              txcnt = 0 /\ lcd.word = [txptr EXCEPT !.i = @ - 1] /\ txptr.of = w]_vars
  BY StepInOrder
<1> QED
  BY <1>1, <1>2, <1>3, PTL DEF Spec, CallsInOrder
=============================================================================
