------------------------------- MODULE Measure -------------------------------
(***************************************************************************)
(* The measurement: HP03.c, Kalman.c, Thread2's loop (tasks.c), the        *)
(* readings of the boot (main.c).  A reading is two I2C transfers with a   *)
(* conversion of 40 ms in between: a command that starts it, and the       *)
(* fetch of its result.  Any transfer may fail.  The result of the first   *)
(* is overwritten by that of the second: if only the first fails the       *)
(* converter hands out what it last converted, perhaps the other quantity. *)
(* A reading whose second transfer fails leaves the marker -3333, and      *)
(* Thread2 goes on with it.                                                *)
(*                                                                         *)
(* A raw value is the quantity itself as far as the formulas find it with  *)
(* the right coefficients and constants; from wrong ones they make a       *)
(* member of Wild.  The altitude formula, all floats, is a parameter.  The *)
(* gain of the filter does not depend on its input, and its sequence is    *)
(* that of Q and R in ten-thousandths.                                     *)
(***************************************************************************)
EXTENDS Itoa

CONSTANTS
  Rooms,       \* temperatures in tenths of a degree; the instrument is in one
  Pressures,   \* pressures of the air
  Wild,        \* what the formulas make of a wrong raw value or constant
  TempTurns,   \* turns of Thread2 from one temperature to the next (23)
  LogTurns,    \* turns from one record to the next (3)
  HP03_pressureToAltitude(_, _, _), \* tenths of a metre, by what the sea-level
               \* pressure was computed from, the pressure and the temperature
  MaxFaults,   \* transfers that fail
  MaxChanges   \* changes of the air's pressure

MeasureAssumption ==
  /\ Rooms \subseteq Int /\ Pressures \subseteq Nat \ {0} /\ Wild \subseteq Int
  /\ TempTurns \in Nat \ {0} /\ LogTurns \in Nat \ {0}
  /\ MaxFaults \in Nat /\ MaxChanges \in Nat
ASSUME MeasureAssumption

NotRead == -3333

VARIABLES
  room, air, changes,  \* outside: temperature, pressure, how often it changed
  XCLR, converted,     \* the converter's pin, and what it last converted
  coeffs,              \* HP03_coeff: whether they are the sensor's
  caller, pc, what,    \* who reads, where, and which quantity
  todo,                \* readings main has still to make
  temper, press,       \* the caller's HP03_meas_t,
  consts,              \*   and the constants a temperature leaves for pressures
  x_est_last, updates, \* the filter: its estimate, how often its gain has moved
  sea,                 \* calculatedSeaLevelPressure, by its arguments
  readTemp, prevAlt,   \* Thread2's count of turns and last altitude
  beeper,              \* the PWM channel is enabled
  logged,              \* the record of this turn, what its altitude is computed
                       \*   from, and failed
  shown,               \* the text of this turn's temperature, if one is written
  failed, faults       \* history: which failures are still felt, how many there were

outside == <<room, air, changes>>
sensor == <<XCLR, converted>>
thread == <<caller, pc, what, todo>>
meas == <<temper, press, consts>>
filter == <<x_est_last, updates>>
results == <<logged, shown, prevAlt, beeper>>
vars == <<outside, sensor, coeffs, thread, meas, filter, sea, readTemp, results, failed, faults>>

Init ==
  /\ room \in Rooms /\ air \in Pressures /\ changes = 0
  /\ XCLR = FALSE /\ converted = <<"none", 0>>
  /\ coeffs = "unread"
  /\ caller = "main" /\ pc = "coeffs" /\ what = "temper" /\ todo = 4
  /\ temper = NotRead /\ press = NotRead /\ consts = "unset"
  /\ x_est_last = 0 /\ updates = 0 /\ sea = <<>>
  /\ readTemp = 0 /\ prevAlt = 0 /\ beeper = FALSE
  /\ logged = <<>> /\ shown = <<>>
  /\ failed = {} /\ faults = 0

ChangeAir ==
  /\ changes < MaxChanges /\ changes' = changes + 1
  /\ air' \in Pressures \ {air}
  /\ UNCHANGED <<room, sensor, coeffs, thread, meas, filter, sea, readTemp, results, failed, faults>>

Failing == faults < MaxFaults /\ faults' = faults + 1
Working == UNCHANGED faults

----------------------------------------------------------------------------
(* Kalman.c.                                                               *)

Gains == <<2143, 3275, 3751, 3931, 3997, 4021, 4029, 4034>>

\* A float becomes an int towards zero.
Truncated(n, d) == IF n >= 0 THEN n \div d ELSE -((-n) \div d)

Corrected(x, z, n) == Truncated(x * 10000 + Gains[n + 1] * (z - x), 10000)

\* Mutant: the estimate is returned and not kept.
X_kalman(z) ==
  /\ press' = Corrected(x_est_last, z, updates)
  /\ UNCHANGED <<x_est_last, updates>>

kalman(z) ==
  /\ x_est_last' = Corrected(x_est_last, z, updates)
  /\ updates' = IF updates < Len(Gains) - 1 THEN updates + 1 ELSE updates
  /\ press' = x_est_last'

----------------------------------------------------------------------------
(* HP03.c.                                                                 *)

\* HP03_readCoeffs: its result is ignored, and what did not arrive stays 0.
ReadCoeffs ==
  /\ pc = "coeffs" /\ pc' = "start"
  /\ XCLR' = FALSE
  /\ \/ Working /\ coeffs' = "good" /\ UNCHANGED failed
     \/ Failing /\ coeffs' = "wrong" /\ failed' = {"coeffs"}
  /\ UNCHANGED <<outside, converted, caller, what, todo, meas, filter, sea, readTemp, results>>

\* HP03_getTemperature and HP03_getPressure up to the end of the sleep.
Reality == IF what = "temper" THEN room ELSE air

Start == IF what = "temper" THEN "temper start" ELSE "press start"

StartConversion ==
  /\ pc = "start" /\ pc' = "fetch"
  /\ IF what = "temper" THEN temper' = NotRead /\ UNCHANGED press
                        ELSE press' = NotRead /\ UNCHANGED temper
  /\ XCLR' = TRUE
  /\ \/ Working /\ converted' = <<what, Reality>> /\ failed' = failed \ {Start}
     \/ Failing /\ UNCHANGED converted /\ failed' = failed \cup {Start}
  /\ logged' = <<>> /\ shown' = <<>>
  /\ UNCHANGED <<outside, coeffs, caller, what, todo, consts, filter, sea, readTemp, prevAlt, beeper>>

\* What the formulas make of the converter's value with constants of a quality.
Computed(quality) ==
  IF converted[1] = what /\ coeffs = "good" /\ quality = "good" THEN {converted[2]} ELSE Wild

FetchTemperature ==
  /\ pc = "fetch" /\ what = "temper" /\ pc' = "return"
  /\ \/ /\ Working /\ XCLR' = FALSE
        /\ temper' \in Computed("good")
        /\ consts' = IF converted[1] = what /\ coeffs = "good" THEN "good" ELSE "wrong"
        /\ failed' = IF "temper start" \in failed
                       THEN (failed \ {"temper", "no constants"}) \cup {"constants"}
                       ELSE failed \ {"temper", "no constants", "constants"}
     \/ /\ Failing /\ UNCHANGED <<XCLR, temper, consts>>
        /\ failed' = failed \cup {"temper"}
                            \cup (IF consts = "unset" THEN {"no constants"} ELSE {})
  /\ UNCHANGED <<outside, converted, coeffs, caller, what, todo, press, filter, sea, readTemp, results>>

\* Failures whose raw value or constants the filter takes for a pressure.
Misleading == {"coeffs", "press start", "constants", "no constants"}

\* Mutant: the filter is fed before the result of the transfer is looked at.
X_FetchPressure ==
  /\ pc = "fetch" /\ what = "press" /\ pc' = "return"
  /\ \/ /\ Working /\ XCLR' = FALSE
        /\ \E z \in Computed(consts) :
             IF caller = "thread2" THEN kalman(z) ELSE press' = z /\ UNCHANGED filter
        /\ failed' = IF caller = "thread2" /\ failed \cap Misleading # {}
                       THEN (failed \ {"press"}) \cup {"filter"} ELSE failed \ {"press"}
     \/ /\ Failing /\ failed' = failed \cup {"press"} /\ UNCHANGED XCLR
        /\ IF caller = "thread2" THEN kalman(NotRead) ELSE UNCHANGED <<press, filter>>
  /\ UNCHANGED <<outside, converted, coeffs, caller, what, todo, temper, consts, sea, readTemp, results>>

FetchPressure ==
  /\ pc = "fetch" /\ what = "press" /\ pc' = "return"
  /\ \/ /\ Working /\ XCLR' = FALSE
        /\ \E z \in Computed(consts) :
             IF caller = "thread2" THEN kalman(z) ELSE press' = z /\ UNCHANGED filter
        /\ failed' = IF caller = "thread2" /\ failed \cap Misleading # {}
                       THEN (failed \ {"press"}) \cup {"filter"} ELSE failed \ {"press"}
     \/ Failing /\ failed' = failed \cup {"press"} /\ UNCHANGED <<XCLR, press, filter>>
  /\ UNCHANGED <<outside, converted, coeffs, caller, what, todo, temper, consts, sea, readTemp, results>>

----------------------------------------------------------------------------
(* The boot reads each quantity twice, for the first reading may be wrong. *)

NextReading ==
  /\ caller = "main" /\ pc = "return" /\ todo > 1
  /\ todo' = todo - 1 /\ pc' = "start"
  /\ what' = IF todo' > 2 THEN "temper" ELSE "press"
  /\ UNCHANGED <<outside, sensor, coeffs, caller, meas, filter, sea, readTemp, results, failed, faults>>

\* Mutant: Thread2 begins with a pressure, as if it had main's constants.
X_StartThread2 ==
  /\ caller = "main" /\ pc = "return" /\ todo = 1
  /\ todo' = 0 /\ caller' = "thread2" /\ pc' = "start" /\ what' = "press"
  /\ x_est_last' = press /\ sea' = <<press, temper>>
  /\ consts' = "unset" /\ readTemp' = TempTurns
  /\ failed' = (failed \cap {"coeffs"}) \cup (IF failed \ {"coeffs"} = {} THEN {} ELSE {"boot"})
  /\ UNCHANGED <<outside, sensor, coeffs, temper, press, updates, results, faults>>

\* Lines 71, 72 and 96 of main.c; Thread2 has an HP03_meas_t of its own.
StartThread2 ==
  /\ caller = "main" /\ pc = "return" /\ todo = 1
  /\ todo' = 0 /\ caller' = "thread2" /\ pc' = "start" /\ what' = "temper"
  /\ x_est_last' = press /\ sea' = <<press, temper>>
  /\ consts' = "unset" /\ readTemp' = 0
  /\ failed' = (failed \cap {"coeffs"}) \cup (IF failed \ {"coeffs"} = {} THEN {} ELSE {"boot"})
  /\ UNCHANGED <<outside, sensor, coeffs, temper, press, updates, results, faults>>

----------------------------------------------------------------------------
(* Thread2.                                                                *)

\* What LCD_writeTemp has itoa make of the reading, in toLCD.
TemperatureText == Text(temper, 1, 4, " ", <<>>, <<>>)

\* LCD_writeTemp returns at once while the display belongs to a dump.
AfterTemperature ==
  /\ caller = "thread2" /\ pc = "return" /\ what = "temper"
  /\ shown' = TemperatureText \/ UNCHANGED shown
  /\ readTemp' = TempTurns /\ what' = "press" /\ pc' = "start"
  /\ UNCHANGED <<outside, sensor, coeffs, caller, todo, meas, filter, sea, logged, prevAlt, beeper,
                 failed, faults>>

\* The altitude in tenths of a metre, an int of either sign.
measuredAltitude == HP03_pressureToAltitude(sea, press, temper)

\* The record's field is a uint16_t.
Uint16(h) == h % 65536
FitsUint16(h) == h \in Nat /\ h < 65536

\* The beeper sounds when the altitude has changed; every LogTurns turns it goes
\* into a record, if the heap has room.  The pause lets the air change before the
\* next turn.
AfterPressure ==
  /\ caller = "thread2" /\ pc = "return" /\ what = "press"
  /\ readTemp' = readTemp - 1
  /\ prevAlt' = measuredAltitude /\ beeper' = (prevAlt # measuredAltitude)
  /\ \/ /\ readTemp' % LogTurns = 0
        /\ logged' = [altitude |-> Uint16(measuredAltitude), press |-> press, temper |-> temper,
                      sea |-> sea, failed |-> failed]
     \/ UNCHANGED logged
  /\ what' = (IF readTemp' = 0 THEN "temper" ELSE "press") /\ pc' = "start"
  /\ UNCHANGED <<outside, sensor, coeffs, caller, todo, meas, filter, sea, shown, failed, faults>>

Step ==
  \/ ReadCoeffs \/ StartConversion \/ FetchTemperature \/ FetchPressure
  \/ NextReading \/ StartThread2 \/ AfterTemperature \/ AfterPressure

Next == Step \/ ChangeAir

Spec == Init /\ [][Next]_vars

\* main, then Thread2, which has the highest priority, goes on: every transfer
\* returns, and so do the writes to the display, where Thread2 is not the thread
\* that spiSend loses (LostThread of SpiLcd).
FairSpec == Spec /\ WF_vars(Step)

----------------------------------------------------------------------------
(* Properties.                                                             *)

Failures == {"coeffs", "temper start", "press start", "temper", "press", "constants",
             "no constants", "boot", "filter"}

TypeOK ==
  /\ room \in Rooms /\ air \in Pressures /\ changes \in 0 .. MaxChanges
  /\ XCLR \in BOOLEAN /\ converted \in {"none", "temper", "press"} \X Int
  /\ coeffs \in {"unread", "good", "wrong"}
  /\ caller \in {"main", "thread2"} /\ pc \in {"coeffs", "start", "fetch", "return"}
  /\ what \in {"temper", "press"} /\ todo \in 0 .. 4
  /\ temper \in Int /\ press \in Int /\ consts \in {"unset", "good", "wrong"}
  /\ x_est_last \in Int /\ updates \in 0 .. Len(Gains) - 1
  /\ readTemp \in 0 .. TempTurns /\ beeper \in BOOLEAN
  /\ failed \subseteq Failures /\ faults \in 0 .. MaxFaults

Between(x, S) == \E lo, hi \in S : lo =< x /\ x =< hi

\* What a record's altitude is computed from is true unless a failure explains
\* it, and each failure spoils only so much: a lost or wrong temperature until
\* the next one is read, a lost pressure one turn, a wrong one what the filter
\* makes of it, a failure at boot the sea-level pressure, one at the coefficients
\* everything.  The record holds that altitude where it fits, from 0 to 6553.5 m;
\* any other, as from 25 m below where the instrument was started, it holds modulo
\* 6553.6 m.
RecordExplained ==
  logged # <<>> =>
    LET f == logged.failed
        h == HP03_pressureToAltitude(logged.sea, logged.press, logged.temper)
    IN  /\ f \cap {"coeffs", "temper", "constants"} = {} => logged.temper = room
        /\ f \cap {"press", "filter", "boot", "coeffs"} = {} => Between(logged.press, Pressures)
        /\ f \cap {"boot", "coeffs"} = {} => logged.sea[1] \in Pressures /\ logged.sea[2] = room
        /\ FitsUint16(h) => logged.altitude = h

\* The marker of a lost reading never gets into the filter after the boot, and
\* the truncated estimate never leaves the range of what the filter was given.
FilterInRange ==
  caller = "thread2" /\ "boot" \notin failed => Between(x_est_last, Pressures \cup Wild)

\* What holds between the failures still felt and the rest of the state: with
\* TypeOK, RecordExplained and FilterInRange it is inductive.
Turns ==
  /\ caller = "main" => todo \in 1 .. 4 /\ (todo <= 2 <=> what = "press")
  /\ caller = "thread2" /\ what = "press" => readTemp > 0
  /\ pc = "coeffs" => caller = "main" /\ what = "temper" /\ failed = {}
  /\ pc = "fetch" => logged = <<>> /\ shown = <<>>

ConversionKnown ==
  /\ converted[1] = "temper" => converted[2] = room
  /\ converted[1] = "press" => converted[2] \in Pressures
  /\ pc = "fetch" /\ Start \notin failed => converted[1] = what
  /\ pc # "coeffs" => (coeffs = "good" <=> "coeffs" \notin failed)

\* From the first fetch of a temperature on.
Fetched == what = "press" \/ pc = "return"

TemperatureKnown ==
  /\ consts = "wrong" => "constants" \in failed \/ "coeffs" \in failed
  /\ Fetched /\ consts = "unset" => "no constants" \in failed
  /\ Fetched /\ failed \cap {"coeffs", "temper", "constants"} = {} => temper = room

PressureKnown ==
  pc = "return" /\ what = "press" =>
    IF caller = "main"
      THEN /\ failed = {} => press \in Pressures
           /\ failed \subseteq {"coeffs"} => press \in Pressures \cup Wild
      ELSE failed \cap {"press", "filter", "boot", "coeffs"} = {} => Between(press, Pressures)

FilterKnown ==
  caller = "thread2" =>
    /\ failed \cap {"filter", "boot", "coeffs"} = {} => Between(x_est_last, Pressures)
    /\ failed \cap {"boot", "coeffs"} = {} => sea[1] \in Pressures /\ sea[2] = room

\* The text on the display is of the reading Thread2 still holds.
TextKnown == shown # <<>> => shown = TemperatureText

IInv ==
  /\ TypeOK /\ Turns /\ ConversionKnown /\ TemperatureKnown /\ PressureKnown
  /\ FilterKnown /\ FilterInRange /\ RecordExplained /\ TextKnown

\* What the display shows of a reading from -0.9 to 99.9 degrees is that reading
\* as it should be written, with its sign and its point, and fills the field of
\* four characters.
TemperatureShown ==
  shown # <<>> /\ temper \in -9 .. 999 => shown = RightText(temper, 4)

\* itoa.c, line 18, calls expectedLength the length wanted, and LCD_writeTemp has
\* room for that many characters and a NUL in toLCD[5]: the text of a temperature
\* and its NUL end within it.
TemperatureFits == Len(shown) + 1 =< 5

\* With coefficients that were read, every other failure is forgotten: when the
\* air is steady the filter comes to rest at its pressure, or up to 0.2 hPa below
\* (the truncation stops it there), and the beeper falls silent.
ComesToRest == <>[]("coeffs" \notin failed => x_est_last \in air - 2 .. air /\ ~beeper)
=============================================================================
