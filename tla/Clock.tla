------------------------------- MODULE Clock -------------------------------
(***************************************************************************)
(* The date and the time of the instrument: RTC_r2051.c, the loop of       *)
(* Thread3 and the stamp Thread2 puts on a record (tasks.c), the boot      *)
(* (main.c).  The clock chip goes on by itself.  Thread3 copies its time   *)
(* ten times a second, and its date only while the time it has just read   *)
(* lies in the first two seconds of a day.  Thread2, of a higher priority, *)
(* takes both copies for a record between any two steps of Thread3.        *)
(*                                                                         *)
(* The result of a transfer is ignored: after an I2C error the copy is     *)
(* what was on the stack, any time or any date (one that no clock shows    *)
(* acts as any outside the window).  An assignment of one of the two       *)
(* structures moves its fields in one word, so it is one step.             *)
(***************************************************************************)
EXTENDS Integers

CONSTANTS
  DayLength,  \* seconds in a day (86400)
  Days,       \* days before dates repeat
  MaxMisreads \* failed transfers

Window == 2

ClockAssumption ==
  /\ Days \in Nat \ {0, 1} /\ MaxMisreads \in Nat
  /\ DayLength \in Nat /\ DayLength > Window
ASSUME ClockAssumption

VARIABLES
  chipDay, chipTime,       \* the chip's calendar and its second of the day
  actualTime, actualDate,  \* the globals of main.c
  t3,                      \* where Thread3 is
  stamp,                   \* the stamp of the last record, and what is true of it
  readDay,                 \* history: the chip's day at Thread3's last reading,
  seen,                    \*   whether the chip was read since midnight,
  timeGood,                \*   whether actualTime is what the chip showed then,
  dateGood,                \*   whether the date was read, and in time, since
                           \*     something went wrong,
  misreads                 \*   how many transfers failed

globals == <<actualTime, actualDate>>
chip == <<chipDay, chipTime>>
history == <<readDay, timeGood>>
clockVars == <<chip, globals, t3, stamp, history, seen, dateGood, misreads>>

Times == 0 .. DayLength - 1
Dates == 0 .. Days - 1

DayAfter(d) == IF d = Days - 1 THEN 0 ELSE d + 1

\* main reads the date once and starts the threads; until Thread3's first read
\* actualTime is all zeros, the initial value of the global.
ClockInit ==
  /\ chipDay \in Dates /\ chipTime \in Times
  /\ actualTime = 0 /\ timeGood = FALSE
  /\ readDay = chipDay /\ seen = TRUE
  /\ \/ actualDate = chipDay /\ dateGood = TRUE /\ misreads = 0
     \/ MaxMisreads > 0 /\ actualDate \in Dates /\ dateGood = FALSE /\ misreads = 1
  /\ t3 = "time"
  /\ stamp = [time |-> 0, date |-> 0, day |-> 0, sound |-> FALSE]

----------------------------------------------------------------------------
(* The chip.  Nothing holds it back: Thread3 has the lowest priority, under *)
(* a Thread4 that may turn round in a USB send for as long as the host      *)
(* likes, and sleeps for ever if the display loses it.                      *)

\* The window of this day ends, and Thread3 has not come to read the time in it.
Missed == chipTime + 1 = Window /\ ~seen

\* Midnight comes while Thread3 is between its reading of the time and its
\* reading of the date.
Overtaken == chipTime = DayLength - 1 /\ t3 = "date"

Tick ==
  /\ IF chipTime = DayLength - 1
       THEN chipTime' = 0 /\ chipDay' = DayAfter(chipDay) /\ seen' = FALSE
       ELSE chipTime' = chipTime + 1 /\ UNCHANGED <<chipDay, seen>>
  /\ timeGood' = (timeGood /\ ~Overtaken)
  /\ dateGood' = (dateGood /\ ~Missed /\ ~Overtaken)
  /\ UNCHANGED <<globals, t3, stamp, readDay, misreads>>

----------------------------------------------------------------------------
(* Thread3.                                                                *)

\* Mutant: the date is read in the first second of a day only.
X_InWindow(time) == 1 > time

\* Mutant: the date is read at boot only.
X_NoWindow(time) == 0 > time

InWindow(time) == Window > time

\* actualTime = RTC_getTime(), and the test of line 121 on it.
ReadTime ==
  /\ t3 = "time"
  /\ \/ actualTime' = chipTime /\ timeGood' = TRUE /\ UNCHANGED <<dateGood, misreads>>
     \/ /\ misreads < MaxMisreads /\ misreads' = misreads + 1
        /\ actualTime' \in Times /\ timeGood' = FALSE /\ dateGood' = FALSE
  /\ t3' = IF InWindow(actualTime') THEN "date" ELSE "sleep"
  /\ readDay' = chipDay /\ seen' = TRUE
  /\ UNCHANGED <<chip, actualDate, stamp>>

\* actualDate = RTC_getDate().
ReadDate ==
  /\ t3 = "date" /\ t3' = "sleep"
  /\ \/ actualDate' = chipDay /\ dateGood' = TRUE /\ UNCHANGED misreads
     \/ /\ misreads < MaxMisreads /\ misreads' = misreads + 1
        /\ actualDate' \in Dates /\ dateGood' = FALSE
  /\ seen' = TRUE
  /\ UNCHANGED <<chip, actualTime, stamp, history>>

\* LCD_writeTime and the 100 ms of sleep change neither of the two.
Sleep ==
  /\ t3 = "sleep" /\ t3' = "time"
  /\ UNCHANGED <<chip, globals, stamp, history, seen, dateGood, misreads>>

Thread3 == ReadTime \/ ReadDate \/ Sleep

----------------------------------------------------------------------------
(* Thread2 fills the stamp of a record; Thread3 cannot come in between.    *)

Stamp ==
  /\ stamp' = [time |-> actualTime, date |-> actualDate, day |-> readDay,
               sound |-> timeGood /\ dateGood]
  /\ UNCHANGED <<chip, globals, t3, history, seen, dateGood, misreads>>

ClockNext == Tick \/ Thread3 \/ Stamp

ClockSpec == ClockInit /\ [][ClockNext]_clockVars

\* The chip runs.  Thread3 may be kept from the processor for ever.
FairClock == ClockSpec /\ WF_clockVars(Tick)

----------------------------------------------------------------------------
(* Properties.                                                             *)

ClockTypeOK ==
  /\ chipDay \in Dates /\ chipTime \in Times
  /\ actualTime \in Times /\ actualDate \in Dates
  /\ t3 \in {"time", "date", "sleep"}
  /\ readDay \in Dates /\ seen \in BOOLEAN
  /\ timeGood \in BOOLEAN /\ dateGood \in BOOLEAN /\ misreads \in 0 .. MaxMisreads
  /\ stamp \in [time : Times, date : Dates, day : Dates, sound : BOOLEAN]

\* A record carries the date of the day its time was read on, wherever Thread2
\* came in, however late Thread3 is and whatever day it is, unless one of three
\* things has happened since the date was last read: a transfer failed; a window
\* went by without Thread3 reading the time in it; Thread3 was kept between its
\* two readings until the next midnight.  Only in the first two seconds of a day
\* may it be the date of the day before, between Thread3's two assignments.
StampsTrue ==
  stamp.sound => \/ stamp.date = stamp.day
                 \/ stamp.time < Window /\ DayAfter(stamp.date) = stamp.day

\* Thread3 has read the time in the window of this day, once that is over, and
\* has not been at line 123 since before midnight.
Punctual == chipTime >= Window \/ t3 = "date" => seen

\* Nothing that went wrong is felt for ever, a failed transfer, a missed window
\* or a date of any other day: once transfers fail no more and Thread3 comes to
\* read the time in the first two seconds of every day, and the date before that
\* day is over, time and date become right and stay right.  A Thread3 that comes
\* too late leaves the date wrong for as long as it does.
StampsRecover == <>[]Punctual => <>[](timeGood /\ dateGood)

----------------------------------------------------------------------------
(* What makes StampsTrue inductive.  A date that is good is that of the     *)
(* chip, or that of the day before: before Thread3 has read the chip on the *)
(* new day, with the window still open, or when it has and is at line 123.  *)

DateIsToday == actualDate = chipDay /\ (timeGood => readDay = chipDay)

DateAwaitsWindow ==
  /\ DayAfter(actualDate) = chipDay /\ chipTime < Window /\ ~seen
  /\ t3 # "date" /\ (timeGood => readDay = actualDate)

DateAwaitsRead ==
  DayAfter(actualDate) = chipDay /\ t3 = "date" /\ timeGood

DateFollows ==
  /\ t3 = "date" => actualTime < Window /\ (timeGood => readDay = chipDay)
  /\ dateGood => DateIsToday \/ DateAwaitsWindow \/ DateAwaitsRead

ClockInv == ClockTypeOK /\ DateFollows /\ StampsTrue

=============================================================================
