---------------------------- MODULE RecordProofs ----------------------------
(***************************************************************************)
(* What Thread2 puts on a record.  First its stamp (Clock), for a day of   *)
(* any length, any calendar, any delay of Thread3 and any number of failed *)
(* transfers.  Then its measurement (Measure), for any temperatures,       *)
(* pressures and wrong values, any altitude formula and any number of      *)
(* failures: the estimate of the filter lies between the estimate before   *)
(* and the new reading, and every variable of a reading is related to the  *)
(* failures that are still felt (IInv).  Last the text that the display    *)
(* shows of the temperature, for every one that fits its field.            *)
(***************************************************************************)
EXTENDS Clock, Measure, SequenceTheorems, FiniteSetTheorems, WellFoundedInduction, TLAPS

-----------------------------------------------------------------------------
(* Clock: the calendar.                                                    *)

\* After a date comes a date.
LEMMA DayAfterIsDate ==
  ASSUME NEW d \in Dates
  PROVE  DayAfter(d) \in Dates
BY ClockAssumption DEF ClockAssumption, Dates, DayAfter

\* The invariant holds at the start.
LEMMA ClockInitHolds == ClockInit => ClockInv
<1> SUFFICES ASSUME ClockInit PROVE ClockInv
  OBVIOUS
<1> USE ClockAssumption DEF ClockAssumption, Window
<1>1. 0 \in Times /\ 0 \in Dates
  BY DEF Times, Dates
<1>2. misreads \in 0 .. MaxMisreads
  BY DEF ClockInit
<1>3. ClockTypeOK
  BY <1>1, <1>2 DEF ClockInit, ClockTypeOK
<1>4. DateFollows
  BY DEF ClockInit, DateFollows, DateIsToday
<1>5. StampsTrue
  BY DEF ClockInit, StampsTrue
<1> QED BY <1>3, <1>4, <1>5 DEF ClockInv

(***************************************************************************)
(* One lemma per action.                                                   *)
(***************************************************************************)

\* A second that passes keeps it: midnight makes today's date that of the day
\* before, and the end of a window that nobody used makes it no good.
LEMMA TickStep == ClockInv /\ Tick => ClockInv'
<1> SUFFICES ASSUME ClockTypeOK, DateFollows, StampsTrue, Tick PROVE ClockInv'
  BY DEF ClockInv
<1> USE ClockAssumption DEF ClockAssumption, Window
<1>1. /\ actualTime' = actualTime /\ actualDate' = actualDate
      /\ UNCHANGED <<t3, stamp, readDay, misreads>>
  BY DEF Tick, globals
<1>2. /\ timeGood' = (timeGood /\ ~Overtaken)
      /\ dateGood' = (dateGood /\ ~Missed /\ ~Overtaken)
  BY DEF Tick
<1>3. timeGood' \in BOOLEAN /\ dateGood' \in BOOLEAN
  BY <1>2
<1>4. StampsTrue'
  BY <1>1 DEF StampsTrue
<1>5. CASE chipTime = DayLength - 1
  <2>1. chipTime' = 0 /\ chipDay' = DayAfter(chipDay) /\ seen' = FALSE
    BY <1>5 DEF Tick
  <2>2. ClockTypeOK'
    <3>1. chipDay' \in Dates
      <4>1. chipDay \in Dates
        BY DEF ClockTypeOK
      <4>2. DayAfter(chipDay) \in Dates
        BY ONLY <4>1, DayAfterIsDate
      <4> QED BY ONLY <2>1, <4>2
    <3>2. chipTime' \in Times
      BY <2>1 DEF Times
    <3>3. seen' \in BOOLEAN
      BY <2>1
    <3> QED BY <1>1, <1>3, <3>1, <3>2, <3>3 DEF ClockTypeOK
  <2>3. t3 = "date" => ~timeGood' /\ ~dateGood'
    BY <1>2, <1>5 DEF Overtaken
  <2>4. dateGood' => DateAwaitsWindow'
    <3> SUFFICES ASSUME dateGood' PROVE DateAwaitsWindow'
      OBVIOUS
    <3>1. dateGood /\ t3 # "date"
      BY <1>2, <2>3
    <3>2. ~(chipTime < 2)
      BY <1>5
    <3>3. DateIsToday
      BY <3>1, <3>2 DEF DateFollows, DateAwaitsWindow, DateAwaitsRead
    <3>4. timeGood' => timeGood
      BY <1>2
    <3> QED BY <1>1, <2>1, <3>1, <3>3, <3>4 DEF DateIsToday, DateAwaitsWindow
  <2>5. DateFollows'
    BY <1>1, <2>3, <2>4 DEF DateFollows
  <2> QED BY <1>4, <2>2, <2>5 DEF ClockInv
<1>6. CASE chipTime # DayLength - 1
  <2>1. chipTime' = chipTime + 1 /\ chipDay' = chipDay /\ seen' = seen
    BY <1>6 DEF Tick
  <2>2. chipTime' \in Times
    BY <1>6, <2>1 DEF ClockTypeOK, Times
  <2>3. ClockTypeOK'
    BY <1>1, <1>3, <2>1, <2>2 DEF ClockTypeOK
  <2>4. timeGood' = timeGood
    BY <1>2, <1>6 DEF Overtaken, ClockTypeOK
  <2>5. dateGood' => dateGood /\ ~Missed
    BY <1>2
  <2>6. DateIsToday => DateIsToday'
    BY <1>1, <2>1, <2>4 DEF DateIsToday
  <2>7. DateAwaitsRead => DateAwaitsRead'
    BY <1>1, <2>1, <2>4 DEF DateAwaitsRead
  <2>8. DateAwaitsWindow /\ ~Missed => DateAwaitsWindow'
    BY <1>1, <2>1, <2>4 DEF DateAwaitsWindow, Missed, ClockTypeOK, Times
  <2>9. DateFollows'
    BY <1>1, <2>1, <2>4, <2>5, <2>6, <2>7, <2>8 DEF DateFollows
  <2> QED BY <1>4, <2>3, <2>9 DEF ClockInv
<1> QED BY <1>5, <1>6

\* Thread3 reading the time keeps it: while the window is open it is on its way
\* to the date.
LEMMA ReadTimeStep == ClockInv /\ ReadTime => ClockInv'
<1> SUFFICES ASSUME ClockTypeOK, DateFollows, StampsTrue, ReadTime PROVE ClockInv'
  BY DEF ClockInv
<1> USE ClockAssumption DEF ClockAssumption, Window
<1>1. /\ t3 = "time" /\ readDay' = chipDay /\ seen' = TRUE
      /\ chipDay' = chipDay /\ chipTime' = chipTime
      /\ UNCHANGED <<actualDate, stamp>>
  BY DEF ReadTime, chip
<1>2. t3' = IF Window > actualTime' THEN "date" ELSE "sleep"
  BY DEF ReadTime, InWindow
<1>3. \/ actualTime' = chipTime /\ timeGood' = TRUE /\ dateGood' = dateGood /\ misreads' = misreads
      \/ /\ misreads < MaxMisreads /\ misreads' = misreads + 1
         /\ actualTime' \in Times /\ timeGood' = FALSE /\ dateGood' = FALSE
  BY DEF ReadTime
<1>4. ClockTypeOK'
  <2>1. actualTime' \in Times /\ misreads' \in 0 .. MaxMisreads
    BY <1>3 DEF ClockTypeOK
  <2>2. timeGood' \in BOOLEAN /\ dateGood' \in BOOLEAN
    BY <1>3 DEF ClockTypeOK
  <2>3. t3' \in {"time", "date", "sleep"}
    BY <1>2
  <2> QED BY <1>1, <2>1, <2>2, <2>3 DEF ClockTypeOK
<1>5. t3' = "date" => actualTime' < Window /\ readDay' = chipDay'
  BY <1>1, <1>2, <1>4 DEF ClockTypeOK, Times
<1>6. ASSUME dateGood' PROVE DateIsToday' \/ DateAwaitsRead'
  <2>1. actualTime' = chipTime /\ timeGood' = TRUE /\ dateGood
    BY <1>3, <1>6
  <2>2. DateIsToday \/ DateAwaitsWindow
    BY <1>1, <2>1 DEF DateFollows, DateAwaitsRead
  <2>3. CASE DateIsToday
    BY <1>1, <2>3 DEF DateIsToday
  <2>4. CASE DateAwaitsWindow
    <3>1. t3' = "date"
      BY <1>2, <2>1, <2>4 DEF DateAwaitsWindow, ClockTypeOK, Times
    <3> QED BY <1>1, <2>1, <2>4, <3>1 DEF DateAwaitsWindow, DateAwaitsRead
  <2> QED BY <2>2, <2>3, <2>4
<1>7. DateFollows'
  BY <1>5, <1>6 DEF DateFollows
<1>8. StampsTrue'
  BY <1>1 DEF StampsTrue
<1> QED BY <1>4, <1>7, <1>8 DEF ClockInv

\* Thread3 reading the date keeps it: a good time at line 123 is of today.
LEMMA ReadDateStep == ClockInv /\ ReadDate => ClockInv'
<1> SUFFICES ASSUME ClockTypeOK, DateFollows, StampsTrue, ReadDate PROVE ClockInv'
  BY DEF ClockInv
<1>1. /\ t3 = "date" /\ t3' = "sleep" /\ seen' = TRUE
      /\ chipDay' = chipDay /\ chipTime' = chipTime
      /\ readDay' = readDay /\ timeGood' = timeGood
      /\ UNCHANGED <<actualTime, stamp>>
  BY DEF ReadDate, chip, history
<1>2. \/ actualDate' = chipDay /\ dateGood' = TRUE /\ misreads' = misreads
      \/ /\ misreads < MaxMisreads /\ misreads' = misreads + 1
         /\ actualDate' \in Dates /\ dateGood' = FALSE
  BY DEF ReadDate
<1>3. ClockTypeOK'
  <2>1. actualDate' \in Dates /\ misreads' \in 0 .. MaxMisreads
    BY <1>1, <1>2, ClockAssumption DEF ClockTypeOK, ClockAssumption
  <2>2. dateGood' \in BOOLEAN
    BY <1>2
  <2> QED BY <1>1, <2>1, <2>2 DEF ClockTypeOK
<1>4. dateGood' => DateIsToday'
  BY <1>1, <1>2 DEF DateFollows, DateIsToday
<1>5. DateFollows'
  BY <1>1, <1>4 DEF DateFollows
<1>6. StampsTrue'
  BY <1>1 DEF StampsTrue
<1> QED BY <1>3, <1>5, <1>6 DEF ClockInv

\* Thread3 going to sleep keeps it.
LEMMA SleepStep == ClockInv /\ Sleep => ClockInv'
<1> SUFFICES ASSUME ClockTypeOK, DateFollows, StampsTrue, Sleep PROVE ClockInv'
  BY DEF ClockInv
<1>1. /\ t3 = "sleep" /\ t3' = "time"
      /\ UNCHANGED <<chip, globals, stamp, history, seen, dateGood, misreads>>
  BY DEF Sleep
<1>2. ClockTypeOK'
  BY <1>1 DEF ClockTypeOK, chip, globals, history
<1>3. DateFollows'
  BY <1>1 DEF DateFollows, DateIsToday, DateAwaitsWindow, DateAwaitsRead, chip, globals, history
<1>4. StampsTrue'
  BY <1>1 DEF StampsTrue
<1> QED BY <1>2, <1>3, <1>4 DEF ClockInv

\* A stamp is taken from the two globals as DateFollows describes them.
LEMMA StampStep == ClockInv /\ Stamp => ClockInv'
<1> SUFFICES ASSUME ClockTypeOK, DateFollows, Stamp PROVE ClockInv'
  BY DEF ClockInv
<1>1. UNCHANGED <<chip, globals, t3, history, seen, dateGood, misreads>>
  BY DEF Stamp
<1>2. stamp' = [time |-> actualTime, date |-> actualDate, day |-> readDay,
                sound |-> timeGood /\ dateGood]
  BY DEF Stamp
<1>3. ClockTypeOK'
  <2>1. (timeGood /\ dateGood) \in BOOLEAN
    OBVIOUS
  <2>2. stamp' \in [time : Times, date : Dates, day : Dates, sound : BOOLEAN]
    BY <1>2, <2>1 DEF ClockTypeOK
  <2> QED BY <1>1, <2>2 DEF ClockTypeOK, chip, globals, history
<1>4. DateFollows'
  BY <1>1 DEF DateFollows, DateIsToday, DateAwaitsWindow, DateAwaitsRead, chip, globals, history
<1>5. StampsTrue'
  <2>1. /\ stamp'.time = actualTime /\ stamp'.date = actualDate /\ stamp'.day = readDay
        /\ stamp'.sound = (timeGood /\ dateGood)
    BY <1>2
  <2>2. timeGood /\ dateGood => \/ actualDate = readDay
                                \/ actualTime < Window /\ DayAfter(actualDate) = readDay
    BY DEF DateFollows, DateIsToday, DateAwaitsWindow, DateAwaitsRead
  <2> QED BY <2>1, <2>2 DEF StampsTrue
<1> QED BY <1>3, <1>4, <1>5 DEF ClockInv

\* Every step keeps it.
LEMMA ClockNextStep == ClockInv /\ [ClockNext]_clockVars => ClockInv'
<1> SUFFICES ASSUME ClockInv, [ClockNext]_clockVars PROVE ClockInv'
  OBVIOUS
<1>1. CASE Tick
  BY <1>1, TickStep
<1>2. CASE Thread3
  BY <1>2, ReadTimeStep, ReadDateStep, SleepStep DEF Thread3
<1>3. CASE Stamp
  BY <1>3, StampStep
<1>4. CASE UNCHANGED clockVars
  <2>1. UNCHANGED <<chipDay, chipTime, actualTime, actualDate, t3, stamp>>
    BY <1>4 DEF clockVars, chip, globals
  <2>2. UNCHANGED <<readDay, timeGood, seen, dateGood, misreads>>
    BY <1>4 DEF clockVars, history
  <2> QED BY <2>1, <2>2 DEF ClockInv, ClockTypeOK, DateFollows, DateIsToday,
             DateAwaitsWindow, DateAwaitsRead, StampsTrue
<1> QED BY <1>1, <1>2, <1>3, <1>4 DEF ClockNext

(***************************************************************************)
(* The theorems.                                                           *)
(***************************************************************************)

\* Time, date and history stay what they are declared to be.
THEOREM ClockTypeCorrect == ClockSpec => []ClockTypeOK
<1>1. ClockInv => ClockTypeOK
  BY DEF ClockInv
<1> QED BY <1>1, ClockInitHolds, ClockNextStep, PTL DEF ClockSpec

\* The promise of tasks.c, lines 119 to 124, to the records of Thread2 (lines 93
\* to 98): a date read in the first two seconds of a day alone is the date of
\* every time of that day, for any delay of Thread3; what a missed window, a
\* delay over midnight or a failed transfer spoils is named in StampsTrue.
THEOREM RecordsAreStamped == ClockSpec => []StampsTrue
<1>1. ClockInv => StampsTrue
  BY DEF ClockInv
<1> QED BY <1>1, ClockInitHolds, ClockNextStep, PTL DEF ClockSpec

-----------------------------------------------------------------------------
(* Measure.                                                                *)

USE DEF outside, sensor, thread, meas, filter, results

----------------------------------------------------------------------------
(* The filter.                                                             *)

\* The gain is a part of one, whatever turn it is.
LEMMA GainIsPart ==
  ASSUME NEW k \in 0 .. Len(Gains) - 1
  PROVE  Gains[k + 1] \in {2143, 3275, 3751, 3931, 3997, 4021, 4029, 4034}
<1>1. k \in 0 .. 7
  BY DEF Gains
<1>2. k = 0 \/ k = 1 \/ k = 2 \/ k = 3 \/ k = 4 \/ k = 5 \/ k = 6 \/ k = 7
  BY <1>1
<1>3. QED
  BY <1>2 DEF Gains

\* The new estimate lies between the bounds of the old one and the reading.
LEMMA EstimateStaysBetween ==
  ASSUME NEW x \in Int, NEW z \in Int, NEW k \in 0 .. Len(Gains) - 1,
         NEW lo \in Int, NEW hi \in Int,
         lo <= x, x <= hi, lo <= z, z <= hi
  PROVE  /\ Corrected(x, z, k) \in Int
         /\ lo <= Corrected(x, z, k) /\ Corrected(x, z, k) <= hi
<1>1. Gains[k + 1] \in {2143, 3275, 3751, 3931, 3997, 4021, 4029, 4034}
  BY GainIsPart
<1> DEFINE n == x * 10000 + Gains[k + 1] * (z - x)
<1>2. n \in Int /\ lo * 10000 <= n /\ n <= hi * 10000
  <2> DEFINE g == Gains[k + 1]
  <2> HIDE DEF g
  <2>1. n = x * 10000 + g * (z - x)
    BY DEF g
  <2> HIDE DEF n
  <2>2. CASE g = 2143
    BY <2>1, <2>2
  <2>3. CASE g = 3275
    BY <2>1, <2>3
  <2>4. CASE g = 3751
    BY <2>1, <2>4
  <2>5. CASE g = 3931
    BY <2>1, <2>5
  <2>6. CASE g = 3997
    BY <2>1, <2>6
  <2>7. CASE g = 4021
    BY <2>1, <2>7
  <2>8. CASE g = 4029
    BY <2>1, <2>8
  <2>9. CASE g = 4034
    BY <2>1, <2>9
  <2> QED
    BY <1>1, <2>2, <2>3, <2>4, <2>5, <2>6, <2>7, <2>8, <2>9 DEF g
<1>3. Corrected(x, z, k) = IF n >= 0 THEN n \div 10000 ELSE -((-n) \div 10000)
  BY DEF Corrected, Truncated
<1> HIDE DEF n
<1>4. CASE n >= 0
  <2>1. n \div 10000 \in Int /\ lo <= n \div 10000 /\ n \div 10000 <= hi
    BY <1>2, <1>4
  <2>2. Corrected(x, z, k) = n \div 10000
    BY <1>3, <1>4
  <2>3. QED
    BY <2>1, <2>2
<1>5. CASE ~(n >= 0)
  <2>1. (-n) \div 10000 \in Int /\ -hi <= (-n) \div 10000 /\ (-n) \div 10000 <= -lo
    BY <1>2, <1>5
  <2>2. Corrected(x, z, k) = -((-n) \div 10000)
    BY <1>3, <1>5
  <2>3. QED
    BY <2>1, <2>2
<1>6. QED
  BY <1>4, <1>5

----------------------------------------------------------------------------
(* Types.                                                                  *)

\* A corrected estimate is a whole number.
LEMMA EstimateIsInt ==
  ASSUME NEW x \in Int, NEW z \in Int, NEW k \in 0 .. Len(Gains) - 1
  PROVE  Corrected(x, z, k) \in Int
<1>1. CASE x <= z
  BY <1>1, EstimateStaysBetween
<1>2. CASE z <= x
  BY <1>2, EstimateStaysBetween
<1>3. QED
  BY <1>1, <1>2

\* What a fetch may find is a whole number.
LEMMA ComputedIsInt ==
  ASSUME TypeOK, NEW quality
  PROVE  Computed(quality) \subseteq Int
BY MeasureAssumption DEF MeasureAssumption, TypeOK, Computed

\* The filter leaves a whole number and an index of its table of gains.
LEMMA FilterTypes ==
  ASSUME TypeOK, NEW z \in Int, kalman(z)
  PROVE  x_est_last' \in Int /\ press' \in Int /\ updates' \in 0 .. Len(Gains) - 1
<1>1. x_est_last' \in Int /\ press' = x_est_last'
  BY EstimateIsInt DEF TypeOK, kalman
<1>2. Len(Gains) = 8
  BY DEF Gains
<1>3. updates' \in 0 .. Len(Gains) - 1
  BY <1>2 DEF TypeOK, kalman
<1>4. QED
  BY <1>1, <1>3

\* The types hold at the start.
LEMMA InitTypeOK == Init => TypeOK
<1> SUFFICES ASSUME Init PROVE TypeOK
  OBVIOUS
<1>1. Len(Gains) = 8
  BY DEF Gains
<1>2. /\ changes \in 0 .. MaxChanges /\ readTemp \in 0 .. TempTurns
      /\ faults \in 0 .. MaxFaults /\ updates \in 0 .. Len(Gains) - 1
  BY <1>1, MeasureAssumption DEF MeasureAssumption, Init
<1>3. temper \in Int /\ press \in Int /\ x_est_last \in Int
      /\ converted \in {"none", "temper", "press"} \X Int
  BY DEF Init, NotRead
<1>4. /\ room \in Rooms /\ air \in Pressures /\ XCLR \in BOOLEAN /\ beeper \in BOOLEAN
      /\ failed \subseteq Failures
  BY DEF Init
<1>5. /\ coeffs = "unread" /\ caller = "main" /\ pc = "coeffs" /\ what = "temper"
      /\ todo = 4 /\ consts = "unset"
  BY DEF Init
<1>6. QED
  BY <1>2, <1>3, <1>4, <1>5 DEF TypeOK

\* Every step keeps the types, given whose turn it is.
LEMMA NextTypeOK == TypeOK /\ Turns /\ [Next]_vars => TypeOK'
<1> SUFFICES ASSUME TypeOK, Turns, [Next]_vars PROVE TypeOK'
  OBVIOUS
<1> USE DEF Failing, Working
<1>1. CASE ReadCoeffs
  <2>1. coeffs' \in {"unread", "good", "wrong"} /\ failed' \subseteq Failures
    BY <1>1 DEF ReadCoeffs, TypeOK, Failures
  <2>2. faults' \in 0 .. MaxFaults
    BY <1>1, MeasureAssumption DEF MeasureAssumption, ReadCoeffs, TypeOK
  <2>3. XCLR' = FALSE /\ pc' = "start"
        /\ UNCHANGED <<outside, converted, caller, what, todo, meas, filter, sea, readTemp, results>>
    BY <1>1 DEF ReadCoeffs
  <2>4. QED
    BY <2>1, <2>2, <2>3 DEF TypeOK
<1>2. CASE StartConversion
  <2>1. converted' \in {"none", "temper", "press"} \X Int
    BY <1>2, MeasureAssumption DEF MeasureAssumption, StartConversion, Reality, TypeOK
  <2>2. failed' \subseteq Failures
    BY <1>2 DEF StartConversion, Start, TypeOK, Failures
  <2>3. temper' \in Int /\ press' \in Int
    BY <1>2 DEF StartConversion, NotRead, TypeOK
  <2>4. QED
    BY <1>2, <2>1, <2>2, <2>3, MeasureAssumption DEF MeasureAssumption, StartConversion, TypeOK
<1>3. CASE FetchTemperature
  <2>1. temper' \in Int
    BY <1>3, ComputedIsInt DEF FetchTemperature, TypeOK
  <2>2. failed' \subseteq Failures
    BY <1>3 DEF FetchTemperature, TypeOK, Failures
  <2>3. faults' \in 0 .. MaxFaults
    <3>1. Working \/ Failing
      BY <1>3 DEF FetchTemperature
    <3>2. QED
      BY <3>1, MeasureAssumption DEF MeasureAssumption, TypeOK
  <2>4. XCLR' = FALSE \/ XCLR' = XCLR
    BY <1>3 DEF FetchTemperature
  <2>5. /\ pc' = "return"
        /\ UNCHANGED <<outside, converted, coeffs, caller, what, todo, press, filter, sea, readTemp, results>>
    BY <1>3 DEF FetchTemperature
  <2>6. consts' \in {"unset", "good", "wrong"}
    BY <1>3 DEF FetchTemperature, TypeOK
  <2>7. QED
    BY <2>1, <2>2, <2>3, <2>4, <2>5, <2>6 DEF TypeOK
<1>4. CASE FetchPressure
  <2>1. press' \in Int /\ x_est_last' \in Int /\ updates' \in 0 .. Len(Gains) - 1
    <3>1. CASE UNCHANGED <<press, filter>>
      BY <3>1 DEF TypeOK
    <3>2. CASE \E z \in Computed(consts) :
                 IF caller = "thread2" THEN kalman(z) ELSE press' = z /\ UNCHANGED filter
      <4>1. PICK z \in Int :
              IF caller = "thread2" THEN kalman(z) ELSE press' = z /\ UNCHANGED filter
        BY <3>2, ComputedIsInt
      <4>2. CASE caller = "thread2"
        BY <4>1, <4>2, FilterTypes
      <4>3. CASE caller # "thread2"
        BY <4>1, <4>3 DEF TypeOK
      <4>4. QED
        BY <4>2, <4>3
    <3>3. QED
      BY <1>4, <3>1, <3>2 DEF FetchPressure
  <2>2. failed' \subseteq Failures
    BY <1>4 DEF FetchPressure, TypeOK, Failures
  <2>3. faults' \in 0 .. MaxFaults
    BY <1>4, MeasureAssumption DEF MeasureAssumption, FetchPressure, TypeOK
  <2>4. XCLR' = FALSE \/ XCLR' = XCLR
    BY <1>4 DEF FetchPressure
  <2>5. /\ pc' = "return"
        /\ UNCHANGED <<outside, converted, coeffs, caller, what, todo, temper, consts, sea, readTemp, results>>
    BY <1>4 DEF FetchPressure
  <2>6. QED
    BY <2>1, <2>2, <2>3, <2>4, <2>5 DEF TypeOK
<1>5. CASE NextReading
  BY <1>5 DEF NextReading, TypeOK
<1>6. CASE StartThread2
  <2>1. failed' \subseteq Failures
    BY <1>6 DEF StartThread2, TypeOK, Failures
  <2>2. QED
    BY <1>6, <2>1, MeasureAssumption DEF MeasureAssumption, StartThread2, TypeOK
<1>7. CASE AfterTemperature
  BY <1>7, MeasureAssumption DEF MeasureAssumption, AfterTemperature, TypeOK
<1>8. CASE AfterPressure
  BY <1>8, MeasureAssumption DEF MeasureAssumption, AfterPressure, Turns, TypeOK
<1>9. CASE ChangeAir
  BY <1>9, MeasureAssumption DEF MeasureAssumption, ChangeAir, TypeOK
<1>10. CASE UNCHANGED vars
  BY <1>10 DEF vars, TypeOK
<1>11. QED
  BY <1>1, <1>2, <1>3, <1>4, <1>5, <1>6, <1>7, <1>8, <1>9, <1>10 DEF Next, Step

----------------------------------------------------------------------------
(* The parts of the inductive invariant.                                   *)

\* The order of readings, which main and Thread2 each keep to.
LEMMA NextTurns == IInv /\ [Next]_vars => Turns'
<1> SUFFICES ASSUME TypeOK, Turns, [Next]_vars PROVE Turns'
  BY DEF IInv
<1>1. CASE ReadCoeffs
  BY <1>1 DEF ReadCoeffs, Turns
<1>2. CASE StartConversion
  BY <1>2 DEF StartConversion, Turns
<1>3. CASE FetchTemperature
  BY <1>3 DEF FetchTemperature, Turns
<1>4. CASE FetchPressure
  BY <1>4 DEF FetchPressure, Turns
<1>5. CASE NextReading
  BY <1>5 DEF NextReading, Turns, TypeOK
<1>6. CASE StartThread2
  BY <1>6 DEF StartThread2, Turns
<1>7. CASE AfterTemperature
  BY <1>7, MeasureAssumption DEF MeasureAssumption, AfterTemperature, Turns
<1>8. CASE AfterPressure
  BY <1>8 DEF AfterPressure, Turns, TypeOK
<1>9. CASE ChangeAir \/ UNCHANGED vars
  BY <1>9 DEF ChangeAir, vars, Turns
<1>10. QED
  BY <1>1, <1>2, <1>3, <1>4, <1>5, <1>6, <1>7, <1>8, <1>9 DEF Next, Step

\* What the converter has converted, and whether the coefficients are good.
LEMMA NextConversion == IInv /\ [Next]_vars => ConversionKnown'
<1> SUFFICES ASSUME TypeOK, Turns, ConversionKnown, [Next]_vars PROVE ConversionKnown'
  BY DEF IInv
<1>1. CASE ReadCoeffs
  BY <1>1 DEF ReadCoeffs, Turns, ConversionKnown
<1>2. CASE StartConversion
  <2>1. CASE Working /\ converted' = <<what, Reality>> /\ failed' = failed \ {Start}
    BY <1>2, <2>1 DEF StartConversion, Reality, Start, TypeOK, ConversionKnown
  <2>2. CASE Failing /\ UNCHANGED converted /\ failed' = failed \cup {Start}
    BY <1>2, <2>2 DEF StartConversion, Start, TypeOK, ConversionKnown
  <2>3. QED
    BY <1>2, <2>1, <2>2 DEF StartConversion
<1>3. CASE FetchTemperature
  BY <1>3 DEF FetchTemperature, ConversionKnown
<1>4. CASE FetchPressure
  BY <1>4 DEF FetchPressure, ConversionKnown
<1>5. CASE NextReading
  BY <1>5 DEF NextReading, ConversionKnown
<1>6. CASE StartThread2
  BY <1>6 DEF StartThread2, ConversionKnown
<1>7. CASE AfterTemperature
  BY <1>7 DEF AfterTemperature, ConversionKnown
<1>8. CASE AfterPressure
  BY <1>8 DEF AfterPressure, ConversionKnown
<1>9. CASE ChangeAir \/ UNCHANGED vars
  BY <1>9 DEF ChangeAir, vars, Start, ConversionKnown
<1>10. QED
  BY <1>1, <1>2, <1>3, <1>4, <1>5, <1>6, <1>7, <1>8, <1>9 DEF Next, Step

\* A wrong temperature, and wrong constants, are explained by a failure.
LEMMA NextTemperature == IInv /\ [Next]_vars => TemperatureKnown'
<1> SUFFICES ASSUME TypeOK, Turns, ConversionKnown, TemperatureKnown, [Next]_vars
             PROVE  TemperatureKnown'
  BY DEF IInv
<1> USE DEF Fetched
<1>1. CASE ReadCoeffs
  BY <1>1 DEF ReadCoeffs, Turns, TemperatureKnown
<1>2. CASE StartConversion
  BY <1>2 DEF StartConversion, Start, TemperatureKnown
<1>3. CASE FetchTemperature
  <2>1. "temper start" \notin failed => converted[1] = what
    BY <1>3 DEF FetchTemperature, ConversionKnown, Start
  <2>2. CASE /\ Working /\ XCLR' = FALSE
             /\ temper' \in Computed("good")
             /\ consts' = IF converted[1] = what /\ coeffs = "good" THEN "good" ELSE "wrong"
             /\ failed' = IF "temper start" \in failed
                            THEN (failed \ {"temper", "no constants"}) \cup {"constants"}
                            ELSE failed \ {"temper", "no constants", "constants"}
    BY <1>3, <2>1, <2>2 DEF FetchTemperature, Computed, ConversionKnown, TemperatureKnown
  <2>3. CASE /\ Failing /\ UNCHANGED <<XCLR, temper, consts>>
             /\ failed' = failed \cup {"temper"}
                                 \cup (IF consts = "unset" THEN {"no constants"} ELSE {})
    BY <1>3, <2>3 DEF FetchTemperature, TemperatureKnown
  <2>4. QED
    BY <1>3, <2>2, <2>3 DEF FetchTemperature
<1>4. CASE FetchPressure
  BY <1>4 DEF FetchPressure, TemperatureKnown
<1>5. CASE NextReading
  BY <1>5 DEF NextReading, TemperatureKnown
<1>6. CASE StartThread2
  BY <1>6 DEF StartThread2, TemperatureKnown
<1>7. CASE AfterTemperature
  BY <1>7 DEF AfterTemperature, TemperatureKnown
<1>8. CASE AfterPressure
  BY <1>8 DEF AfterPressure, TemperatureKnown
<1>9. CASE ChangeAir \/ UNCHANGED vars
  BY <1>9 DEF ChangeAir, vars, TemperatureKnown
<1>10. QED
  BY <1>1, <1>2, <1>3, <1>4, <1>5, <1>6, <1>7, <1>8, <1>9 DEF Next, Step

\* What the fetch of a pressure finds is one, unless a failure misleads.
LEMMA FetchedPressure ==
  ASSUME IInv, pc = "fetch", what = "press", NEW z \in Computed(consts)
  PROVE  /\ z \in Int /\ z \in Pressures \cup Wild
         /\ failed \cap Misleading = {} => z \in Pressures
<1>1. z \in Int
  BY ComputedIsInt DEF IInv
<1>2. z \in Pressures \cup Wild
  BY DEF IInv, ConversionKnown, Computed
<1>3. ASSUME failed \cap Misleading = {} PROVE z \in Pressures
  <2>1. /\ "coeffs" \notin failed /\ "press start" \notin failed
        /\ "constants" \notin failed /\ "no constants" \notin failed
    BY <1>3 DEF Misleading
  <2>2. coeffs = "good" /\ converted[1] = "press"
    BY <2>1 DEF IInv, ConversionKnown, Start
  <2>3. consts = "good"
    BY <2>1 DEF IInv, TemperatureKnown, Fetched, TypeOK
  <2>4. QED
    BY <2>2, <2>3 DEF Computed, IInv, ConversionKnown
<1>4. QED
  BY <1>1, <1>2, <1>3

\* The filter keeps to the range of a set its estimate and reading are in.
LEMMA EstimateStaysInRange ==
  ASSUME NEW S, S \subseteq Int, NEW x \in Int, NEW z \in S, Between(x, S),
         NEW k \in 0 .. Len(Gains) - 1
  PROVE  Between(Corrected(x, z, k), S)
<1>1. PICK l \in S, h \in S : l <= x /\ x <= h
  BY DEF Between
<1>2. PICK lo \in S : lo <= l /\ lo <= z
  <2>1. CASE l <= z
    BY <2>1
  <2>2. CASE z <= l
    BY <2>2
  <2>3. QED
    BY <2>1, <2>2
<1>3. PICK hi \in S : h <= hi /\ z <= hi
  <2>1. CASE h <= z
    BY <2>1
  <2>2. CASE z <= h
    BY <2>2
  <2>3. QED
    BY <2>1, <2>2
<1>4. lo <= x /\ x <= hi
  BY <1>1, <1>2, <1>3
<1>5. lo <= Corrected(x, z, k) /\ Corrected(x, z, k) <= hi
  BY <1>2, <1>3, <1>4, EstimateStaysBetween
<1>6. QED
  BY <1>5 DEF Between

\* A set's own members are in its range.
LEMMA MemberIsBetween ==
  ASSUME NEW S, S \subseteq Int, NEW z \in S
  PROVE  Between(z, S)
<1>1. z <= z
  OBVIOUS
<1>2. QED
  BY <1>1 DEF Between

\* Pressures, explained or wild, are whole numbers.
LEMMA ValuesAreInts == Pressures \subseteq Int /\ Pressures \cup Wild \subseteq Int
BY MeasureAssumption DEF MeasureAssumption

\* The filter and its pressure over a fetch.
LEMMA FilterFetch ==
  ASSUME IInv, FetchPressure, caller = "thread2"
  PROVE  FilterKnown' /\ FilterInRange' /\ PressureKnown'
<1>0. /\ pc = "fetch" /\ what = "press" /\ pc' = "return" /\ what' = "press"
      /\ caller' = "thread2" /\ sea' = sea /\ room' = room
  BY DEF FetchPressure
<1>1. CASE /\ \E z \in Computed(consts) : kalman(z)
           /\ failed' = IF failed \cap Misleading # {}
                          THEN (failed \ {"press"}) \cup {"filter"} ELSE failed \ {"press"}
  <2>1. PICK z \in Computed(consts) : kalman(z)
    BY <1>1
  <2>2. z \in Int /\ z \in Pressures \cup Wild /\ (failed \cap Misleading = {} => z \in Pressures)
    BY <1>0, FetchedPressure
  <2>3. /\ x_est_last \in Int /\ updates \in 0 .. Len(Gains) - 1
        /\ x_est_last' = Corrected(x_est_last, z, updates) /\ press' = x_est_last'
    BY <2>1 DEF IInv, TypeOK, kalman
  <2>4. ASSUME "boot" \notin failed' PROVE Between(x_est_last', Pressures \cup Wild)
    <3>1. "boot" \notin failed
      BY <1>1, <2>4
    <3>2. Between(x_est_last, Pressures \cup Wild)
      BY <3>1 DEF IInv, FilterInRange
    <3>3. QED
      BY <2>2, <2>3, <3>2, ValuesAreInts, EstimateStaysInRange
  <2>5. ASSUME failed' \cap {"filter", "boot", "coeffs"} = {} PROVE Between(x_est_last', Pressures)
    <3>1. failed \cap Misleading = {} /\ failed \cap {"filter", "boot", "coeffs"} = {}
      BY <1>1, <2>5
    <3>2. Between(x_est_last, Pressures) /\ z \in Pressures
      BY <2>2, <3>1 DEF IInv, FilterKnown
    <3>3. QED
      BY <2>3, <3>2, ValuesAreInts, EstimateStaysInRange
  <2>6. failed' \cap {"boot", "coeffs"} = {} => sea'[1] \in Pressures /\ sea'[2] = room'
    <3>1. failed' \cap {"boot", "coeffs"} = {} => failed \cap {"boot", "coeffs"} = {}
      BY <1>1
    <3>2. QED
      BY <1>0, <3>1 DEF IInv, FilterKnown
  <2>7. FilterKnown'
    BY <2>5, <2>6 DEF FilterKnown
  <2>8. FilterInRange'
    BY <2>4 DEF FilterInRange
  <2>9. PressureKnown'
    BY <1>0, <2>3, <2>5 DEF PressureKnown
  <2>10. QED
    BY <2>7, <2>8, <2>9
<1>2. CASE failed' = failed \cup {"press"} /\ UNCHANGED <<press, filter>>
  BY <1>0, <1>2 DEF IInv, FilterKnown, FilterInRange, PressureKnown
<1>3. QED
  BY <1>1, <1>2 DEF FetchPressure

\* Thread2 takes over a filter that main has set to its last pressure.
LEMMA FilterStarts ==
  ASSUME IInv, StartThread2
  PROVE  FilterKnown' /\ FilterInRange'
<1>1. /\ caller = "main" /\ pc = "return" /\ what = "press" /\ x_est_last' = press
      /\ sea'[1] = press /\ sea'[2] = temper /\ room' = room
  BY DEF StartThread2, IInv, Turns
<1>2. failed' = (failed \cap {"coeffs"}) \cup (IF failed \ {"coeffs"} = {} THEN {} ELSE {"boot"})
  BY DEF StartThread2
<1>3. ASSUME "boot" \notin failed' PROVE Between(x_est_last', Pressures \cup Wild)
  <2>1. failed \subseteq {"coeffs"}
    BY <1>2, <1>3
  <2>2. press \in Pressures \cup Wild
    BY <1>1, <2>1 DEF IInv, PressureKnown
  <2>3. QED
    BY <1>1, <2>2, ValuesAreInts, MemberIsBetween
<1>4. ASSUME failed' \cap {"boot", "coeffs"} = {}
      PROVE  press \in Pressures /\ temper = room
  <2>1. failed = {}
    BY <1>2, <1>4
  <2>2. QED
    BY <1>1, <2>1 DEF IInv, PressureKnown, TemperatureKnown, Fetched
<1>5. FilterKnown'
  <2>1. failed' \cap {"filter", "boot", "coeffs"} = {} => failed' \cap {"boot", "coeffs"} = {}
    OBVIOUS
  <2>2. failed' \cap {"filter", "boot", "coeffs"} = {} => Between(x_est_last', Pressures)
    BY <1>1, <1>4, <2>1, ValuesAreInts, MemberIsBetween
  <2>3. failed' \cap {"boot", "coeffs"} = {} => sea'[1] \in Pressures /\ sea'[2] = room'
    BY <1>1, <1>4
  <2>4. QED
    BY <2>2, <2>3 DEF FilterKnown
<1>6. FilterInRange'
  BY <1>3 DEF FilterInRange
<1>7. QED
  BY <1>5, <1>6

\* The filter and the sea-level pressure, by the failures still felt.
LEMMA NextFilter == IInv /\ [Next]_vars => FilterKnown' /\ FilterInRange'
<1> SUFFICES ASSUME IInv, [Next]_vars PROVE FilterKnown' /\ FilterInRange'
  OBVIOUS
<1> USE DEF FilterKnown, FilterInRange
<1>0. FilterKnown /\ FilterInRange
  BY DEF IInv
<1>1. CASE ReadCoeffs
  BY <1>1 DEF ReadCoeffs, IInv, Turns
<1>2. CASE StartConversion
  BY <1>0, <1>2 DEF StartConversion, Start
<1>3. CASE FetchTemperature
  BY <1>0, <1>3 DEF FetchTemperature
<1>4. CASE FetchPressure
  <2>1. CASE caller = "thread2"
    BY <1>4, <2>1, FilterFetch
  <2>2. CASE caller # "thread2"
    BY <1>4, <2>2 DEF FetchPressure
  <2>3. QED
    BY <2>1, <2>2
<1>5. CASE NextReading
  BY <1>5 DEF NextReading
<1>6. CASE StartThread2
  BY <1>6, FilterStarts
<1>7. CASE AfterTemperature
  BY <1>0, <1>7 DEF AfterTemperature
<1>8. CASE AfterPressure
  BY <1>0, <1>8 DEF AfterPressure
<1>9. CASE ChangeAir \/ UNCHANGED vars
  BY <1>0, <1>9 DEF ChangeAir, vars
<1>10. QED
  BY <1>1, <1>2, <1>3, <1>4, <1>5, <1>6, <1>7, <1>8, <1>9 DEF Next, Step

\* What a reading leaves as the pressure.
LEMMA NextPressure == IInv /\ [Next]_vars => PressureKnown'
<1> SUFFICES ASSUME IInv, [Next]_vars PROVE PressureKnown'
  OBVIOUS
<1>1. CASE FetchPressure
  <2>1. CASE caller = "thread2"
    BY <1>1, <2>1, FilterFetch
  <2>2. CASE caller # "thread2"
    <3>1. /\ pc = "fetch" /\ what = "press" /\ caller = "main" /\ caller' = "main"
      BY <1>1, <2>2 DEF FetchPressure, IInv, TypeOK
    <3>2. CASE \E z \in Computed(consts) : press' = z /\ failed' = failed \ {"press"}
      <4>1. PICK z \in Computed(consts) : press' = z /\ failed' = failed \ {"press"}
        BY <3>2
      <4>2. z \in Pressures \cup Wild /\ (failed \cap Misleading = {} => z \in Pressures)
        BY <3>1, FetchedPressure
      <4>3. failed' = {} => failed \cap Misleading = {}
        BY <4>1 DEF Misleading
      <4>4. QED
        BY <3>1, <4>1, <4>2, <4>3 DEF PressureKnown
    <3>3. CASE failed' = failed \cup {"press"}
      BY <3>1, <3>3 DEF PressureKnown
    <3>4. QED
      BY <1>1, <2>2, <3>2, <3>3 DEF FetchPressure
  <2>3. QED
    BY <2>1, <2>2
<1>2. CASE ReadCoeffs \/ StartConversion \/ NextReading \/ StartThread2 \/ AfterTemperature
           \/ AfterPressure
  <2>1. pc' = "start" \/ pc' = "fetch"
    BY <1>2 DEF ReadCoeffs, StartConversion, NextReading, StartThread2, AfterTemperature,
                AfterPressure
  <2>2. QED
    BY <2>1 DEF PressureKnown
<1>3. CASE FetchTemperature
  BY <1>3 DEF FetchTemperature, PressureKnown
<1>4. CASE ChangeAir \/ UNCHANGED vars
  BY <1>4 DEF ChangeAir, vars, IInv, PressureKnown
<1>5. QED
  BY <1>1, <1>2, <1>3, <1>4 DEF Next, Step

\* A record's field holds every altitude that fits.
LEMMA RecordHolds ==
  ASSUME NEW h, FitsUint16(h)
  PROVE  Uint16(h) = h
BY DEF FitsUint16, Uint16

\* A record is made from what a turn leaves.
LEMMA NextRecord == IInv /\ [Next]_vars => RecordExplained'
<1> SUFFICES ASSUME IInv, [Next]_vars PROVE RecordExplained'
  OBVIOUS
<1>1. CASE AfterPressure
  <2> DEFINE r == [altitude |-> Uint16(measuredAltitude), press |-> press, temper |-> temper,
                   sea |-> sea, failed |-> failed]
  <2> HIDE DEF r
  <2>1. caller = "thread2" /\ pc = "return" /\ what = "press" /\ room' = room
    BY <1>1 DEF AfterPressure
  <2>0. logged' = r \/ logged' = logged
    BY <1>1 DEF AfterPressure, r
  <2>2. failed \cap {"coeffs", "temper", "constants"} = {} => temper = room
    BY <2>1 DEF IInv, TemperatureKnown, Fetched
  <2>3. failed \cap {"press", "filter", "boot", "coeffs"} = {} => Between(press, Pressures)
    BY <2>1 DEF IInv, PressureKnown
  <2>4. failed \cap {"boot", "coeffs"} = {} => sea[1] \in Pressures /\ sea[2] = room
    BY <2>1 DEF IInv, FilterKnown
  <2>5. FitsUint16(measuredAltitude) => Uint16(measuredAltitude) = measuredAltitude
    BY ONLY RecordHolds
  <2>6. CASE logged' = r
    <3>1. /\ logged'.altitude = Uint16(measuredAltitude) /\ logged'.press = press
          /\ logged'.temper = temper /\ logged'.sea = sea /\ logged'.failed = failed
      BY <2>6 DEF r
    <3>2. measuredAltitude = HP03_pressureToAltitude(logged'.sea, logged'.press, logged'.temper)
      BY <3>1 DEF measuredAltitude
    <3> QED BY <2>1, <2>2, <2>3, <2>4, <2>5, <3>1, <3>2 DEF RecordExplained
  <2>7. CASE logged' = logged
    BY <2>1, <2>7 DEF IInv, RecordExplained
  <2>8. QED
    BY <2>0, <2>6, <2>7
<1>2. CASE StartConversion
  BY <1>2 DEF StartConversion, RecordExplained
<1>3. CASE ~AfterPressure /\ ~StartConversion
  <2>1. logged' = logged /\ room' = room
    <3>1. CASE ReadCoeffs \/ FetchTemperature
      BY <3>1 DEF ReadCoeffs, FetchTemperature
    <3>2. CASE FetchPressure \/ NextReading \/ StartThread2
      BY <3>2 DEF FetchPressure, NextReading, StartThread2
    <3>3. CASE AfterTemperature
      BY <3>3 DEF AfterTemperature
    <3>4. CASE ChangeAir \/ UNCHANGED vars
      BY <3>4 DEF ChangeAir, vars
    <3> QED BY <1>3, <3>1, <3>2, <3>3, <3>4 DEF Next, Step
  <2>2. QED
    BY <2>1 DEF IInv, RecordExplained
<1>4. QED
  BY <1>1, <1>2, <1>3

\* A text is written after a temperature, and gone before the next reading.
LEMMA NextText == IInv /\ [Next]_vars => TextKnown'
<1> SUFFICES ASSUME TextKnown, Turns, [Next]_vars PROVE TextKnown'
  BY DEF IInv
<1>1. CASE StartConversion
  BY <1>1 DEF StartConversion, TextKnown
<1>2. CASE FetchTemperature
  <2>1. pc = "fetch" /\ shown' = shown
    BY <1>2 DEF FetchTemperature
  <2>2. shown = <<>>
    BY <2>1 DEF Turns
  <2> QED BY <2>1, <2>2 DEF TextKnown
<1>3. CASE AfterTemperature
  <2>1. temper' = temper
    BY <1>3 DEF AfterTemperature
  <2>2. shown' = TemperatureText \/ shown' = shown
    BY <1>3 DEF AfterTemperature
  <2>3. TemperatureText' = TemperatureText
    BY <2>1 DEF TemperatureText
  <2> QED BY <2>2, <2>3 DEF TextKnown
<1>4. CASE ~StartConversion /\ ~FetchTemperature /\ ~AfterTemperature
  <2>1. shown' = shown /\ temper' = temper
    <3>1. CASE ReadCoeffs
      BY <3>1 DEF ReadCoeffs
    <3>2. CASE FetchPressure \/ NextReading \/ StartThread2
      BY <3>2 DEF FetchPressure, NextReading, StartThread2
    <3>3. CASE AfterPressure
      BY <3>3 DEF AfterPressure
    <3>4. CASE ChangeAir \/ UNCHANGED vars
      BY <3>4 DEF ChangeAir, vars
    <3> QED BY <1>4, <3>1, <3>2, <3>3, <3>4 DEF Next, Step
  <2>2. TemperatureText' = TemperatureText
    BY <2>1 DEF TemperatureText
  <2> QED BY <2>1, <2>2 DEF TextKnown
<1> QED
  BY <1>1, <1>2, <1>3, <1>4

----------------------------------------------------------------------------
(* The theorems.                                                           *)

\* The invariant holds at the start.
LEMMA InitIInv == Init => IInv
<1> SUFFICES ASSUME Init PROVE IInv
  OBVIOUS
<1>1. TypeOK
  BY InitTypeOK
<1>2. Turns /\ ConversionKnown
  BY DEF Init, Turns, ConversionKnown
<1>3. TemperatureKnown /\ PressureKnown
  BY DEF Init, TemperatureKnown, PressureKnown, Fetched
<1>4. FilterKnown /\ FilterInRange /\ RecordExplained /\ TextKnown
  BY DEF Init, FilterKnown, FilterInRange, RecordExplained, TextKnown
<1>5. QED
  BY <1>1, <1>2, <1>3, <1>4 DEF IInv

\* Every step keeps the invariant.
LEMMA NextIInv == IInv /\ [Next]_vars => IInv'
<1> SUFFICES ASSUME IInv, [Next]_vars PROVE IInv'
  OBVIOUS
<1>1. TypeOK'
  BY NextTypeOK DEF IInv
<1>2. Turns' /\ ConversionKnown' /\ TemperatureKnown' /\ PressureKnown'
  BY NextTurns, NextConversion, NextTemperature, NextPressure
<1>3. FilterKnown' /\ FilterInRange' /\ RecordExplained' /\ TextKnown'
  BY NextFilter, NextRecord, NextText
<1>4. QED
  BY <1>1, <1>2, <1>3 DEF IInv

\* Every variable keeps its type: what the formulas and the filter (HP03.c,
\* Kalman.c) hand on is a number whatever transfer fails.
THEOREM TypeCorrect == Spec => []TypeOK
<1>1. IInv => TypeOK
  BY DEF IInv
<1>2. QED
  BY InitIInv, NextIInv, <1>1, PTL DEF Spec

\* A record of Thread2 is true but for the failures that are still felt.
THEOREM RecordsAreExplained == Spec => []RecordExplained
<1>1. IInv => RecordExplained
  BY DEF IInv
<1>2. QED
  BY InitIInv, NextIInv, <1>1, PTL DEF Spec

\* The estimate of kalman stays in the range of what the filter was given, and
\* so the marker of a lost reading never gets into it after the boot.
THEOREM FilterStaysInRange == Spec => []FilterInRange
<1>1. IInv => FilterInRange
  BY DEF IInv
<1>2. QED
  BY InitIInv, NextIInv, <1>1, PTL DEF Spec
-----------------------------------------------------------------------------
(* Measure: the text of the temperature.  First the digits, a recursive     *)
(* function: a set of numbers without a least number outside it is all of  *)
(* Nat, so Digits is what its equation says at every number.               *)

\* A set of numbers that has each number below which it has all has every number:
\* otherwise one would be missing with the shortest interval up to it.
LEMMA AllNumbers ==
  ASSUME NEW T \in SUBSET Nat, \A n \in Nat : 0 .. n - 1 \subseteq T => n \in T
  PROVE  T = Nat
<1> SUFFICES ASSUME Nat \ T # {} PROVE FALSE
  OBVIOUS
<1> DEFINE F == {0 .. k : k \in Nat \ T}
<1>1. F \subseteq FiniteSubsetsOf(Nat) /\ F # {}
  <2>1. \A k \in Nat \ T : IsFiniteSet(0 .. k) /\ 0 .. k \in SUBSET Nat
    BY FS_Interval
  <2> QED
    BY <2>1 DEF FiniteSubsetsOf
<1>2. \E x \in F : \A y \in F : ~(<<y, x>> \in StrictSubsetOrdering(Nat))
  <2> HIDE DEF F
  <2> QED
    BY <1>1, FS_StrictSubsetOrderingWellFounded, WFMin
<1>3. PICK n \in Nat \ T : \A y \in F : ~(<<y, 0 .. n>> \in StrictSubsetOrdering(Nat))
  BY <1>2
<1>4. ASSUME NEW k \in 0 .. n - 1 PROVE k \in T
  <2> SUFFICES ASSUME k \notin T PROVE FALSE
    OBVIOUS
  <2>1. k \in Nat \ T /\ k < n
    OBVIOUS
  <2>2. 0 .. k \in SUBSET Nat /\ 0 .. n \in SUBSET Nat /\ 0 .. k \in F
    BY <2>1
  <2>3. 0 .. k \subseteq 0 .. n /\ 0 .. k # 0 .. n
    <3>1. n \in 0 .. n /\ n \notin 0 .. k
      BY <2>1
    <3> QED
      BY <2>1, <3>1
  <2>4. <<0 .. k, 0 .. n>> \in StrictSubsetOrdering(Nat)
    BY <2>2, <2>3 DEF StrictSubsetOrdering
  <2> QED
    BY <1>3, <2>2, <2>4
<1> QED
  BY <1>4

-----------------------------------------------------------------------------

\* What itoa writes.
Glyphs == {Char(k) : k \in 0 .. 9} \cup {".", "-", " "}

\* One turn of the loop, with what the turns after it write.
Turn(f, n) == IF n < 10 THEN <<Char(n)>> ELSE <<Char(n % 10)>> \o f[n \div 10]

\* The last digit and the number without it.
LEMMA LastDigit ==
  ASSUME NEW n \in Nat
  PROVE  /\ n % 10 \in 0 .. 9 /\ n \div 10 \in Nat
         /\ n >= 10 => n \div 10 < n
OBVIOUS

\* Digits of the numbers up to n.
UpTo(f, n) ==
  /\ f \in [0 .. n -> Seq(Glyphs)]
  /\ \A k \in 0 .. n : f[k] = Turn(f, k)

\* One digit more.
LEMMA TurnTyped ==
  ASSUME NEW n \in Nat, NEW f, n >= 10 => f[n \div 10] \in Seq(Glyphs)
  PROVE  Turn(f, n) \in Seq(Glyphs)
<1>1. CASE n < 10
  <2>0. n \in 0 .. 9
    BY <1>1
  <2>1. Char(n) \in Glyphs
    BY <2>0 DEF Glyphs
  <2> QED
    BY <1>1, <2>1 DEF Turn
<1>2. CASE n >= 10
  <2> DEFINE c == Char(n % 10)
  <2>1. c \in Glyphs
    BY LastDigit DEF Glyphs
  <2> HIDE DEF c
  <2>2. <<c>> \in Seq(Glyphs)
    BY <2>1
  <2>3. <<c>> \o f[n \div 10] \in Seq(Glyphs)
    BY <1>2, <2>2, ConcatProperties
  <2>4. ~(n < 10)
    BY <1>2
  <2> QED
    BY <2>3, <2>4 DEF Turn, c
<1> QED
  BY <1>1, <1>2

\* The loop ends for every number.
LEMMA DigitsUpTo == \A n \in Nat : \E f : UpTo(f, n)
<1> DEFINE T == {n \in Nat : \E f : UpTo(f, n)}
<1>1. ASSUME NEW n \in Nat, 0 .. n - 1 \subseteq T PROVE \E f : UpTo(f, n)
  <2>1. CASE n = 0
    <3> DEFINE g == [k \in 0 .. 0 |-> <<Char(0)>>]
    <3>1. Char(0) \in Glyphs
      BY DEF Glyphs
    <3>2. g \in [0 .. 0 -> Seq(Glyphs)]
      BY <3>1
    <3>3. \A k \in 0 .. 0 : g[k] = Turn(g, k)
      <4>1. Turn(g, 0) = <<Char(0)>> /\ g[0] = <<Char(0)>>
        BY DEF Turn
      <4> HIDE DEF g
      <4>2. \A k \in 0 .. 0 : k = 0
        OBVIOUS
      <4> QED
        BY <4>1, <4>2
    <3> HIDE DEF g
    <3> QED
      BY <2>1, <3>2, <3>3 DEF UpTo
  <2>2. CASE n # 0
    <3>1. n - 1 \in T
      BY <1>1, <2>2
    <3>2. PICK f : UpTo(f, n - 1)
      BY <3>1
    <3> DEFINE g == [k \in 0 .. n |-> IF k = n THEN Turn(f, n) ELSE f[k]]
    <3>3. \A k \in 0 .. n : k >= 10 => k \div 10 \in 0 .. n - 1
      BY LastDigit
    <3>4. Turn(f, n) \in Seq(Glyphs)
      <4>1. n >= 10 => f[n \div 10] \in Seq(Glyphs)
        BY <3>2, <3>3 DEF UpTo
      <4> QED
        BY <4>1, TurnTyped
    <3>5. g \in [0 .. n -> Seq(Glyphs)]
      <4>1. \A k \in 0 .. n : k # n => k \in 0 .. n - 1
        OBVIOUS
      <4> QED
        BY <3>2, <3>4, <4>1 DEF UpTo
    <3>6. \A k \in 0 .. n : g[k] = Turn(g, k)
      <4> SUFFICES ASSUME NEW k \in 0 .. n PROVE g[k] = Turn(g, k)
        OBVIOUS
      <4>1. k >= 10 => g[k \div 10] = f[k \div 10]
        BY <3>3
      <4>2. Turn(g, k) = Turn(f, k)
        <5> HIDE DEF g
        <5>1. ~(k < 10) => g[k \div 10] = f[k \div 10]
          BY <4>1
        <5> QED
          BY <5>1 DEF Turn
      <4>3. k # n => f[k] = Turn(f, k)
        BY <3>2 DEF UpTo
      <4>4. g[k] = IF k = n THEN Turn(f, n) ELSE f[k]
        OBVIOUS
      <4> HIDE DEF g
      <4> QED
        BY <4>2, <4>3, <4>4
    <3> HIDE DEF g
    <3> QED
      BY <3>5, <3>6 DEF UpTo
  <2> QED
    BY <2>1, <2>2
<1>2. T \in SUBSET Nat /\ \A n \in Nat : 0 .. n - 1 \subseteq T => n \in T
  BY <1>1
<1>3. T = Nat
  <2> HIDE DEF T
  <2> QED
    BY <1>2, AllNumbers
<1> QED
  BY <1>3

Made(n) == CHOOSE f : UpTo(f, n)

\* ... and what it writes does not depend on how far it is known.
LEMMA MadeAgree ==
  \A k \in Nat : \A m, n \in Nat : k =< m /\ k =< n => Made(m)[k] = Made(n)[k]
<1>0. \A n \in Nat : UpTo(Made(n), n)
  BY DigitsUpTo DEF Made
<1> DEFINE T == {k \in Nat : \A m, n \in Nat : k =< m /\ k =< n => Made(m)[k] = Made(n)[k]}
<1>1. ASSUME NEW k \in Nat, 0 .. k - 1 \subseteq T, NEW m \in Nat, NEW n \in Nat, k =< m, k =< n
      PROVE  Made(m)[k] = Made(n)[k]
  <2>1. Made(m)[k] = Turn(Made(m), k) /\ Made(n)[k] = Turn(Made(n), k)
    BY <1>0, <1>1 DEF UpTo
  <2>2. k >= 10 => Made(m)[k \div 10] = Made(n)[k \div 10]
    <3> SUFFICES ASSUME k >= 10 PROVE Made(m)[k \div 10] = Made(n)[k \div 10]
      OBVIOUS
    <3>1. PICK j : j = k \div 10
      OBVIOUS
    <3>2. j \in 0 .. k - 1 /\ j =< m /\ j =< n
      BY <1>1, <3>1, LastDigit
    <3>3. j \in T
      BY <1>1, <3>2
    <3> QED
      BY <3>1, <3>2, <3>3
  <2>3. ~(k < 10) => Made(m)[k \div 10] = Made(n)[k \div 10]
    BY <2>2
  <2> QED
    BY <2>1, <2>3 DEF Turn
<1>2. T \in SUBSET Nat /\ \A n \in Nat : 0 .. n - 1 \subseteq T => n \in T
  BY <1>1
<1>3. T = Nat
  <2> HIDE DEF T
  <2> QED
    BY <1>2, AllNumbers
<1> QED
  BY <1>3

\* The digits are those that the loop writes, turn by turn.
LEMMA DigitsByTurns ==
  \A n \in Nat : Digits[n] \in Seq(Glyphs) /\ Digits[n] = Turn(Digits, n)
<1>0. \A n \in Nat : UpTo(Made(n), n)
  BY DigitsUpTo DEF Made
<1> DEFINE g == [n \in Nat |-> Made(n)[n]]
<1>1. ASSUME NEW n \in Nat PROVE g[n] = Turn(g, n)
  <2>1. g[n] = Turn(Made(n), n)
    BY <1>0 DEF UpTo
  <2>2. ~(n < 10) => Made(n)[n \div 10] = g[n \div 10]
    <3> SUFFICES ASSUME ~(n < 10) PROVE Made(n)[n \div 10] = g[n \div 10]
      OBVIOUS
    <3>1. PICK j : j = n \div 10
      OBVIOUS
    <3>2. j \in Nat /\ j =< n /\ j =< j
      BY <3>1, LastDigit
    <3>3. Made(n)[j] = Made(j)[j]
      BY <3>2, MadeAgree
    <3> QED
      BY <3>1, <3>2, <3>3
  <2> HIDE DEF g
  <2> QED
    BY <2>1, <2>2 DEF Turn
<1>2. g = [n \in Nat |-> Turn(g, n)]
  <2>1. DOMAIN g = Nat /\ g = [n \in Nat |-> g[n]]
    OBVIOUS
  <2> HIDE DEF g
  <2> QED
    BY <1>1, <2>1
<1>3. Digits = [n \in Nat |-> Turn(Digits, n)]
  <2> DEFINE D == CHOOSE f : f = [n \in Nat |-> Turn(f, n)]
  <2> HIDE DEF g
  <2>1. D = [n \in Nat |-> Turn(D, n)]
    BY <1>2
  <2>2. Digits = D
    BY DEF Digits, Turn
  <2> HIDE DEF D
  <2> QED
    BY <2>1, <2>2
<1>4. \A n \in Nat : Digits[n] = Turn(Digits, n)
  BY <1>3
<1> DEFINE T == {n \in Nat : Digits[n] \in Seq(Glyphs)}
<1>5. ASSUME NEW n \in Nat, 0 .. n - 1 \subseteq T PROVE Digits[n] \in Seq(Glyphs)
  <2>1. n >= 10 => n \div 10 \in 0 .. n - 1
    BY LastDigit
  <2>2. n >= 10 => Digits[n \div 10] \in Seq(Glyphs)
    BY <1>5, <2>1
  <2>3. Turn(Digits, n) \in Seq(Glyphs)
    BY <2>2, TurnTyped
  <2> QED
    BY <1>4, <2>3
<1>6. T \in SUBSET Nat /\ \A n \in Nat : 0 .. n - 1 \subseteq T => n \in T
  BY <1>5
<1>7. T = Nat
  <2> HIDE DEF T
  <2> QED
    BY <1>6, AllNumbers
<1> QED
  BY <1>4, <1>7

-----------------------------------------------------------------------------
(* Short texts.                                                            *)

Is1(s, a) == s \in Seq(Glyphs) /\ Len(s) = 1 /\ s[1] = a
Is2(s, a, b) == s \in Seq(Glyphs) /\ Len(s) = 2 /\ s[1] = a /\ s[2] = b
Is3(s, a, b, c) == s \in Seq(Glyphs) /\ Len(s) = 3 /\ s[1] = a /\ s[2] = b /\ s[3] = c
Is4(s, a, b, c, d) ==
  s \in Seq(Glyphs) /\ Len(s) = 4 /\ s[1] = a /\ s[2] = b /\ s[3] = c /\ s[4] = d

\* What lies where in two texts one after the other.
LEMMA Joined ==
  ASSUME NEW s \in Seq(Glyphs), NEW t \in Seq(Glyphs)
  PROVE  /\ s \o t \in Seq(Glyphs) /\ Len(s \o t) = Len(s) + Len(t)
         /\ \A k \in 1 .. Len(s) : (s \o t)[k] = s[k]
         /\ \A k \in 1 .. Len(t) : (s \o t)[Len(s) + k] = t[k]
<1>1. /\ s \o t \in Seq(Glyphs) /\ Len(s \o t) = Len(s) + Len(t)
      /\ \A k \in 1 .. Len(s) + Len(t) : (s \o t)[k] = IF k =< Len(s) THEN s[k] ELSE t[k - Len(s)]
  BY ConcatProperties
<1> DEFINE r == s \o t  m == Len(s)  n == Len(t)
<1>2. m \in Nat /\ n \in Nat /\ \A k \in 1 .. m + n : r[k] = IF k =< m THEN s[k] ELSE t[k - m]
  BY <1>1
<1> HIDE DEF r, m, n
<1>3. \A k \in 1 .. m : r[k] = s[k]
  BY <1>2
<1>4. ASSUME NEW k \in 1 .. n PROVE r[m + k] = t[k]
  <2>1. PICK j : j = m + k
    OBVIOUS
  <2>2. j \in 1 .. m + n /\ ~(j =< m) /\ j - m = k
    BY ONLY <1>2, <2>1, k \in 1 .. n
  <2> QED
    BY <1>2, <2>1, <2>2
<1> QED
  BY <1>1, <1>3, <1>4 DEF r, m, n

\* With nothing before it or behind it a text stays as it is.
LEMMA JoinedToNothing ==
  ASSUME NEW s \in Seq(Glyphs)
  PROVE  <<>> \o s = s /\ s \o <<>> = s
BY ConcatEmptySeq

\* Short texts one after the other.
LEMMA ShortJoined ==
  ASSUME NEW a, NEW b, NEW c, NEW d, NEW s, NEW t
  PROVE  /\ Is1(s, a) /\ Is1(t, b) => Is2(s \o t, a, b)
         /\ Is1(s, a) /\ Is2(t, b, c) => Is3(s \o t, a, b, c)
         /\ Is2(s, a, b) /\ Is1(t, c) => Is3(s \o t, a, b, c)
         /\ Is1(s, a) /\ Is3(t, b, c, d) => Is4(s \o t, a, b, c, d)
         /\ Is2(s, a, b) /\ Is2(t, c, d) => Is4(s \o t, a, b, c, d)
         /\ Is3(s, a, b, c) /\ Is1(t, d) => Is4(s \o t, a, b, c, d)
<1> DEFINE r == s \o t
<1> SUFFICES ASSUME s \in Seq(Glyphs), t \in Seq(Glyphs)
             PROVE  /\ Is1(s, a) /\ Is1(t, b) => Is2(r, a, b)
                    /\ Is1(s, a) /\ Is2(t, b, c) => Is3(r, a, b, c)
                    /\ Is2(s, a, b) /\ Is1(t, c) => Is3(r, a, b, c)
                    /\ Is1(s, a) /\ Is3(t, b, c, d) => Is4(r, a, b, c, d)
                    /\ Is2(s, a, b) /\ Is2(t, c, d) => Is4(r, a, b, c, d)
                    /\ Is3(s, a, b, c) /\ Is1(t, d) => Is4(r, a, b, c, d)
  BY DEF Is1, Is2, Is3
<1>1. /\ r \in Seq(Glyphs) /\ Len(r) = Len(s) + Len(t)
      /\ \A k \in 1 .. Len(s) : r[k] = s[k]
      /\ \A k \in 1 .. Len(t) : r[Len(s) + k] = t[k]
  BY Joined
<1> HIDE DEF r
<1>2. ASSUME Is1(s, a) PROVE /\ Is1(t, b) => Is2(r, a, b)
                             /\ Is2(t, b, c) => Is3(r, a, b, c)
                             /\ Is3(t, b, c, d) => Is4(r, a, b, c, d)
  <2>1. r[1] = a /\ Len(s) = 1
    BY <1>1, <1>2 DEF Is1
  <2>2. ASSUME Is1(t, b) PROVE Is2(r, a, b)
    BY <1>1, <2>1, <2>2 DEF Is1, Is2
  <2>3. ASSUME Is2(t, b, c) PROVE Is3(r, a, b, c)
    BY <1>1, <2>1, <2>3 DEF Is2, Is3
  <2>4. ASSUME Is3(t, b, c, d) PROVE Is4(r, a, b, c, d)
    BY <1>1, <2>1, <2>4 DEF Is3, Is4
  <2> QED
    BY <2>2, <2>3, <2>4
<1>3. ASSUME Is2(s, a, b) PROVE /\ Is1(t, c) => Is3(r, a, b, c)
                                /\ Is2(t, c, d) => Is4(r, a, b, c, d)
  <2>1. r[1] = a /\ r[2] = b /\ Len(s) = 2
    BY <1>1, <1>3 DEF Is2
  <2>2. ASSUME Is1(t, c) PROVE Is3(r, a, b, c)
    BY <1>1, <2>1, <2>2 DEF Is1, Is3
  <2>3. ASSUME Is2(t, c, d) PROVE Is4(r, a, b, c, d)
    BY <1>1, <2>1, <2>3 DEF Is2, Is4
  <2> QED
    BY <2>2, <2>3
<1>4. ASSUME Is3(s, a, b, c), Is1(t, d) PROVE Is4(r, a, b, c, d)
  BY <1>1, <1>4 DEF Is1, Is3, Is4
<1> QED
  BY <1>2, <1>3, <1>4

\* A text turned round.
LEMMA ShortReversed ==
  ASSUME NEW a, NEW b, NEW c, NEW d, NEW s
  PROVE  /\ s \in Seq(Glyphs) => Reverse(s) \in Seq(Glyphs) /\ Len(Reverse(s)) = Len(s)
         /\ Is1(s, a) => Is1(Reverse(s), a)
         /\ Is2(s, a, b) => Is2(Reverse(s), b, a)
         /\ Is4(s, a, b, c, d) => Is4(Reverse(s), d, c, b, a)
<1>1. ASSUME s \in Seq(Glyphs)
      PROVE  /\ Reverse(s) \in Seq(Glyphs) /\ Len(Reverse(s)) = Len(s)
             /\ \A k \in 1 .. Len(s) : Reverse(s)[k] = s[(Len(s) - k) + 1]
  <2>1. \A k \in 1 .. Len(s) : (Len(s) - k) + 1 \in 1 .. Len(s)
    BY <1>1
  <2> QED
    BY <1>1, <2>1 DEF Reverse
<1> DEFINE r == Reverse(s)
<1> HIDE DEF r
<1>2. Is1(s, a) => Is1(r, a)
  BY <1>1 DEF Is1, r
<1>3. Is2(s, a, b) => Is2(r, b, a)
  BY <1>1 DEF Is2, r
<1>4. Is4(s, a, b, c, d) => Is4(r, d, c, b, a)
  BY <1>1 DEF Is4, r
<1> QED
  BY <1>1, <1>2, <1>3, <1>4 DEF r

\* Two texts of the same four characters are the same.
LEMMA FourAreEqual ==
  ASSUME NEW a, NEW b, NEW c, NEW d, NEW s, NEW t, Is4(s, a, b, c, d), Is4(t, a, b, c, d)
  PROVE  s = t
<1>1. s \in Seq(Glyphs) /\ t \in Seq(Glyphs) /\ Len(s) = 4 /\ Len(t) = 4
  BY DEF Is4
<1>2. \A k \in 1 .. 4 : s[k] = t[k]
  BY DEF Is4
<1> QED
  BY <1>1, <1>2, SeqEqual

\* The text of one character.
LEMMA Single ==
  ASSUME NEW a \in Glyphs
  PROVE  Is1(<<a>>, a)
BY DEF Is1

\* A text of one character again and again.
LEMMA RepeatedFacts ==
  ASSUME NEW n \in Nat, NEW a \in Glyphs
  PROVE  /\ [k \in 1 .. n |-> a] \in Seq(Glyphs) /\ Len([k \in 1 .. n |-> a]) = n
         /\ n = 1 => Is1([k \in 1 .. n |-> a], a)
<1> DEFINE p == [k \in 1 .. n |-> a]
<1>1. p \in [1 .. n -> Glyphs] /\ \A k \in 1 .. n : p[k] = a
  OBVIOUS
<1> HIDE DEF p
<1>2. p \in Seq(Glyphs)
  BY <1>1
<1>3. Len(p) = n
  BY <1>1, <1>2
<1>4. n = 1 => Is1(p, a)
  BY <1>1, <1>2, <1>3 DEF Is1
<1> QED
  BY <1>2, <1>3, <1>4 DEF p

\* Padding.
LEMMA PaddingFacts ==
  ASSUME NEW n \in Int
  PROVE  /\ Padding(n, " ") \in Seq(Glyphs)
         /\ n = 1 => Is1(Padding(n, " "), " ")
         /\ n =< 0 => Padding(n, " ") = <<>>
<1>1. " " \in Glyphs
  BY DEF Glyphs
<1>2. n =< 0 => Padding(n, " ") = <<>>
  <2>1. n =< 0 => ~(n > 0)
    OBVIOUS
  <2> QED
    BY <2>1 DEF Padding
<1>3. n > 0 => Padding(n, " ") \in Seq(Glyphs) /\ (n = 1 => Is1(Padding(n, " "), " "))
  <2> SUFFICES ASSUME n > 0
               PROVE  Padding(n, " ") \in Seq(Glyphs) /\ (n = 1 => Is1(Padding(n, " "), " "))
    OBVIOUS
  <2>1. n \in Nat
    OBVIOUS
  <2>2. Padding(n, " ") = [k \in 1 .. n |-> " "]
    BY DEF Padding
  <2> QED
    BY <1>1, <2>1, <2>2, RepeatedFacts
<1>4. <<>> \in Seq(Glyphs) /\ (n =< 0 \/ n > 0) /\ ~(n = 1 /\ n =< 0)
  OBVIOUS
<1> QED
  BY <1>2, <1>3, <1>4

-----------------------------------------------------------------------------
(* The digits of a temperature.                                            *)

\* A digit is a character.
LEMMA CharFacts == (\A k \in 0 .. 9 : Char(k) \in Glyphs) /\ Char(0) = "0"
                   /\ {".", "-", " ", "0"} \subseteq Glyphs
<1>1. \A k \in 0 .. 9 : Char(k) \in Glyphs
  BY DEF Glyphs
<1>2. Char(0) = "0"
  BY DEF Char
<1>3. {".", "-", " "} \subseteq Glyphs
  BY DEF Glyphs
<1>4. "0" \in Glyphs
  BY <1>1, <1>2
<1> QED
  BY <1>1, <1>2, <1>3, <1>4

\* The numbers of two digits and of three.
TwoDigits == 10 .. 99
ThreeDigits == 100 .. 999

\* One, two and three digits, and more.
LEMMA DigitsKnown ==
  ASSUME NEW n \in Nat
  PROVE  /\ Digits[n] \in Seq(Glyphs) /\ Len(Digits[n]) >= 1
         /\ n < 10 => Is1(Digits[n], Char(n))
         /\ n \in TwoDigits => Is2(Digits[n], Char(n % 10), Char(n \div 10))
         /\ n \in ThreeDigits =>
              Is3(Digits[n], Char(n % 10), Char((n \div 10) % 10), Char((n \div 10) \div 10))
         /\ n >= 10 => Len(Digits[n]) >= 2
         /\ n >= 1000 => Len(Digits[n]) >= 4
<1>1. ASSUME NEW k \in Nat, k < 10 PROVE Is1(Digits[k], Char(k))
  <2>0. k \in 0 .. 9
    BY <1>1
  <2>1. Digits[k] = <<Char(k)>> /\ k \in 0 .. 9
    BY <1>1, <2>0, DigitsByTurns DEF Turn
  <2> QED
    BY <2>1, CharFacts, Single
<1>2. ASSUME NEW k \in Nat, k >= 10
      PROVE  /\ Digits[k] = <<Char(k % 10)>> \o Digits[k \div 10] /\ Is1(<<Char(k % 10)>>, Char(k % 10))
             /\ Digits[k \div 10] \in Seq(Glyphs) /\ Len(Digits[k]) = 1 + Len(Digits[k \div 10])
  <2>1. ~(k < 10) /\ k % 10 \in 0 .. 9 /\ k \div 10 \in Nat
    BY <1>2, LastDigit
  <2>2. Digits[k] = <<Char(k % 10)>> \o Digits[k \div 10]
    BY <2>1, DigitsByTurns DEF Turn
  <2>3. Digits[k \div 10] \in Seq(Glyphs)
    BY <2>1, DigitsByTurns
  <2>4. Is1(<<Char(k % 10)>>, Char(k % 10))
    BY <2>1, CharFacts, Single
  <2>5. Len(<<Char(k % 10)>> \o Digits[k \div 10]) = 1 + Len(Digits[k \div 10])
    <3> DEFINE s == <<Char(k % 10)>>  t == Digits[k \div 10]
    <3>1. s \in Seq(Glyphs) /\ Len(s) = 1 /\ t \in Seq(Glyphs)
      BY <2>3, <2>4 DEF Is1
    <3> HIDE DEF s, t
    <3>2. Len(s \o t) = 1 + Len(t)
      BY <3>1, Joined
    <3> QED
      BY <3>2 DEF s, t
  <2> QED
    BY <2>2, <2>3, <2>4, <2>5
<1>3. ASSUME NEW k \in Nat PROVE Digits[k] \in Seq(Glyphs) /\ Len(Digits[k]) \in Nat /\ Len(Digits[k]) >= 1
  <2>1. Digits[k] \in Seq(Glyphs)
    BY DigitsByTurns
  <2>2. CASE k < 10
    BY <1>1, <2>1, <2>2 DEF Is1
  <2>3. CASE k >= 10
    <3>1. Digits[k \div 10] \in Seq(Glyphs) /\ Len(Digits[k]) = 1 + Len(Digits[k \div 10])
      BY <1>2, <2>3
    <3>2. Len(Digits[k \div 10]) \in Nat
      BY <3>1
    <3> QED
      BY <2>1, <3>1, <3>2
  <2> QED
    BY <2>1, <2>2, <2>3
<1>4. ASSUME NEW k \in TwoDigits PROVE Is2(Digits[k], Char(k % 10), Char(k \div 10))
  <2>1. PICK j : j = k \div 10
    OBVIOUS
  <2>2. j \in Nat /\ j < 10 /\ k >= 10 /\ k \in Nat
    BY <2>1 DEF TwoDigits
  <2>3. Is1(Digits[j], Char(j)) /\ Digits[k] = <<Char(k % 10)>> \o Digits[j]
        /\ Is1(<<Char(k % 10)>>, Char(k % 10))
    BY <1>1, <1>2, <2>1, <2>2
  <2>4. Is2(<<Char(k % 10)>> \o Digits[j], Char(k % 10), Char(j))
    BY <2>3, ShortJoined
  <2> QED
    BY <2>1, <2>3, <2>4
<1>5. ASSUME NEW k \in ThreeDigits
      PROVE  Is3(Digits[k], Char(k % 10), Char((k \div 10) % 10), Char((k \div 10) \div 10))
  <2>1. PICK j : j = k \div 10
    OBVIOUS
  <2>2. j \in TwoDigits /\ k >= 10 /\ k \in Nat
    BY <2>1 DEF TwoDigits, ThreeDigits
  <2>3. Is2(Digits[j], Char(j % 10), Char(j \div 10)) /\ Digits[k] = <<Char(k % 10)>> \o Digits[j]
        /\ Is1(<<Char(k % 10)>>, Char(k % 10))
    BY <1>2, <1>4, <2>1, <2>2
  <2>4. Is3(<<Char(k % 10)>> \o Digits[j], Char(k % 10), Char(j % 10), Char(j \div 10))
    BY <2>3, ShortJoined
  <2> QED
    BY <2>1, <2>3, <2>4
<1>6. ASSUME NEW k \in Nat, k >= 10 PROVE Len(Digits[k]) >= 2
  <2>1. PICK j : j = k \div 10
    OBVIOUS
  <2>2. j \in Nat
    BY <2>1
  <2>3. Len(Digits[j]) >= 1 /\ Len(Digits[k]) = 1 + Len(Digits[j]) /\ Len(Digits[j]) \in Nat
    BY <1>2, <1>3, <1>6, <2>1, <2>2
  <2> QED
    BY <2>3
<1>7. ASSUME NEW k \in Nat, k >= 100 PROVE Len(Digits[k]) >= 3
  <2>1. PICK j : j = k \div 10
    OBVIOUS
  <2>2. j \in Nat /\ j >= 10 /\ k >= 10
    BY <1>7, <2>1
  <2>3. Len(Digits[j]) >= 2 /\ Len(Digits[k]) = 1 + Len(Digits[j]) /\ Len(Digits[j]) \in Nat
    BY <1>2, <1>3, <1>6, <2>1, <2>2
  <2> QED
    BY <2>3
<1>8. ASSUME NEW k \in Nat, k >= 1000 PROVE Len(Digits[k]) >= 4
  <2>1. PICK j : j = k \div 10
    OBVIOUS
  <2>2. j \in Nat /\ j >= 100 /\ k >= 10
    BY <1>8, <2>1
  <2>3. Len(Digits[j]) >= 3 /\ Len(Digits[k]) = 1 + Len(Digits[j]) /\ Len(Digits[j]) \in Nat
    BY <1>2, <1>3, <1>7, <2>1, <2>2
  <2> QED
    BY <2>3
<1>9. Digits[n] \in Seq(Glyphs) /\ Len(Digits[n]) >= 1 /\ (n >= 10 => Len(Digits[n]) >= 2)
      /\ (n >= 1000 => Len(Digits[n]) >= 4)
  BY ONLY <1>3, <1>6, <1>8, n \in Nat
<1>10. n < 10 => Is1(Digits[n], Char(n))
  BY ONLY <1>1, n \in Nat
<1>11. n \in TwoDigits => Is2(Digits[n], Char(n % 10), Char(n \div 10))
  BY ONLY <1>4
<1>12. n \in ThreeDigits =>
         Is3(Digits[n], Char(n % 10), Char((n \div 10) % 10), Char((n \div 10) \div 10))
  BY ONLY <1>5
<1> QED
  BY <1>9, <1>10, <1>11, <1>12

-----------------------------------------------------------------------------
(* The text of a temperature and what it should be.                        *)

\* The digits with the point after the last one, which is the first to be written.
LEMMA PointedFacts ==
  ASSUME NEW a, NEW b, NEW c, NEW s \in Seq(Glyphs), Len(s) >= 1
  PROVE  /\ Pointed(s, 1) \in Seq(Glyphs) /\ Len(Pointed(s, 1)) = Len(s) + 1
         /\ Is1(s, a) => Is2(Pointed(s, 1), a, ".")
         /\ Is2(s, a, b) => Is3(Pointed(s, 1), a, ".", b)
         /\ Is3(s, a, b, c) => Is4(Pointed(s, 1), a, ".", b, c)
<1> DEFINE n == Len(s)
           x == SubSeq(s, 1, 1)
           y == <<".">>
           z == SubSeq(s, 2, n)
<1>0. n \in Nat /\ n >= 1 /\ \A k \in 1 .. n : s[k] \in Glyphs
  OBVIOUS
<1>1. Pointed(s, 1) = x \o y \o z
  <2>1. 1 \in 1 .. n /\ 1 + 1 = 2
    BY <1>0
  <2> QED
    BY <2>1 DEF Pointed
<1> HIDE DEF n
<1>2. Is1(x, s[1])
  <2>1. \A k \in 1 .. 1 : s[k] \in Glyphs
    BY <1>0
  <2>2. /\ SubSeq(s, 1, 1) \in Seq(Glyphs) /\ Len(SubSeq(s, 1, 1)) = IF 1 =< 1 THEN 1 - 1 + 1 ELSE 0
        /\ \A k \in 1 .. 1 - 1 + 1 : SubSeq(s, 1, 1)[k] = s[1 + k - 1]
    BY <2>1, SubSeqProperties
  <2> QED
    BY <2>2 DEF Is1
<1>3. Is1(y, ".")
  BY CharFacts, Single
<1>4. z \in Seq(Glyphs) /\ Len(z) = n - 1 /\ \A k \in 1 .. n - 1 : z[k] = s[k + 1]
  <2>1. \A k \in 2 .. n : s[k] \in Glyphs
    BY <1>0
  <2>2. /\ SubSeq(s, 2, n) \in Seq(Glyphs) /\ Len(SubSeq(s, 2, n)) = IF 2 =< n THEN n - 2 + 1 ELSE 0
        /\ \A k \in 1 .. n - 2 + 1 : SubSeq(s, 2, n)[k] = s[2 + k - 1]
    BY <1>0, <2>1, SubSeqProperties
  <2>3. /\ z \in Seq(Glyphs) /\ Len(z) = (IF 2 =< n THEN n - 2 + 1 ELSE 0)
        /\ \A k \in 1 .. n - 2 + 1 : z[k] = s[2 + k - 1]
    BY <2>2
  <2> HIDE DEF z
  <2> QED
    BY <1>0, <2>3
<1> HIDE DEF x, y, z
<1>5. Is2(x \o y, s[1], ".")
  BY <1>2, <1>3, ShortJoined
<1> DEFINE w == x \o y
           r == w \o z
<1>6. /\ w \in Seq(Glyphs) /\ Len(w) = 2
      /\ r \in Seq(Glyphs) /\ Len(r) = Len(w) + Len(z)
  BY <1>4, <1>5, Joined DEF Is2
<1>7. Is2(w, s[1], ".")
  BY <1>5
<1>8. Pointed(s, 1) = r
  BY <1>1
<1> HIDE DEF w
<1>9. Len(r) = Len(s) + 1
  BY <1>0, <1>4, <1>6 DEF n
<1>10. Is1(s, a) => Is2(r, a, ".")
  <2> SUFFICES ASSUME Is1(s, a) PROVE Is2(r, a, ".")
    OBVIOUS
  <2>1. n = 1 /\ s[1] = a
    BY DEF Is1, n
  <2>2. z = <<>>
    BY <1>4, <2>1, EmptySeq
  <2>3. r = w
    BY <1>6, <2>2, JoinedToNothing
  <2> QED
    BY <1>7, <2>1, <2>3
<1>11. Is2(s, a, b) => Is3(r, a, ".", b)
  <2> SUFFICES ASSUME Is2(s, a, b) PROVE Is3(r, a, ".", b)
    OBVIOUS
  <2>1. n = 2 /\ s[1] = a /\ s[2] = b
    BY DEF Is2, n
  <2>2. Is1(z, b)
    BY <1>4, <2>1 DEF Is1
  <2> QED
    BY <1>7, <2>1, <2>2, ShortJoined
<1>12. Is3(s, a, b, c) => Is4(r, a, ".", b, c)
  <2> SUFFICES ASSUME Is3(s, a, b, c) PROVE Is4(r, a, ".", b, c)
    OBVIOUS
  <2>1. n = 3 /\ s[1] = a /\ s[2] = b /\ s[3] = c
    BY DEF Is3, n
  <2>2. Is2(z, b, c)
    BY <1>4, <2>1 DEF Is2
  <2> QED
    BY <1>7, <2>1, <2>2, ShortJoined
<1> HIDE DEF r
<1> QED
  BY <1>6, <1>8, <1>9, <1>10, <1>11, <1>12

\* What itoa writes before the padding, from the end on.
Body(v) == <<>> \o Pointed(Digits[Magnitude(v)], 1) \o ZeroAhead(v, 1) \o Minus(v)

Field(v) == Text(v, 1, 4, " ", <<>>, <<>>)

\* The text is the body and its padding, turned round.
LEMMA FieldFacts ==
  ASSUME NEW v \in Int, NEW a, NEW b, NEW c, NEW d, Body(v) \in Seq(Glyphs)
  PROVE  /\ Len(Field(v)) \in Nat /\ Len(Field(v)) >= Len(Body(v))
         /\ Is4(Body(v), a, b, c, d) => Is4(Field(v), d, c, b, a)
         /\ Is3(Body(v), a, b, c) => Is4(Field(v), " ", c, b, a)
<1> DEFINE s == Body(v)
           n == Len(s)
           p == Padding(4 - n - 0, " ")
<1>1. s \in Seq(Glyphs) /\ n \in Nat /\ 4 - n - 0 = 4 - n /\ 4 - n \in Int
  OBVIOUS
<1>2. Field(v) = Reverse(s \o p \o <<>>)
  <2>1. Len(<<>>) = 0
    BY EmptySeq
  <2> QED
    BY <2>1 DEF Field, Text, Body
<1> HIDE DEF s
<1>3. /\ p \in Seq(Glyphs) /\ (n = 3 => Is1(p, " ")) /\ (n = 4 => p = <<>>)
  <2>1. /\ Padding(4 - n, " ") \in Seq(Glyphs)
        /\ 4 - n = 1 => Is1(Padding(4 - n, " "), " ")
        /\ 4 - n =< 0 => Padding(4 - n, " ") = <<>>
    BY <1>1, PaddingFacts
  <2>2. p = Padding(4 - n, " ")
    BY <1>1
  <2>3. n = 3 => 4 - n = 1
    BY <1>1
  <2>4. n = 4 => 4 - n =< 0
    BY <1>1
  <2> HIDE DEF p, n
  <2> QED
    BY <2>1, <2>2, <2>3, <2>4
<1> HIDE DEF p, n
<1> DEFINE r == s \o p
<1>4. r \in Seq(Glyphs) /\ Len(r) = Len(s) + Len(p) /\ Len(p) \in Nat
  <2>1. s \in Seq(Glyphs) /\ p \in Seq(Glyphs)
    BY <1>1, <1>3
  <2>2. s \o p \in Seq(Glyphs) /\ Len(s \o p) = Len(s) + Len(p)
    BY ONLY <2>1, Joined
  <2>3. Len(p) \in Nat
    BY ONLY <2>1
  <2> QED
    BY <2>2, <2>3
<1>5. r \o <<>> = r
  BY <1>4, JoinedToNothing
<1>6. Field(v) = Reverse(r)
  BY <1>2, <1>5
<1>7. ASSUME Is4(s, a, b, c, d) PROVE Is4(r, a, b, c, d)
  <2>1. n = 4
    BY <1>7 DEF Is4, n
  <2>2. r = s
    BY <1>1, <1>3, <2>1, JoinedToNothing
  <2> QED
    BY <1>7, <2>2
<1>8. ASSUME Is3(s, a, b, c) PROVE Is4(r, a, b, c, " ")
  <2>1. n = 3
    BY <1>8 DEF Is3, n
  <2> QED
    BY <1>3, <1>8, <2>1, ShortJoined
<1> HIDE DEF r
<1>9. Len(Reverse(r)) = Len(r)
  BY <1>4, ShortReversed
<1>10. Len(Field(v)) \in Nat /\ Len(Field(v)) >= Len(s)
  <2>1. Len(s) \in Nat
    BY <1>1
  <2> QED
    BY <1>4, <1>6, <1>9, <2>1
<1>11. Is4(s, a, b, c, d) => Is4(Field(v), d, c, b, a)
  BY <1>6, <1>7, ShortReversed
<1>12. Is3(s, a, b, c) => Is4(Field(v), " ", c, b, a)
  BY <1>6, <1>8, ShortReversed
<1> QED
  BY <1>10, <1>11, <1>12 DEF s

\* Nothing ahead of the whole part, and no sign, from 1.0 on.
LEMMA BodyFrom10 ==
  ASSUME NEW v \in Nat, v >= 10
  PROVE  Body(v) = Pointed(Digits[v], 1) /\ Body(v) \in Seq(Glyphs)
<1>1. Magnitude(v) = v /\ ZeroAhead(v, 1) = <<>> /\ Minus(v) = <<>>
  BY DEF Magnitude, ZeroAhead, Minus
<1>2. Pointed(Digits[v], 1) \in Seq(Glyphs)
  BY DigitsKnown, PointedFacts
<1> QED
  BY <1>1, <1>2, JoinedToNothing DEF Body

\* A zero and a sign below 0.0.
LEMMA BodyBelow0 ==
  ASSUME NEW v \in Int, v < 0
  PROVE  /\ -v \in Nat /\ Magnitude(v) = -v
         /\ Body(v) = Pointed(Digits[-v], 1) \o <<"0">> \o <<"-">>
         /\ Body(v) \in Seq(Glyphs) /\ Len(Body(v)) = Len(Digits[-v]) + 3
<1>1. -v \in Nat /\ Magnitude(v) = -v /\ ZeroAhead(v, 1) = <<"0">> /\ Minus(v) = <<"-">>
  BY DEF Magnitude, ZeroAhead, Minus
<1> DEFINE s == Digits[-v]  t == Pointed(s, 1)  x == <<"0">>  y == <<"-">>
<1>2. s \in Seq(Glyphs) /\ Len(s) >= 1
  BY <1>1, DigitsKnown
<1> HIDE DEF s
<1>3. t \in Seq(Glyphs) /\ Len(t) = Len(s) + 1
  BY <1>2, PointedFacts
<1>4. Is1(x, "0") /\ Is1(y, "-")
  BY CharFacts, Single
<1> HIDE DEF t, x, y
<1>5. Body(v) = t \o x \o y
  <2>1. Body(v) = <<>> \o t \o x \o y
    BY <1>1 DEF Body, s, t, x, y
  <2> QED
    BY <1>3, <2>1, JoinedToNothing
<1>6. x \in Seq(Glyphs) /\ y \in Seq(Glyphs) /\ Len(x) = 1 /\ Len(y) = 1
  BY <1>4 DEF Is1
<1>7. t \o x \in Seq(Glyphs) /\ Len(t \o x) = Len(t) + 1
  <2>1. t \in Seq(Glyphs) /\ x \in Seq(Glyphs)
    BY <1>3, <1>6
  <2>2. t \o x \in Seq(Glyphs) /\ Len(t \o x) = Len(t) + Len(x)
    BY ONLY <2>1, Joined
  <2> QED
    BY ONLY <1>6, <2>2
<1>8. t \o x \o y \in Seq(Glyphs) /\ Len(t \o x \o y) = Len(t \o x) + 1
  <2>1. t \o x \in Seq(Glyphs) /\ y \in Seq(Glyphs)
    BY <1>6, <1>7
  <2>2. t \o x \o y \in Seq(Glyphs) /\ Len(t \o x \o y) = Len(t \o x) + Len(y)
    BY ONLY <2>1, Joined
  <2> QED
    BY ONLY <1>6, <2>2
<1>9. Len(Body(v)) = Len(s) + 3
  <2>1. Len(s) \in Nat
    BY <1>2
  <2> QED
    BY <1>3, <1>5, <1>7, <1>8, <2>1
<1> QED
  BY <1>1, <1>5, <1>8, <1>9 DEF s, t, x, y

\* The text in the field where the temperature fits, and what is right, by digits.
LEMMA FieldOfOneDigit ==
  ASSUME NEW v \in 0 .. 9
  PROVE  Is4(Field(v), " ", "0", ".", Char(v))
<1>1. v \in Nat /\ v < 10 /\ v \in Int /\ Magnitude(v) = v /\ ZeroAhead(v, 1) = <<"0">> /\ Minus(v) = <<>>
  BY DEF Magnitude, ZeroAhead, Minus
<1> DEFINE c == Char(v)  t == Pointed(Digits[v], 1)  x == <<"0">>
<1>2. Is1(Digits[v], c) /\ Digits[v] \in Seq(Glyphs) /\ Len(Digits[v]) >= 1
  BY <1>1, DigitsKnown
<1>3. Is2(t, c, ".") /\ t \in Seq(Glyphs)
  BY <1>2, PointedFacts
<1>4. Is1(x, "0")
  BY CharFacts, Single
<1>5. Body(v) = <<>> \o t \o x \o <<>>
  BY <1>1 DEF Body
<1> HIDE DEF c, t, x
<1>6. Is3(t \o x, c, ".", "0")
  BY <1>3, <1>4, ShortJoined
<1>7. t \o x \in Seq(Glyphs)
  BY <1>6 DEF Is3
<1>8. Body(v) = t \o x
  BY <1>3, <1>5, <1>7, JoinedToNothing
<1>9. Is4(Field(v), " ", "0", ".", c)
  BY <1>1, <1>6, <1>7, <1>8, FieldFacts
<1> QED
  BY <1>9 DEF c

\* itoa for a number of one digit below zero.
LEMMA FieldBelow0 ==
  ASSUME NEW v \in -9 .. -1
  PROVE  Is4(Field(v), "-", "0", ".", Char(-v))
<1>1. v \in Int /\ v < 0 /\ -v \in Nat /\ -v < 10
  OBVIOUS
<1> DEFINE c == Char(-v)  s == Digits[-v]  t == Pointed(s, 1)  x == <<"0">>  y == <<"-">>
<1>2. Is1(s, c) /\ s \in Seq(Glyphs) /\ Len(s) >= 1
  BY <1>1, DigitsKnown
<1>3. Body(v) = t \o x \o y /\ Body(v) \in Seq(Glyphs)
  BY <1>1, BodyBelow0
<1>4. Is1(x, "0") /\ Is1(y, "-")
  BY CharFacts, Single
<1> HIDE DEF c, s, x, y
<1>5. Is2(t, c, ".")
  BY <1>2, PointedFacts
<1> HIDE DEF t
<1>6. Is3(t \o x, c, ".", "0")
  BY <1>4, <1>5, ShortJoined
<1>7. Is4(t \o x \o y, c, ".", "0", "-")
  BY <1>4, <1>6, ShortJoined
<1>8. Is4(Field(v), "-", "0", ".", c)
  BY <1>1, <1>3, <1>7, FieldFacts
<1> QED
  BY <1>8 DEF c

\* The text of a number of two digits, and of one of three.
OfTwo(s, v) == Is4(s, " ", Char(v \div 10), ".", Char(v % 10))
OfThree(s, v) == Is4(s, Char((v \div 10) \div 10), Char((v \div 10) % 10), ".", Char(v % 10))

\* itoa for a number of two digits.
LEMMA FieldOfTwoDigits ==
  ASSUME NEW v \in TwoDigits
  PROVE  OfTwo(Field(v), v)
<1> DEFINE c == Char(v % 10)  d == Char(v \div 10)
<1>1. v \in Nat /\ v >= 10 /\ v \in Int
  BY DEF TwoDigits
<1>2. Is2(Digits[v], c, d) /\ Digits[v] \in Seq(Glyphs) /\ Len(Digits[v]) >= 1
  BY <1>1, DigitsKnown
<1>3. Body(v) = Pointed(Digits[v], 1) /\ Body(v) \in Seq(Glyphs)
  BY <1>1, BodyFrom10
<1> HIDE DEF c, d
<1>4. Is3(Body(v), c, ".", d)
  BY <1>2, <1>3, PointedFacts
<1>5. Is4(Field(v), " ", d, ".", c)
  BY <1>1, <1>3, <1>4, FieldFacts
<1> QED
  BY <1>5 DEF c, d, OfTwo

\* itoa for a number of three digits.
LEMMA FieldOfThreeDigits ==
  ASSUME NEW v \in ThreeDigits
  PROVE  OfThree(Field(v), v)
<1> DEFINE c == Char(v % 10)  d == Char((v \div 10) % 10)  e == Char((v \div 10) \div 10)
<1>1. v \in Nat /\ v >= 10 /\ v \in Int
  BY DEF ThreeDigits
<1>2. Is3(Digits[v], c, d, e) /\ Digits[v] \in Seq(Glyphs) /\ Len(Digits[v]) >= 1
  BY <1>1, DigitsKnown
<1>3. Body(v) = Pointed(Digits[v], 1) /\ Body(v) \in Seq(Glyphs)
  BY <1>1, BodyFrom10
<1> HIDE DEF c, d, e
<1>4. Is4(Body(v), c, ".", d, e)
  BY <1>2, <1>3, PointedFacts
<1>5. Is4(Field(v), e, d, ".", c)
  BY <1>1, <1>3, <1>4, FieldFacts
<1> QED
  BY <1>5 DEF c, d, e, OfThree

\* What is right, before the padding.
Number(v) ==
  Minus(v) \o Reverse(Digits[Magnitude(v) \div 10]) \o <<".", Char(Magnitude(v) % 10)>>

\* A number of three characters is padded, one of four is not.
LEMMA RightFacts ==
  ASSUME NEW v, NEW a, NEW b, NEW c, NEW d
  PROVE  /\ Is3(Number(v), b, c, d) => Is4(RightText(v, 4), " ", b, c, d)
         /\ Is4(Number(v), a, b, c, d) => Is4(RightText(v, 4), a, b, c, d)
<1> DEFINE s == Number(v)
<1>1. RightText(v, 4) = Padding(4 - Len(s), " ") \o s
  BY DEF RightText, Number
<1> HIDE DEF s
<1>2. ASSUME Is3(s, b, c, d) PROVE Is4(RightText(v, 4), " ", b, c, d)
  <2>1. 4 - Len(s) = 1 /\ 1 \in Int
    BY <1>2 DEF Is3
  <2>2. Is1(Padding(4 - Len(s), " "), " ")
    BY <2>1, PaddingFacts
  <2> QED
    BY <1>1, <1>2, <2>2, ShortJoined
<1>3. ASSUME Is4(s, a, b, c, d) PROVE Is4(RightText(v, 4), a, b, c, d)
  <2>1. 4 - Len(s) = 0 /\ 0 \in Int /\ 0 =< 0 /\ s \in Seq(Glyphs)
    BY <1>3 DEF Is4
  <2>2. Padding(4 - Len(s), " ") = <<>>
    BY <2>1, PaddingFacts
  <2> QED
    BY <1>1, <1>3, <2>1, <2>2, JoinedToNothing
<1> QED
  BY <1>2, <1>3 DEF s

\* The decimal.
LEMMA TailOfNumber ==
  ASSUME NEW k \in 0 .. 9
  PROVE  Is2(<<".", Char(k)>>, ".", Char(k))
<1>1. "." \in Glyphs /\ Char(k) \in Glyphs
  BY CharFacts
<1> QED
  BY <1>1 DEF Is2

\* What a reader expects of a number of one digit.
LEMMA RightBelow10 ==
  ASSUME NEW v \in -9 .. 9
  PROVE  /\ v >= 0 => Is4(RightText(v, 4), " ", "0", ".", Char(v))
         /\ v < 0 => Is4(RightText(v, 4), "-", "0", ".", Char(-v))
<1>1. PICK m : m = Magnitude(v)
  OBVIOUS
<1>2. m \in 0 .. 9 /\ (v >= 0 => m = v) /\ (v < 0 => m = -v) /\ m \div 10 = 0 /\ m % 10 = m
  BY <1>1 DEF Magnitude
<1> DEFINE s == Reverse(Digits[0])  t == <<".", Char(m)>>
<1>3. Number(v) = Minus(v) \o s \o t
  BY <1>1, <1>2 DEF Number
<1>4. Is1(s, "0")
  <2>1. Is1(Digits[0], Char(0))
    BY DigitsKnown
  <2> QED
    BY <2>1, CharFacts, ShortReversed
<1>5. Is2(t, ".", Char(m))
  BY <1>2, TailOfNumber
<1> HIDE DEF s, t
<1>6. CASE v >= 0
  <2>1. Minus(v) = <<>>
    BY <1>6 DEF Minus
  <2>2. Number(v) = s \o t
    BY <1>3, <1>4, <2>1, JoinedToNothing DEF Is1
  <2>3. Is3(Number(v), "0", ".", Char(v))
    BY <1>2, <1>4, <1>5, <1>6, <2>2, ShortJoined
  <2>4. Is4(RightText(v, 4), " ", "0", ".", Char(v))
    BY <2>3, RightFacts
  <2>5. ~(v < 0)
    BY <1>6
  <2> QED
    BY ONLY <2>4, <2>5
<1>7. CASE v < 0
  <2>1. Minus(v) = <<"-">> /\ Is1(<<"-">>, "-")
    BY <1>7, CharFacts, Single DEF Minus
  <2>2. Is2(Minus(v) \o s, "-", "0")
    BY <1>4, <2>1, ShortJoined
  <2>3. Is4(Number(v), "-", "0", ".", Char(m))
    BY <1>3, <1>5, <2>2, ShortJoined
  <2>4. Is4(RightText(v, 4), "-", "0", ".", Char(m))
    BY <2>3, RightFacts
  <2>5. ~(v >= 0)
    BY <1>7
  <2>6. m = -v
    BY <1>2, <1>7
  <2> QED
    BY ONLY <2>4, <2>5, <2>6
<1> QED
  BY <1>6, <1>7

\* What a reader expects of a number of two or three digits.
LEMMA RightFrom10 ==
  ASSUME NEW v \in TwoDigits \cup ThreeDigits
  PROVE  /\ v \in TwoDigits => OfTwo(RightText(v, 4), v)
         /\ v \in ThreeDigits => OfThree(RightText(v, 4), v)
<1>1. PICK j : j = v \div 10
  OBVIOUS
<1>2. v \in Nat /\ Magnitude(v) = v /\ Minus(v) = <<>> /\ j \in Nat /\ j \in 1 .. 99 /\ v % 10 \in 0 .. 9
      /\ (v \in TwoDigits => j < 10) /\ (v \in ThreeDigits => j \in TwoDigits)
  BY <1>1 DEF Magnitude, Minus, TwoDigits, ThreeDigits
<1> DEFINE s == Reverse(Digits[j])  c == Char(v % 10)  t == <<".", c>>
<1>3. Number(v) = Minus(v) \o s \o t
  BY <1>1, <1>2 DEF Number
<1>4. s \in Seq(Glyphs)
  BY <1>2, DigitsKnown, ShortReversed
<1>5. Is2(t, ".", c)
  BY <1>2, TailOfNumber
<1>6. v \in TwoDigits => Is1(s, Char(j))
  BY <1>2, DigitsKnown, ShortReversed
<1>7. v \in ThreeDigits => Is2(s, Char(j \div 10), Char(j % 10))
  BY <1>2, DigitsKnown, ShortReversed
<1> HIDE DEF s, t, c
<1>8. Number(v) = s \o t
  BY <1>2, <1>3, <1>4, JoinedToNothing
<1>9. v \in TwoDigits => Is3(Number(v), Char(j), ".", c)
  BY <1>5, <1>6, <1>8, ShortJoined
<1>10. v \in ThreeDigits => Is4(Number(v), Char(j \div 10), Char(j % 10), ".", c)
  BY <1>5, <1>7, <1>8, ShortJoined
<1>11. v \in TwoDigits => Is4(RightText(v, 4), " ", Char(j), ".", c)
  BY <1>9, RightFacts
<1>12. v \in ThreeDigits => Is4(RightText(v, 4), Char(j \div 10), Char(j % 10), ".", c)
  BY <1>10, RightFacts
<1> QED
  BY <1>1, <1>11, <1>12 DEF c, OfTwo, OfThree

\* itoa fills the field of a temperature rightly where it can.
LEMMA FieldIsRight ==
  ASSUME NEW v \in -9 .. 999
  PROVE  Field(v) = RightText(v, 4)
<1>1. CASE v \in 0 .. 9
  <2>1. v \in -9 .. 9 /\ v >= 0
    BY <1>1
  <2>2. Is4(Field(v), " ", "0", ".", Char(v))
    BY ONLY <1>1, FieldOfOneDigit
  <2>3. Is4(RightText(v, 4), " ", "0", ".", Char(v))
    BY ONLY <2>1, RightBelow10
  <2> QED
    BY ONLY <2>2, <2>3, FourAreEqual
<1>2. CASE v \in -9 .. -1
  <2>1. v \in -9 .. 9 /\ v < 0
    BY <1>2
  <2>2. Is4(Field(v), "-", "0", ".", Char(-v))
    BY ONLY <1>2, FieldBelow0
  <2>3. Is4(RightText(v, 4), "-", "0", ".", Char(-v))
    BY ONLY <2>1, RightBelow10
  <2> QED
    BY ONLY <2>2, <2>3, FourAreEqual
<1>3. CASE v \in TwoDigits
  <2>1. v \in TwoDigits \cup ThreeDigits
    BY ONLY <1>3
  <2>2. OfTwo(Field(v), v)
    BY ONLY <1>3, FieldOfTwoDigits
  <2>3. OfTwo(RightText(v, 4), v)
    BY ONLY <1>3, <2>1, RightFrom10
  <2> QED
    BY ONLY <2>2, <2>3, FourAreEqual DEF OfTwo
<1>4. CASE v \in ThreeDigits
  <2>1. v \in TwoDigits \cup ThreeDigits
    BY ONLY <1>4
  <2>2. OfThree(Field(v), v)
    BY ONLY <1>4, FieldOfThreeDigits
  <2>3. OfThree(RightText(v, 4), v)
    BY ONLY <1>4, <2>1, RightFrom10
  <2> QED
    BY ONLY <2>2, <2>3, FourAreEqual DEF OfThree
<1> QED
  BY <1>1, <1>2, <1>3, <1>4 DEF TwoDigits, ThreeDigits

\* LCD_writeTemp shows every temperature from -0.9 to 99.9 degrees as it should be
\* written (LCD.c:216, itoa.c:59): its sign, its digits, its point, in four
\* characters.
THEOREM TemperatureIsShown == Spec => []TemperatureShown
<1>1. TextKnown => TemperatureShown
  <2> SUFFICES ASSUME TextKnown, shown # <<>>, temper \in -9 .. 999
               PROVE  shown = RightText(temper, 4)
    BY DEF TemperatureShown
  <2>1. shown = Field(temper)
    BY DEF TextKnown, TemperatureText, Field
  <2>2. Field(temper) = RightText(temper, 4)
    <3>1. temper \in -9 .. 999
      OBVIOUS
    <3> QED BY ONLY <3>1, FieldIsRight
  <2> QED
    BY ONLY <2>1, <2>2
<1>2. IInv => TextKnown
  BY DEF IInv
<1> QED
  BY <1>1, <1>2, InitIInv, NextIInv, PTL DEF Spec
=============================================================================
