------------------------------ MODULE McuClock ------------------------------
(***************************************************************************)
(* The calendar of the MCU side of the SDK (system_define.cpp, compiled    *)
(* with SUPPORT_MCU_RTC_CHECK): seconds since 1970 become a date.  The     *)
(* loops over the years and the months are recursive functions of the days *)
(* that are left.                                                          *)
(***************************************************************************)
EXTENDS Integers, Sequences

mon_table == <<31, 28, 31, 30, 31, 30, 31, 31, 30, 31, 30, 31>>

Is_Leap_Year(pyear) ==
  pyear % 4 = 0 /\ (pyear % 100 = 0 => pyear % 400 = 0)

DaysOfYear(year) == IF Is_Leap_Year(year) THEN 366 ELSE 365

DaysOfMonth(year, month) ==
  IF Is_Leap_Year(year) /\ month = 2 THEN 29 ELSE mon_table[month]

\* How far the loops have come: where, and the days that are left.
YearType  == [year : Nat, days : Nat]
MonthType == [year : Nat, month : 1 .. 12, days : Nat]

\* What is left of a day's number after the years before it are taken off: the number
\* in its year, from 0.
YearOf[c \in YearType] ==
  IF c.days < DaysOfYear(c.year) THEN c
  ELSE YearOf[[year |-> c.year + 1, days |-> c.days - DaysOfYear(c.year)]]

\* The same for the months.  A year's days are used up by its twelve months, so the
\* loop never reads behind mon_table.
MonthOf[c \in MonthType] ==
  IF c.month = 12 \/ c.days < DaysOfMonth(c.year, c.month) THEN c
  ELSE MonthOf[[year |-> c.year, month |-> c.month + 1,
                days |-> c.days - DaysOfMonth(c.year, c.month)]]

\* What a day's number becomes.  dayCount is a static variable of the function.
CalendarOf(day) ==
  LET y == YearOf[[year |-> 1970, days |-> day]]
      m == MonthOf[[year |-> y.year, month |-> 1, days |-> y.days]]
  IN  [dayCount |-> day, w_year |-> y.year, w_month |-> m.month, w_date |-> m.days + 1]

\* Nothing is set before the first call: dayCount 0 is a day like any other.
NoCalendar == [dayCount |-> 0, w_year |-> 0, w_month |-> 0, w_date |-> 0]
NoTime     == [hour |-> 0, min |-> 0, sec |-> 0]

TimeOf(secs) ==
  [hour |-> secs \div 3600, min |-> (secs % 3600) \div 60, sec |-> (secs % 3600) % 60]

\* Mutant: the calendar is kept while the date in the month is the same.
KeptTooLong(calendar, day) ==
  IF calendar.w_date = CalendarOf(day).w_date THEN calendar ELSE CalendarOf(day)

\* The calendar is worked out again only for another day.
CalendarAfter(calendar, day) ==
  IF calendar.dayCount = day THEN calendar ELSE CalendarOf(day)

\* A time is given as its day, secCount / 86400, and the seconds of that day.
RTC_Get(secCount, clock) ==
  [calendar |-> CalendarAfter(clock.calendar, secCount.day),
   time     |-> TimeOf(secCount.secs)]

-----------------------------------------------------------------------------
(***************************************************************************)
(* The reference: the number of a date since 1970, without a loop.         *)
(***************************************************************************)
LeapsUntil(year) == year \div 4 - year \div 100 + year \div 400

DaysBeforeMonth == <<0, 31, 59, 90, 120, 151, 181, 212, 243, 273, 304, 334>>

DayNumber(c) ==
  365 * (c.w_year - 1970) + LeapsUntil(c.w_year - 1) - LeapsUntil(1969)
  + DaysBeforeMonth[c.w_month] + c.w_date - 1
  + IF LeapsUntil(c.w_year) > LeapsUntil(c.w_year - 1) /\ c.w_month > 2 THEN 1 ELSE 0

IsDate(c) == c.w_month \in 1 .. 12 /\ c.w_date \in 1 .. 31

\* The clock shows the second secs since 1970.  As long as only the first day was
\* given, dayCount was never another one and the calendar is still empty.
Shows(clock, secCount) ==
  /\ clock.time.hour * 3600 + clock.time.min * 60 + clock.time.sec = secCount.secs
  /\ clock.time.min < 60 /\ clock.time.sec < 60
  /\ \/ IsDate(clock.calendar) /\ DayNumber(clock.calendar) = secCount.day
     \/ clock.calendar = NoCalendar /\ secCount.day = 0
=============================================================================
