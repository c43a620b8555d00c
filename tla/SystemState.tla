---------------------------- MODULE SystemState ----------------------------
(***************************************************************************)
(* The date of /system/state (switch-model/src/system.rs): date_and_time,  *)
(* which makes one of the seconds since 1970, and the calendar that it has *)
(* to agree with.                                                          *)
(***************************************************************************)
EXTENDS Integers

DaySeconds == 86400

\* Mutant of DateAndTime: January and February stay in the year that began in
\* March.
DateAndTimeOfMarch(days, secs) ==
    LET z == days + 719468
        era == z \div 146097
        doe == z - era * 146097
        yoe == (doe - doe \div 1460 + doe \div 36524 - doe \div 146096) \div 365
        doy == doe - (365 * yoe + yoe \div 4 - yoe \div 100)
        mp == (5 * doy + 2) \div 153
    IN  [ year |-> yoe + era * 400,
          month |-> IF mp < 10 THEN mp + 3 ELSE mp - 9,
          day |-> doy - (153 * mp + 2) \div 5 + 1,
          hour |-> secs \div 3600, minute |-> (secs \div 60) % 60, second |-> secs % 60 ]

\* date_and_time, of the whole days and the seconds of the day.  The years are
\* counted from March, in eras of 400 years.
DateAndTime(days, secs) ==
    LET z == days + 719468
        era == z \div 146097
        doe == z - era * 146097
        yoe == (doe - doe \div 1460 + doe \div 36524 - doe \div 146096) \div 365
        doy == doe - (365 * yoe + yoe \div 4 - yoe \div 100)
        mp == (5 * doy + 2) \div 153
        month == IF mp < 10 THEN mp + 3 ELSE mp - 9
    IN  [ year |-> yoe + era * 400 + (IF month <= 2 THEN 1 ELSE 0),
          month |-> month,
          day |-> doy - (153 * mp + 2) \div 5 + 1,
          hour |-> secs \div 3600, minute |-> (secs \div 60) % 60, second |-> secs % 60 ]

-----------------------------------------------------------------------------
(* The Gregorian calendar, by its rules. *)

Leap(y) == y % 4 = 0 /\ (y % 100 # 0 \/ y % 400 = 0)

\* The days of the years before y, from the year 1 on, and those between the
\* beginning of 1970 and of y.
DaysOfYearsBefore(y) ==
    365 * (y - 1) + (y - 1) \div 4 - (y - 1) \div 100 + (y - 1) \div 400

DaysBeforeYear(y) == DaysOfYearsBefore(y) - DaysOfYearsBefore(1970)

LeapDay(y) == IF Leap(y) THEN 1 ELSE 0

MonthDays(y, m) ==
    IF m = 2 THEN 28 + LeapDay(y) ELSE IF m \in {4, 6, 9, 11} THEN 30 ELSE 31

\* The days of year y before month m.
DaysBeforeMonth(y, m) ==
    (<<0, 31, 59, 90, 120, 151, 181, 212, 243, 273, 304, 334>>)[m]
        + (IF m > 2 THEN LeapDay(y) ELSE 0)

\* A date that the calendar has.
IsDate(d) ==
    /\ d.month \in 1..12
    /\ d.day \in 1..MonthDays(d.year, d.month)
    /\ d.hour \in 0..23 /\ d.minute \in 0..59 /\ d.second \in 0..59

\* The days from 1970-01-01 to a date, and the seconds of its day.
DaysOf(d) == DaysBeforeYear(d.year) + DaysBeforeMonth(d.year, d.month) + d.day - 1

SecondsOf(d) == 3600 * d.hour + 60 * d.minute + d.second

\* The date is the one whose days and seconds are the clock's.
IsClock(d, days, secs) == IsDate(d) /\ DaysOf(d) = days /\ SecondsOf(d) = secs
=============================================================================
