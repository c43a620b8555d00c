------------------------- MODULE SystemStateProofs -------------------------
(***************************************************************************)
(* Theorem DateIsClock: the date that date_and_time makes is the calendar's*)
(* for every clock.  The lemmas follow the algorithm: the year of an era   *)
(* (YearOfEra), the month of a year that begins in March (MonthOfYear), and*)
(* where such years and months begin in the calendar (MarchYears,          *)
(* MarchMonths).                                                           *)
(***************************************************************************)
EXTENDS SystemState, TLAPS

(* The steps of date_and_time.  An era has 400 years, which begin in March. *)

YearOf(doe) ==
    (doe - (doe \div 1460) + (doe \div 36524) - (doe \div 146096)) \div 365

DaysOfEraBefore(y) == 365 * y + (y \div 4) - (y \div 100)

DayOfYear(doe) == doe - DaysOfEraBefore(YearOf(doe))

MonthOf(doy) == (5 * doy + 2) \div 153

DaysFromMarch(mp) == (153 * mp + 2) \div 5

DayOfMonth(doy) == doy - DaysFromMarch(MonthOf(doy)) + 1

\* The year that date_and_time finds for a day of an era is the one that the day
\* is in, and the year has a 366th day only if its February is of a leap year.
LEMMA YearOfEra ==
    ASSUME NEW doe \in Int, 0 <= doe, doe <= 146096
    PROVE  /\ YearOf(doe) \in Int /\ DayOfYear(doe) \in Int
           /\ 0 <= YearOf(doe) /\ YearOf(doe) <= 399
           /\ 0 <= DayOfYear(doe) /\ DayOfYear(doe) <= 365
           /\ DayOfYear(doe) = 365
                => /\ (YearOf(doe) + 1) % 4 = 0
                   /\ (YearOf(doe) + 1) % 100 # 0 \/ YearOf(doe) = 399
<1>1. PICK a \in Int, b \in Int, c \in Int :
         a = doe \div 1460 /\ b = doe \div 36524 /\ c = doe \div 146096
  BY SMT
<1>2. PICK y \in Int : y = (doe - a + b - c) \div 365
  BY SMT
<1>3. PICK doy \in Int : doy = doe - (365 * y + (y \div 4) - (y \div 100))
  BY SMT
<1>4. 0 <= y /\ y <= 399 /\ 0 <= doy /\ doy <= 365
  BY <1>1, <1>2, <1>3, SMTT(30)
<1>5. doy = 365 => (y + 1) % 4 = 0 /\ ((y + 1) % 100 # 0 \/ y = 399)
  BY <1>1, <1>2, <1>3, <1>4, SMTT(30)
<1>6. YearOf(doe) = y
  BY <1>1, <1>2 DEF YearOf
<1>7. DayOfYear(doe) = doy
  BY <1>3, <1>6 DEF DayOfYear, DaysOfEraBefore
<1> QED
  BY <1>4, <1>5, <1>6, <1>7

\* The month that date_and_time finds for a day of the year is one of twelve, and
\* the day is not beyond its end; February has a 29th only as day 366.
LEMMA MonthOfYear ==
    ASSUME NEW doy \in Int, 0 <= doy, doy <= 365
    PROVE  /\ MonthOf(doy) \in Int /\ DayOfMonth(doy) \in Int
           /\ 0 <= MonthOf(doy) /\ MonthOf(doy) <= 11
           /\ 1 <= DayOfMonth(doy) /\ DayOfMonth(doy) <= 31
           /\ MonthOf(doy) \in {1, 3, 6, 8} => DayOfMonth(doy) <= 30
           /\ MonthOf(doy) = 11
                => DayOfMonth(doy) <= 29 /\ (DayOfMonth(doy) = 29 => doy = 365)
<1>1. PICK mp \in Int : mp = (5 * doy + 2) \div 153
  BY SMT
<1>2. PICK day \in Int : day = doy - ((153 * mp + 2) \div 5) + 1
  BY SMT
<1>3. 0 <= mp /\ mp <= 11 /\ 1 <= day /\ day <= 31
  BY <1>1, <1>2, SMTT(30)
<1>4. mp \in {1, 3, 6, 8} => day <= 30
  BY <1>1, <1>2, <1>3, SMTT(30)
<1>5. mp = 11 => day <= 29 /\ (day = 29 => doy = 365)
  BY <1>1, <1>2, <1>3, SMTT(30)
<1>6. MonthOf(doy) = mp
  BY <1>1 DEF MonthOf
<1>7. DayOfMonth(doy) = day
  BY <1>2, <1>6 DEF DayOfMonth, DaysFromMarch
<1> QED
  BY <1>3, <1>4, <1>5, <1>6, <1>7

\* Where a year that begins in March begins in the calendar: its January and
\* February are those of the next year.
LEMMA MarchYears ==
    ASSUME NEW era \in Int, NEW y \in Int, 0 <= y, y <= 399, NEW n \in Int, n = 400 * era + y
    PROVE  LET first == 146097 * era + DaysOfEraBefore(y) - 719468
           IN  /\ first \in Int
               /\ DaysBeforeYear(n) + LeapDay(n) + 59 = first
               /\ DaysBeforeYear(n + 1) - 306 = first
<1>1. PICK leaps \in Int : leaps = (y \div 4) - (y \div 100)
  BY SMT
<1>2. n \div 4 = 100 * era + (y \div 4) /\ n \div 100 = 4 * era + (y \div 100) /\ n \div 400 = era
  BY SMTT(30)
<1>3. (n \div 4) - (n \div 100) + (n \div 400) = 97 * era + leaps
  BY <1>1, <1>2, SMT
<1>4. PICK first \in Int : first = 146097 * era + 365 * y + leaps - 719468
  BY SMT
<1>5. first = 146097 * era + DaysOfEraBefore(y) - 719468
  BY <1>1, <1>4, SMT DEF DaysOfEraBefore
<1>6. DaysOfYearsBefore(1970) = 719162
  BY SMT DEF DaysOfYearsBefore
<1>7. DaysBeforeYear(n + 1) - 306 = first
  BY <1>3, <1>4, <1>6, SMT DEF DaysOfYearsBefore, DaysBeforeYear
<1>8. DaysBeforeYear(n) + LeapDay(n) + 59 = first
  <2>1. PICK before \in Int : before = DaysOfYearsBefore(n)
    BY SMT DEF DaysOfYearsBefore
  <2>2. PICK leap \in Int : leap = LeapDay(n)
    BY SMT DEF LeapDay
  <2>3. before + leap = 365 * (n - 1) + (n \div 4) - (n \div 100) + (n \div 400)
    BY <2>1, <2>2, SMTT(30) DEF DaysOfYearsBefore, Leap, LeapDay
  <2>4. before - 719162 + leap + 59 = first
    BY <2>3, <1>3, <1>4, SMT
  <2> QED
    BY <2>1, <2>2, <2>4, <1>6 DEF DaysBeforeYear
<1> QED
  BY <1>5, <1>7, <1>8

\* Where a month, counted from March, begins in the calendar's year.
LEMMA MarchMonths ==
    ASSUME NEW y \in Int, NEW mp \in Int, 0 <= mp, mp <= 11
    PROVE  /\ DaysFromMarch(mp) \in Int
           /\ mp < 10 => DaysBeforeMonth(y, mp + 3) = DaysFromMarch(mp) + 59 + LeapDay(y)
           /\ mp >= 10 => DaysBeforeMonth(y, mp - 9) = DaysFromMarch(mp) - 306
  BY SMTT(30) DEF DaysBeforeMonth, DaysFromMarch, LeapDay

\* The hours, minutes and seconds are those of a day.
LEMMA TimeOfDay ==
    ASSUME NEW secs \in Int, 0 <= secs, secs < DaySeconds
    PROVE  /\ secs \div 3600 \in 0..23 /\ (secs \div 60) % 60 \in 0..59 /\ secs % 60 \in 0..59
           /\ 3600 * (secs \div 3600) + 60 * ((secs \div 60) % 60) + (secs % 60) = secs
<1>1. PICK n \in Int, s \in Int : n = secs \div 60 /\ s = secs % 60
  BY SMT
<1>2. 0 <= n /\ n < 1440 /\ secs = 60 * n + s /\ 0 <= s /\ s <= 59
  BY <1>1, SMTT(30) DEF DaySeconds
<1>3. PICK h \in Int, m \in Int : h = secs \div 3600 /\ m = n % 60
  BY SMT
<1>4. h = n \div 60
  BY <1>2, <1>3, SMTT(30)
<1>5. n = 60 * h + m /\ 0 <= m /\ m <= 59 /\ 0 <= h /\ h <= 23
  BY <1>2, <1>3, <1>4, SMTT(30)
<1>6. 3600 * h + 60 * m + s = secs
  BY <1>2, <1>5, SMT
<1>7. h \in 0..23 /\ m \in 0..59 /\ s \in 0..59
  BY <1>2, <1>5, SMT
<1> QED
  BY <1>1, <1>3, <1>6, <1>7

\* The date that /system/state tells (date_and_time) is, for every clock since
\* 1970, one that the Gregorian calendar has, and the days and seconds from the
\* epoch to it are the clock's: leap years, centuries and the ends of the months
\* included.
THEOREM DateIsClock ==
    ASSUME NEW days \in Nat, NEW secs \in Nat, secs < DaySeconds
    PROVE  IsClock(DateAndTime(days, secs), days, secs)
<1>1. PICK era \in Int : era = (days + 719468) \div 146097
  BY SMT
<1>2. PICK doe \in Int : doe = days + 719468 - era * 146097
  BY SMT
<1>3. 0 <= doe /\ doe <= 146096
  BY <1>1, <1>2, SMTT(30)
<1>4. PICK yoe \in Int, doy \in Int : yoe = YearOf(doe) /\ doy = DayOfYear(doe)
  BY <1>3, YearOfEra
<1>5. /\ 0 <= yoe /\ yoe <= 399 /\ 0 <= doy /\ doy <= 365
      /\ doy = 365 => (yoe + 1) % 4 = 0 /\ ((yoe + 1) % 100 # 0 \/ yoe = 399)
  BY <1>3, <1>4, YearOfEra
<1>6. PICK mp \in Int, day \in Int : mp = MonthOf(doy) /\ day = DayOfMonth(doy)
  BY <1>5, MonthOfYear
<1>7. /\ 0 <= mp /\ mp <= 11 /\ 1 <= day /\ day <= 31
      /\ mp \in {1, 3, 6, 8} => day <= 30
      /\ mp = 11 => day <= 29 /\ (day = 29 => doy = 365)
  BY <1>5, <1>6, MonthOfYear
<1>8. PICK month \in Int : month = IF mp < 10 THEN mp + 3 ELSE mp - 9
  BY SMT
<1>9. PICK year \in Int : year = yoe + era * 400 + (IF month <= 2 THEN 1 ELSE 0)
  BY SMT
<1>10. PICK h \in Int, m \in Int, s \in Int :
          h = secs \div 3600 /\ m = (secs \div 60) % 60 /\ s = secs % 60
  BY SMT
<1> DEFINE d == [year |-> year, month |-> month, day |-> day, hour |-> h, minute |-> m, second |-> s]
<1>11. DateAndTime(days, secs) = d
  <2>1. LET era1 == (days + 719468) \div 146097
            doe1 == days + 719468 - era1 * 146097
            mp1 == MonthOf(DayOfYear(doe1))
            month1 == IF mp1 < 10 THEN mp1 + 3 ELSE mp1 - 9
        IN  DateAndTime(days, secs)
              = [ year |-> YearOf(doe1) + era1 * 400 + (IF month1 <= 2 THEN 1 ELSE 0), month |-> month1,
                  day |-> DayOfMonth(DayOfYear(doe1)), hour |-> secs \div 3600,
                  minute |-> (secs \div 60) % 60, second |-> secs % 60 ]
    BY SMTT(60)
    DEF DateAndTime, YearOf, DayOfYear, DaysOfEraBefore, MonthOf, DaysFromMarch, DayOfMonth
  <2> QED
    BY <2>1, <1>1, <1>2, <1>4, <1>6, <1>8, <1>9, <1>10, SMTT(30)
<1>12. month >= 1 /\ month <= 12
  BY <1>7, <1>8, SMT
<1>13. day <= MonthDays(year, month)
  <2>1. CASE mp = 11
    <3>1. month = 2 /\ year = 400 * era + yoe + 1
      BY <2>1, <1>8, <1>9, SMT
    <3>2. day = 29 => LeapDay(year) = 1
      BY <2>1, <3>1, <1>5, <1>7, SMTT(30) DEF Leap, LeapDay
    <3> QED
      BY <2>1, <3>1, <3>2, <1>7, SMT DEF MonthDays, LeapDay
  <2>2. CASE mp # 11
    BY <2>2, <1>7, <1>8, SMT DEF MonthDays
  <2> QED
    BY <2>1, <2>2
<1>14. DaysBeforeYear(year) + DaysBeforeMonth(year, month) + day - 1 = days
  <2>1. PICK first \in Int : first = 146097 * era + DaysOfEraBefore(yoe) - 719468
    BY <1>5, MarchYears
  <2>2. days = first + doy
    BY <2>1, <1>2, <1>4, SMT DEF DayOfYear, DaysOfEraBefore
  <2>3. PICK march \in Int : march = DaysFromMarch(mp)
    BY <1>7, MarchMonths
  <2>4. doy = march + day - 1
    BY <2>3, <1>6, SMT DEF DayOfMonth
  <2>5. PICK n \in Int : n = 400 * era + yoe
    BY SMT
  <2>6. /\ DaysBeforeYear(n) + LeapDay(n) + 59 = first
        /\ DaysBeforeYear(n + 1) - 306 = first
    BY <2>1, <2>5, <1>5, MarchYears
  <2>7. CASE mp < 10
    <3>1. month = mp + 3 /\ year = n
      BY <2>5, <2>7, <1>7, <1>8, <1>9, SMT
    <3>2. PICK before \in Int, leap \in Int : before = DaysBeforeYear(n) /\ leap = LeapDay(n)
      BY SMT DEF DaysBeforeYear, DaysOfYearsBefore, LeapDay
    <3>3. DaysBeforeMonth(year, month) = march + 59 + leap
      BY <3>1, <3>2, <2>3, <2>7, <1>7, MarchMonths
    <3>4. before + leap + 59 = first
      BY <3>2, <2>6
    <3>5. before + (march + 59 + leap) + day - 1 = days
      BY <3>4, <2>2, <2>4, SMT
    <3> QED
      BY <3>1, <3>2, <3>3, <3>5, Zenon
  <2>8. CASE mp >= 10
    <3>1. month = mp - 9 /\ year = n + 1
      BY <2>5, <2>8, <1>7, <1>8, <1>9, SMT
    <3>2. PICK before \in Int : before = DaysBeforeYear(n + 1)
      BY SMT DEF DaysBeforeYear, DaysOfYearsBefore
    <3>3. DaysBeforeMonth(year, month) = march - 306
      BY <3>1, <2>3, <2>8, <1>7, MarchMonths
    <3>4. before - 306 = first
      BY <3>2, <2>6
    <3>5. before + (march - 306) + day - 1 = days
      BY <3>4, <2>2, <2>4, SMT
    <3> QED
      BY <3>1, <3>2, <3>3, <3>5, Zenon
  <2> QED
    BY <2>7, <2>8, SMT
<1>15. /\ h \in 0..23 /\ m \in 0..59 /\ s \in 0..59
       /\ 3600 * h + 60 * m + s = secs
  BY <1>10, TimeOfDay
<1>16. month \in 1..12 /\ day \in 1..MonthDays(year, month)
  <2>1. MonthDays(year, month) \in Int
    BY SMT DEF MonthDays, LeapDay
  <2> QED
    BY <2>1, <1>7, <1>12, <1>13, SMT
<1>17. IsDate(d)
  BY <1>15, <1>16 DEF IsDate
<1>18. DaysOf(d) = days /\ SecondsOf(d) = secs
  BY <1>14, <1>15 DEF DaysOf, SecondsOf
<1> QED
  BY <1>17, <1>18, <1>11 DEF IsClock
=============================================================================
