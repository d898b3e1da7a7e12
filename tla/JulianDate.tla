----------------------------- MODULE JulianDate -----------------------------
(***************************************************************************)
(* The calendar of the run times: JP_JulianDate numbers the days, and      *)
(* JP_CalendarDate finds the date of a number.  The DB2, Oracle and        *)
(* PostgreSQL run times each have a copy of both; TimeStamp reckons the    *)
(* clock of the server with the first.                                     *)
(*                                                                         *)
(* C divides towards zero and TLA+ downwards, which is the same here: from *)
(* the year 1 on nothing that is divided is negative.                      *)
(***************************************************************************)
EXTENDS Integers

\* The reference: the Gregorian calendar, also before there was one.
IsLeap(y) == y % 4 = 0 /\ (y % 100 # 0 \/ y % 400 = 0)

MonthLength(y, m) ==
  IF m \in {4, 6, 9, 11} THEN 30
  ELSE IF m # 2 THEN 31
  ELSE IF IsLeap(y) THEN 29 ELSE 28

IsDate(y, m, d) == y \in Nat /\ y >= 1 /\ m \in 1 .. 12 /\ d \in 1 .. MonthLength(y, m)

-----------------------------------------------------------------------------
\* The year that begins in March: its years and its months.
MarchYear(y, m) == IF m > 2 THEN y ELSE y - 1
MarchMonth(m) == IF m > 2 THEN m - 3 ELSE m + 9

\* The number before that of the first of March of the year 0.
Origin == 1721119

DaysBeforeCentury(century) == (146097 * century) \div 4
DaysBeforeYear(cy) == (1461 * cy) \div 4
DaysToDate(mm, day) == (153 * mm + 2) \div 5 + day

JP_JulianDate(year, month, day) ==
  LET y == MarchYear(IF year < 1 THEN 1 ELSE year, month)
      century == y \div 100
  IN DaysBeforeCentury(century) + DaysBeforeYear(y - 100 * century)
       + DaysToDate(MarchMonth(month), day) + Origin

\* The century of a count of quarter days, and the days into it; the year of a
\* day in its century, and the days to it; the month of a day in its year, and
\* its day there.
CenturyOf(quarters) == quarters \div 146097
DayOfCentury(quarters) == (quarters - 146097 * CenturyOf(quarters)) \div 4
YearOf(k) == (4 * k + 3) \div 1461
DayOfYear(k) == (4 * k + 3 - 1461 * YearOf(k) + 4) \div 4
MonthOf(n) == (5 * n - 3) \div 153
DayOfMonth(n) == (5 * n - 3 - 153 * MonthOf(n) + 5) \div 5

JP_CalendarDate(juldate) ==
  LET quarters == 4 * (juldate - Origin) - 1
      k == DayOfCentury(quarters)
      n == DayOfYear(k)
      year == 100 * CenturyOf(quarters) + YearOf(k)
  IN IF MonthOf(n) < 10 THEN <<year, MonthOf(n) + 3, DayOfMonth(n)>>
     ELSE <<year + 1, MonthOf(n) - 9, DayOfMonth(n)>>

-----------------------------------------------------------------------------
\* The clock of the server, in seconds from 1970 on, as TimeStamp puts it
\* together from a date and the seconds of that day: days and seconds are int,
\* and so is what is computed with them.
ServerSeconds(year, month, day, seconds) ==
  (JP_JulianDate(year, month, day) - JP_JulianDate(1970, 1, 1)) * (24 * 60 * 60) + seconds

FitsInt(number) == -2147483647 - 1 <= number /\ number <= 2147483647
=============================================================================
