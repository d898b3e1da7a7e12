-------------------------- MODULE JulianDate_proofs --------------------------
(***************************************************************************)
(* The number of a day determines its date, and the next day has the next  *)
(* number, for every date from the first of January of the year 1.         *)
(***************************************************************************)
EXTENDS JulianDate, TLAPS

-----------------------------------------------------------------------------
(* There and back.  The number is taken apart in the order it was put      *)
(* together: the century out of the count, the year out of the century,    *)
(* the month out of the year.                                              *)

\* A day of a month, of a year and of a century, all counted from March: the
\* months 1, 3, 6 and 8 have 30 days, and every fourth February 29 but in the
\* last year of three centuries of four.
LongYear(c, cy) == cy % 4 = 3 /\ (cy # 99 \/ c % 4 = 3)

InMonth(c, cy, mm, d) ==
  /\ mm \in 0 .. 11 /\ d \in 1 .. 31
  /\ mm \in {1, 3, 6, 8} => d <= 30
  /\ mm = 11 => d <= (IF LongYear(c, cy) THEN 29 ELSE 28)

InYear(c, cy, n) == n \in 1 .. 366 /\ (n = 366 => LongYear(c, cy))

InCentury(c, k) == k \in Int /\ 0 <= k /\ k <= 36524 /\ (k = 36524 => c % 4 = 3)

LEMMA MonthAndBack ==
  ASSUME NEW c \in Nat, NEW cy \in 0 .. 99, NEW mm, NEW d, InMonth(c, cy, mm, d)
  PROVE  /\ InYear(c, cy, DaysToDate(mm, d))
         /\ MonthOf(DaysToDate(mm, d)) = mm
         /\ DayOfMonth(DaysToDate(mm, d)) = d
<1> DEFINE n == DaysToDate(mm, d)
<1>0. /\ mm \in 0 .. 11 /\ d \in 1 .. 31
      /\ mm \in {1, 3, 6, 8, 11} => d <= 30
      /\ mm = 11 => d <= (IF LongYear(c, cy) THEN 29 ELSE 28)
  BY DEF InMonth
<1>1. (153 * mm + 2) \div 5 \in 0 .. 337 /\ n = (153 * mm + 2) \div 5 + d
  BY <1>0 DEF DaysToDate
<1>2. MonthOf(n) = mm
  <2>1. 153 * mm <= 5 * n - 3 /\ 5 * n - 3 < 153 * mm + 153 /\ n \in Int
    BY <1>0, <1>1
  <2> HIDE DEF n
  <2>2. mm \in Int
    BY <1>0
  <2>3. QED
    BY ONLY <2>1, <2>2 DEF MonthOf
<1>3. (5 * n - 3 - 153 * mm + 5) \div 5 = d
  BY <1>0 DEF DaysToDate
<1>4. InYear(c, cy, n)
  BY <1>0, <1>1 DEF InYear
<1>5. QED
  BY <1>2, <1>3, <1>4 DEF DayOfMonth

\* The days of a century before the n-th of a year of it.
DaysBefore(cy, n) == DaysBeforeYear(cy) + n - 1

LEMMA YearAndBack ==
  ASSUME NEW c \in Nat, NEW cy \in 0 .. 99, NEW n, InYear(c, cy, n)
  PROVE  /\ InCentury(c, DaysBefore(cy, n))
         /\ YearOf(DaysBefore(cy, n)) = cy
         /\ DayOfYear(DaysBefore(cy, n)) = n
<1> DEFINE q == cy \div 4
           e == cy % 4
           k == DaysBefore(cy, n)
<1>0. n \in 1 .. 366 /\ (n = 366 => cy % 4 = 3 /\ (cy # 99 \/ c % 4 = 3))
  BY DEF InYear, LongYear
<1>1. q \in 0 .. 24 /\ e \in 0 .. 3 /\ cy = 4 * q + e
  OBVIOUS
<1>2. (1461 * cy) \div 4 = 1461 * q + 365 * e
  BY <1>1
<1>3. k = 1461 * q + 365 * e + n - 1
  BY <1>2 DEF DaysBefore, DaysBeforeYear
<1> HIDE DEF q, e, k
<1>4. n \in 1 .. 366 /\ (n = 366 => e = 3)
  BY <1>0 DEF e
\* What is left over of a year, in quarters of a day: less than 1461.
<1>5. 4 * k + 3 = 1461 * cy + (4 * n - 1 - e) /\ k \in Int /\ cy \in Int
  BY ONLY <1>1, <1>3, <1>4
<1>6. 0 <= 4 * n - 1 - e /\ 4 * n - 1 - e < 1461
  BY ONLY <1>1, <1>4
<1>7. YearOf(k) = cy
  <2>1. 1461 * cy <= 4 * k + 3 /\ 4 * k + 3 < 1461 * cy + 1461
    BY ONLY <1>1, <1>4, <1>5, <1>6
  <2>2. QED
    BY ONLY <1>5, <2>1 DEF YearOf
<1>8. DayOfYear(k) = n
  <2>1. 4 * k + 3 - 1461 * cy + 4 = 4 * n + (3 - e)
    BY ONLY <1>1, <1>4, <1>5
  <2>2. (4 * n + (3 - e)) \div 4 = n
    BY ONLY <1>1, <1>4
  <2>3. QED
    BY <1>7, <2>1, <2>2 DEF DayOfYear
<1>9. InCentury(c, k)
  <2> DEFINE r == 365 * e + n - 1
  <2>1. e = 0 \/ e = 1 \/ e = 2 \/ e = 3
    BY ONLY <1>1
  <2>2. r \in Int /\ 0 <= r /\ r <= 1460
    BY ONLY <1>4, <2>1
  <2>3. r = 1460 => n = 366
    BY ONLY <1>4, <2>1
  <2>4. k = 1461 * q + r /\ q \in Int /\ 0 <= q /\ q <= 24
    BY ONLY <1>1, <1>3, <1>4
  <2> HIDE DEF r
  <2>5. k \in Int /\ 0 <= k /\ k <= 36524
    BY ONLY <2>2, <2>4
  <2>6. k = 36524 => q = 24 /\ r = 1460
    BY ONLY <2>2, <2>4
  <2>7. n = 366 /\ q = 24 => c % 4 = 3
    BY <1>0, <1>1, <1>4
  <2>8. k = 36524 => c % 4 = 3
    BY ONLY <2>3, <2>6, <2>7
  <2>9. QED
    BY ONLY <2>5, <2>8 DEF InCentury
<1>10. QED
  BY <1>7, <1>8, <1>9 DEF k

\* Four times the days of the count before the k-th of a century, the next
\* day's quarter but one.
Quarters(c, k) == 4 * (DaysBeforeCentury(c) + k + 1) - 1

LEMMA CenturyAndBack ==
  ASSUME NEW c \in Nat, NEW k, InCentury(c, k)
  PROVE  CenturyOf(Quarters(c, k)) = c /\ DayOfCentury(Quarters(c, k)) = k
<1> DEFINE q == c \div 4
           e == c % 4
           quarters == Quarters(c, k)
<1>0. k \in Int /\ 0 <= k /\ k <= 36524 /\ (k = 36524 => c % 4 = 3)
  BY DEF InCentury
<1>1. q \in Nat /\ e \in 0 .. 3 /\ c = 4 * q + e
  OBVIOUS
<1>2. (146097 * c) \div 4 = 146097 * q + 36524 * e
  BY <1>1
<1>3. quarters = 146097 * c - e + 4 * k + 3
  BY <1>0, <1>1, <1>2 DEF Quarters, DaysBeforeCentury
<1>4. CenturyOf(quarters) = c
  <2>1. 146097 * c <= quarters /\ quarters < 146097 * c + 146097 /\ quarters \in Int
    BY <1>0, <1>1, <1>3
  <2> HIDE DEF quarters
  <2>2. QED
    BY ONLY c \in Int, <2>1 DEF CenturyOf
<1>5. (quarters - 146097 * c) \div 4 = k
  BY <1>0, <1>1, <1>3
<1> HIDE DEF quarters
<1>6. DayOfCentury(quarters) = k
  BY <1>4, <1>5 DEF DayOfCentury
<1>7. QED
  BY <1>4, <1>6 DEF quarters

\* The date, counted from January, of a day counted from March.
DateOf(c, cy, mm, d) == IF mm < 10 THEN <<100 * c + cy, mm + 3, d>>
                                   ELSE <<100 * c + cy + 1, mm - 9, d>>

LEMMA MarchYearAndBack ==
  ASSUME NEW c \in Nat, NEW cy \in 0 .. 99, NEW mm, NEW d, InMonth(c, cy, mm, d)
  PROVE  JP_CalendarDate(DaysBeforeCentury(c) + DaysBeforeYear(cy)
                           + DaysToDate(mm, d) + Origin) = DateOf(c, cy, mm, d)
<1> DEFINE n == DaysToDate(mm, d)
           k == DaysBefore(cy, n)
           jul == DaysBeforeCentury(c) + DaysBeforeYear(cy) + n + Origin
<1> HIDE DEF n, k, jul
<1>1. InYear(c, cy, n) /\ MonthOf(n) = mm /\ DayOfMonth(n) = d
  <2>1. /\ InYear(c, cy, DaysToDate(mm, d))
        /\ MonthOf(DaysToDate(mm, d)) = mm
        /\ DayOfMonth(DaysToDate(mm, d)) = d
    BY SMTT(60), MonthAndBack
  <2>2. QED
    BY <2>1, Zenon DEF n
<1>2. InCentury(c, k) /\ YearOf(k) = cy /\ DayOfYear(k) = n
  <2>1. /\ InCentury(c, DaysBefore(cy, n))
        /\ YearOf(DaysBefore(cy, n)) = cy
        /\ DayOfYear(DaysBefore(cy, n)) = n
    BY <1>1, YearAndBack
  <2>2. QED
    BY <2>1, Zenon DEF k
<1>3. CenturyOf(Quarters(c, k)) = c /\ DayOfCentury(Quarters(c, k)) = k
  BY <1>2, CenturyAndBack
<1>4. 4 * (jul - Origin) - 1 = Quarters(c, k)
  <2>1. DaysBeforeCentury(c) \in Int /\ DaysBeforeYear(cy) \in Int /\ Origin \in Int
    BY SMT DEF DaysBeforeCentury, DaysBeforeYear, Origin
  <2>2. n \in Int
    BY <1>1 DEF InYear
  <2>3. QED
    BY <2>1, <2>2 DEF DaysBefore, Quarters, k, jul
<1>5. JP_CalendarDate(jul) = DateOf(c, cy, mm, d)
  BY <1>1, <1>2, <1>3, <1>4, Zenon DEF JP_CalendarDate, DateOf
<1>6. QED
  BY <1>5, Zenon DEF jul, n

LEMMA LeapFebruary ==
  ASSUME NEW y \in Nat, NEW c \in Nat, NEW cy \in 0 .. 99, y = 100 * c + cy
  PROVE  IsLeap(y + 1) <=> LongYear(c, cy)
<1>1. (y + 1) % 4 = 0 <=> cy % 4 = 3
  OBVIOUS
<1>2. (y + 1) % 100 = 0 <=> cy = 99
  OBVIOUS
<1>3. cy = 99 => ((y + 1) % 400 = 0 <=> c % 4 = 3)
  OBVIOUS
<1>4. QED
  BY <1>1, <1>2, <1>3 DEF IsLeap, LongYear

\* A year by its century and its place there, which JP_JulianDate adds up.
LEMMA YearInCentury ==
  ASSUME NEW y \in Nat
  PROVE  /\ y \div 100 \in Nat
         /\ y - 100 * (y \div 100) \in 0 .. 99
         /\ y = 100 * (y \div 100) + (y - 100 * (y \div 100))
OBVIOUS

\* A date in the parts JP_JulianDate adds up: of March years, in centuries.
InParts(y, m, d, c, cy, mm) ==
  /\ c \in Nat /\ cy \in 0 .. 99 /\ InMonth(c, cy, mm, d)
  /\ MarchYear(y, m) = 100 * c + cy /\ MarchMonth(m) = mm
  /\ JP_JulianDate(y, m, d)
       = DaysBeforeCentury(c) + DaysBeforeYear(cy) + DaysToDate(mm, d) + Origin

LEMMA DateInParts ==
  ASSUME NEW y \in Nat, NEW m \in 1 .. 12, NEW d \in Nat, IsDate(y, m, d)
  PROVE  \E c \in Nat, cy \in 0 .. 99, mm \in 0 .. 11 : InParts(y, m, d, c, cy, mm)
<1> DEFINE yy == MarchYear(y, m)
           mm == MarchMonth(m)
           c == yy \div 100
           cy == yy - 100 * c
<1>1. y >= 1 /\ d \in 1 .. MonthLength(y, m) /\ MonthLength(y, m) \in 28 .. 31
  BY DEF IsDate, MonthLength
<1>2. yy \in Nat /\ mm \in 0 .. 11
  BY <1>1 DEF MarchYear, MarchMonth
<1>3. JP_JulianDate(y, m, d)
        = DaysBeforeCentury(c) + DaysBeforeYear(cy) + DaysToDate(mm, d) + Origin
  <2>1. (IF y < 1 THEN 1 ELSE y) = y
    BY <1>1
  <2>2. QED
    BY <2>1 DEF JP_JulianDate
<1>4. d \in 1 .. 31 /\ (mm \in {1, 3, 6, 8} => d <= 30)
  BY <1>1 DEF MonthLength, MarchMonth
<1>5. mm = 11 => m = 2 /\ yy + 1 = y
  BY <1>1 DEF MarchMonth, MarchYear
<1> HIDE DEF yy, mm
<1>6. c \in Nat /\ cy \in 0 .. 99 /\ yy = 100 * c + cy
  BY <1>2, YearInCentury
<1> HIDE DEF c, cy
<1>7. InMonth(c, cy, mm, d)
  <2>1. IsLeap(yy + 1) <=> LongYear(c, cy)
    BY <1>2, <1>6, LeapFebruary, Zenon
  <2>2. mm = 11 => d <= (IF LongYear(c, cy) THEN 29 ELSE 28)
    BY <1>1, <1>5, <2>1 DEF MonthLength
  <2>3. QED
    BY <1>2, <1>4, <2>2 DEF InMonth
<1>8. InParts(y, m, d, c, cy, mm)
  BY <1>3, <1>6, <1>7, Zenon DEF InParts, yy, mm
<1>9. QED
  BY <1>2, <1>6, <1>8, Zenon

\* The number of a date determines the date: JP_CalendarDate finds the one
\* JP_JulianDate was given, on the last of February too.
THEOREM DateOfNumber ==
  ASSUME NEW y \in Nat, NEW m \in 1 .. 12, NEW d \in Nat, IsDate(y, m, d)
  PROVE  JP_CalendarDate(JP_JulianDate(y, m, d)) = <<y, m, d>>
<1>1. PICK c \in Nat, cy \in 0 .. 99, mm \in 0 .. 11 : InParts(y, m, d, c, cy, mm)
  BY DateInParts
<1>2. JP_CalendarDate(JP_JulianDate(y, m, d)) = DateOf(c, cy, mm, d)
  <2>1. InMonth(c, cy, mm, d)
    BY <1>1 DEF InParts
  <2>2. JP_CalendarDate(DaysBeforeCentury(c) + DaysBeforeYear(cy)
                          + DaysToDate(mm, d) + Origin) = DateOf(c, cy, mm, d)
    BY <2>1, MarchYearAndBack
  <2>3. QED
    BY <1>1, <2>2, Zenon DEF InParts
<1>3. DateOf(c, cy, mm, d) = <<y, m, d>>
  <2>1. MarchYear(y, m) = 100 * c + cy /\ MarchMonth(m) = mm
    BY <1>1 DEF InParts
  <2>2. CASE m > 2
    BY <2>1, <2>2 DEF DateOf, MarchYear, MarchMonth
  <2>3. CASE ~(m > 2)
    BY <2>1, <2>3 DEF DateOf, MarchYear, MarchMonth
  <2>4. QED
    BY <2>2, <2>3
<1>4. QED
  BY <1>2, <1>3

-----------------------------------------------------------------------------
(* The next day.                                                           *)

NextDate(y, m, d) ==
  IF d < MonthLength(y, m) THEN <<y, m, d + 1>>
  ELSE IF m < 12 THEN <<y, m + 1, 1>> ELSE <<y + 1, 1, 1>>

LEMMA DaysAreNumbers ==
  ASSUME NEW c \in Int, NEW mm \in Int, NEW d \in Int
  PROVE  /\ DaysBeforeCentury(c) \in Int
         /\ DaysBeforeYear(c) \in Int
         /\ DaysToDate(mm, d) \in Int
BY SMT DEF DaysBeforeCentury, DaysBeforeYear, DaysToDate

LEMMA NextOfMonth ==
  /\ \A mm \in Int, d \in Int : DaysToDate(mm, d + 1) = DaysToDate(mm, d) + 1
  /\ \A mm \in {1, 3, 6, 8} : DaysToDate(mm + 1, 1) = DaysToDate(mm, 30) + 1
  /\ \A mm \in {0, 2, 4, 5, 7, 9, 10} : DaysToDate(mm + 1, 1) = DaysToDate(mm, 31) + 1
  /\ DaysToDate(0, 1) = 1
  /\ \A d \in Int : DaysToDate(11, d) = 337 + d
<1>1. \A mm \in Int, d \in Int : DaysToDate(mm, d + 1) = DaysToDate(mm, d) + 1
  BY SMT DEF DaysToDate
<1>2. QED
  BY <1>1, SMT DEF DaysToDate

LEMMA YearLength ==
  ASSUME NEW r \in Nat, r >= 1
  PROVE  DaysBeforeYear(r) = DaysBeforeYear(r - 1) + (IF r % 4 = 0 THEN 366 ELSE 365)
<1> DEFINE q == r \div 4
           k == r % 4
<1>1. q \in Nat /\ k \in 0 .. 3 /\ r = 4 * q + k
  BY SMT
<1>2. (1461 * r) \div 4 = 1461 * q + 365 * k
  BY SMT, <1>1
<1>3. k # 0 => (1461 * (r - 1)) \div 4 = 1461 * q + 365 * (k - 1)
  BY SMT, <1>1
<1>4. k = 0 => (1461 * (r - 1)) \div 4 = 1461 * q - 366
  BY SMT, <1>1
<1> HIDE DEF q
<1>5. QED
  BY SMT, <1>1, <1>2, <1>3, <1>4 DEF DaysBeforeYear

LEMMA CenturyLength ==
  ASSUME NEW c \in Nat, c >= 1
  PROVE  DaysBeforeCentury(c)
           = DaysBeforeCentury(c - 1) + (IF c % 4 = 0 THEN 36525 ELSE 36524)
<1> DEFINE q == c \div 4
           k == c % 4
<1>1. q \in Nat /\ k \in 0 .. 3 /\ c = 4 * q + k
  BY SMT
<1>2. (146097 * c) \div 4 = 146097 * q + 36524 * k
  BY SMT, <1>1
<1>3. k # 0 => (146097 * (c - 1)) \div 4 = 146097 * q + 36524 * (k - 1)
  BY SMT, <1>1
<1>4. k = 0 => (146097 * (c - 1)) \div 4 = 146097 * q - 36525
  BY SMT, <1>1
<1> HIDE DEF q
<1>5. QED
  BY SMT, <1>1, <1>2, <1>3, <1>4 DEF DaysBeforeCentury

\* The first of March comes after the last of February, in every kind of year.
LEMMA FirstOfMarch ==
  ASSUME NEW y \in Nat, y >= 1
  PROVE  JP_JulianDate(y, 3, 1) = JP_JulianDate(y, 2, MonthLength(y, 2)) + 1
<1> DEFINE c == y \div 100
           r == y - 100 * c
           e == (y - 1) \div 100
           s == (y - 1) - 100 * e
           len == MonthLength(y, 2)
<1>1. c \in Nat /\ r \in 0 .. 99 /\ y = 100 * c + r
  BY SMT
<1>2. e \in Nat /\ s \in 0 .. 99 /\ y - 1 = 100 * e + s
  BY SMT
<1>3. (IF y < 1 THEN 1 ELSE y) = y /\ MarchYear(y, 3) = y /\ MarchMonth(3) = 0
      /\ MarchYear(y, 2) = y - 1 /\ MarchMonth(2) = 11
  BY SMT DEF MarchYear, MarchMonth
<1>4. JP_JulianDate(y, 3, 1)
        = DaysBeforeCentury(c) + DaysBeforeYear(r) + DaysToDate(0, 1) + Origin
  BY <1>3, Zenon DEF JP_JulianDate
<1>5. JP_JulianDate(y, 2, len)
        = DaysBeforeCentury(e) + DaysBeforeYear(s) + DaysToDate(11, len) + Origin
  BY <1>3, Zenon DEF JP_JulianDate
<1>6. len = IF IsLeap(y) THEN 29 ELSE 28
  BY SMT DEF MonthLength
<1>7. DaysToDate(0, 1) = 1 /\ DaysToDate(11, len) = 337 + len
  BY SMT, <1>6, NextOfMonth
<1>8. Origin \in Int
  BY SMT DEF Origin
<1>9. CASE r # 0
  <2>1. e = c /\ s = r - 1
    BY SMT, <1>1, <1>2, <1>9
  <2>2. IsLeap(y) <=> r % 4 = 0
    <3>1. y % 4 = r % 4
      BY SMT, <1>1
    <3>2. y % 100 # 0
      BY SMT, <1>1, <1>9
    <3>3. QED
      BY <3>1, <3>2 DEF IsLeap
  <2>3. DaysBeforeYear(r) = DaysBeforeYear(r - 1) + (IF r % 4 = 0 THEN 366 ELSE 365)
    BY SMT, <1>1, <1>9, YearLength
  <2>4. DaysBeforeCentury(c) \in Int /\ DaysBeforeYear(r - 1) \in Int
    BY SMT, <1>1, DaysAreNumbers
  <2> HIDE DEF c, r, e, s, len
  <2>5. QED
    BY SMT, <1>4, <1>5, <1>6, <1>7, <1>8, <2>1, <2>2, <2>3, <2>4 DEF len
<1>10. CASE r = 0
  <2>1. c >= 1 /\ e = c - 1 /\ s = 99
    BY SMT, <1>1, <1>2, <1>10
  <2>2. IsLeap(y) <=> c % 4 = 0
    <3>1. y % 4 = 0 /\ y % 100 = 0 /\ (y % 400 = 0 <=> c % 4 = 0)
      BY SMT, <1>1, <1>10
    <3>2. QED
      BY <3>1 DEF IsLeap
  <2>3. DaysBeforeCentury(c)
          = DaysBeforeCentury(c - 1) + (IF c % 4 = 0 THEN 36525 ELSE 36524)
    BY SMT, <1>1, <2>1, CenturyLength
  <2>4. DaysBeforeYear(0) = 0 /\ DaysBeforeYear(99) = 36159
    BY SMT DEF DaysBeforeYear
  <2>5. DaysBeforeCentury(c - 1) \in Int
    BY SMT, <1>1, DaysAreNumbers
  <2> HIDE DEF c, r, e, s, len
  <2>6. QED
    BY SMT, <1>4, <1>5, <1>6, <1>7, <1>8, <1>10, <2>1, <2>2, <2>3, <2>4, <2>5 DEF len
<1>11. QED
  BY <1>9, <1>10

\* The next day has the next number, within a month, from the last of a month
\* to the first of the next, and over the end of February and of every century.
THEOREM NextNumber ==
  ASSUME NEW y \in Nat, NEW m \in 1 .. 12, NEW d \in Nat, IsDate(y, m, d)
  PROVE  JP_JulianDate(NextDate(y, m, d)[1], NextDate(y, m, d)[2], NextDate(y, m, d)[3])
           = JP_JulianDate(y, m, d) + 1
<1>1. y >= 1 /\ d \in 1 .. MonthLength(y, m) /\ MonthLength(y, m) \in 28 .. 31
  BY SMT DEF IsDate, MonthLength
<1> DEFINE yy == MarchYear(y, m)
           mm == MarchMonth(m)
           c == yy \div 100
           cy == yy - 100 * c
           first == DaysBeforeCentury(c) + DaysBeforeYear(cy)
<1>2. yy \in Nat /\ mm \in 0 .. 11
  BY SMT, <1>1 DEF MarchYear, MarchMonth
<1>3. \A day : JP_JulianDate(y, m, day) = first + DaysToDate(mm, day) + Origin
  <2>1. (IF y < 1 THEN 1 ELSE y) = y
    BY SMT, <1>1
  <2>2. QED
    BY <2>1, Zenon DEF JP_JulianDate
<1>4. first \in Int /\ Origin \in Int /\ \A day \in Int : DaysToDate(mm, day) \in Int
  <2> HIDE DEF yy, mm
  <2>1. c \in Int /\ cy \in Int
    BY SMT, <1>2
  <2> HIDE DEF c, cy
  <2>2. QED
    BY SMT, <1>2, <2>1, DaysAreNumbers DEF Origin
<1>5. CASE d < MonthLength(y, m)
  <2>1. NextDate(y, m, d) = <<y, m, d + 1>>
    BY SMT, <1>5 DEF NextDate
  <2> HIDE DEF mm, first
  <2>2. JP_JulianDate(y, m, d + 1) = JP_JulianDate(y, m, d) + 1
    BY SMTT(30), <1>2, <1>3, <1>4, NextOfMonth
  <2>3. QED
    BY SMT, <2>1, <2>2
<1>6. CASE d = MonthLength(y, m) /\ m = 2
  <2>1. NextDate(y, m, d) = <<y, 3, 1>>
    BY SMT, <1>6 DEF NextDate
  <2>2. JP_JulianDate(y, 3, 1) = JP_JulianDate(y, m, d) + 1
    BY <1>1, <1>6, FirstOfMarch, Zenon
  <2>3. QED
    BY SMT, <2>1, <2>2
<1>7. CASE d = MonthLength(y, m) /\ m # 2
  <2> DEFINE ny == IF m = 12 THEN y + 1 ELSE y
             nm == IF m = 12 THEN 1 ELSE m + 1
  <2>1. NextDate(y, m, d) = <<ny, nm, 1>>
    BY SMT, <1>7 DEF NextDate
  <2>2. MarchYear(ny, nm) = yy /\ MarchMonth(nm) = mm + 1 /\ ny >= 1
    BY SMT, <1>1, <1>7 DEF MarchYear, MarchMonth
  <2>3. JP_JulianDate(ny, nm, 1) = first + DaysToDate(mm + 1, 1) + Origin
    <3>1. (IF ny < 1 THEN 1 ELSE ny) = ny
      BY SMT, <2>2
    <3> HIDE DEF ny, nm, yy, mm
    <3>2. QED
      BY <2>2, <3>1, Zenon DEF JP_JulianDate
  <2>4. \/ mm \in {1, 3, 6, 8} /\ d = 30
        \/ mm \in {0, 2, 4, 5, 7, 9, 10} /\ d = 31
    BY SMT, <1>7 DEF MarchMonth, MonthLength
  <2> HIDE DEF ny, nm, mm, first
  <2>5. DaysToDate(mm + 1, 1) = DaysToDate(mm, d) + 1
    BY <2>4, NextOfMonth, ZenonT(40)
  <2>6. QED
    BY SMT, <1>3, <1>4, <2>1, <2>3, <2>5
<1>8. QED
  BY SMT, <1>1, <1>5, <1>6, <1>7
-----------------------------------------------------------------------------
(* Back and there: every number is that of a date.  Each part that is      *)
(* taken out of the number leaves a remainder that fits the next.          *)

LEMMA CenturyForth ==
  ASSUME NEW t \in Int, NEW quarters \in Int, t >= 1, quarters = 4 * t - 1
  PROVE  LET c == CenturyOf(quarters)
             k == DayOfCentury(quarters)
         IN  /\ c \in Nat /\ InCentury(c, k)
             /\ DaysBeforeCentury(c) + k + 1 = t
<1> DEFINE c == CenturyOf(quarters)
           k == DayOfCentury(quarters)
           w == quarters - 146097 * c
<1>1. c \in Nat /\ w \in Int /\ 0 <= w /\ w <= 146096
  BY SMTT(30) DEF CenturyOf
<1>2. k = w \div 4
  BY SMT DEF DayOfCentury
<1> DEFINE q == c \div 4
           e == c % 4
<1>3. w = 4 * t - 1 - 146097 * c
  BY SMT
<1> HIDE DEF c, k, w
<1>4. q \in Nat /\ e \in 0 .. 3 /\ c = 4 * q + e
  BY <1>1, SMT
<1>5. DaysBeforeCentury(c) = 146097 * q + 36524 * e
  BY <1>1, <1>4, SMT DEF DaysBeforeCentury
<1> HIDE DEF q
\* What is left over is three quarters of a day less those of the century.
<1>6. w = 4 * k + (3 - e) /\ k \in Int
  <2>1. w = 4 * (t - 1 - 146097 * q - 36524 * e) + (3 - e)
    BY <1>3, <1>4, SMT
  <2> DEFINE x == t - 1 - 146097 * q - 36524 * e
  <2>2. x \in Int /\ e \in 0 .. 3
    BY <1>4, SMT
  <2> HIDE DEF x, e
  <2>3. (4 * x + (3 - e)) \div 4 = x
    BY ONLY <2>2, SMT
  <2>4. QED
    BY ONLY <1>2, <2>1, <2>2, <2>3, SMT DEF x
<1>7. /\ k \in Int /\ 0 <= k /\ k <= 36524 /\ (k = 36524 => e = 3)
      /\ 146097 * q + 36524 * e + k + 1 = t
  <2> HIDE DEF e
  <2>1. QED
    BY ONLY <1>1, <1>3, <1>4, <1>6, t \in Int, SMT
<1>8. InCentury(c, k)
  BY <1>7, SMT DEF InCentury
<1>9. DaysBeforeCentury(c) + k + 1 = t
  BY <1>5, <1>7
<1>10. QED
  BY <1>1, <1>8, <1>9 DEF c, k

LEMMA YearForth ==
  ASSUME NEW c \in Nat, NEW k, InCentury(c, k)
  PROVE  LET cy == YearOf(k)
             n == DayOfYear(k)
         IN  cy \in 0 .. 99 /\ InYear(c, cy, n) /\ DaysBefore(cy, n) = k
<1> DEFINE cy == YearOf(k)
           n == DayOfYear(k)
           u == 4 * k + 3 - 1461 * cy
<1>1. k \in Int /\ 0 <= k /\ k <= 36524 /\ (k = 36524 => c % 4 = 3)
  BY DEF InCentury
<1>2. cy \in 0 .. 99 /\ u \in Int /\ 0 <= u /\ u <= 1460
  BY <1>1, SMTT(30) DEF YearOf
<1>3. n = (u + 4) \div 4
  BY Zenon DEF DayOfYear
<1>4. u = 4 * k + 3 - 1461 * cy
  OBVIOUS
<1> DEFINE q == cy \div 4
           e == cy % 4
<1> HIDE DEF cy, n, u
<1>5. q \in 0 .. 24 /\ e \in 0 .. 3 /\ cy = 4 * q + e
  BY <1>2, SMT
<1>6. DaysBeforeYear(cy) = 1461 * q + 365 * e
  BY <1>2, <1>5, SMT DEF DaysBeforeYear
<1>7. e = 3 <=> cy % 4 = 3
  OBVIOUS
<1> HIDE DEF q, e
<1>8. u = 4 * (n - 1) + (3 - e) /\ n \in Int
  <2> DEFINE x == k - 1461 * q - 365 * e
  <2>1. u = 4 * x + (3 - e) /\ x \in Int
    BY ONLY <1>1, <1>4, <1>5, SMT
  <2> HIDE DEF x
  <2>2. (4 * x + (3 - e) + 4) \div 4 = x + 1
    BY ONLY <1>5, <2>1, SMT
  <2>3. QED
    BY ONLY <1>3, <2>1, <2>2, SMT
<1>9. /\ n \in Int /\ 1 <= n /\ n <= 366 /\ (n = 366 => e = 3)
      /\ 1461 * q + 365 * e + n - 1 = k
  BY ONLY <1>1, <1>2, <1>4, <1>5, <1>8, SMT
<1>10. n = 366 /\ cy = 99 => k = 36524
  BY ONLY <1>5, <1>9, SMT
<1>11. InYear(c, cy, n)
  <2>1. n \in 1 .. 366
    BY ONLY <1>9, SMT
  <2>2. n = 366 => LongYear(c, cy)
    BY <1>1, <1>7, <1>9, <1>10 DEF LongYear
  <2>3. QED
    BY <2>1, <2>2 DEF InYear
<1>12. DaysBefore(cy, n) = k
  BY <1>6, <1>9 DEF DaysBefore
<1>13. QED
  BY <1>2, <1>11, <1>12 DEF cy, n

LEMMA MonthForth ==
  ASSUME NEW c \in Nat, NEW cy \in 0 .. 99, NEW n, InYear(c, cy, n)
  PROVE  LET mm == MonthOf(n)
             d == DayOfMonth(n)
         IN  InMonth(c, cy, mm, d) /\ DaysToDate(mm, d) = n
<1> DEFINE mm == MonthOf(n)
           d == DayOfMonth(n)
           v == 5 * n - 3 - 153 * mm
<1>1. n \in 1 .. 366 /\ (n = 366 => LongYear(c, cy))
  BY DEF InYear
<1>2. mm \in 0 .. 11 /\ v \in Int /\ 0 <= v /\ v <= 152
  BY <1>1, SMTT(30) DEF MonthOf
<1>3. d = (v + 5) \div 5
  BY Zenon DEF DayOfMonth
<1>4. v = 5 * n - 3 - 153 * mm
  OBVIOUS
<1> HIDE DEF mm, d, v
<1> DEFINE s == (153 * mm + 2) \div 5
           r == (153 * mm + 2) % 5
<1>5. s \in Int /\ r \in 0 .. 4 /\ 153 * mm + 2 = 5 * s + r
  BY <1>2, SMT
<1>6. (mm \in {1, 6, 11} => r = 0) /\ (mm \in {3, 8} => r = 1) /\ (mm = 11 => s = 337)
  BY SMT
<1>7. DaysToDate(mm, d) = s + d
  BY DEF DaysToDate
<1> HIDE DEF s, r
<1>8. v = 5 * (d - 1) + (4 - r) /\ d \in Int
  <2> DEFINE x == n - s - 1
  <2>1. v = 5 * x + (4 - r) /\ x \in Int
    BY ONLY <1>1, <1>2, <1>4, <1>5, SMT
  <2> HIDE DEF x
  <2>2. (5 * x + (4 - r) + 5) \div 5 = x + 1
    BY ONLY <1>5, <2>1, SMT
  <2>3. QED
    BY ONLY <1>3, <2>1, <2>2, SMT
<1>9. s + d = n
  BY ONLY <1>1, <1>2, <1>4, <1>5, <1>8, SMT
<1>10. d \in 1 .. 31 /\ (r \in {0, 1} => d <= 30)
  BY ONLY <1>2, <1>5, <1>8, SMT
<1>11. mm = 11 => d <= (IF LongYear(c, cy) THEN 29 ELSE 28)
  BY <1>1, <1>6, <1>9, <1>10
<1>12. InMonth(c, cy, mm, d)
  BY <1>2, <1>6, <1>10, <1>11 DEF InMonth
<1>13. QED
  BY <1>7, <1>9, <1>12 DEF mm, d

\* The number of the first of January of the year 1.
FirstDay == 1721426

\* Every number from there on is that of a date, which JP_CalendarDate finds: no
\* day is left out, and no date is named that the calendar does not have.
THEOREM NumberOfDate ==
  ASSUME NEW j \in Int, j >= FirstDay
  PROVE  \E y \in Nat, m \in 1 .. 12, d \in Nat :
           /\ JP_CalendarDate(j) = <<y, m, d>> /\ IsDate(y, m, d)
           /\ JP_JulianDate(y, m, d) = j
<1> DEFINE t == j - Origin
           quarters == 4 * t - 1
           c == CenturyOf(quarters)
           k == DayOfCentury(quarters)
           cy == YearOf(k)
           n == DayOfYear(k)
           mm == MonthOf(n)
           d == DayOfMonth(n)
<1>1. JP_CalendarDate(j) = DateOf(c, cy, mm, d)
  BY Zenon DEF JP_CalendarDate, DateOf
<1>2. t \in Int /\ t >= 307 /\ j = t + Origin /\ Origin \in Int
  BY SMT DEF FirstDay, Origin
<1> HIDE DEF t
<1>3. c \in Nat /\ InCentury(c, k) /\ DaysBeforeCentury(c) + k + 1 = t
  <2>1. t >= 1 /\ quarters = 4 * t - 1 /\ quarters \in Int
    BY <1>2
  <2> HIDE DEF quarters
  <2>2. QED
    BY <1>2, <2>1, CenturyForth, Zenon
<1> HIDE DEF c, k
<1>4. cy \in 0 .. 99 /\ InYear(c, cy, n) /\ DaysBefore(cy, n) = k
  BY <1>3, YearForth, Zenon
<1> HIDE DEF cy, n
<1>5. InMonth(c, cy, mm, d) /\ DaysToDate(mm, d) = n
  BY <1>3, <1>4, MonthForth, Zenon
<1> HIDE DEF mm, d
<1>6. DaysBeforeCentury(c) \in Int /\ DaysBeforeYear(cy) \in Int /\ n \in 1 .. 366
  BY <1>3, <1>4, DaysAreNumbers DEF InYear
<1>7. j = DaysBeforeCentury(c) + DaysBeforeYear(cy) + DaysToDate(mm, d) + Origin
  BY <1>2, <1>3, <1>4, <1>5, <1>6 DEF DaysBefore
<1>8. mm \in 0 .. 11 /\ d \in 1 .. 31
  BY <1>5 DEF InMonth
<1> DEFINE yy == 100 * c + cy
           m == IF mm < 10 THEN mm + 3 ELSE mm - 9
           y == IF mm < 10 THEN yy ELSE yy + 1
<1>9. yy \in Nat /\ m \in 1 .. 12 /\ y \in Nat
  BY <1>3, <1>4, <1>8
<1>10. DateOf(c, cy, mm, d) = <<y, m, d>>
  BY DEF DateOf
\* January of the year 1 is in the year before, counted from March.
<1>11. y >= 1
  <2>1. CASE yy >= 1
    BY <1>9, <2>1
  <2>2. CASE yy = 0 /\ mm < 10
    <3>1. c = 0 /\ cy = 0
      BY <1>3, <1>4, <2>2
    <3>2. DaysBeforeCentury(c) = 0 /\ DaysBeforeYear(cy) = 0
      BY <3>1, SMT DEF DaysBeforeCentury, DaysBeforeYear
    <3>3. DaysToDate(mm, d) <= 306
      BY <1>8, <2>2, SMT DEF DaysToDate
    <3>4. t = n
      BY <1>2, <1>3, <1>4, <1>6, <3>2 DEF DaysBefore
    <3>5. QED
      BY <1>2, <1>5, <1>6, <3>3, <3>4
  <2>3. CASE yy = 0 /\ ~(mm < 10)
    BY <2>3
  <2>4. QED
    BY <1>9, <2>1, <2>2, <2>3
<1>12. MarchYear(y, m) = yy /\ MarchMonth(m) = mm
  BY <1>8, <1>9 DEF MarchYear, MarchMonth
<1>13. yy \div 100 = c /\ yy - 100 * (yy \div 100) = cy
  BY <1>3, <1>4, SMT
<1>14. IsDate(y, m, d)
  <2>0. IsLeap(yy + 1) <=> LongYear(c, cy)
    <3>1. yy = 100 * c + cy
      OBVIOUS
    <3> HIDE DEF yy
    <3>2. QED
      BY <1>3, <1>4, <1>9, <3>1, LeapFebruary, Zenon
  <2>1. mm = 11 => y = yy + 1 /\ (IsLeap(y) <=> LongYear(c, cy))
    BY <2>0
  <2>2. m \in {4, 6, 9, 11} <=> mm \in {1, 3, 6, 8}
    BY <1>8
  <2>3. m = 2 <=> mm = 11
    BY <1>8
  <2> HIDE DEF y, m, yy
  <2>4. d <= MonthLength(y, m)
    BY <1>5, <1>8, <2>1, <2>2, <2>3 DEF MonthLength, InMonth
  <2>5. d \in 1 .. MonthLength(y, m)
    BY <1>8, <2>4 DEF MonthLength
  <2>6. QED
    BY <1>9, <1>11, <2>5 DEF IsDate
<1>15. JP_JulianDate(y, m, d) = j
  <2>1. (IF y < 1 THEN 1 ELSE y) = y
    BY <1>9, <1>11
  <2> HIDE DEF y, m, yy
  <2>2. QED
    BY <1>7, <1>12, <1>13, <2>1, ZenonT(40) DEF JP_JulianDate
<1>16. d \in Nat
  BY <1>8
<1>17. QED
  BY <1>1, <1>9, <1>10, <1>14, <1>15, <1>16, Zenon
-----------------------------------------------------------------------------
(* The order of the days.                                                  *)

Earlier(y, m, d, z, l, e) == y < z \/ (y = z /\ (m < l \/ (m = l /\ d < e)))

LEMMA LaterCentury ==
  ASSUME NEW c \in Nat, NEW k, InCentury(c, k),
         NEW b \in Nat, NEW j, InCentury(b, j), c < b
  PROVE  DaysBeforeCentury(c) + k < DaysBeforeCentury(b) + j
<1>1. CenturyOf(Quarters(c, k)) = c /\ CenturyOf(Quarters(b, j)) = b
  BY CenturyAndBack
<1>2. /\ DaysBeforeCentury(c) \in Int /\ DaysBeforeCentury(b) \in Int
      /\ k \in Int /\ j \in Int
  BY DaysAreNumbers DEF InCentury
<1>3. \A x, w \in Int : w <= x => w \div 146097 <= x \div 146097
  BY SMT
<1>4. Quarters(c, k) \in Int /\ Quarters(b, j) \in Int
  BY <1>2 DEF Quarters
<1>5. Quarters(c, k) < Quarters(b, j)
  BY <1>1, <1>3, <1>4 DEF CenturyOf
<1>6. QED
  BY <1>2, <1>5 DEF Quarters

LEMMA LaterYear ==
  ASSUME NEW c \in Nat, NEW cy \in 0 .. 99, NEW n, InYear(c, cy, n),
         NEW by \in 0 .. 99, NEW o, InYear(c, by, o), cy < by
  PROVE  DaysBeforeYear(cy) + n < DaysBeforeYear(by) + o
<1>1. YearOf(DaysBefore(cy, n)) = cy /\ YearOf(DaysBefore(by, o)) = by
  BY YearAndBack
<1>2. DaysBeforeYear(cy) \in Int /\ DaysBeforeYear(by) \in Int /\ n \in Int /\ o \in Int
  BY DaysAreNumbers DEF InYear
<1>3. \A x, w \in Int : w <= x => (4 * w + 3) \div 1461 <= (4 * x + 3) \div 1461
  BY SMT
<1>4. DaysBefore(cy, n) \in Int /\ DaysBefore(by, o) \in Int
  BY <1>2 DEF DaysBefore
<1>5. DaysBefore(cy, n) < DaysBefore(by, o)
  BY <1>1, <1>3, <1>4 DEF YearOf
<1>6. QED
  BY <1>2, <1>5 DEF DaysBefore

LEMMA LaterInYear ==
  ASSUME NEW c \in Nat, NEW cy \in 0 .. 99,
         NEW mm, NEW d, InMonth(c, cy, mm, d),
         NEW l, NEW e, InMonth(c, cy, l, e), mm < l \/ (mm = l /\ d < e)
  PROVE  DaysToDate(mm, d) < DaysToDate(l, e)
<1>1. /\ mm \in 0 .. 11 /\ l \in 0 .. 11 /\ d \in 1 .. 31 /\ e \in 1 .. 31
      /\ DaysToDate(mm, d) \in Int /\ DaysToDate(l, e) \in Int
  BY DaysAreNumbers DEF InMonth
<1>2. CASE mm = l
  BY <1>1, <1>2, SMT DEF DaysToDate
<1>3. CASE mm < l
  <2>1. MonthOf(DaysToDate(mm, d)) = mm /\ MonthOf(DaysToDate(l, e)) = l
    BY MonthAndBack
  <2>2. \A x, w \in Int : w <= x => (5 * w - 3) \div 153 <= (5 * x - 3) \div 153
    BY SMT
  <2>3. QED
    BY <1>1, <1>3, <2>1, <2>2 DEF MonthOf
<1>4. QED
  BY <1>1, <1>2, <1>3

\* An earlier date has a smaller number, in another month, year or century too:
\* days and seconds that are reckoned from numbers never run backwards.
THEOREM NumbersInOrder ==
  ASSUME NEW y \in Nat, NEW m \in 1 .. 12, NEW d \in Nat, IsDate(y, m, d),
         NEW z \in Nat, NEW l \in 1 .. 12, NEW e \in Nat, IsDate(z, l, e),
         Earlier(y, m, d, z, l, e)
  PROVE  JP_JulianDate(y, m, d) < JP_JulianDate(z, l, e)
<1>1. PICK c \in Nat, cy \in 0 .. 99, mm \in 0 .. 11 : InParts(y, m, d, c, cy, mm)
  BY DateInParts
<1>2. PICK b \in Nat, by \in 0 .. 99, nn \in 0 .. 11 : InParts(z, l, e, b, by, nn)
  BY DateInParts
<1> DEFINE n == DaysToDate(mm, d)
           o == DaysToDate(nn, e)
<1>3. /\ InMonth(c, cy, mm, d) /\ InMonth(b, by, nn, e)
      /\ JP_JulianDate(y, m, d) = DaysBeforeCentury(c) + DaysBeforeYear(cy) + n + Origin
      /\ JP_JulianDate(z, l, e) = DaysBeforeCentury(b) + DaysBeforeYear(by) + o + Origin
  BY <1>1, <1>2 DEF InParts
<1>4. \/ 100 * c + cy < 100 * b + by
      \/ 100 * c + cy = 100 * b + by /\ (mm < nn \/ (mm = nn /\ d < e))
  <2>1. /\ MarchYear(y, m) = 100 * c + cy /\ MarchMonth(m) = mm
        /\ MarchYear(z, l) = 100 * b + by /\ MarchMonth(l) = nn
    BY <1>1, <1>2 DEF InParts
  <2>2. \/ MarchYear(y, m) < MarchYear(z, l)
        \/ /\ MarchYear(y, m) = MarchYear(z, l)
           /\ \/ MarchMonth(m) < MarchMonth(l)
              \/ MarchMonth(m) = MarchMonth(l) /\ d < e
    BY DEF Earlier, MarchYear, MarchMonth
  <2>3. QED
    BY <2>1, <2>2
<1>5. InYear(c, cy, n) /\ InYear(b, by, o)
  BY <1>3, MonthAndBack, Zenon
<1> HIDE DEF n, o
<1>6. InCentury(c, DaysBefore(cy, n)) /\ InCentury(b, DaysBefore(by, o))
  BY <1>5, YearAndBack, Zenon
<1>7. /\ DaysBeforeCentury(c) \in Int /\ DaysBeforeYear(cy) \in Int /\ n \in Int
      /\ DaysBeforeCentury(b) \in Int /\ DaysBeforeYear(by) \in Int /\ o \in Int
      /\ Origin \in Int
  BY <1>5, DaysAreNumbers DEF InYear, Origin
<1>8. c < b \/ (c = b /\ cy < by) \/ (c = b /\ cy = by /\ (mm < nn \/ (mm = nn /\ d < e)))
  BY <1>4
<1>9. CASE c < b
  <2>1. DaysBeforeCentury(c) + DaysBefore(cy, n) < DaysBeforeCentury(b) + DaysBefore(by, o)
    BY <1>6, <1>9, LaterCentury
  <2>2. QED
    BY <1>3, <1>7, <2>1 DEF DaysBefore
<1>10. CASE c = b /\ cy < by
  <2>1. DaysBeforeYear(cy) + n < DaysBeforeYear(by) + o
    BY <1>5, <1>10, LaterYear
  <2>2. QED
    BY <1>3, <1>7, <1>10, <2>1
<1>11. CASE c = b /\ cy = by /\ (mm < nn \/ (mm = nn /\ d < e))
  <2>1. n < o
    BY <1>3, <1>11, LaterInYear DEF n, o
  <2>2. QED
    BY <1>3, <1>7, <1>11, <2>1
<1>12. QED
  BY <1>8, <1>9, <1>10, <1>11

LEMMA NumberIsInt ==
  ASSUME NEW y \in Nat, NEW m \in 1 .. 12, NEW d \in Nat, IsDate(y, m, d)
  PROVE  JP_JulianDate(y, m, d) \in Int
<1>1. PICK c \in Nat, cy \in 0 .. 99, mm \in 0 .. 11 : InParts(y, m, d, c, cy, mm)
  BY DateInParts
<1>2. JP_JulianDate(y, m, d)
        = DaysBeforeCentury(c) + DaysBeforeYear(cy) + DaysToDate(mm, d) + Origin
  BY <1>1 DEF InParts
<1>3. /\ DaysBeforeCentury(c) \in Int /\ DaysBeforeYear(cy) \in Int
      /\ DaysToDate(mm, d) \in Int /\ Origin \in Int
  BY <1>1, DaysAreNumbers DEF InParts, InMonth, Origin
<1>4. QED
  BY <1>2, <1>3

LEMMA LastDayOfInt ==
  /\ JP_JulianDate(1970, 1, 1) = 2440588
  /\ JP_JulianDate(2038, 1, 19) = 2465443
  /\ IsDate(1970, 1, 1) /\ IsDate(2038, 1, 19)
BY SMT DEF JP_JulianDate, MarchYear, MarchMonth, DaysBeforeCentury, DaysBeforeYear,
           DaysToDate, Origin, IsDate, MonthLength

\* The int that TimeStamp computes holds up to 03:14:07 (11647 s) on 2038-01-19
\* and not one second longer: no error of the day numbers moves that boundary.
THEOREM SecondsFitUntil2038 ==
  ASSUME NEW y \in Nat, NEW m \in 1 .. 12, NEW d \in Nat, IsDate(y, m, d), y >= 1970,
         NEW s \in Nat, s < 24 * 60 * 60
  PROVE  FitsInt(ServerSeconds(y, m, d, s))
           <=> Earlier(y, m, d, 2038, 1, 19)
                 \/ (y = 2038 /\ m = 1 /\ d = 19 /\ s <= 11647)
<1> DEFINE number == JP_JulianDate(y, m, d)
           total == ServerSeconds(y, m, d, s)
<1>1. number \in Int
  BY NumberIsInt
<1>2. number >= 2440588
  <2>1. Earlier(1970, 1, 1, y, m, d) \/ (y = 1970 /\ m = 1 /\ d = 1)
    BY DEF Earlier, IsDate
  <2>2. CASE Earlier(1970, 1, 1, y, m, d)
    <3>1. JP_JulianDate(1970, 1, 1) < number
      BY <2>2, NumbersInOrder, LastDayOfInt, SMTT(60)
    <3>2. QED
      BY <1>1, <3>1, LastDayOfInt, SMTT(60)
  <2>3. QED
    BY <2>1, <2>2, LastDayOfInt, SMTT(60)
<1>3. total = (number - 2440588) * 86400 + s
  BY LastDayOfInt, SMTT(60) DEF ServerSeconds
<1>4. Earlier(y, m, d, 2038, 1, 19) => number < 2465443
  BY NumbersInOrder, LastDayOfInt, SMTT(60)
<1>5. y = 2038 /\ m = 1 /\ d = 19 => number = 2465443
  BY LastDayOfInt, SMTT(60)
<1>6. Earlier(2038, 1, 19, y, m, d) => 2465443 < number
  BY NumbersInOrder, LastDayOfInt, SMTT(60)
<1> HIDE DEF number, total
<1>7. CASE Earlier(y, m, d, 2038, 1, 19)
  <2>1. 0 <= total /\ total <= 2147471999 /\ total \in Int
    BY <1>1, <1>2, <1>3, <1>4, <1>7
  <2>2. FitsInt(total)
    BY <2>1 DEF FitsInt
  <2>3. QED
    BY <1>7, <2>2 DEF total
<1>8. CASE y = 2038 /\ m = 1 /\ d = 19
  <2>1. total = 2147472000 + s
    BY <1>3, <1>5, <1>8
  <2>2. FitsInt(total) <=> s <= 11647
    BY <2>1 DEF FitsInt
  <2>3. ~ Earlier(y, m, d, 2038, 1, 19)
    BY <1>8 DEF Earlier
  <2>4. QED
    BY <1>8, <2>2, <2>3 DEF total
<1>9. CASE Earlier(2038, 1, 19, y, m, d)
  <2>1. total >= 2147558400 /\ total \in Int
    BY <1>1, <1>3, <1>6, <1>9
  <2>2. ~ FitsInt(total)
    BY <2>1 DEF FitsInt
  <2>3. ~ Earlier(y, m, d, 2038, 1, 19) /\ ~ (y = 2038 /\ m = 1 /\ d = 19)
    BY <1>9 DEF Earlier
  <2>4. QED
    BY <2>2, <2>3 DEF total
<1>10. QED
  BY <1>7, <1>8, <1>9 DEF Earlier
=============================================================================
