---------------------------- MODULE MCCliCursors ----------------------------
(* Two selects on one connector, batches of two rows, up to five rows: two *)
(* full batches and a part of one.  The calendar of the run time stands    *)
(* with it: TLC takes every date of the years below there and back.        *)
EXTENDS CliCursors, JulianDate
CONSTANTS q1, q2

MCQuery == {q1, q2}

\* Both ends of the four years, of the centuries and of the four centuries,
\* and the year the number of a second passes 2^31.
SomeYears == (1 .. 5) \union (99 .. 101) \union (399 .. 401) \union (1899 .. 1901)
               \union (1969 .. 1972) \union (1999 .. 2001) \union {2038, 9999}

ASSUME ThereAndBack ==
  \A y \in SomeYears : \A m \in 1 .. 12 : \A d \in 1 .. MonthLength(y, m) :
    JP_CalendarDate(JP_JulianDate(y, m, d)) = <<y, m, d>>

\* Every number of these years is one of a date, the first of them too.
ASSUME BackAndThere ==
  \A y \in SomeYears : \A j \in JP_JulianDate(y, 1, 1) .. JP_JulianDate(y, 12, 31) :
    LET c == JP_CalendarDate(j)
    IN IsDate(c[1], c[2], c[3]) /\ JP_JulianDate(c[1], c[2], c[3]) = j
=============================================================================
