------------------------------ MODULE Calendar ------------------------------
(***************************************************************************)
(* The calendar and the date functions of the four engines, as far as the  *)
(* emitted expressions use them (external).  A date is its month, counted  *)
(* from year 0, its day of the month and its minute of the day; an instant *)
(* is a number of minutes and a day a number of days, both since           *)
(* 1970-01-01, a Thursday.                                                 *)
(***************************************************************************)
EXTENDS Integers

Date == [month : Int, day : 1 .. 31, minute : 0 .. 1439]

Lesser(a, b) == IF a <= b THEN a ELSE b

\* The remainder that takes its sign from the dividend: T-SQL's %, Oracle's MOD.
Rem(a, b) == IF a >= 0 THEN a % b ELSE -((-a) % b)

(***************************************************************************)
(* Months, days and instants                                               *)
(***************************************************************************)
YearOf(m) == m \div 12
QuarterOf(m) == (m % 12) \div 3 + 1
MonthOf(m) == (m % 12) + 1

Leap(y) == y % 4 = 0 /\ (y % 100 # 0 \/ y % 400 = 0)

DaysIn(m) ==
    CASE MonthOf(m) = 2 -> IF Leap(YearOf(m)) THEN 29 ELSE 28
      [] MonthOf(m) \in {4, 6, 9, 11} -> 30
      [] OTHER -> 31

\* The day on which a month begins.
MonthStart(m) ==
    LET y == YearOf(m)
        leaps(n) == n \div 4 - n \div 100 + n \div 400
        before == <<0, 31, 59, 90, 120, 151, 181, 212, 243, 273, 304, 334>>
    IN  365 * (y - 1970) + leaps(y - 1) - leaps(1969) + before[MonthOf(m)]
          + (IF MonthOf(m) > 2 /\ Leap(y) THEN 1 ELSE 0)

DayNumber(d) == MonthStart(d.month) + d.day - 1
At(d) == 1440 * DayNumber(d) + d.minute
Day(n) == 1440 * n

\* The year a day falls in.
YearOfDay(n) ==
    LET near == 1970 + (400 * n) \div 146097
    IN  CHOOSE y \in (near - 1) .. (near + 1) :
            MonthStart(12 * y) <= n /\ n < MonthStart(12 * (y + 1))

\* Sunday is 0; the Mondays of the ISO week and the Sundays of the other one.
Weekday(n) == (n + 4) % 7
WeekSunday(n) == n - Weekday(n)
WeekMonday(n) == n - ((n + 3) % 7)

(***************************************************************************)
(* The engines' month arithmetic.  T-SQL, MySQL and PostgreSQL keep the    *)
(* day, or the last one there is; Oracle's ADD_MONTHS also takes the last  *)
(* day of a month to the last day.                                         *)
(***************************************************************************)
IsLastDay(d) == d.day = DaysIn(d.month)

AddMonthsKeeping(d, n) ==
    [d EXCEPT !.month = d.month + n, !.day = Lesser(d.day, DaysIn(d.month + n))]

AddMonthsSticking(d, n) ==
    [AddMonthsKeeping(d, n) EXCEPT
        !.day = IF IsLastDay(d) THEN DaysIn(d.month + n) ELSE @]

LastDay(d) == [d EXCEPT !.day = DaysIn(d.month)]
Midnight(d) == [d EXCEPT !.minute = 0]

(***************************************************************************)
(* The engines' two ways of counting between dates: T-SQL's DATEDIFF the   *)
(* unit boundaries crossed, MySQL's TIMESTAMPDIFF the units completed, the *)
(* sign put back at the end.                                               *)
(***************************************************************************)
Units == {"year", "quarter", "month", "week", "day", "hour", "minute"}
MonthUnits == {"year", "quarter", "month"}
MonthsPer(u) == CASE u = "year" -> 12 [] u = "quarter" -> 3 [] OTHER -> 1
MinutesPer(u) ==
    CASE u = "week" -> Day(7) [] u = "day" -> Day(1) [] u = "hour" -> 60 [] OTHER -> 1

\* How many boundaries of a unit lie before a date; a week begins on Sunday.
Boundaries(u, d) ==
    CASE u \in MonthUnits -> d.month \div MonthsPer(u)
      [] u = "week" -> (DayNumber(d) + 4) \div 7
      [] OTHER -> At(d) \div MinutesPer(u)

Crossed(u, start, end) == Boundaries(u, end) - Boundaries(u, start)

Elapsed(u, start, end) ==
    IF u \in MonthUnits
      THEN ((end.month - start.month)
              - (IF 1440 * end.day + end.minute < 1440 * start.day + start.minute
                   THEN 1 ELSE 0)) \div MonthsPer(u)
      ELSE (At(end) - At(start)) \div MinutesPer(u)

Completed(u, start, end) ==
    IF At(end) < At(start) THEN 0 - Elapsed(u, end, start) ELSE Elapsed(u, start, end)
=============================================================================
