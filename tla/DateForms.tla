------------------------------ MODULE DateForms ------------------------------
(***************************************************************************)
(* Date expressions, before and after translation.  No two of the engines  *)
(* agree on what a month later, a month apart or a week is, so the emitter *)
(* rebuilds each source function from what the target has                   *)
(* (emit_functions.py); a routine's text is rewritten by a second set of   *)
(* rules (procedural/transformer/_expr.py), and text that sqlglot has      *)
(* already generated for Oracle by a third (_replace_oracle_date_add).     *)
(*                                                                         *)
(* Values are integers: days, minutes, counts, field numbers.  Left out:   *)
(* seconds and finer, which behave as minutes do, the SQL types of the     *)
(* results, and time zones (the session's is UTC).                         *)
(***************************************************************************)
EXTENDS CallForms, Calendar

CONSTANTS Dates,    \* the dates expressions are evaluated on
          Amounts,  \* how many units are added
          Fraction  \* a number that is not whole

ASSUME DatesAssumption == Dates \subseteq Date
ASSUME AmountsAssumption == Amounts \subseteq Int

(***************************************************************************)
(* Adding units                                                            *)
(***************************************************************************)
\* What every engine but Oracle computes for n units more (external).
Plus(u, d, n) ==
    IF u \in MonthUnits
      THEN At(AddMonthsKeeping(d, n * MonthsPer(u)))
      ELSE At(d) + n * MinutesPer(u)

\* A mutant of OracleMonthAdd: ADD_MONTHS alone.
OracleMonthAdd_Bare(d, n) == At(AddMonthsSticking(d, n))

\* oracle_month_add_daypreserving: take back the days ADD_MONTHS went too far.
OracleMonthAdd(d, n) ==
    LET add == AddMonthsSticking(d, n)
    IN  At(add) - Day(add.day - Lesser(d.day, DaysIn(add.month)))

\* A literal amount is spelled with its sign: taking a minus away from a
\* minus spells "--", where a comment begins.
CommentsOut(u, n, literal, sub) ==
    /\ sub /\ literal /\ n < 0
    /\ target = "tsql" \/ (target = "oracle" /\ u \in MonthUnits)

\* _emit_date_add
SumForm(u, d, n, literal, sub) ==
    LET signed == IF sub THEN -n ELSE n
    IN  CASE CommentsOut(u, n, literal, sub) -> Refused
          [] target = "oracle" /\ u \in MonthUnits ->
               OracleMonthAdd(d, signed * MonthsPer(u))
          [] OTHER -> Plus(u, d, signed)

\* _emit_compound_interval_add: the fields of a MySQL interval such as '1:30'
\* HOUR_MINUTE are added one after the other.  The numbers are picked out of
\* the text with their signs: a sign before the first is the first's alone, and
\* the dash of YEAR_MONTH's '1-6' is the second's sign.
Compounds == {<<"year", "month">>, <<"day", "hour">>, <<"hour", "minute">>}

CompoundForm(fields, d, a, b, negative, sub) ==
    LET high == IF negative THEN -a ELSE a
        low == IF fields[1] = "year" THEN -b ELSE b
        signed(n) == IF sub THEN -n ELSE n
    IN  CASE CommentsOut(fields[1], high, TRUE, sub) \/ CommentsOut(fields[2], low, TRUE, sub) ->
               Refused
          [] fields[1] = "year" ->
               At(AddMonthsKeeping(AddMonthsKeeping(d, 12 * signed(high)), signed(low)))
          [] OTHER -> Plus(fields[2], d, signed(low)) + Plus(fields[1], d, signed(high)) - At(d)

\* What MySQL adds (external): one interval, under one sign.
PlusCompound(fields, d, a, b, minus) ==
    LET n == a * (CASE fields[1] = "year" -> 12 [] fields[1] = "day" -> 24 [] OTHER -> 60) + b
    IN  Plus(fields[2], d, IF minus THEN -n ELSE n)

\* _transform_dateadd: what it does not convert stays T-SQL, and PostgreSQL
\* has no quarter interval.
SumText(u, d, n) ==
    CASE target = "oracle" /\ u \in {"quarter", "week"} -> Refused
      [] target = "postgresql" /\ u = "quarter" -> Refused
      [] target = "oracle" /\ u \in MonthUnits -> OracleMonthAdd(d, n * MonthsPer(u))
      [] OTHER -> Plus(u, d, n)

\* _replace_oracle_date_add
SumReplaced(u, d, n) ==
    IF u \in MonthUnits THEN OracleMonthAdd(d, n * MonthsPer(u)) ELSE Plus(u, d, n)

\* Oracle's ADD_MONTHS elsewhere: where the date equals its month's last day,
\* a date without a time, take the last day of the sum.
StickyForm(d, n) ==
    LET add == AddMonthsKeeping(d, n)
    IN  CASE At(d) = At(Midnight(LastDay(d))) -> At(Midnight(LastDay(add)))
          [] target = "postgresql" -> At(Midnight(add))
          [] OTHER -> At(add)

\* LAST_DAY: only Oracle's keeps the time.
LastDayForm(engine, d) ==
    IF engine = "oracle" THEN At(LastDay(d)) ELSE At(Midnight(LastDay(d)))

(***************************************************************************)
(* Counting between dates                                                  *)
(***************************************************************************)
Days(start, end) == DayNumber(end) - DayNumber(start)

\* The calendar difference written out as YEAR * 12 + MONTH and the like.
CalendarCount(u, start, end) ==
    LET index(d) == CASE u = "year" -> YearOf(d.month)
                      [] u = "quarter" -> YearOf(d.month) * 4 + QuarterOf(d.month)
                      [] OTHER -> YearOf(d.month) * 12 + MonthOf(d.month)
    IN  index(end) - index(start)

\* Clock units counted from the epoch; MySQL's UNIX_TIMESTAMP is 0 before it.
ClockCount(u, start, end) ==
    LET since(d) == IF target = "mysql" /\ At(d) < 0 THEN 0 ELSE At(d)
    IN  since(end) \div MinutesPer(u) - since(start) \div MinutesPer(u)

\* The count a target's form reaches before any correction.
BoundaryForm(u, start, end) ==
    CASE target = "tsql" -> Crossed(u, start, end)
      [] u \in MonthUnits -> CalendarCount(u, start, end)
      [] u = "week" -> Days(start, end) \div 7
      [] u = "day" -> Days(start, end)
      [] OTHER -> ClockCount(u, start, end)

\* A mutant of CompletePeriods: a period that ends on the day is dropped too.
CompletePeriods_Inclusive(u, start, end) ==
    LET boundary == BoundaryForm(u, start, end)
        added == AddMonthsKeeping(start, boundary * MonthsPer(u))
    IN  boundary - (IF At(added) >= At(end) THEN 1 ELSE 0)

\* _complete_period_adjust, and its T-SQL twin: one period fewer when the count
\* overshoots the end.  Oracle adds the periods with ADD_MONTHS.
CompletePeriods(u, start, end) ==
    LET boundary == BoundaryForm(u, start, end)
        months == boundary * MonthsPer(u)
        added == IF target = "oracle" THEN AddMonthsSticking(start, months)
                                      ELSE AddMonthsKeeping(start, months)
    IN  boundary - (IF At(added) > At(end) THEN 1 ELSE 0)

\* _emit_date_diff with a unit
CountForm(fn, u, start, end) ==
    IF fn = "TIMESTAMPDIFF" /\ u \in MonthUnits /\ target # "mysql"
      THEN CompletePeriods(u, start, end)
      ELSE BoundaryForm(u, start, end)

\* _transform_datediff from T-SQL: MySQL gets its TIMESTAMPDIFF, Oracle plain
\* subtraction below the day.
CountText(u, start, end) ==
    CASE u = "day" -> Days(start, end)
      [] target = "mysql" -> Completed(u, start, end)
      [] u \in {"quarter", "week"} -> Refused
      [] u \in MonthUnits -> CalendarCount(u, start, end)
      [] target = "postgresql" -> Refused
      [] (At(end) - At(start)) % MinutesPer(u) # 0 -> Fraction
      [] OTHER -> (At(end) - At(start)) \div MinutesPer(u)

\* MySQL's two-argument DATEDIFF: an Oracle DATE has a time, which neither
\* form truncates.
DaysForm(start, end) ==
    IF target = "oracle" /\ start.minute # end.minute THEN Fraction ELSE Days(start, end)

\* MONTHS_BETWEEN, in minutes of a month of 31 days.  T-SQL's form has no time.
MonthsBetween(a, b, timed) ==
    (a.month - b.month) * Day(31)
      + (IF a.day = b.day \/ (IsLastDay(a) /\ IsLastDay(b)) THEN 0
         ELSE Day(a.day - b.day) + (IF timed THEN a.minute - b.minute ELSE 0))

(***************************************************************************)
(* Truncating                                                              *)
(***************************************************************************)
\* A mutant of TruncPart: DAY is a day from every source.
TruncPart_Shared(fmt) ==
    CASE fmt \in {"WW", "WEEK", "IW"} -> "week"
      [] fmt \in {"DD", "DAY"} -> "day"
      [] fmt \in {"MM", "MONTH"} -> "month"
      [] fmt \in {"Q", "QUARTER"} -> "quarter"
      [] fmt \in {"YYYY", "YEAR"} -> "year"
      [] OTHER -> "none"

\* _TRUNC_PART_MAP and _ORACLE_TRUNC_OVERRIDE; "none" is a model without an
\* entry.
TruncPart(fmt) ==
    CASE fmt = "DAY" /\ source = "oracle" -> "week_sunday"
      [] fmt = "IW" /\ source = "oracle" -> "week"
      [] fmt \in {"WW", "WEEK"} -> "week"
      [] fmt \in {"DD", "DAY"} -> "day"
      [] fmt \in {"MM", "MONTH"} -> "month"
      [] fmt \in {"Q", "QUARTER"} -> "quarter"
      [] fmt \in {"YYYY", "YEAR"} -> "year"
      [] fmt = "HH24" -> "hour"
      [] OTHER -> "none"

\* _trunc_week_sunday: T-SQL counts back from a Sunday of 1900.
SundayForm(n) == IF target = "tsql" THEN n - Rem(n + 25561, 7) ELSE WeekSunday(n)

\* _trunc_render
TruncForm(part, d) ==
    LET n == DayNumber(d)
    IN  CASE part = "hour" -> At(d) - (d.minute % 60)
          [] part = "day" -> Day(n)
          [] part = "week" -> Day(WeekMonday(n))
          [] part = "week_sunday" -> Day(SundayForm(n))
          [] OTHER -> Day(MonthStart(d.month - (d.month % MonthsPer(part))))

Formats(engine) ==
    IF engine = "oracle" THEN {"DD", "DAY", "IW", "WW", "W", "MM", "Q", "YYYY", "HH24"}
    ELSE {"DAY", "WEEK", "MONTH", "QUARTER", "YEAR", "HOUR"}

\* What the source engine truncates to (external): WW and W count weeks from
\* the first day of the year or of the month.
Truncated(fmt, d) ==
    LET n == DayNumber(d)
        from(first) == Day(n - ((n - first) % 7))
    IN  CASE fmt \in {"HH24", "HOUR"} -> At(d) - (d.minute % 60)
          [] fmt = "DD" \/ (fmt = "DAY" /\ source = "postgresql") -> Day(n)
          [] fmt = "DAY" -> Day(WeekSunday(n))
          [] fmt \in {"IW", "WEEK"} -> Day(WeekMonday(n))
          [] fmt = "WW" -> from(MonthStart(d.month - (d.month % 12)))
          [] fmt = "W" -> from(MonthStart(d.month))
          [] fmt \in {"MM", "MONTH"} -> Day(MonthStart(d.month))
          [] fmt \in {"Q", "QUARTER"} -> Day(MonthStart(d.month - (d.month % 3)))
          [] OTHER -> Day(MonthStart(d.month - (d.month % 12)))

\* ROUND(d, 'MONTH') on MySQL: from the 16th on, the next month.  The time of
\* day stays, which Oracle drops.
RoundForm(d) ==
    LET month == IF d.day < 16 THEN d.month ELSE d.month + 1
    IN  Day(MonthStart(month)) + d.minute

(***************************************************************************)
(* Fields of a date, of the day n                                          *)
(***************************************************************************)
YearStart(n) == MonthStart(12 * YearOfDay(n))
IsoYear(n) == YearOfDay(WeekMonday(n) + 3)
IsoWeek(n) == (WeekMonday(n) + 3 - MonthStart(12 * IsoYear(n))) \div 7 + 1

\* The day of the year is n - YearStart(n) + 1.  T-SQL's week 1 holds January
\* 1st, MySQL's default mode begins it with the first Sunday.
SundayWeek(n) == (n - YearStart(n) + Weekday(YearStart(n))) \div 7 + 1
SundayWeekFrom0(n) == (n - YearStart(n) + 7 - Weekday(n)) \div 7

\* _weekday_extract_expr (DOW): Sunday is 0, counted from a Sunday of 1970 on
\* Oracle and of 1900 on T-SQL.
DowForm(n) ==
    CASE target = "oracle" -> Rem(Rem(n - 3, 7) + 7, 7)
      [] target = "tsql" -> Rem(Rem(n + 25561, 7) + 7, 7)
      [] OTHER -> Weekday(n)

\* _extract_week_noniso
SundayWeekForm(n) ==
    LET january1 == IF target = "oracle" THEN Rem(YearStart(n) - 3, 7) + 1
                                         ELSE Weekday(YearStart(n)) + 1
    IN  (n - YearStart(n) + 1 + january1 - 2) \div 7 + 1

\* _extract_isoyear: T-SQL counts back to a Monday from 1900-01-01.
IsoYearForm(n) == IF target = "tsql" THEN YearOfDay(n - Rem(n + 25567, 7) + 3) ELSE IsoYear(n)

\* _weekday_extract_expr, _emit_mysql_dayofweek and _emit_week_year_field
FieldForm(field, n) ==
    CASE field = "DOW" -> DowForm(n)
      [] field = "DAYOFWEEK" /\ target = "tsql" -> Weekday(n) + 1
      [] field \in {"WEEKDAY", "DAYOFWEEK"} -> DowForm(n) + 1
      [] field = "ISOYEAR" -> IsoYearForm(n)
      [] field = "WEEK" /\ source = "tsql" -> SundayWeekForm(n)
      [] field \in {"WEEK", "ISO_WEEK"} -> IsoWeek(n)
      [] OTHER -> Carrier

Fields(engine) ==
    CASE engine = "tsql" -> {"WEEKDAY", "WEEK", "ISO_WEEK"}
      [] engine = "mysql" -> {"DAYOFWEEK", "WEEK"}
      [] engine = "postgresql" -> {"DOW", "WEEK", "ISOYEAR", "DECADE"}
      [] OTHER -> {}

\* What the source engine reads (external).
Field(field, n) ==
    CASE field = "DOW" -> Weekday(n)
      [] field \in {"WEEKDAY", "DAYOFWEEK"} -> Weekday(n) + 1
      [] field = "WEEK" /\ source = "tsql" -> SundayWeek(n)
      [] field = "WEEK" /\ source = "mysql" -> SundayWeekFrom0(n)
      [] field \in {"WEEK", "ISO_WEEK"} -> IsoWeek(n)
      [] field = "ISOYEAR" -> IsoYear(n)
      [] OTHER -> YearOfDay(n) \div 10

(***************************************************************************)
(* One conversion                                                          *)
(***************************************************************************)
\* DATEADD, DATE_ADD and DATE_SUB
AddUnits(u, d, n, literal, sub) ==
    /\ place = "script" /\ source \in {"tsql", "mysql"}
    /\ sub => source = "mysql"
    /\ ConvertNumber([fn |-> "DATE_ADD", unit |-> u, date |-> d, amount |-> n],
                     Plus(u, d, IF sub THEN -n ELSE n), SumForm(u, d, n, literal, sub))

AddCompound(fields, d, a, b, negative, sub) ==
    /\ place = "script" /\ source = "mysql"
    /\ ConvertNumber([fn |-> "COMPOUND", fields |-> fields, date |-> d, amount |-> <<a, b>>,
                      negative |-> negative],
                     PlusCompound(fields, d, a, b, negative # sub),
                     CompoundForm(fields, d, a, b, negative, sub))

AddUnitsInText(u, d, n) ==
    /\ place = "generated" \/ (place = "body" /\ source = "tsql")
    /\ ConvertNumber([fn |-> "DATE_ADD", unit |-> u, date |-> d, amount |-> n],
                     Plus(u, d, n),
                     IF place = "body" THEN SumText(u, d, n) ELSE SumReplaced(u, d, n))

AddMonths(d, n) ==
    /\ place = "script" /\ source = "oracle"
    /\ ConvertNumber([fn |-> "ADD_MONTHS", date |-> d, amount |-> n],
                     At(AddMonthsSticking(d, n)), StickyForm(d, n))

EndOfMonth(d) ==
    /\ place = "script" /\ source \in {"mysql", "oracle"}
    /\ ConvertNumber([fn |-> "LAST_DAY", date |-> d],
                     LastDayForm(source, d), LastDayForm(target, d))
      
\* DATEDIFF(unit, start, end) of T-SQL, TIMESTAMPDIFF of MySQL
CountUnits(u, start, end) ==
    \/ /\ place \in {"script", "body"} /\ source = "tsql"
       /\ ConvertNumber([fn |-> "DATEDIFF", unit |-> u, start |-> start, end |-> end],
                        Crossed(u, start, end),
                        IF place = "body" THEN CountText(u, start, end)
                                          ELSE CountForm("DATEDIFF", u, start, end))
    \/ /\ place = "script" /\ source = "mysql"
       /\ ConvertNumber([fn |-> "TIMESTAMPDIFF", unit |-> u, start |-> start, end |-> end],
                        Completed(u, start, end), CountForm("TIMESTAMPDIFF", u, start, end))

\* DATEDIFF(end, start) of MySQL
CountDays(start, end) ==
    /\ place \in {"script", "body"} /\ source = "mysql"
    /\ ConvertNumber([fn |-> "DAYS", start |-> start, end |-> end],
                     Days(start, end), DaysForm(start, end))

CountMonths(start, end) ==
    /\ place = "script" /\ source = "oracle" /\ target = "tsql"
    /\ ConvertNumber([fn |-> "MONTHS_BETWEEN", start |-> start, end |-> end],
                     MonthsBetween(end, start, TRUE), MonthsBetween(end, start, FALSE))

\* A model without a part is announced from Oracle, and left to the target to
\* refuse from PostgreSQL.
Truncate(fmt, d) ==
    /\ place = "script" /\ source \in {"oracle", "postgresql"} /\ fmt \in Formats(source)
    /\ ConvertNumber([fn |-> "TRUNC", fmt |-> fmt, date |-> d],
                     Truncated(fmt, d),
                     CASE TruncPart(fmt) # "none" -> TruncForm(TruncPart(fmt), d)
                       [] source = "oracle" -> Carrier
                       [] OTHER -> Refused)

RoundToMonth(d) ==
    /\ place = "script" /\ source = "oracle"
    /\ ConvertNumber([fn |-> "ROUND", date |-> d],
                     RoundForm(Midnight(d)), IF target = "mysql" THEN RoundForm(d) ELSE Carrier)

Extract(field, d) ==
    /\ place = "script" /\ field \in Fields(source)
    /\ ConvertNumber([fn |-> "EXTRACT", field |-> field, date |-> d],
                     Field(field, DayNumber(d)), FieldForm(field, DayNumber(d)))

ConvertDates ==
    /\ call = NoCall
    /\ \/ \E d \in Dates, n \in Amounts :
            \/ \E u \in Units, literal, sub \in BOOLEAN : AddUnits(u, d, n, literal, sub)
            \/ \E u \in Units : AddUnitsInText(u, d, n)
            \/ \E fields \in Compounds, k \in Amounts, negative, sub \in BOOLEAN :
                 n > 0 /\ k > 0 /\ AddCompound(fields, d, n, k, negative, sub)
            \/ AddMonths(d, n)
       \/ \E start, end \in Dates :
            \/ \E u \in Units : CountUnits(u, start, end)
            \/ CountDays(start, end)
            \/ CountMonths(start, end)
       \/ \E d \in Dates :
            \/ EndOfMonth(d)
            \/ \E fmt \in Formats(source) : Truncate(fmt, d)
            \/ RoundToMonth(d)
            \/ \E field \in Fields(source) : Extract(field, d)

(***************************************************************************)
(* The values                                                              *)
(***************************************************************************)
\* A sum of a date and some months, days or hours is the source's, on every
\* engine and at every end of month.  Oracle's own month functions are only
\* right at midnight: the forms they become compare with, or return, a date
\* without a time (emit_functions.py:3362, 3380).  A MySQL interval of years and
\* months, or with a sign, is not kept (emit_functions.py:115).
SumsKept ==
    \/ Announced
    \/ call.fn \notin {"DATE_ADD", "ADD_MONTHS", "LAST_DAY", "COMPOUND"}
    \/ call.fn \in {"ADD_MONTHS", "LAST_DAY"} /\ call.date.minute # 0
    \/ call.fn = "COMPOUND" /\ (call.negative \/ call.fields[1] = "year")

\* The units completed are the boundaries crossed.
Settled(u, start, end) == Crossed(u, start, end) = Completed(u, start, end)

\* Where the emitted count is right: a script's DATEDIFF but for weeks, which
\* become seven days each, and MySQL's clock before 1970; a body's where both
\* ways of counting agree; TIMESTAMPDIFF forwards, off the ends of months and
\* below the month where both ways agree; the others without a time of day.
Countable ==
    LET u == call.unit
        start == call.start
        end == call.end
    IN  CASE call.fn = "DATEDIFF" /\ place = "script" ->
               /\ u # "week"
               /\ target = "mysql" /\ u \in {"hour", "minute"} =>
                    At(start) >= 0 /\ At(end) >= 0
          [] call.fn = "DATEDIFF" ->
               \/ u = "day"
               \/ target = "mysql" /\ Settled(u, start, end)
               \/ target # "mysql" /\ (At(end) - At(start)) % MinutesPer(u) = 0
          [] call.fn = "TIMESTAMPDIFF" ->
               /\ At(start) <= At(end)
               /\ IF u \in MonthUnits THEN start.day < 28 ELSE Settled(u, start, end)
          [] OTHER -> start.minute = end.minute

\* A count between two dates is the source's: boundaries stay boundaries and
\* complete periods complete periods (emit_functions.py:269-456).
CountsKept ==
    call.fn \in {"DATEDIFF", "TIMESTAMPDIFF", "DAYS", "MONTHS_BETWEEN"} /\ Countable
    => Announced

\* Where a date begins, and what a field of it reads: not Oracle's WW, which
\* is taken for the ISO week, nor MySQL's WEEK, which is too; not a time of day
\* that is rounded; nor where a remainder turns negative, which is before 1900
\* on T-SQL (a Sunday, the ISO year) and, for the week of the year, in a year
\* that begins before 1970-01-04 on Oracle.
Readable ==
    LET n == DayNumber(call.date)
    IN  CASE call.fn = "TRUNC" ->
               /\ call.fmt # "WW"
               /\ target = "tsql" /\ call.fmt = "DAY" => n >= -25561
          [] call.fn = "ROUND" -> call.date.minute = 0
          [] OTHER ->
               /\ ~(source = "mysql" /\ call.field = "WEEK")
               /\ target = "tsql" /\ call.field = "ISOYEAR" => n >= -25567
               /\ target = "oracle" /\ call.field = "WEEK" => YearStart(n) >= 3

\* A date truncated or rounded is the source's, and so is a field read from a
\* date: weeks, quarters and ISO years begin where the source's do, whatever the
\* session's first day of the week (emit_functions.py:1082-1292, 1596-1611).
PartsKept ==
    call.fn \in {"TRUNC", "ROUND", "EXTRACT"} /\ Readable => Announced
=============================================================================
