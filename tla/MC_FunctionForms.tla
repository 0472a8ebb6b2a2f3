-------------------------- MODULE MC_FunctionForms --------------------------
(***************************************************************************)
(* Dates where the engines disagree: ends of months of every length,       *)
(* around New Year, Saturdays and Sundays, before 1970 and before 1900,    *)
(* and times on both sides of midnight and of the hour.  Texts with blanks *)
(* before and behind, empty or missing, and positions on both sides of     *)
(* their ends.                                                             *)
(***************************************************************************)
EXTENDS FunctionForms

On(y, m, d, minute) == [month |-> 12 * y + m - 1, day |-> d, minute |-> minute]

EndsOfMonths == {LastDay(On(2024, m, 1, 0)) : m \in 1 .. 12}

MCDates ==
    EndsOfMonths \cup
    {On(2024, 3, 30, 0), On(2024, 2, 28, 0), On(2025, 3, 31, 720), On(2023, 2, 28, 0),
     On(2024, 12, 29, 0), On(2024, 12, 30, 0), On(2021, 1, 3, 0), On(2020, 12, 31, 0),
     On(2024, 5, 15, 570), On(2024, 5, 16, 630), On(2024, 5, 16, 555),
     On(2024, 1, 6, 1410), On(2024, 1, 7, 30), On(2024, 1, 1, 0),
     On(1969, 12, 31, 0), On(1968, 8, 17, 600),
     On(1899, 1, 1, 0), On(1899, 6, 14, 0), On(1899, 12, 31, 30)}

MCAmounts == {-13, -1, 1, 2, 12}

X == 120
Y == 121

MCTexts ==
    {Null, <<>>, <<Blank>>, <<X>>, <<X, Y>>, <<X, Blank>>, <<Blank, Y, X>>, <<X, Y, X, Y>>}

MCPositions == {-5, -2, -1, 0, 1, 2, 3, 5}
=============================================================================
