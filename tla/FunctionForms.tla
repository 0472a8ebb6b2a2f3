---------------------------- MODULE FunctionForms ----------------------------
(***************************************************************************)
(* The calls of functions of dates and of texts that a conversion rebuilds *)
(* from the target's functions, one call at a time.                        *)
(***************************************************************************)
EXTENDS DateForms, TextForms

Next == ConvertDates \/ ConvertTexts

Spec == Init /\ [][Next]_vars
=============================================================================
