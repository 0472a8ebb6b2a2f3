--------------------------- MODULE MC_RunningTypes ---------------------------
(***************************************************************************)
(* Scripts over one table, of the forms the converter keeps right.         *)
(***************************************************************************)
EXTENDS RunningTypes, TLC

Runs == {p \in [source : Engines, target : Engines] : p.source # p.target}

KeptPalette == [p \in Runs |-> KeptForms(p.source, p.target)]

\* Columns and types are interchangeable: no definition names one.
Symmetry == Permutations(Columns) \cup Permutations(Types)
=============================================================================
