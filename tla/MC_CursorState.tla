--------------------------- MODULE MC_CursorState ---------------------------
(***************************************************************************)
(* Routines over two cursors, with the idioms the emission keeps right.     *)
(***************************************************************************)
EXTENDS CursorState, TLC

MCPairs == {p \in [source : Sources, target : Targets] : p.source # p.target}

KeptIdioms == [p \in MCPairs |-> [does |-> KeptHabits(p.target), between |-> KeptKinds(p.source, p.target)]]

CursorSymmetry == Permutations(Cursors)
=============================================================================
