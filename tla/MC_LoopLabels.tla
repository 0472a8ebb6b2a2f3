--------------------------- MODULE MC_LoopLabels ---------------------------
(***************************************************************************)
(* Routines nested three deep, over every pair of engines, that keep to    *)
(* what the emitters get right.                                            *)
(***************************************************************************)
EXTENDS LoopLabels, TLC

MCPairs == {p \in [source : Engines, target : Engines] :
              p.source # p.target \/ p.source = "mysql"}

KeptIdioms == [p \in MCPairs |-> KeptHabits(p.source, p.target)]

NameSymmetry == Permutations(Names)
=============================================================================
