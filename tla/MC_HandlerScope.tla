-------------------------- MODULE MC_HandlerScope --------------------------
(***************************************************************************)
(* Routines with blocks two deep, over every pair of engines, with every   *)
(* habit the pair does not lose.                                           *)
(***************************************************************************)
EXTENDS HandlerScope

MCPairs == {p \in [source : Engines, target : Engines] : p.source # p.target}

KeptIdioms == [p \in MCPairs |-> Habits \ Lost(p.source, p.target)]

=============================================================================
