--------------------------- MODULE MC_LiveOutput ---------------------------
(***************************************************************************)
(* Outputs for live validation: every sequence of up to MaxLength          *)
(* statements of a palette, for each target.                               *)
(*                                                                         *)
(* Every statement has a text of its own, and the palettes leave out what  *)
(* the code is known to get wrong: a text that occurs twice or in another  *)
(* (the replacement finds it in the wrong place), a ROLLBACK on PostgreSQL *)
(* (takes the time limit with it), a USE on MySQL (leaves the throwaway    *)
(* database) and a missing column on Oracle (counts as a syntax error).    *)
(***************************************************************************)
EXTENDS LiveOutput

CONSTANT MaxLength

MCTexts == 1..MaxLength
MCWithin == [t \in MCTexts |-> {}]

Does(kind, fault) == [kind |-> kind, fault |-> fault]

Palette ==
  [tsql |-> {Does("query", "none"), Does("ddl", "none"), Does("query", "syntax"),
             Does("query", "missing_table"), Does("use", "missing_database")},
   postgresql |-> {Does("query", "none"), Does("ddl", "none"), Does("commit", "none"),
                   Does("query", "slow"), Does("query", "missing_table"),
                   Does("ddl", "syntax")},
   mysql |-> {Does("query", "none"), Does("ddl", "none"), Does("query", "missing_column"),
              Does("query", "syntax"), Does("query", "slow")},
   oracle |-> {Does("query", "none"), Does("ddl", "none"), Does("ddl", "syntax"),
               Does("query", "missing_table"), Does("query", "syntax")}]

Upto(S) == UNION {[1..m -> S] : m \in 0..MaxLength}

MCOutputs ==
  UNION {{[target |-> t,
           statements |-> [m \in DOMAIN f |->
             [text |-> m, kind |-> f[m].kind, fault |-> f[m].fault]]] :
            f \in Upto(Palette[t])} : t \in Targets}
=============================================================================
