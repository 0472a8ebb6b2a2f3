------------------------- MODULE MC_StatementSplit -------------------------
(***************************************************************************)
(* Scripts for the splitter: every concatenation of up to MaxFragments     *)
(* fragments of the dialect.  A fragment is closed (its strings, comments  *)
(* and blocks end in it) and holds inside a string, a comment or a body    *)
(* the marks that must not act there.                                      *)
(*                                                                         *)
(* Left out of the fragments of the passing run, because the code and the  *)
(* client part there: a CASE inside a PostgreSQL or MySQL body (its END     *)
(* closes the body), a $$ inside a PostgreSQL literal, and a directive     *)
(* line inside a string or a comment.                                      *)
(***************************************************************************)
EXTENDS StatementSplit

CONSTANT MaxFragments

Plain == <<"word", "semi">>

(* Marks in a literal and in either comment.                               *)
Literal(inside) == <<"word", "quote">> \o inside \o <<"quote", "semi">>
LineNote(inside) == <<"dashes">> \o inside \o <<"newline">>
BlockNote(inside) == <<"open">> \o inside \o <<"close">>

TopLevelCase == <<"word", "case", "end", "semi">>
Body == <<"begin", "word", "semi", "end", "semi">>
Nested == <<"begin", "begin", "word", "semi", "end", "semi", "word", "semi", "end", "semi">>
CaseBody == <<"begin", "case", "word", "end", "semi", "word", "semi", "end", "semi">>
Transaction == <<"begin", "semi">>
NamedTransaction == <<"begin", "newline", "transaction", "semi">>
DollarBody == <<"word", "dollar", "quote", "semi", "begin", "dashes", "dollar", "semi">>

Shared == {Plain, Literal(<<"semi", "dashes">>), Literal(<<"open", "begin">>),
           LineNote(<<"quote", "semi", "begin">>), BlockNote(<<"end", "quote", "semi">>)}

Fragments ==
  [tsql |-> {<<"word", "newline">>, <<"go", "newline">>, LineNote(<<"word">>),
             <<"word", "quote", "semi", "quote", "newline">>},
   postgresql |->
     Shared \cup {TopLevelCase, Body, Nested, Transaction, NamedTransaction, DollarBody,
                  LineNote(<<"dollar">>)},
   mysql |->
     Shared \cup {TopLevelCase, Body, Nested, Transaction,
                  Literal(<<"backslash", "quote", "semi">>),
                  Literal(<<"backslash", "backslash">>),
                  <<"delimiter_dollar", "newline">> \o CaseBody \o
                    <<"dollar", "newline", "delimiter_semi", "newline">>},
   oracle |->
     {f \o <<"newline">> : f \in Shared} \cup
     {<<"routine", "begin", "word", "semi", "end", "semi", "newline", "slash", "newline">>,
      <<"begin", "case", "quote", "semi", "quote", "end", "semi", "end", "semi", "newline",
        "slash", "newline">>,
      <<"slash", "newline">>}]

MCInputs ==
  UNION {{[dialect |-> d, script |-> FlattenSeq(f)] :
            f \in UNION {[1..n -> Fragments[d]] : n \in 1..MaxFragments}} :
         d \in DOMAIN Fragments}

(* The scripts are such as the theorems about the scanner ask for.         *)
ASSUME MCInputsAssumption == \A i \in Inputs : Splittable(i.dialect, i.script)
=============================================================================
