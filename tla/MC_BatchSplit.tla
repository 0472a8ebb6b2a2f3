---------------------------- MODULE MC_BatchSplit ----------------------------
(***************************************************************************)
(* Scripts for the batch splitter: every concatenation of up to            *)
(* MaxFragments fragments of the dialect.  A fragment ends its line,       *)
(* closes what it opens, and holds the marks that must not act where they  *)
(* stand.                                                                  *)
(*                                                                         *)
(* Left out of the fragments of the passing run, because the code and the  *)
(* client part there: a block comment of three lines that quotes a head in *)
(* Oracle, a comment or a literal with a semicolon at the end of its line  *)
(* in Oracle and MySQL, a MySQL                                            *)
(* routine without BEGIN followed by a statement, a `/*' in a -- comment   *)
(* or a literal ahead of a block comment, and comments in a PostgreSQL     *)
(* body that hold a quote or its tag.                                      *)
(***************************************************************************)
EXTENDS BatchSplit

CONSTANT MaxFragments

NL == <<"newline">>

Plain == <<"word", "semi", "newline">>
TwoLines == <<"word", "newline", "word", "semi", "newline">>
LineNote(inside) == <<"dashes">> \o inside \o NL
BlockNote(inside) == <<"open", "newline">> \o inside \o <<"newline", "close", "newline">>

TsqlFragments ==
  {<<"word", "newline">>, <<"go", "newline">>, <<"routine", "newline">>, <<"set", "newline">>,
   LineNote(<<"quote", "go">>), BlockNote(<<"quote", "newline", "go">>),
   <<"open", "routine", "close", "newline">>,
   <<"word", "quote", "newline", "go", "newline", "quote", "newline">>,
   <<"word", "quote", "quote", "quote", "newline", "go", "newline", "quote", "newline">>}

PostgresqlFragments ==
  {Plain, TwoLines, <<"set", "semi", "newline">>,
   <<"word", "semi", "word", "semi", "newline">>,
   LineNote(<<"quote", "semi">>), BlockNote(<<"quote", "semi", "newline", "routine">>),
   <<"word", "quote", "semi", "newline", "dashes", "quote", "semi", "newline">>,
   <<"word", "equote", "backslash", "quote", "semi", "newline", "quote", "semi", "newline">>,
   <<"word", "dquote", "quote", "semi", "newline", "dquote", "semi", "newline">>,
   <<"routine", "dollar", "newline", "word", "semi", "newline", "dashes", "quote", "newline",
     "dollar", "semi", "newline">>,
   <<"routine", "tag", "newline", "dollar", "semi", "newline", "dollar", "tag", "semi",
     "newline">>}

OracleFragments ==
  {Plain, TwoLines, <<"set", "newline">>, <<"rem", "quote", "newline">>,
   LineNote(<<"routine", "word">>), <<"word", "dashes", "quote", "open", "newline">> \o Plain,
   <<"open", "routine", "newline", "close", "newline">>,
   BlockNote(<<"slash", "newline", "quote", "semi", "newline", "set">>),
   <<"word", "quote", "open", "quote", "semi", "newline">>,
   <<"word", "newline", "set", "newline", "word", "semi", "newline">>,
   <<"routine", "newline", "begin", "word", "semi", "newline", "end", "semi", "newline",
     "slash", "newline">>,
   <<"begin", "newline", "open", "newline", "slash", "newline", "close", "word", "semi",
     "newline", "end", "semi", "newline", "slash", "newline">>}

MysqlFragments ==
  {Plain, TwoLines, <<"set", "semi", "newline">>,
   <<"word", "semi", "word", "quote", "semi", "quote", "semi", "newline">>,
   <<"word", "semi", "word", "newline">> \o Plain,
   LineNote(<<"word", "semi", "word">>), <<"open", "word", "close", "newline">>,
   <<"routine", "newline", "begin", "newline", "case", "word", "end", "semi", "newline",
     "word", "semi", "newline", "end", "semi", "newline">>,
   <<"routine", "begin", "case", "newline", "word", "semi", "newline", "end", "case", "semi",
     "newline", "end", "semi", "newline">>,
   <<"delimiter_dollar", "newline", "routine", "begin", "newline", "word", "semi", "newline",
     "end", "dollar", "newline", "delimiter_semi", "newline">>,
   <<"routine", "word", "semi", "newline", "delimiter_dollar", "newline", "word", "dollar",
     "newline", "delimiter_semi", "newline">>}

Fragments ==
  [tsql |-> TsqlFragments, postgresql |-> PostgresqlFragments,
   oracle |-> OracleFragments, mysql |-> MysqlFragments]

(* The last statement of a script may lack its end.                        *)
Endings == {<<>>, <<"word">>}

MCInputs ==
  UNION {{[dialect |-> d, script |-> FlattenSeq(f) \o e] :
            f \in UNION {[1..n -> Fragments[d]] : n \in 1..MaxFragments}, e \in Endings} :
         d \in DOMAIN Fragments}

(* These scripts are such as the theorem about the readers asks for.       *)
ASSUME MCInputsAssumption == \A x \in Inputs : Readable(x.dialect, x.script)
=============================================================================
