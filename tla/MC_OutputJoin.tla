--------------------------- MODULE MC_OutputJoin ---------------------------
(***************************************************************************)
(* Scripts of up to MaxBatches batches, each of a shape the emitters of the *)
(* target produce.  Left out of Shapes, because the client then reads       *)
(* something else: the shapes of Amiss.                                    *)
(***************************************************************************)
EXTENDS OutputJoin

CONSTANTS MaxBatches, Odd   \* Odd: the shapes of Amiss that are let in

Comment(text) == [comment |-> TRUE, texts |-> <<text>>]
Node(text) == [comment |-> FALSE, texts |-> <<text>>]
Unit(texts) == [comment |-> FALSE, texts |-> texts]

Note == <<"divider", "quote", "semi">>
Block == <<"open", "word", "semi", "newline", "quote", "close">>
Carrier == <<"dashes", "word", "newline", "dashes", "semi">>
Plain == <<"word", "newline", "word">>
Literal == <<"word", "quote", "dashes", "semi", "newline", "word", "semi", "quote">>
Noted == Plain \o <<"newline", "dashes", "word", "semi">>
Headed == Note \o <<"newline">> \o Plain
Closed == Plain \o <<"newline", "open", "semi", "close">>
Ended == Plain \o <<"semi">>

Body == <<"begin", "newline", "word", "semi", "newline">>
OneRoutine == <<"routine", "newline">> \o Body \o <<"end">>
Routine == OneRoutine \o <<"semi">>
Dollars == <<"routine", "newline", "dollar", "newline">> \o Body
             \o <<"end", "semi", "newline", "dollar", "semi">>
Anonymous == Body \o <<"end", "semi">>

Units ==
  [tsql |-> {Unit(<<OneRoutine>>), Unit(<<Note \o <<"newline">> \o OneRoutine>>)},
   postgresql |-> {Unit(<<Dollars>>), Unit(<<Dollars, Ended>>)},
   mysql |-> {Unit(<<OneRoutine>>), Unit(<<Routine>>), Unit(<<OneRoutine, OneRoutine>>),
              Unit(<<Note \o <<"newline", "newline">> \o OneRoutine>>)},
   oracle |-> {Unit(<<Routine>>), Unit(<<Ended, Routine>>), Unit(<<Anonymous>>),
               Unit(<<Note \o <<"newline">> \o Block \o <<"newline">> \o Anonymous>>)}]

(* The routine that _peel_leading_statements finds: CREATE, never a block.   *)
Stored(d) ==
  CASE d \in {"tsql", "mysql"} -> Unit(<<OneRoutine>>)
    [] d = "postgresql" -> Unit(<<Dollars>>)
    [] d = "oracle" -> Unit(<<Routine>>)

Batch(type, nodes) == [type |-> type, nodes |-> nodes]

Shapes(d) ==
  {Batch("COMMENT", <<Comment(c)>>) : c \in {Note, Block}} \cup
  {Batch("DML", <<Node(t)>>) : t \in {Literal, Noted, Closed, Ended, Carrier}} \cup
  {Batch("DML", n) : n \in {<<Comment(Note), Node(Headed)>>, <<Node(Literal), Node(Noted)>>}} \cup
  {Batch("PROCEDURAL", <<u>>) : u \in Units[d]} \cup
  {Batch("PROCEDURAL", <<Node(n), Stored(d)>>) : n \in {Noted, Carrier}}

(* A statement with a note below it, ahead of another in the same batch; a   *)
(* literal whose last line starts with dashes; on MySQL, a literal line     *)
(* that starts with a divider, and a routine below a block comment.        *)
DashedLiteral == <<"word", "quote", "newline", "dashes", "quote">>
DividedLiteral == <<"word", "quote", "newline", "divider", "newline", "word", "quote">>
Amiss(d) ==
  [noted |-> Batch("DML", <<Node(Noted), Node(Plain)>>),
   dashed |-> Batch("DML", <<Node(DashedLiteral)>>),
   divided |-> Batch("DML", <<Node(DividedLiteral)>>),
   raw |-> Batch("PROCEDURAL", <<Unit(<<Block \o <<"newline">> \o Stored(d).texts[1]>>)>>)]

MCJoinInputs ==
  UNION {{[target |-> d, batches |-> s] :
            s \in UNION {[1..n -> Shapes(d) \cup {Amiss(d)[o] : o \in Odd}] : n \in 1..MaxBatches}} :
         d \in Dialects}
=============================================================================
