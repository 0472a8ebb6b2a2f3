--------------------------- MODULE MC_OperatorForms ---------------------------
(***************************************************************************)
(* Expressions of two and three leaves: literals and columns that do not    *)
(* divide evenly, negative, zero and NULL, and texts that may be NULL.      *)
(***************************************************************************)
EXTENDS OperatorForms

Number(n) == [kind |-> "number", v |-> Whole(n)]
Column(n) == [kind |-> "column", v |-> Whole(n)]
NullColumn == [kind |-> "column", v |-> Null]
NullLiteral == [kind |-> "null", v |-> Null]
String(s) == [kind |-> "string", v |-> Text(s)]
StringColumn(s) == [kind |-> "string column", v |-> Text(s)]
NullVariable == [kind |-> "string variable", v |-> Null]

Row(values, signs) == [leaves |-> values, unaries |-> signs]

MCRows ==
    {Row(<<Number(7), Column(-2)>>, 2),
     Row(<<Column(5), Number(2), Number(3)>>, 1),
     Row(<<Column(-7), Number(2), Column(3)>>, 1),
     Row(<<Column(2), Column(0), NullColumn>>, 1),
     Row(<<String("x"), Column(3), Number(2)>>, 1),
     Row(<<String("x"), NullLiteral, StringColumn("y")>>, 1),
     Row(<<Number(2), Column(3), String("x")>>, 1),
     Row(<<NullVariable, String("x"), Number(1)>>, 1)}

ArithmeticRows ==
    {Row(<<Number(7), Number(2), Number(3)>>, 0),
     Row(<<Column(-7), Column(2), Column(5)>>, 0),
     Row(<<Column(100), Number(7), Column(10)>>, 0)}

MCArithmetic == Arithmetic
MCOperators == BinaryOperators \cup UnaryOperators \cup NullTests
=============================================================================
