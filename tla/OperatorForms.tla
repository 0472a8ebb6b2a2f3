---------------------------- MODULE OperatorForms ----------------------------
(***************************************************************************)
(* Expressions, from a tree back to text (emit_expr.py, emit.py).  The      *)
(* converter drops the parentheses of the source: the tree says what        *)
(* belongs together, and the emitter writes parentheses again where it      *)
(* thinks the target needs them.  An operator that computes something else  *)
(* on the target becomes a call, a CASE or another operator.                *)
(*                                                                         *)
(* An expression is built from its leaves up, on a stack, and emitted as it *)
(* is built.  Three values of it are kept: what the source computes for the *)
(* tree, what the target computes for what was emitted if every operand     *)
(* keeps its parentheses, and the emitted text, which the target reads as   *)
(* its own grammar says.  The tree is the one sqlglot parsed.               *)
(*                                                                         *)
(* Left out: dates (DateForms), strings taken for numbers, the scale of     *)
(* decimals, overflow, collations, and shifts on SQL Server.                *)
(***************************************************************************)
EXTENDS Engines

CONSTANTS Rows,      \* [leaves, unaries]: a sequence of [kind, v], and a bound
          Operators  \* the operators expressions are built with

VARIABLES source, target,
          row,     \* the leaves of the expression not yet used, in order, with their values
          stack,   \* the expressions built and not yet used, the last on top
          unaries  \* unary operators it may still get

vars == <<source, target, row, stack, unaries>>

Arithmetic == {"ADD", "SUB", "MUL", "DIV", "MOD"}
BitOperators == {"BIT_AND", "BIT_OR", "BIT_XOR", "BIT_LSHIFT", "BIT_RSHIFT"}
NullSafe == {"NULLSAFE_EQ", "NULLSAFE_NEQ"}
Comparing == {"EQ", "NEQ", "LT"}
Logical == {"AND", "OR"}
InLists == {"IN", "IN_VALUES"}
BinaryOperators == InLists \cup {"IS"} \cup Arithmetic \cup BitOperators \cup NullSafe \cup Comparing \cup Logical \cup {"CONCAT"}
UnaryOperators == {"NOT", "NEGATIVE", "BITWISE_NOT"}
NullTests == {"IS", "IS NOT"}

\* op_map: the operator's sign, on an engine.
Sign(e, op) ==
    CASE op = "ADD" -> "+" [] op = "SUB" -> "-" [] op = "MUL" -> "*"
      [] op = "DIV" -> "/" [] op = "MOD" -> "%" [] op = "CONCAT" -> "||"
      [] op = "BIT_AND" -> "&" [] op = "BIT_OR" -> "|"
      [] op = "BIT_XOR" -> IF e = "postgresql" THEN "#" ELSE "^"
      [] op = "BIT_LSHIFT" -> "<<" [] op = "BIT_RSHIFT" -> ">>"
      [] op = "EQ" -> "=" [] op = "NEQ" -> "<>" [] op = "LT" -> "<"
      [] op = "NULLSAFE_EQ" -> IF e = "mysql" THEN "<=>" ELSE "IS NOT DISTINCT FROM"
      [] op = "NULLSAFE_NEQ" -> "IS DISTINCT FROM"
      [] op = "NEGATIVE" -> "neg" [] op = "BITWISE_NOT" -> "~"
      [] op = "IS" -> "IS NULL"
      [] OTHER -> op

(***************************************************************************)
(* Parentheses.                                                            *)
(***************************************************************************)
\* _BIN_PRECEDENCE
Precedence(op) ==
    CASE op = "OR" -> 1
      [] op = "AND" -> 2
      [] op \in Comparing \cup NullSafe \cup InLists \cup {"IS"} -> 3
      [] op \in BitOperators -> 4
      [] op \in {"ADD", "SUB", "CONCAT"} -> 5
      [] OTHER -> 6

\* A mutant of NonAssociative: subtraction is taken to associate.
NonAssociative_NoMinus == {"DIV", "MOD", "BIT_LSHIFT", "BIT_RSHIFT"}

\* _NON_ASSOCIATIVE
NonAssociative == {"SUB", "DIV", "MOD", "BIT_LSHIFT", "BIT_RSHIFT"}

Mixed(a, b) == a \in BitOperators /\ b \in Arithmetic

Parenthesized(child, parent, right) ==
    \/ child.op = "NOT" /\ parent \notin Logical
    \/ /\ child.op \in BinaryOperators
       /\ \/ Mixed(child.op, parent) \/ Mixed(parent, child.op)
          \/ Precedence(child.op) < Precedence(parent)
          \/ right /\ Precedence(child.op) = Precedence(parent) /\ parent \in NonAssociative

\* _emit_operand.  Either way the target reads child.read in it.
Operand(child, parent, right) ==
    IF Parenthesized(child, parent, right) THEN Value(child.read) ELSE child.text

(***************************************************************************)
(* Operators that need another form.                                       *)
(***************************************************************************)
\* An expression that is certainly an integer: a literal here.
IsIntegerOperand(x) == x.kind = "number"
IsNullLiteral(x) == x.kind = "null"
IsNullable(x) == x.kind \in {"null", "string variable"}

TruncatingEngines == {"postgresql", "tsql"}

\* A mutant of DivisionForm: MySQL's division is left to the target.
DivisionForm_Plain(l, r, L, R) == l \o Op("/") \o r

\* MySQL divides by zero to NULL, and what truncates differs.
DivisionForm(l, r, L, R) ==
    LET divisor == IF source = "mysql" /\ target # "mysql"
                   THEN Value(IF Zero(R.read) THEN Null ELSE R.read) ELSE r
        decimal == Sealed(l \o Op("*") \o Value(Decimal(1)) \o Op("/") \o divisor)
        ratio == Reading(target, l \o Op("/") \o divisor)
    IN  CASE IsIntegerOperand(L) /\ IsIntegerOperand(R)
             /\ source \in TruncatingEngines /\ target \notin TruncatingEngines ->
               Value(IF IsNumber(ratio) THEN Whole(Quotient(ratio.n, ratio.d)) ELSE ratio)
          [] IsIntegerOperand(L) /\ IsIntegerOperand(R)
             /\ source \notin TruncatingEngines /\ target \in TruncatingEngines -> decimal
          [] source = "mysql" /\ target \in TruncatingEngines -> decimal
          [] OTHER -> l \o Op("/") \o divisor

\* MOD(l, r) of Oracle: r = 0 gives l.
OracleModulo(x, y) ==
    CASE Error \in {x, y} -> Error
      [] Null \in {x, y} -> Null
      [] Zero(y) -> x
      [] OTHER -> Remainder("mysql", x, y)

\* MySQL's remainder by zero is NULL everywhere.
ModuloForm(l, r, L, R) ==
    LET modulo == IF target = "oracle" THEN Value(OracleModulo(L.read, R.read))
                  ELSE l \o Op("%") \o r
    IN  CASE source = "mysql" -> IF Zero(R.read) THEN Value(Null) ELSE Sealed(modulo)
          [] OTHER -> modulo

\* Oracle computes bits with BITAND and arithmetic.
OracleBits(op, l, r, L, R) ==
    LET x == L.read
        y == R.read
        both == Value(IF Error \in {x, y} THEN Error ELSE IF Null \in {x, y} THEN Null
                      ELSE BitOp(target, "&", x, y))
        sum == l \o Op("+") \o r \o Op("-")
        power == Value(IF IsWhole(y) /\ y.n \in 0 .. 8 THEN Decimal(2 ^ y.n) ELSE Error)
        floor(z) == IF IsNumber(z) THEN Whole(z.n \div z.d) ELSE z
    IN  CASE op = "BIT_AND" -> both
          [] op = "BIT_OR" -> Sealed(sum \o both)
          [] op = "BIT_XOR" -> Sealed(sum \o Value(Decimal(2)) \o Op("*") \o both)
          [] op = "BIT_LSHIFT" -> Sealed(l \o Op("*") \o power)
          [] OTHER -> Value(floor(Reading(target, l \o Op("/") \o power)))

\* SQL Server and Oracle compare NULL-safe with EXISTS (... INTERSECT ...), as
\* CASE WHEN ... THEN 1 ELSE 0 END = 1.
NullSafeForm(op, l, r, L, R) ==
    LET same == Same(L.read, R.read)
        case == Value(Whole(IF same = (op = "NULLSAFE_EQ") THEN 1 ELSE 0))
    IN  CASE target = "mysql" /\ op = "NULLSAFE_EQ" -> l \o Op("<=>") \o r
          [] target = "mysql" -> Op("NOT") \o Sealed(l \o Op("<=>") \o r)
          [] target \in {"tsql", "oracle"} -> case \o Op("=") \o Value(Whole(1))
          [] OTHER -> l \o Op(Sign(target, op)) \o r

(***************************************************************************)
(* ||.  parts are the operands of a whole chain.                            *)
(***************************************************************************)
Parts(x) == IF x.op = "CONCAT" THEN x.parts ELSE <<x>>
IsNumeric(x) == x.kind = "number" \/ x.op \in Arithmetic

RECURSIVE JoinedBy(_, _)
JoinedBy(op, texts) ==
    IF Len(texts) = 1 THEN texts[1] ELSE texts[1] \o Op(op) \o JoinedBy(op, Tail(texts))

TextsOf(parts) == [i \in DOMAIN parts |-> parts[i].text]
ValuesOf(parts) == {parts[i].read : i \in DOMAIN parts}

\* Some operand may be NULL, and Oracle would skip it.
Guarded(parts) == source # "oracle" /\ \E i \in DOMAIN parts : IsNullable(parts[i])

SpellingsOf(parts) ==
    LET spelling(v) == IF v = Null THEN Text("") ELSE Text(Spelling(v))
    IN  [i \in DOMAIN parts |-> Value(spelling(parts[i].read))]

ConcatForm(l, r, L, R) ==
    LET parts == Parts(L) \o Parts(R)
        asText(v) == Value(IF IsNumber(v) THEN Text(Spelling(v)) ELSE v)
        guard == \E i \in DOMAIN parts : IsNullable(parts[i]) /\ parts[i].read = Null
    IN  CASE Error \in ValuesOf(parts) -> Value(Error)
          [] target = "oracle" /\ Guarded(parts) ->
               IF guard THEN Value(Null) ELSE Sealed(JoinedBy("||", TextsOf(parts)))
          [] target = "tsql" /\ \E i \in DOMAIN parts : IsNumeric(parts[i]) ->
               Sealed(JoinedBy("+", SpellingsOf(parts)))
          [] target = "tsql" -> l \o Op("+") \o r
          [] target = "mysql" ->
               Value(IF Null \in ValuesOf(parts) THEN Null
                     ELSE Reading("oracle", JoinedBy("||", SpellingsOf(parts))))
          [] target = "postgresql" /\ IsNumeric(L) /\ IsNumeric(R) ->
               asText(L.read) \o Op("||") \o asText(R.read)
          [] OTHER -> l \o Op("||") \o r

\* _emit_binary
BinaryForm(op, L, R) ==
    LET l == Operand(L, op, FALSE)
        r == Operand(R, op, TRUE)
    IN  CASE op = "DIV" -> DivisionForm(l, r, L, R)
          [] op = "MOD" -> ModuloForm(l, r, L, R)
          [] op = "CONCAT" -> ConcatForm(l, r, L, R)
          [] op \in NullSafe -> NullSafeForm(op, l, r, L, R)
          [] op \in BitOperators /\ target = "oracle" -> OracleBits(op, l, r, L, R)
          [] OTHER -> l \o Op(Sign(target, op)) \o r

\* _emit_unary
UnaryForm(op, X) ==
    LET operand == IF op # "BITWISE_NOT" /\ X.op \in BinaryOperators THEN Value(X.read) ELSE X.text
        signed(v) == IF IsNumber(v) THEN Whole(Signed(v.n)) ELSE v
    IN  CASE op # "BITWISE_NOT" -> Op(Sign(target, op)) \o operand
          [] target = "oracle" -> Op("neg") \o Sealed(operand) \o Op("-") \o Value(Decimal(1))
          [] target = "mysql" -> Value(signed(Reading(target, Op("~") \o operand)))
          [] OTHER -> Op("~") \o operand

(***************************************************************************)
(* Expressions.                                                            *)
(***************************************************************************)
Numbers == {"int", "num"}
BooleanEngines == {"mysql", "postgresql"}

\* What the source's grammar has, and for which types.
Offered(op) ==
    CASE source = "tsql" -> op \notin {"CONCAT", "BIT_LSHIFT", "BIT_RSHIFT"}
      [] source = "mysql" -> op \notin {"CONCAT", "NULLSAFE_NEQ"}
      [] source = "oracle" -> op \notin BitOperators \cup NullSafe \cup {"BITWISE_NOT"}
      [] OTHER -> TRUE

Fits(op, L, R) ==
    LET types == {L.type, R.type}
    IN  CASE op = "MOD" -> types = {"int"}
          [] op \in Arithmetic \cup NullSafe -> types \subseteq Numbers
          [] op \in {"BIT_LSHIFT", "BIT_RSHIFT"} ->
               types = {"int"} /\ R.kind = "number" /\ target # "tsql"
          [] op \in BitOperators -> types = {"int"}
          [] op \in Comparing -> \/ types \subseteq Numbers
                                 \/ /\ types = {"bool"} /\ op # "LT"
                                    /\ {source, target} = BooleanEngines
          [] op \in Logical -> types = {"bool"}
          [] OTHER -> /\ types \subseteq {"int", "text"}
                      /\ source = "oracle" \/ "text" \in types

TypeOf(op, L, R) ==
    CASE op = "CONCAT" -> "text"
      [] op \in Comparing \cup NullSafe \cup Logical -> "bool"
      [] op \in BitOperators -> "int"
      [] {L.type, R.type} = {"int"} /\ (op # "DIV" \/ source \in TruncatingEngines) -> "int"
      [] OTHER -> "num"

\* What the source computes.
Computed(op, x, y) ==
    IF op = "MOD" /\ source = "oracle" THEN OracleModulo(x, y)
    ELSE Infix(source, Sign(source, op), x, y)

(***************************************************************************)
(* Where another value is expected: these are the emitter's own limits.    *)
(***************************************************************************)
InPositiveRange(x) == IsNumber(x) => 0 <= x.n /\ x.n < Modulus \div 2

\* Integer columns are not known to be integers, and neither are results.
KeptDivision(L, R) ==
    \/ source = "mysql" \/ ((source \in TruncatingEngines) = (target \in TruncatingEngines))
    \/ {L.type, R.type} # {"int"} \/ (IsIntegerOperand(L) /\ IsIntegerOperand(R))

\* Two integers have no || on PostgreSQL, and an integer and a text no + on SQL
\* Server, unless one is known to be a number.
Spellable(L, R) ==
    LET parts == Parts(L) \o Parts(R)
    IN  /\ target = "postgresql" =>
              {L.type, R.type} # {"int"} \/ (IsNumeric(L) /\ IsNumeric(R))
        /\ target = "tsql" => \/ \E i \in DOMAIN parts : IsNumeric(parts[i])
                              \/ \A i \in DOMAIN parts : parts[i].type # "int"

\* A NULL nobody declared to be possible, and an integer nobody knows to be one.
KeptConcat(L, R) ==
    LET parts == Parts(L) \o Parts(R)
        numeric == \E i \in DOMAIN parts : IsNumeric(parts[i])
        null(x) == x.value = Null
    IN  /\ (\E i \in DOMAIN parts : null(parts[i])) =>
              /\ source # "oracle"
              /\ target = "oracle" => \E i \in DOMAIN parts :
                                        IsNullable(parts[i]) /\ null(parts[i])
              /\ target = "tsql" => ~numeric
        /\ Spellable(L, R)

KeptBinary(op, L, R) ==
    CASE op = "DIV" -> KeptDivision(L, R)
      [] op = "MOD" -> source = "oracle" => ~Zero(R.value)
      [] op = "CONCAT" -> KeptConcat(L, R)
      [] op \in BitOperators ->
           "mysql" \in {source, target} =>
             \A x \in {L.value, R.value, Computed(op, L.value, R.value)} : InPositiveRange(x)
      [] OTHER -> TRUE

(***************************************************************************)
(* Where the emitted text is known to be read otherwise than the tree says. *)
(***************************************************************************)
Exposed(x) == Len(x.text) > 1
Has(op, x) == \E i \in DOMAIN x.text : x.text[i].op = op

\* An operand of a bit operator that the target binds as it pleases.
ClearBits(op, L, R) ==
    LET level(o) == Binds(target, Sign(target, o))
    IN  /\ R.op \in BitOperators /\ op \notin NonAssociative =>
              level(R.op) > level(op) \/ R.op = op
        /\ L.op \in BitOperators => level(L.op) >= level(op)

ClearComparison(L, R) ==
    LET compares(x) == x.op \in Comparing \cup NullSafe
    IN  /\ ~compares(R) /\ R.op # "IS"
        /\ compares(L) => target = "mysql" /\ L.op # "NULLSAFE_NEQ"

\* ~ of Oracle is written -(x) - 1.
ClearComplement(op, L, R) ==
    LET complement(x) == x.op = "BITWISE_NOT" /\ target = "oracle"
    IN  /\ op \in {"MUL", "DIV", "CONCAT", "BIT_LSHIFT", "BIT_RSHIFT"} =>
              ~complement(L) /\ ~complement(R)
        /\ op = "SUB" => ~complement(R)

\* PostgreSQL binds ~, and SQL Server the minus sign, weaker than arithmetic.
ClearPrefix(op, L) ==
    \/ Parenthesized(L, op, FALSE)
    \/ /\ target = "postgresql" /\ op \in Arithmetic => ~Has("~", L)
       /\ target = "tsql" /\ op \in {"MUL", "DIV", "MOD"} => ~Has("neg", L) \/ L.op = "NEGATIVE"

ClearBinary(op, L, R) ==
    /\ op = "MUL" => R.op \notin {"DIV", "MOD"} \/ ~Exposed(R)
    /\ op \in BitOperators /\ target # "oracle" => ClearBits(op, L, R)
    /\ op = "CONCAT" /\ target = "oracle" => R.op \notin {"ADD", "SUB"}
    /\ op = "CONCAT" => Spellable(L, R) /\ Spellable(L, Parts(R)[1])
    /\ op \in Comparing \cup NullSafe => ClearComparison(L, R)
    /\ op = "AND" => ~Has("OR", L) \/ L.op = "OR"
    /\ op = "AND" => ~Has("OR", R) \/ R.op = "OR"
    /\ ClearComplement(op, L, R)
    /\ ClearPrefix(op, L)

ClearUnary(op, X) ==
    CASE op = "BITWISE_NOT" -> X.op \in BinaryOperators => target = "oracle" \/ ~Exposed(X)
      [] op = "NEGATIVE" -> /\ X.op = "NEGATIVE" => target = "mysql"
                            /\ X.op = "BITWISE_NOT" => target # "oracle"
      [] OTHER -> TRUE

\* Every operand in parentheses of its own.
Isolated(x) ==
    LET isolated(y) == [y EXCEPT !.text = Value(y.grouped), !.read = y.grouped]
    IN  [isolated(x) EXCEPT !.parts = [i \in DOMAIN x.parts |-> isolated(x.parts[i])]]

\* Exactly one operand of an Oracle source's || is the literal NULL.
DropsNull(op, L, R) ==
    op = "CONCAT" /\ source = "oracle" /\ IsNullLiteral(L) # IsNullLiteral(R)

LeafItem(leaf) ==
    [op |-> "leaf", kind |-> leaf.kind,
     type |-> IF leaf.kind \in {"number", "column"} THEN "int" ELSE "text",
     value |-> leaf.v, grouped |-> leaf.v, text |-> Value(leaf.v), read |-> leaf.v, parts |-> <<>>,
     kept |-> TRUE, clear |-> TRUE]

\* An operation, of which isolated is the text if every operand keeps its parentheses.
Item(op, type, value, isolated, text) ==
    [op |-> op, kind |-> "", type |-> type, value |-> value,
     grouped |-> Reading(target, isolated),
     text |-> Settled(target, text), read |-> Reading(target, text), parts |-> <<>>,
     kept |-> TRUE, clear |-> TRUE]

BinaryItem(op, L, R) ==
    [Item(op, TypeOf(op, L, R), Computed(op, L.value, R.value),
          BinaryForm(op, Isolated(L), Isolated(R)), BinaryForm(op, L, R))
     EXCEPT !.parts = IF op = "CONCAT" THEN Parts(L) \o Parts(R) ELSE <<>>,
            !.kept = L.kept /\ R.kept /\ KeptBinary(op, L, R),
            !.clear = L.clear /\ R.clear /\ ClearBinary(op, L, R)]

UnaryItem(op, X) ==
    [Item(op, X.type, Prefixed(source, Sign(source, op), X.value),
          UnaryForm(op, Isolated(X)), UnaryForm(op, X))
     EXCEPT !.kept = X.kept /\ ~(op = "BITWISE_NOT" /\ source = "mysql"),
            !.clear = X.clear /\ ClearUnary(op, X)]

\* x IS NULL; x IS NOT NULL is the negation of it.
NullTestItem(X) ==
    [Item("IS", "bool", Postfixed("IS NULL", X.value),
          Value(X.grouped) \o Op("IS NULL"), Operand(X, "IS", FALSE) \o Op("IS NULL"))
     EXCEPT !.kept = X.kept, !.clear = X.clear /\ X.op \notin NullSafe]

(***************************************************************************)
(* Comparisons of rows: (x, y) with a pair of constants, or with a list of *)
(* pairs, or with VALUES of pairs.                                         *)
(***************************************************************************)
RowOperators == Comparing \cup InLists

\* The comparison spelled with the columns of the pairs.
Equal(x, v) == x \o Op("=") \o Value(v)
PairEqual(x, y, p) == Equal(x, p[1]) \o Op("AND") \o Equal(y, p[2])
PairList(x, y, ps) == Sealed(PairEqual(x, y, ps[1])) \o Op("OR") \o Sealed(PairEqual(x, y, ps[2]))
Lexicographic(x, y, p) ==
    x \o Op("<") \o Value(p[1]) \o Op("OR")
    \o Sealed(Equal(x, p[1]) \o Op("AND") \o Sealed(y \o Op("<") \o Value(p[2])))

RowText(op, x, y, ps) ==
    CASE op = "EQ" -> PairEqual(x, y, ps[1])
      [] op = "NEQ" -> x \o Op("<>") \o Value(ps[1][1]) \o Op("OR") \o y \o Op("<>") \o Value(ps[1][2])
      [] op = "LT" -> Lexicographic(x, y, ps[1])
      [] OTHER -> PairList(x, y, ps)

\* Which engines cannot compare rows.
RowForm(op, x, y, ps) ==
    IF op \in {"EQ", "NEQ", "IN_VALUES"} /\ target \in {"tsql", "oracle"}
    THEN RowText(op, x, y, ps)
    ELSE Sealed(RowText(op, x, y, ps))

RowItem(op, x, y, ps) ==
    LET text == RowForm(op, Value(x), Value(y), ps)
    IN  Item(op, "bool", Reading(source, RowText(op, Value(x), Value(y), ps)), text, text)

Pairs == <<<<Whole(2), Whole(3)>>, <<Whole(7), Whole(2)>>>>

(***************************************************************************)
(* Steps.                                                                  *)
(***************************************************************************)
Depth == Len(stack)
Top == stack[Depth]

Init ==
    /\ source \in Dialects /\ target \in Dialects \ {source}
    /\ \E r \in Rows : row = r.leaves /\ unaries = r.unaries
    /\ stack = <<>>

\* convert_expression on a literal, a column or a variable.
Leaf ==
    /\ row # <<>>
    /\ stack' = Append(stack, LeafItem(Head(row)))
    /\ row' = Tail(row)
    /\ UNCHANGED <<source, target, unaries>>

Unary(op) ==
    /\ Depth > 0 /\ unaries > 0 /\ Offered(op)
    /\ CASE op = "NOT" -> Top.type = "bool"
         [] op = "NEGATIVE" -> Top.type \in Numbers
         [] OTHER -> Top.type = "int"
    /\ stack' = [stack EXCEPT ![Depth] = UnaryItem(op, Top)]
    /\ unaries' = unaries - 1
    /\ UNCHANGED <<source, target, row>>

TestNull(op) ==
    /\ Depth > 0 /\ unaries > 0
    /\ Top.type = "bool" => {source, target} = BooleanEngines
    /\ LET test == NullTestItem(Top)
       IN stack' = [stack EXCEPT ![Depth] = IF op = "IS" THEN test ELSE UnaryItem("NOT", test)]
    /\ unaries' = unaries - 1
    /\ UNCHANGED <<source, target, row>>

\* The last two, in order.
Binary(op) ==
    /\ Depth > 1 /\ Offered(op)
    /\ Fits(op, stack[Depth - 1], Top)
    /\ ~DropsNull(op, stack[Depth - 1], Top)
    /\ stack' = Append(SubSeq(stack, 1, Depth - 2), BinaryItem(op, stack[Depth - 1], Top))
    /\ UNCHANGED <<source, target, row, unaries>>

\* _drop_oracle_concat_nulls: 'a' || NULL is 'a' of an Oracle source.
DropNull ==
    /\ Depth > 1
    /\ LET L == stack[Depth - 1]
           other == IF IsNullLiteral(L) THEN Top ELSE L
       IN /\ DropsNull("CONCAT", L, Top)
          /\ stack' = Append(SubSeq(stack, 1, Depth - 2),
                              [other EXCEPT !.kept = @ /\ other.type = "text"])
    /\ UNCHANGED <<source, target, row, unaries>>

\* A pair of columns, with pairs of constants.
CompareRows(op) ==
    /\ source # "tsql" /\ (source = "oracle" => op \in {"IN", "EQ", "NEQ"})
    /\ Len(row) > 1
    /\ LET x == row[1]
           y == row[2]
       IN /\ {x.kind, y.kind} = {"column"}
          /\ stack' = Append(stack, RowItem(op, x.v, y.v, Pairs))
    /\ row' = SubSeq(row, 3, Len(row))
    /\ UNCHANGED <<source, target, unaries>>

Next ==
    \/ Leaf
    \/ \E op \in Operators \cap UnaryOperators : Unary(op)
    \/ \E op \in Operators \cap (BinaryOperators \ (InLists \cup {"IS"})) : Binary(op)
    \/ \E op \in Operators \cap NullTests : TestNull(op)
    \/ "CONCAT" \in Operators /\ DropNull
    \/ \E op \in Operators \cap RowOperators : CompareRows(op)

Spec == Init /\ [][Next]_vars

(***************************************************************************)
(* Properties.                                                             *)
(***************************************************************************)
\* The target reads the emitted text as the tree says: parentheses the
\* converter dropped are back wherever the target would regroup without
\* them, but for the operands ClearBinary and ClearUnary name.
GroupingKept ==
    Depth > 0 => (Top.clear => Top.read = Top.grouped)

\* On the target an expression has the value it had on the source, wherever
\* the source has one: what division, remainder, ||, the NULL-safe
\* comparisons and the operators on bits become, but for the operands
\* KeptBinary names.
ValuesKept ==
    Depth > 0 => (Top.kept /\ Top.value # Error => Same(Top.value, Top.grouped))

\* _BIN_PRECEDENCE says that what loses its parentheses regains them.
GroupingRegained == Depth > 0 => Top.read = Top.grouped
=============================================================================
