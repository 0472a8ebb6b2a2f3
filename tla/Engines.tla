------------------------------- MODULE Engines -------------------------------
(***************************************************************************)
(* How the four engines read and compute a flat text of operators          *)
(* (external): the values, what an infix operator does with two of them,   *)
(* how strongly it binds, and the value of a text without parentheses.     *)
(* A call or a CASE is one value of its text; a parenthesis holds a text.  *)
(***************************************************************************)
EXTENDS Integers, Sequences, TLC, Bitwise

Dialects == {"tsql", "mysql", "postgresql", "oracle"}

(***************************************************************************)
(* Values.  A number is a fraction; whole says that its type is an integer *)
(* type, which decides what PostgreSQL and SQL Server divide.              *)
(***************************************************************************)
Null == [t |-> "null"]
Error == [t |-> "error"]
Truth(b) == [t |-> "truth", b |-> b]
Text(s) == [t |-> "text", s |-> s]

Abs(n) == IF n < 0 THEN -n ELSE n
Common(n, d) == CHOOSE k \in 1 .. d :
                  /\ n % k = 0 /\ d % k = 0
                  /\ \A j \in k + 1 .. d : n % j # 0 \/ d % j # 0
Fraction(n, d, whole) ==
    LET sign == IF d < 0 THEN -1 ELSE 1
        k == IF Abs(d) = 1 THEN 1 ELSE Common(Abs(n), Abs(d))
    IN  [t |-> "num", n |-> sign * (n \div k), d |-> Abs(d) \div k, whole |-> whole]
Whole(n) == Fraction(n, 1, TRUE)
Decimal(n) == Fraction(n, 1, FALSE)

IsNumber(x) == x.t = "num"
IsWhole(x) == IsNumber(x) /\ x.d = 1
Zero(x) == IsNumber(x) /\ x.n = 0
Same(x, y) == IF IsNumber(x) /\ IsNumber(y) THEN x.n = y.n /\ x.d = y.d ELSE x = y

\* Division of integers that drops the fraction.
Quotient(a, b) == LET q == Abs(a) \div Abs(b) IN IF (a < 0) = (b < 0) THEN q ELSE -q

(***************************************************************************)
(* Bits.  MySQL's are unsigned; the range is small, and what leaves it is  *)
(* an error no expression is judged by.                                    *)
(***************************************************************************)
Modulus == 4096
Signed(n) == IF n >= Modulus \div 2 THEN n - Modulus ELSE n
Bits(n) == n % Modulus
FromBits(e, n) == IF e = "mysql" THEN Whole(n) ELSE Whole(Signed(n))
InRange(e, n) ==
    -(Modulus \div 2) <= n /\ n < IF e = "mysql" THEN Modulus ELSE Modulus \div 2

Flipped(e, x) ==
    IF IsWhole(x) /\ InRange(e, x.n) THEN FromBits(e, Modulus - 1 - Bits(x.n)) ELSE Error

BitOp(e, op, x, y) ==
    LET a == Bits(x.n)
        b == Bits(y.n)
        from == IF e = "mysql" THEN a ELSE x.n
    IN  CASE ~(IsWhole(x) /\ IsWhole(y) /\ InRange(e, x.n) /\ InRange(e, y.n)) -> Error
          [] op = "&" -> FromBits(e, a & b)
          [] op = "|" -> FromBits(e, a | b)
          [] op \in {"^", "#"} -> FromBits(e, a ^^ b)
          [] y.n \notin 0 .. 8 -> Error
          [] op = "<<" -> IF InRange(e, from * 2 ^ y.n) THEN Whole(from * 2 ^ y.n) ELSE Error
          [] OTHER -> Whole(from \div 2 ^ y.n)

(***************************************************************************)
(* Arithmetic, text and truth.                                             *)
(***************************************************************************)
Sum(x, y, sign) == Fraction(x.n * y.d + sign * y.n * x.d, x.d * y.d, x.whole /\ y.whole)
Product(x, y) == Fraction(x.n * y.n, x.d * y.d, x.whole /\ y.whole)
Divided(e, x, y) ==
    CASE Zero(y) -> IF e = "mysql" THEN Null ELSE Error
      [] e \in {"postgresql", "tsql"} /\ x.whole /\ y.whole -> Whole(Quotient(x.n, y.n))
      [] OTHER -> Fraction(x.n * y.d, x.d * y.n, FALSE)
Remainder(e, x, y) ==
    CASE ~IsWhole(x) \/ ~IsWhole(y) \/ e = "oracle" -> Error
      [] Zero(y) -> IF e = "mysql" THEN Null ELSE Error
      [] OTHER -> Whole(x.n - y.n * Quotient(x.n, y.n))

Spelling(x) == IF IsNumber(x) THEN ToString(x.n) ELSE x.s
Concatenated(e, x, y) ==
    CASE x = Null /\ y = Null -> Null
      [] x = Null -> IF e = "oracle" THEN Text(Spelling(y)) ELSE Null
      [] y = Null -> IF e = "oracle" THEN Text(Spelling(x)) ELSE Null
      [] IsNumber(x) /\ IsNumber(y) /\ e # "oracle" -> Error
      [] OTHER -> Text(Spelling(x) \o Spelling(y))

Conjunction(x, y) ==
    CASE Truth(FALSE) \in {x, y} -> Truth(FALSE)
      [] Null \in {x, y} -> Null
      [] OTHER -> Truth(TRUE)
Negated(x) == IF x = Null THEN Null ELSE IF x.t = "truth" THEN Truth(~x.b) ELSE Error
Disjunction(x, y) == Negated(Conjunction(Negated(x), Negated(y)))

Compared(e, op, x, y) ==
    CASE IsNumber(x) /\ IsNumber(y) ->
           (CASE op = "=" -> Truth(Same(x, y))
              [] op = "<>" -> Truth(~Same(x, y))
              [] OTHER -> Truth(x.n * y.d < y.n * x.d))
      [] x.t = "truth" /\ y.t = "truth" /\ e \in {"mysql", "postgresql"} /\ op # "<" ->
           Truth((x = y) = (op = "="))
      [] OTHER -> Error

Comparisons == {"=", "<>", "<"}
Distinctions == {"<=>", "IS NOT DISTINCT FROM", "IS DISTINCT FROM"}
Logic == {"AND", "OR"}
Prefixes == {"neg", "~", "NOT"}
Postfixes == {"IS NULL"}

\* x op y on the engine e.
Infix(e, op, x, y) ==
    CASE Error \in {x, y} -> Error
      [] op \in Logic ->
           IF x.t \in {"truth", "null"} /\ y.t \in {"truth", "null"}
           THEN (IF op = "AND" THEN Conjunction(x, y) ELSE Disjunction(x, y))
           ELSE Error
      [] op \in Distinctions -> Truth(Same(x, y) = (op # "IS DISTINCT FROM"))
      [] op = "||" -> Concatenated(e, x, y)
      [] op = "+" /\ e = "tsql" /\ "text" \in {x.t, y.t} ->
           IF Null \in {x, y} THEN Null ELSE IF x.t = y.t THEN Text(x.s \o y.s) ELSE Error
      [] Null \in {x, y} -> Null
      [] op \in Comparisons -> Compared(e, op, x, y)
      [] ~(IsNumber(x) /\ IsNumber(y)) -> Error
      [] op = "+" -> Sum(x, y, 1)
      [] op = "-" -> Sum(x, y, -1)
      [] op = "*" -> Product(x, y)
      [] op = "/" -> Divided(e, x, y)
      [] op = "%" -> Remainder(e, x, y)
      [] OTHER -> IF e = "oracle" THEN Error ELSE BitOp(e, op, x, y)

Prefixed(e, op, x) ==
    CASE x = Error -> Error
      [] op = "NOT" -> Negated(x)
      [] x = Null -> Null
      [] ~IsNumber(x) \/ (op = "~" /\ e = "oracle") -> Error
      [] op = "~" -> Flipped(e, x)
      [] OTHER -> Fraction(-x.n, x.d, x.whole)

Postfixed(op, x) == IF x = Error THEN Error ELSE Truth((x = Null) = (op = "IS NULL"))

(***************************************************************************)
(* A text is a sequence of values and operators.                           *)
(***************************************************************************)
Value(v) == <<[op |-> "value", v |-> v]>>
Op(o) == <<[op |-> o, v |-> Null]>>
Sealed(t) == <<[op |-> "(", v |-> t]>>

\* How strongly an operator binds.
Binds(e, op) ==
    CASE op = "neg" -> IF e = "tsql" THEN 7 ELSE 10
      [] op = "~" -> IF e = "postgresql" THEN 6 ELSE 10
      [] op \in {"*", "/", "%"} -> 8
      [] op \in {"+", "-"} -> 7
      [] op = "||" -> IF e = "postgresql" THEN 6 ELSE 7
      [] op = "^" /\ e = "mysql" -> 9
      [] op \in {"&", "|", "^"} /\ e = "tsql" -> 7
      [] op = "&" /\ e = "mysql" -> 5
      [] op = "|" /\ e = "mysql" -> 4
      [] op \in {"&", "|", "#", "<<", ">>"} -> 6
      [] op \in Comparisons \cup {"<=>"} -> 3
      [] op \in Postfixes \cup Distinctions -> IF e \in {"postgresql", "oracle"} THEN 2 ELSE 3
      [] op = "NOT" -> 1
      [] op = "AND" -> 0
      [] OTHER -> -1

\* The operator at i is the next to be applied: its values are there, and no
\* operator beside it takes one of them first.
Applies(e, t, i) ==
    LET is(j) == j \in DOMAIN t /\ t[j].op = "value"
        level == Binds(e, t[i].op)
        keepsLeft == i - 2 \in DOMAIN t => Binds(e, t[i - 2].op) < level
        keepsRight == i + 2 \in DOMAIN t => Binds(e, t[i + 2].op) <= level
    IN  CASE t[i].op = "value" -> FALSE
          [] t[i].op \in Prefixes -> is(i + 1) /\ keepsRight
          [] t[i].op \in Postfixes -> is(i - 1) /\ keepsLeft
          [] OTHER -> is(i - 1) /\ is(i + 1) /\ keepsLeft /\ keepsRight

\* PostgreSQL's comparisons and distinctions do not associate, and two minus signs in a row are
\* a comment, but on MySQL.
Refuses(e, t) ==
    \E i \in DOMAIN t :
      \/ /\ e = "postgresql" /\ i + 2 \in DOMAIN t
         /\ {t[i].op, t[i + 2].op} \subseteq Comparisons
      \/ /\ e = "postgresql" /\ i + 2 \in DOMAIN t
         /\ t[i].op \in Distinctions /\ t[i + 2].op \in Postfixes \cup Distinctions
      \/ /\ e # "mysql" /\ i + 1 \in DOMAIN t
         /\ t[i].op = "neg" /\ t[i + 1].op = "neg"

RECURSIVE Reading(_, _), Settled(_, _)

\* The text with a value for every parenthesis.
Settled(e, t) ==
    IF \A i \in DOMAIN t : t[i].op # "(" THEN t
    ELSE LET i == CHOOSE j \in DOMAIN t : t[j].op = "("
         IN  Settled(e, SubSeq(t, 1, i - 1) \o Value(Reading(e, t[i].v)) \o SubSeq(t, i + 1, Len(t)))

Reading(e, t) ==
    IF \E i \in DOMAIN t : t[i].op = "(" THEN Reading(e, Settled(e, t))
    ELSE IF Len(t) = 1 THEN t[1].v
    ELSE IF Refuses(e, t) \/ \A i \in DOMAIN t : ~Applies(e, t, i) THEN Error
    ELSE LET i == CHOOSE j \in DOMAIN t :
                    Applies(e, t, j) /\ \A k \in 1 .. j - 1 : ~Applies(e, t, k)
             op == t[i].op
         IN  IF op \in Prefixes
             THEN Reading(e, SubSeq(t, 1, i - 1) \o Value(Prefixed(e, op, t[i + 1].v))
                             \o SubSeq(t, i + 2, Len(t)))
             ELSE IF op \in Postfixes
             THEN Reading(e, SubSeq(t, 1, i - 2) \o Value(Postfixed(op, t[i - 1].v))
                             \o SubSeq(t, i + 1, Len(t)))
             ELSE Reading(e, SubSeq(t, 1, i - 2) \o Value(Infix(e, op, t[i - 1].v, t[i + 1].v))
                             \o SubSeq(t, i + 2, Len(t)))
=============================================================================
