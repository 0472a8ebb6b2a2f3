---------------------------- MODULE ClientScript ----------------------------
(***************************************************************************)
(* What a script means to the client of its engine: which of its marks are *)
(* code and which stand in a string, a comment or a $$ body, and where one *)
(* statement ends.  The splitters are checked against this reading; it     *)
(* says nothing of how they work.                                          *)
(***************************************************************************)
EXTENDS Integers, ScriptText

Directives == {"go", "slash", "delimiter_dollar", "delimiter_semi"}

(* Strings in which a backslash escapes the next mark.                     *)
Escaping(dialect) == IF dialect = "mysql" THEN {"string", "escaping_string"}
                                          ELSE {"escaping_string"}

(* The region a mark leads to from code, and the mark that ends a region.  *)
Opened(dialect, mark) ==
  CASE mark = "quote" -> "string"
    [] mark = "open" -> "block"
    [] mark = "dashes" \/ (dialect = "oracle" /\ mark = "rem") -> "line"
    [] dialect = "postgresql" /\ mark = "equote" -> "escaping_string"
    [] dialect = "postgresql" /\ mark = "dquote" -> "identifier"
    [] dialect = "postgresql" /\ mark = "dollar" -> "body"
    [] dialect = "postgresql" /\ mark = "tag" -> "tagged_body"
    [] OTHER -> "code"

Closing(region) ==
  CASE region \in {"string", "escaping_string"} -> "quote"
    [] region = "line" -> "newline"
    [] region = "block" -> "close"
    [] region = "identifier" -> "dquote"
    [] region = "body" -> "dollar"
    [] region = "tagged_body" -> "tag"

(* The region a mark leaves the reader in.                                 *)
After(dialect, region, mark) ==
  CASE region = "code" -> Opened(dialect, mark)
    [] region = "string_escape" -> "string"
    [] region = "escaping_string_escape" -> "escaping_string"
    [] region \in Escaping(dialect) /\ mark = "backslash" ->
         IF region = "string" THEN "string_escape" ELSE "escaping_string_escape"
    [] OTHER -> IF mark = Closing(region) THEN "code" ELSE region

(* Regions(dialect, t)[n]: the region mark n is read in.                   *)
Regions(dialect, t) ==
  LET read[n \in 1..(Len(t) + 1)] ==
        IF n = 1 THEN "code" ELSE After(dialect, read[n - 1], t[n - 1])
  IN read

InCodeAt(dialect, t) ==
  LET region == Regions(dialect, t) IN {n \in DOMAIN t : region[n] = "code"}

(* BEGIN; and BEGIN TRANSACTION open no block.                             *)
StartsTransaction(t, n) ==
  LET next == {m \in (n + 1)..Len(t) : t[m] # "newline"}
  IN next # {} /\ t[Min(next)] \in {"semi", "transaction"}

OpensCase(t, n) == t[n] = "case" /\ (n = 1 \/ t[n - 1] # "end")

Change(t, code, n) ==
  CASE n \in code /\ t[n] = "begin" -> IF StartsTransaction(t, n) THEN 0 ELSE 1
    [] n \in code /\ t[n] = "case" -> IF OpensCase(t, n) THEN 1 ELSE 0
    [] n \in code /\ t[n] = "end" -> -1
    [] OTHER -> 0

(* Depth(t, code)[n]: the blocks, and the CASEs of their statements, that  *)
(* are open after mark n.                                                  *)
Depth(t, code) ==
  LET open[n \in 0..Len(t)] ==
        IF n = 0 THEN 0
        ELSE LET to == open[n - 1] + Change(t, code, n) IN IF to < 0 THEN 0 ELSE to
  IN open

TopLevelSemis(t, code) ==
  LET depth == Depth(t, code) IN {n \in code : t[n] = "semi" /\ depth[n] = 0}

(* The last position of a set before a position; 0 when there is none.     *)
LastBefore(positions, n) ==
  LET before == {m \in positions : m < n} IN IF before = {} THEN 0 ELSE Max(before)

LastOf(t, n, marks) == LastBefore({m \in DOMAIN t : t[m] \in marks}, n)

(* A PL/SQL unit runs from its head to the slash.                          *)
InUnit(t, code, n) ==
  \E h \in code : h > LastOf(t, n, {"slash"}) /\ h < n /\ t[h] \in {"begin", "routine"}

DelimiterIsDollar(t, n) ==
  LET d == LastOf(t, n, {"delimiter_dollar", "delimiter_semi"})
  IN d > 0 /\ t[d] = "delimiter_dollar"

(* SQL*Plus reads SET as its own where a statement may start.              *)
StartsStatement(t, code, n) ==
  LET before == {m \in code : m < n /\ t[m] \notin {"newline", "dashes", "open", "rem"}}
  IN before = {} \/ t[Max(before)] \in {"semi", "slash", "set"}

Separators(dialect, t) ==
  LET code == InCodeAt(dialect, t)
      directives == {n \in code : t[n] \in Directives}
  IN directives \cup
     CASE dialect = "tsql" -> {}
       [] dialect = "postgresql" -> TopLevelSemis(t, code)
       [] dialect = "oracle" ->
            {n \in TopLevelSemis(t, code) : ~InUnit(t, code, n)} \cup
            {n \in code : /\ n > 1 /\ t[n] = "newline" /\ t[n - 1] = "set"
                          /\ StartsStatement(t, code, n - 1)}
       [] dialect = "mysql" ->
            {n \in TopLevelSemis(t, code) : ~DelimiterIsDollar(t, n)} \cup
            {n \in code : t[n] = "dollar" /\ DelimiterIsDollar(t, n)}

(* The marks of a text that reach the engine: comments and blanks do not.  *)
Reaches(region, mark) ==
  /\ region \notin {"line", "block"}
  /\ region = "code" => mark \notin {"newline", "dashes", "open", "rem"}

Code(dialect, t) ==
  LET region == Regions(dialect, t)
  IN FlattenSeq([n \in DOMAIN t |-> IF Reaches(region[n], t[n]) THEN <<t[n]>> ELSE <<>>])

(* The statements of texts sent one by one: those with code.               *)
Sent(dialect, t) == IF Code(dialect, t) = <<>> THEN <<>> ELSE <<Code(dialect, t)>>

CodeOfAll(dialect, texts) == FlattenSeq([n \in DOMAIN texts |-> Sent(dialect, texts[n])])

(* What is sent at each position: the statement that ends there, if any.   *)
Statement(t, separators, n) == SubSeq(t, LastBefore(separators, n) + 1, n - 1)

SentAt(dialect, t, separators) ==
  [n \in 1..(Len(t) + 1) |->
     IF n \in separators \/ n = Len(t) + 1 THEN Sent(dialect, Statement(t, separators, n))
     ELSE <<>>]

StatementsBetween(dialect, t, separators) == FlattenSeq(SentAt(dialect, t, separators))

ClientStatements(dialect, t) == StatementsBetween(dialect, t, Separators(dialect, t))
=============================================================================
