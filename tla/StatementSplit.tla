--------------------------- MODULE StatementSplit ---------------------------
(***************************************************************************)
(* split_statements: a script cut into the statements a client would send  *)
(* one by one.  The script is cut into chunks at the dialect's directive   *)
(* lines; a chunk is kept whole, cut at a delimiter, or scanned for        *)
(* top-level semicolons (_split_semicolons, one action per branch of its   *)
(* loop).                                                                  *)
(***************************************************************************)
EXTENDS ClientScript

CONSTANT Inputs   \* the [dialect, script] pairs of the instance

ASSUME InputsAssumption ==
  Inputs \subseteq [dialect : Dialects, script : Seq(Marks)]

VARIABLES
  input,       \* dialect and script
  chunks,      \* chunks not cut yet: [text, scan]
  pc,          \* "chunk", "scan" or "done"
  text,        \* chunk being scanned
  pos,         \* i
  buf,         \* buf
  inDollar,    \* in_dollar
  inString,    \* in_string
  depth,       \* depth_begin
  statements   \* statements

vars == <<input, chunks, pc, text, pos, buf, inDollar, inString, depth, statements>>

-----------------------------------------------------------------------------
Whole(t)   == [text |-> t, scan |-> FALSE]
Scanned(t) == [text |-> t, scan |-> TRUE]

(* DELIMITER lines: the text after one is cut at its delimiter.            *)
MysqlChunks(t) ==
  LET directives == InOrder(t, {n \in DOMAIN t : t[n] \in {"delimiter_dollar", "delimiter_semi"}})
      active == <<"delimiter_semi">> \o [n \in DOMAIN directives |-> t[directives[n]]]
      regions == Pieces(t, {"delimiter_dollar", "delimiter_semi"})
  IN FlattenSeq([n \in DOMAIN regions |->
       IF active[n] = "delimiter_semi" THEN <<Scanned(regions[n])>>
       ELSE LET bodies == Pieces(regions[n], {"dollar"})
            IN [m \in DOMAIN bodies |-> Whole(bodies[m])]])

IsHead(mark) == mark \in {"begin", "routine"}

(* The first unit head at the start of a line, outside strings and         *)
(* comments; beyond the text when there is none.                           *)
HeadScan(s, mark) ==
  CASE s.region = "line" /\ mark # "newline" -> s
    [] s.region = "block" -> IF mark = "close" THEN [s EXCEPT !.region = "code"] ELSE s
    [] s.region = "code" /\ mark = "dashes" -> [s EXCEPT !.region = "line"]
    [] s.region = "code" /\ mark = "open" -> [s EXCEPT !.region = "block"]
    [] mark = "quote" /\ s.region \in {"code", "string"} ->
         [region |-> IF s.region = "code" THEN "string" ELSE "code", lineStart |-> FALSE]
    [] OTHER -> [region |-> IF s.region = "line" THEN "code" ELSE s.region,
                 lineStart |-> mark = "newline"]

FirstHead(t) ==
  LET scan[n \in 1..(Len(t) + 1)] ==
        IF n = 1 THEN [region |-> "code", lineStart |-> TRUE]
        ELSE HeadScan(scan[n - 1], t[n - 1])
      heads == {n \in DOMAIN t : /\ IsHead(t[n])
                                 /\ scan[n].region = "code" /\ scan[n].lineStart}
  IN IF heads = {} THEN Len(t) + 1 ELSE Min(heads)

(* A chunk is one PL/SQL unit, plain DDL, or DDL and then a unit.          *)
OracleBlock(t) ==
  LET core == TriviaEnd(t)
      head == FirstHead(t)
  IN IF core <= Len(t) /\ IsHead(t[core]) THEN <<Whole(t)>>
     ELSE <<Scanned(SubSeq(t, 1, head - 1)), Whole(SubSeq(t, head, Len(t)))>>

Chunks(dialect, t) ==
  CASE dialect = "tsql" ->
         LET batches == Pieces(t, {"go"}) IN [n \in DOMAIN batches |-> Whole(batches[n])]
    [] dialect = "oracle" ->
         LET blocks == Pieces(t, {"slash"})
         IN FlattenSeq([n \in DOMAIN blocks |-> OracleBlock(Strip(blocks[n]))])
    [] dialect = "mysql" -> MysqlChunks(t)
    [] dialect = "postgresql" -> <<Scanned(t)>>

-----------------------------------------------------------------------------
Init ==
  /\ input \in Inputs
  /\ chunks = Chunks(input.dialect, input.script)
  /\ pc = "chunk"
  /\ text = <<>>
  /\ pos = 1
  /\ buf = <<>>
  /\ inDollar = FALSE
  /\ inString = FALSE
  /\ depth = 0
  /\ statements = <<>>

KeepChunk ==
  /\ pc = "chunk"
  /\ chunks # <<>>
  /\ ~Head(chunks).scan
  /\ statements' = AppendStripped(statements, Head(chunks).text)
  /\ chunks' = Tail(chunks)
  /\ UNCHANGED <<input, pc, text, pos, buf, inDollar, inString, depth>>

ScanChunk ==
  /\ pc = "chunk"
  /\ chunks # <<>>
  /\ Head(chunks).scan
  /\ text' = Head(chunks).text
  /\ chunks' = Tail(chunks)
  /\ pos' = 1
  /\ buf' = <<>>
  /\ inDollar' = FALSE
  /\ inString' = FALSE
  /\ depth' = 0
  /\ pc' = "scan"
  /\ UNCHANGED <<input, statements>>

(* The Oracle split ends by dropping the statements with no code.          *)
Executable(texts) ==
  FlattenSeq([n \in DOMAIN texts |-> IF IsExecutable(texts[n]) THEN <<texts[n]>> ELSE <<>>])

Return ==
  /\ pc = "chunk"
  /\ chunks = <<>>
  /\ pc' = "done"
  /\ statements' = IF input.dialect = "oracle" THEN Executable(statements) ELSE statements
  /\ UNCHANGED <<input, chunks, text, pos, buf, inDollar, inString, depth>>

-----------------------------------------------------------------------------
(* The loop of _split_semicolons.  A name with a suffix (Escape_OneMark) is a *)
(* fault that a property below must notice.                                *)

DollarQuote == input.dialect = "postgresql"
BackslashEscapes == input.dialect = "mysql"

At(mark) == pc = "scan" /\ pos <= Len(text) /\ text[pos] = mark
InCode == ~inDollar /\ ~inString

Take(upTo) ==
  /\ buf' = buf \o SubSeq(text, pos, upTo)
  /\ pos' = upTo + 1
  /\ UNCHANGED <<input, chunks, pc, text, statements>>

LineComment ==
  /\ At("dashes")
  /\ InCode
  /\ Take(Find(text, "newline", pos) - 1)
  /\ UNCHANGED <<inDollar, inString, depth>>

BlockComment ==
  /\ At("open")
  /\ InCode
  /\ LET close == Find(text, "close", pos)
     IN Take(IF close <= Len(text) THEN close ELSE Len(text))
  /\ UNCHANGED <<inDollar, inString, depth>>

(* $$ toggles inside a string too.                                         *)
Dollar ==
  /\ At("dollar")
  /\ DollarQuote
  /\ inDollar' = ~inDollar
  /\ Take(pos)
  /\ UNCHANGED <<inString, depth>>

Escape_OneMark ==
  /\ At("backslash")
  /\ inString
  /\ BackslashEscapes
  /\ Take(pos)
  /\ UNCHANGED <<inDollar, inString, depth>>

Escape ==
  /\ At("backslash")
  /\ inString
  /\ BackslashEscapes
  /\ Take(IF pos < Len(text) THEN pos + 1 ELSE pos)
  /\ UNCHANGED <<inDollar, inString, depth>>

Quote ==
  /\ At("quote")
  /\ ~inDollar
  /\ inString' = ~inString
  /\ Take(pos)
  /\ UNCHANGED <<inDollar, depth>>

(* BEGIN; and BEGIN TRANSACTION open a transaction and no block.           *)
OpensBlock_Always(t, n) == TRUE
OpensBlock(t, n) ==
  LET after == {m \in (n + 1)..Len(t) : t[m] # "newline"}
  IN after = {} \/ t[Min(after)] \notin {"semi", "transaction"}

Begin ==
  /\ At("begin")
  /\ InCode
  /\ depth' = IF OpensBlock(text, pos) THEN depth + 1 ELSE depth
  /\ Take(pos)
  /\ UNCHANGED <<inDollar, inString>>

End ==
  /\ At("end")
  /\ InCode
  /\ depth' = IF depth > 0 THEN depth - 1 ELSE depth
  /\ Take(pos)
  /\ UNCHANGED <<inDollar, inString>>

Separator_NoAdvance ==
  /\ At("semi")
  /\ InCode
  /\ depth = 0
  /\ statements' = AppendStripped(statements, buf)
  /\ buf' = <<>>
  /\ UNCHANGED <<input, chunks, pc, text, pos, inDollar, inString, depth>>

Separator ==
  /\ At("semi")
  /\ InCode
  /\ depth = 0
  /\ statements' = AppendStripped(statements, buf)
  /\ buf' = <<>>
  /\ pos' = pos + 1
  /\ UNCHANGED <<input, chunks, pc, text, inDollar, inString, depth>>

(* What no branch above tells apart is copied.                             *)
Copy ==
  /\ pc = "scan"
  /\ pos <= Len(text)
  /\ CASE text[pos] \in {"dashes", "open", "begin", "end"} -> ~InCode
       [] text[pos] = "dollar" -> ~DollarQuote
       [] text[pos] = "backslash" -> ~(inString /\ BackslashEscapes)
       [] text[pos] = "quote" -> inDollar
       [] text[pos] = "semi" -> ~InCode \/ depth > 0
       [] OTHER -> TRUE
  /\ Take(pos)
  /\ UNCHANGED <<inDollar, inString, depth>>

EndChunk ==
  /\ pc = "scan"
  /\ pos > Len(text)
  /\ statements' = AppendStripped(statements, buf)
  /\ buf' = <<>>
  /\ pc' = "chunk"
  /\ UNCHANGED <<input, chunks, text, pos, inDollar, inString, depth>>

Finished == pc = "done" /\ UNCHANGED vars

Next ==
  \/ KeepChunk \/ ScanChunk \/ Return
  \/ LineComment \/ BlockComment \/ Dollar \/ Escape \/ Quote
  \/ Begin \/ End \/ Separator \/ Copy \/ EndChunk
  \/ Finished

Spec == Init /\ [][Next]_vars /\ WF_vars(Next)

-----------------------------------------------------------------------------
(* Properties.                                                             *)

(* The statements are those the engine's client would send, in order, with *)
(* no code lost, glued or cut: the directives, the strings, the comments   *)
(* and the blocks of the whole script decide it, whatever chunk they fall  *)
(* in ("Splitting is string-, comment- and BEGIN/END-depth aware").        *)
SplitsAsClient ==
  pc = "done" =>
    CodeOfAll(input.dialect, statements) = ClientStatements(input.dialect, input.script)

(* A comment, a literal or a $$ body that is open in the buffer is open    *)
(* for the client at the same place: the scanner never reads a mark in     *)
(* another region than the engine does, even one chunk after another.      *)
InStepWithClient ==
  pc = "scan" =>
    LET region == Regions(input.dialect, text)
    IN pos <= Len(text) =>
         /\ inString <=> region[pos] \in {"string", "string_escape"}
         /\ inDollar <=> region[pos] = "body"

(* The scripts that the scanner and the client read alike: its scan knows   *)
(* no SQL*Plus remark, no E'' literal, quoted identifier or $tag$, and     *)
(* takes a $$ inside a literal for the start of a body.                    *)
Readable(dialect, t) ==
  /\ dialect = "oracle" => "rem" \notin ToSet(t)
  /\ dialect = "postgresql" =>
       /\ ToSet(t) \cap {"equote", "dquote", "tag"} = {}
       /\ \A n \in DOMAIN t : Regions(dialect, t)[n] = "string" => t[n] # "dollar"

(* The scripts that are split as their client reads them.  The scanner      *)
(* counts no CASE and the chunks are cut with no look at the text: a       *)
(* directive, and a $$ that is the delimiter, stands in code and outside   *)
(* blocks; a CASE stands outside blocks and is flat where semicolons       *)
(* split; and a PL/SQL unit starts a line and a statement.                 *)
OwnDirectives(dialect) ==
  CASE dialect = "tsql" -> {"go"}
    [] dialect = "oracle" -> {"slash"}
    [] dialect = "mysql" -> {"delimiter_dollar", "delimiter_semi"}
    [] dialect = "postgresql" -> {}

SemicolonsSplit(dialect, t, code, n) ==
  CASE dialect = "tsql" -> FALSE
    [] dialect = "oracle" -> ~InUnit(t, code, n)
    [] dialect = "mysql" -> ~DelimiterIsDollar(t, n)
    [] dialect = "postgresql" -> TRUE

FlatCase(t, code, n) ==
  /\ Depth(t, code)[n] = 1
  /\ \E m \in code :
       /\ m > n /\ t[m] = "end"
       /\ \A k \in (n + 1)..(m - 1) :
            k \in code => t[k] \notin {"begin", "routine", "case", "end", "semi"} \cup Directives

UnitStarts(t, code, h) ==
  /\ h = 1 \/ t[h - 1] = "newline"
  /\ Depth(t, code)[h - 1] = 0
  /\ Code("oracle", Statement(t, Separators("oracle", t), h)) = <<>>

Splittable(dialect, t) ==
  LET code == InCodeAt(dialect, t)
  IN /\ Readable(dialect, t)
     /\ Regions(dialect, t)[Len(t) + 1] \in {"code", "line", "block"}
     /\ \A n \in DOMAIN t : t[n] \in Directives =>
          /\ n \in code
          /\ t[n] \in OwnDirectives(dialect)
          /\ dialect # "tsql" => Depth(t, code)[n] = 0
     /\ \A n \in code : OpensCase(t, n) /\ SemicolonsSplit(dialect, t, code, n) =>
          FlatCase(t, code, n)
     /\ dialect = "mysql" =>
          \A n \in DOMAIN t : t[n] = "dollar" /\ DelimiterIsDollar(t, n) => n \in code
     /\ dialect = "oracle" =>
          /\ "set" \notin ToSet(t)
          /\ \A h \in code : IsHead(t[h]) /\ ~InUnit(t, code, h) => UnitStarts(t, code, h)

(* The scan of every script ends (the loop's index grows on every branch). *)
Splits == <>(pc = "done")
=============================================================================
