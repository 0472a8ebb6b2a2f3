----------------------------- MODULE BatchSplit -----------------------------
(***************************************************************************)
(* BatchSplitter.split: the batches transpile and the source validation    *)
(* work on.  T-SQL and PostgreSQL are scanned mark by mark and a batch is  *)
(* a slice of the script; Oracle and MySQL are read line by line into      *)
(* `current'.  A batch is classified from its text when it is cut.         *)
(*                                                                         *)
(* Simplifications:                                                        *)
(* - the first words classify_batch knows are three marks (set, routine,   *)
(*   begin); DML, DDL and unknown statements are one type, "statement";    *)
(* - a head (CREATE ... PROCEDURE) stands on one line;                     *)
(* - line_offset, which only error messages use, and Oracle's begin_depth, *)
(*   which nothing reads, are left out;                                    *)
(* - the empty last line of a script that ends in a newline is not read:   *)
(*   both line readers only append it to `current'.                        *)
(***************************************************************************)
EXTENDS ClientScript

CONSTANT Inputs   \* the [dialect, script] pairs of the instance

ASSUME InputsAssumption ==
  Inputs \subseteq [dialect : Dialects, script : Seq(Marks)]

VARIABLES
  input,       \* dialect and script
  pc,          \* "scan" or "done"
  at,          \* i: a mark, or the first mark of a line
  start,       \* start, start_pos: where the slice begins
  current,     \* current: the lines of the batch so far
  unit,        \* in_plsql, in_routine
  comment,     \* in_comment
  delimiter,   \* delimiter
  depth,       \* begin_depth of the MySQL reader
  batches      \* batches

vars == <<input, pc, at, start, current, unit, comment, delimiter, depth, batches>>
lineVars == <<current, unit, comment, delimiter, depth>>

Dialect == input.dialect
Script  == input.script

Types == {"comment", "set", "procedural", "statement"}

-----------------------------------------------------------------------------
(* Texts and lines.  A name with a suffix (CommentAfter_NoStrings) is a    *)
(* fault that a property below must notice.                                *)

Lines(t) == Pieces(t, {"newline"})
Joined(lines) == FoldLeft(LAMBDA t, l : t \o <<"newline">> \o l, <<>>, lines)

StartsWith(line, mark) == line # <<>> /\ Head(line) = mark
EndsWith(line, mark) == line # <<>> /\ Last(line) = mark

(* The text without its last semicolon.                                    *)
Trimmed(t) == IF EndsWith(Strip(t), "semi") THEN Strip(Front(Strip(t))) ELSE Strip(t)

(* Block comments are removed blind to strings; one that does not end is   *)
(* left alone.                                                             *)
WithoutBlocks_Kept(t) == t
WithoutBlocks(t) ==
  LET from[n \in 1..(Len(t) + 1)] ==
        IF n > Len(t) THEN <<>>
        ELSE IF t[n] = "open" /\ Find(t, "close", n) <= Len(t)
             THEN from[Find(t, "close", n) + 1]
             ELSE <<t[n]>> \o from[n + 1]
  IN from[1]

(* The lines that hold code, of a text whose block comments are gone.      *)
CodeLines(t) ==
  SelectSeq(Lines(t), LAMBDA line : line # <<>> /\ ~StartsWith(line, "dashes"))

Classify(dialect, t) ==
  LET lines == CodeLines(WithoutBlocks(t))
      isSet == lines # <<>> /\ StartsWith(lines[1], "set")
      isProcedural ==
        /\ lines # <<>>
        /\ \/ dialect = "oracle" /\ StartsWith(lines[1], "begin")
           \/ \E n \in DOMAIN lines : StartsWith(lines[n], "routine")
  IN CASE lines = <<>> -> "comment"
       [] isSet -> "set"
       [] isProcedural /\ ~isSet -> "procedural"
       [] OTHER -> "statement"

Batch(t) == [text |-> t, type |-> Classify(Dialect, t)]

(* A batch without text is not kept.                                       *)
Cut(bs, t) == IF t = <<>> THEN bs ELSE Append(bs, Batch(t))

-----------------------------------------------------------------------------
Init ==
  /\ input \in Inputs
  /\ pc = "scan"
  /\ at = 1
  /\ start = 1
  /\ current = <<>>
  /\ unit = FALSE
  /\ comment = FALSE
  /\ delimiter = "semi"
  /\ depth = 0
  /\ batches = <<>>

-----------------------------------------------------------------------------
(* _split_tsql and _split_postgresql.                                      *)

ByMark == Dialect \in {"tsql", "postgresql"}

Here(marks) == pc = "scan" /\ ByMark /\ at <= Len(Script) /\ Script[at] \in marks

SkipTo(n) ==
  /\ at' = IF n <= Len(Script) THEN n ELSE Len(Script) + 1
  /\ UNCHANGED <<input, pc, start, lineVars, batches>>

(* The quote that ends the string opened at n: a doubled quote does not,   *)
(* nor does one after a backslash in an E'...' string.                     *)
StringEnd_NoEscapes(t, n, escapes) == Find(t, "quote", n + 1)
StringEnd(t, n, escapes) ==
  LET end[j \in (n + 1)..(Len(t) + 2)] ==
        IF j > Len(t) THEN Len(t) + 1
        ELSE IF \/ escapes /\ t[j] = "backslash"
                \/ t[j] = "quote" /\ j < Len(t) /\ t[j + 1] = "quote"
             THEN end[j + 2]
             ELSE IF t[j] = "quote" THEN j ELSE end[j + 1]
  IN end[n + 1]

(* The tag that ends the body opened at n, outside its comments and        *)
(* strings.                                                                *)
BodyEnd(t, n) ==
  LET end[j \in (n + 1)..(Len(t) + 2)] ==
        IF j > Len(t) THEN Len(t) + 1
        ELSE IF t[j] = t[n] THEN j
             ELSE end[CASE t[j] = "dashes" -> Find(t, "newline", j) + 1
                        [] t[j] \in {"quote", "equote"} -> StringEnd(t, j, FALSE) + 1
                        [] OTHER -> j + 1]
  IN end[n + 1]

SkipLineComment  == Here({"dashes"}) /\ SkipTo(Find(Script, "newline", at))
SkipBlockComment == Here({"open"}) /\ SkipTo(Find(Script, "close", at) + 1)

SkipString ==
  /\ Here({"quote", "equote"})
  /\ SkipTo(StringEnd(Script, at, Dialect = "postgresql" /\ Script[at] = "equote") + 1)

SkipIdentifier ==
  /\ Dialect = "postgresql"
  /\ Here({"dquote"})
  /\ SkipTo(Find(Script, "dquote", at + 1) + 1)

SkipBody ==
  /\ Dialect = "postgresql"
  /\ Here({"dollar", "tag"})
  /\ SkipTo(BodyEnd(Script, at) + 1)

(* GO and the newline after it belong to no batch.                         *)
CutAtGo ==
  /\ Dialect = "tsql"
  /\ Here({"go"})
  /\ batches' = Cut(batches, Strip(SubSeq(Script, start, at - 1)))
  /\ LET next == IF at < Len(Script) THEN at + 2 ELSE at + 1
     IN at' = next /\ start' = next
  /\ UNCHANGED <<input, pc, lineVars>>

EndsLine == at < Len(Script) => Script[at + 1] = "newline"

CutAtSemi ==
  /\ Dialect = "postgresql"
  /\ Here({"semi"})
  /\ EndsLine
  /\ batches' = Cut(batches, Strip(SubSeq(Script, start, at)))
  /\ start' = at + 1
  /\ at' = at + 1
  /\ UNCHANGED <<input, pc, lineVars>>

Advance ==
  /\ Here(Marks \ {"dashes", "open", "quote", "equote"})
  /\ Dialect = "tsql" => Script[at] # "go"
  /\ Dialect = "postgresql" =>
       /\ Script[at] \notin {"dquote", "dollar", "tag"}
       /\ Script[at] = "semi" => ~EndsLine
  /\ SkipTo(at + 1)

EndOfScan ==
  /\ pc = "scan"
  /\ ByMark
  /\ at > Len(Script)
  /\ batches' = Cut(batches, Strip(SubSeq(Script, start, Len(Script))))
  /\ pc' = "done"
  /\ UNCHANGED <<input, at, start, lineVars>>

-----------------------------------------------------------------------------
(* What both line readers do with a line.                                  *)

Line == SubSeq(Script, at, Find(Script, "newline", at) - 1)

AtLine(dialect) == pc = "scan" /\ Dialect = dialect /\ at <= Len(Script)

NextLine ==
  /\ at' = Find(Script, "newline", at) + 1
  /\ UNCHANGED <<input, pc, start>>

Keep(lines) == current' = lines /\ UNCHANGED batches
Flush(lines) == batches' = Cut(batches, Trimmed(Joined(lines))) /\ current' = <<>>

EndOfLines(dialect, text) ==
  /\ pc = "scan"
  /\ Dialect = dialect
  /\ at > Len(Script)
  /\ batches' = Cut(batches, text)
  /\ pc' = "done"
  /\ UNCHANGED <<input, at, start, lineVars>>

-----------------------------------------------------------------------------
(* _split_oracle.                                                          *)

(* Whether a block comment is open after the line; a string ends with it.  *)
CommentStep_NoStrings(region, mark) ==
  CASE region = "block" /\ mark = "close" -> "code"
    [] region = "code" /\ mark = "open"   -> "block"
    [] region = "code" /\ mark = "dashes" -> "line"
    [] OTHER -> region

CommentStep(region, mark) ==
  CASE region = "block" /\ mark = "close"  -> "code"
    [] region = "string" /\ mark = "quote" -> "code"
    [] region = "code" /\ mark = "quote"   -> "string"
    [] region = "code" /\ mark = "open"    -> "block"
    [] region = "code" /\ mark = "dashes"  -> "line"
    [] OTHER -> region

CommentAfter(line, state) ==
  LET region[n \in 0..Len(line)] ==
        IF n = 0 THEN IF state THEN "block" ELSE "code"
        ELSE CommentStep(region[n - 1], line[n])
  IN region[Len(line)] = "block"

WithoutLineComments(t) ==
  [n \in DOMAIN Lines(t) |->
     LET line == Lines(t)[n] IN SubSeq(line, 1, Find(line, "dashes", 1) - 1)]

(* The head of a unit, in the last three lines without their comments.     *)
HasHead(lines) ==
  LET window == SubSeq(lines, Max({1, Len(lines) - 2}), Len(lines))
      code == WithoutLineComments(WithoutBlocks(Joined(window)))
  IN \E n \in DOMAIN code : "routine" \in ToSet(code[n])

IsTrivia(lines) == LET t == Strip(Joined(lines)) IN TriviaEnd(t) > Len(t)

InsideComment ==
  /\ AtLine("oracle")
  /\ comment
  /\ Keep(Append(current, Line))
  /\ comment' = CommentAfter(Line, TRUE)
  /\ NextLine
  /\ UNCHANGED <<unit, delimiter, depth>>

IsRemark == ~unit /\ StartsWith(Line, "rem")
IsSetDirective(lines) == ~unit /\ StartsWith(Line, "set") /\ IsTrivia(lines)
IsSlash == Line = <<"slash">>

(* REM becomes a -- line, after the statement before it.                   *)
Remark ==
  /\ AtLine("oracle")
  /\ ~comment
  /\ IsRemark
  /\ batches' = Append(Cut(batches, Trimmed(Joined(current))),
                       [text |-> <<"dashes">> \o Tail(Line), type |-> "comment"])
  /\ current' = <<>>
  /\ NextLine
  /\ UNCHANGED <<unit, comment, delimiter, depth>>

(* The comments before a SET stay in current, and follow it.               *)
SetDirective ==
  /\ AtLine("oracle")
  /\ ~comment
  /\ IsSetDirective(current)
  /\ batches' = Append(batches, [text |-> Trimmed(Line), type |-> "set"])
  /\ NextLine
  /\ UNCHANGED <<current, unit, comment, delimiter, depth>>

Slash ==
  /\ AtLine("oracle")
  /\ ~comment
  /\ IsSlash
  /\ Flush(current)
  /\ unit' = FALSE
  /\ NextLine
  /\ UNCHANGED <<comment, delimiter, depth>>

(* Any other line; read when the lines above do not apply.                 *)
Ordinary ==
  AtLine("oracle") /\ ~comment /\ ~IsRemark /\ ~IsSetDirective(current) /\ ~IsSlash

OpenComment ==
  /\ Ordinary
  /\ CommentAfter(Line, FALSE)
  /\ comment' = TRUE
  /\ Keep(Append(current, Line))
  /\ NextLine
  /\ UNCHANGED <<unit, delimiter, depth>>

OpensUnit == ~unit /\ (HasHead(Append(current, Line)) \/ StartsWith(Line, "begin"))

OpenUnit ==
  /\ Ordinary
  /\ ~CommentAfter(Line, FALSE)
  /\ OpensUnit
  /\ unit' = TRUE
  /\ Keep(Append(current, Line))
  /\ NextLine
  /\ UNCHANGED <<comment, delimiter, depth>>

(* In a unit semicolons end nothing: the slash does.                       *)
OracleLine ==
  /\ Ordinary
  /\ ~CommentAfter(Line, FALSE)
  /\ ~OpensUnit
  /\ IF ~unit /\ EndsWith(Line, "semi") THEN Flush(Append(current, Line))
                                        ELSE Keep(Append(current, Line))
  /\ NextLine
  /\ UNCHANGED <<unit, comment, delimiter, depth>>

EndOfOracle == EndOfLines("oracle", Trimmed(Joined(current)))

-----------------------------------------------------------------------------
(* _split_mysql.                                                           *)

(* A line cut after its semicolons that stand outside strings.             *)
Segments(line) ==
  LET quotesBefore(n) == {m \in 1..(n - 1) : line[m] = "quote"}
      ends == InOrder(line, {n \in DOMAIN line :
                               line[n] = "semi" /\ Cardinality(quotesBefore(n)) % 2 = 0})
      bounds == <<0>> \o ends \o <<Len(line)>>
  IN SelectSeq([n \in 1..(Len(bounds) - 1) |-> SubSeq(line, bounds[n] + 1, bounds[n + 1])],
               LAMBDA s : s # <<>>)

IsDelimiter == Line \in {<<"delimiter_dollar">>, <<"delimiter_semi">>}

(* What BEGIN/END tracking holds after the directive is stale.             *)
Delimiter_KeepsUnit ==
  /\ AtLine("mysql")
  /\ IsDelimiter
  /\ Flush(current)
  /\ delimiter' = IF Line = <<"delimiter_dollar">> THEN "dollar" ELSE "semi"
  /\ NextLine
  /\ UNCHANGED <<unit, comment, depth>>

Delimiter ==
  /\ AtLine("mysql")
  /\ IsDelimiter
  /\ Flush(current)
  /\ delimiter' = IF Line = <<"delimiter_dollar">> THEN "dollar" ELSE "semi"
  /\ unit' = FALSE
  /\ depth' = 0
  /\ NextLine
  /\ UNCHANGED comment

IsSplit ==
  /\ delimiter = "semi"
  /\ ~unit
  /\ ~StartsWith(Line, "dashes")
  /\ "routine" \notin ToSet(Line)
  /\ Len(Segments(Line)) > 1

(* Several statements on a line: each segment is a line of its own.        *)
SplitLine ==
  /\ AtLine("mysql")
  /\ ~IsDelimiter
  /\ IsSplit
  /\ LET add(s, segment) ==
           LET lines == Append(s.current, segment)
           IN IF EndsWith(segment, "semi")
              THEN [current |-> <<>>, batches |-> Cut(s.batches, Trimmed(Joined(lines)))]
              ELSE [s EXCEPT !.current = lines]
         read == FoldLeft(add, [current |-> current, batches |-> batches], Segments(Line))
     IN current' = read.current /\ batches' = read.batches
  /\ NextLine
  /\ UNCHANGED <<unit, comment, delimiter, depth>>

(* The blocks open after the line of a routine; the END of the last closes *)
(* the routine.                                                            *)
Counted(line) ==
  LET count(mark) == Cardinality({n \in DOMAIN line : line[n] = mark})
      endCase == {n \in 2..Len(line) : line[n] = "case" /\ line[n - 1] = "end"}
      close(s, mark) ==
        CASE mark = "end" /\ s.depth > 1  -> [s EXCEPT !.depth = s.depth - 1]
          [] mark = "end" /\ s.depth <= 1 -> [depth |-> 0, unit |-> FALSE]
          [] OTHER -> s
  IN FoldLeft(close,
       [depth |-> depth + count("begin") + count("case") - Cardinality(endCase),
        unit |-> TRUE], line)

MysqlLine ==
  /\ AtLine("mysql")
  /\ ~IsDelimiter
  /\ ~IsSplit
  /\ LET inRoutine == delimiter = "semi" /\ (unit \/ "routine" \in ToSet(Line))
         after == IF inRoutine THEN Counted(Line) ELSE [depth |-> depth, unit |-> unit]
         lines == Append(current, Line)
     IN /\ unit' = after.unit
        /\ depth' = after.depth
        /\ CASE delimiter = "dollar" /\ EndsWith(Line, "dollar") ->
                  /\ batches' = Cut(batches, Strip(Front(Joined(lines))))
                  /\ current' = <<>>
             [] delimiter = "semi" /\ EndsWith(Line, "semi")
                  /\ ~after.unit /\ after.depth = 0 -> Flush(lines)
             [] OTHER -> Keep(lines)
  /\ NextLine
  /\ UNCHANGED <<comment, delimiter>>

EndOfMysql == EndOfLines("mysql", Strip(Joined(current)))

-----------------------------------------------------------------------------
Finished == pc = "done" /\ UNCHANGED vars

Next ==
  \/ SkipLineComment \/ SkipBlockComment \/ SkipString \/ SkipIdentifier \/ SkipBody
  \/ CutAtGo \/ CutAtSemi \/ Advance \/ EndOfScan
  \/ InsideComment \/ Remark \/ SetDirective \/ Slash
  \/ OpenComment \/ OpenUnit \/ OracleLine \/ EndOfOracle
  \/ Delimiter \/ SplitLine \/ MysqlLine \/ EndOfMysql
  \/ Finished

Spec == Init /\ [][Next]_vars

-----------------------------------------------------------------------------
(* Properties.                                                             *)

(* Read batch by batch, the script holds the statements it holds as a      *)
(* whole: no statement is cut, none is lost and none changes places, by a  *)
(* batch end in a string, a comment, a body or a unit.  A batch may lose   *)
(* the semicolon it ends in.                                               *)
BatchesReadAsScript ==
  pc = "done" =>
    LET bare(statements) == [n \in DOMAIN statements |-> Trimmed(statements[n])]
        byBatch == [n \in DOMAIN batches |-> ClientStatements(Dialect, batches[n].text)]
    IN bare(FlattenSeq(byBatch)) = bare(ClientStatements(Dialect, Script))

(* A statement that ends its line ends its batch: a flag left set does not *)
(* glue what follows to it.                                                *)
NothingGlued ==
  pc = "done" =>
    \A b \in ToSet(batches) :
      ~\E n \in Separators(Dialect, b.text) :
         b.text[n] = "semi" /\ n < Len(b.text) /\ b.text[n + 1] = "newline"

(* The type that routes a batch is decided by its code and never by its    *)
(* comments or literals.                                                   *)
TypesFitCode ==
  pc = "done" =>
    \A b \in ToSet(batches) :
      LET code == Code(Dialect, b.text)
      IN /\ b.type = "comment" <=> code = <<>>
         /\ b.type = "set" <=> code # <<>> /\ Head(code) = "set"
         /\ b.type = "procedural" <=>
              /\ "routine" \in ToSet(code) \/ (Dialect = "oracle" /\ StartsWith(code, "begin"))
              /\ Head(code) # "set"

(* The readers and the engine agree, at every step, on where a comment, a  *)
(* string or a body is open: the cursor of a scan rests on code, and       *)
(* in_comment is what the engine makes of the lines before.                *)
InStepWithClient ==
  pc = "scan" /\ at <= Len(Script) =>
    LET region == Regions(Dialect, Script)
    IN CASE ByMark -> region[at] = "code" \/ (region[at] = "line" /\ Script[at] = "newline")
         [] Dialect = "oracle" -> comment <=> region[at] = "block"
         [] OTHER -> region[at] = "code"

(* The scripts whose marks the readers and the client take alike.  They    *)
(* end a $$ body at the first tag outside its comments and strings, where  *)
(* the client ends it at the first; take E' for a literal on T-SQL; start  *)
(* each line of Oracle outside strings and each of MySQL in code; and do   *)
(* not look for a comment after SET, nor for REM behind a line's first     *)
(* word.  GO is alone on its line.  (The client's reading itself goes on   *)
(* after a doubled quote as in a plain string, in E'' literals too.)       *)
Readable(dialect, t) ==
  LET region == Regions(dialect, t)
      isAlone(n) == n < Len(t) => t[n + 1] = "newline"
      opensLater(n) == Find(t, "open", n) < Find(t, "newline", n)
  IN CASE dialect = "tsql" ->
            \A n \in DOMAIN t : t[n] # "equote" /\ (t[n] = "go" => isAlone(n))
       [] dialect = "postgresql" ->
            \A n \in DOMAIN t :
              /\ region[n] = "code" /\ t[n] \in {"dollar", "tag"} =>
                   BodyEnd(t, n) = Find(t, t[n], n + 1)
              /\ region[n] = "escaping_string" /\ t[n] = "quote" /\ n < Len(t) =>
                   t[n + 1] # "quote"
       [] dialect = "oracle" ->
            \A n \in DOMAIN t :
              /\ t[n] = "newline" => region[n] # "string"
              /\ t[n] \in {"rem", "set"} => ~opensLater(n)
       [] dialect = "mysql" ->
            \A n \in DOMAIN t : t[n] = "newline" => region[n + 1] = "code"
=============================================================================
