----------------------------- MODULE OutputJoin -----------------------------
(***************************************************************************)
(* From the texts the emitters return to the script that is shipped: the    *)
(* statements of a batch are joined (emit_sql, _peel_leading_statements),  *)
(* the batch is terminated (_ensure_terminated), a MySQL routine gets its   *)
(* DELIMITER lines (_wrap_mysql_routine), and the parts are joined with the *)
(* separator that fits each pair (_join_parts).  What matters is how the    *)
(* target's client reads the result: ClientScript says, of marks.           *)
(*                                                                         *)
(* A divider is a `--' that no blank follows: a comment, but not on MySQL.  *)
(* The validity gate between a pipeline and _ensure_terminated is left to   *)
(* Transpiler; here it lets every text pass.                                *)
(***************************************************************************)
EXTENDS ClientScript

CONSTANT Inputs   \* the [target, batches] of the instance

Texts == Seq(Marks \cup {"divider"})
Types == {"COMMENT", "DML", "PROCEDURAL"}

(* What the emitter returns for one node: one text, or for a routine with   *)
(* companions (a trigger for each event, a hoisted table) several.         *)
Nodes == [comment : BOOLEAN, texts : Seq(Texts)]

ASSUME JoinInputsAssumption ==
  Inputs \subseteq [target : Dialects, batches : Seq([type : Types, nodes : Seq(Nodes)])]

VARIABLES
  target,    \* the target dialect
  batches,   \* the batches still to be emitted
  emitted,   \* the nodes of those that were
  parts,     \* output_parts: [sql, is_comment]
  joined,    \* how many parts are in output
  output,    \* output_sql
  pc         \* "batch", "join" or "done"

vars == <<target, batches, emitted, parts, joined, output, pc>>

-----------------------------------------------------------------------------
(* Texts.                                                                  *)

Dashes == {"dashes", "divider"}
Newlines(n) == [i \in 1..n |-> "newline"]
JoinedBy(texts, separator) ==
  FlattenSeq([n \in DOMAIN texts |-> IF n = 1 THEN texts[n] ELSE separator \o texts[n]])

Spaced(t) == [n \in DOMAIN t |-> IF t[n] = "divider" THEN "dashes" ELSE t[n]]

LinesOf(t) == Pieces(t, {"newline"})
IsRemark(line) == line = <<>> \/ Head(line) \in Dashes
IsCommentOnly(t) == Strip(t) # <<>> /\ \A n \in DOMAIN LinesOf(t) : IsRemark(LinesOf(t)[n])

(* rstrip(): the newlines at the end.                                      *)
Trimmed(t) ==
  LET code == {n \in DOMAIN t : t[n] # "newline"}
  IN IF code = {} THEN <<>> ELSE SubSeq(t, 1, Max(code))

WithoutSemi(t) == IF t # <<>> /\ Last(t) = "semi" THEN Front(t) ELSE t

-----------------------------------------------------------------------------
(* One batch.                                                              *)

NodeText(node) == JoinedBy(node.texts, Newlines(2))

NodeSeparator == IF target = "tsql" THEN <<"newline", "go", "newline", "newline">>
                                    ELSE <<"semi", "newline", "newline">>

(* A preserved comment reads as the comment of the statement after it.     *)
EmitSql(nodes) ==
  FlattenSeq([n \in DOMAIN nodes |->
    (IF n = 1 THEN <<>>
     ELSE IF nodes[n - 1].comment THEN Newlines(1) ELSE NodeSeparator) \o NodeText(nodes[n])])

(* The statement is terminated at the last line that is not a comment.     *)
Terminated_LastLine(t, type) ==
  IF target = "tsql" \/ type = "COMMENT" \/ Last(t) = "semi" THEN t
  ELSE Append(t, "semi")

Terminated(t, type) ==
  LET lines == LinesOf(Trimmed(t))
      code == {n \in DOMAIN lines : ~IsRemark(lines[n])}
      at == Max(code)
  IN IF target = "tsql" \/ type = "COMMENT" \/ code = {} THEN t
     ELSE IF Last(lines[at]) = "semi" THEN t
     ELSE JoinedBy([lines EXCEPT ![at] = Append(@, "semi")], Newlines(1))

(* Where each of several routines ends: END alone on its line, a blank one, *)
(* and the head of the next.                                               *)
EndsRoutine(t, n) ==
  /\ t[n] = "end"
  /\ n = 1 \/ t[n - 1] = "newline"
  /\ n + 3 <= Len(t) /\ SubSeq(t, n + 1, n + 3) = Newlines(2) \o <<"routine">>

EachEnded(t) ==
  FlattenSeq([n \in DOMAIN t |-> IF EndsRoutine(t, n) THEN <<t[n], "dollar">> ELSE <<t[n]>>])

(* Only a text that starts with a routine, line comments aside, is wrapped. *)
Wrapped(t) ==
  LET lines == LinesOf(t)
      code == {n \in DOMAIN lines : ~IsRemark(lines[n])}
      head == Trimmed(JoinedBy(SubSeq(lines, 1, Min(code) - 1), Newlines(1)))
      body == Trimmed(JoinedBy(SubSeq(lines, Min(code), Len(lines)), Newlines(1)))
  IN IF code = {} THEN t
     ELSE IF Head(lines[Min(code)]) # "routine" THEN t
     ELSE (IF head = <<>> THEN head ELSE head \o Newlines(1)) \o
          <<"delimiter_dollar", "newline">> \o EachEnded(Trimmed(WithoutSemi(body))) \o
          <<"dollar", "newline", "delimiter_semi">>

(* The blank MySQL wants after `--', at the start of any line.             *)
SafeComments(t) ==
  [n \in DOMAIN t |->
     IF t[n] = "divider" /\ (n = 1 \/ t[n - 1] = "newline") THEN "dashes" ELSE t[n]]

(* A routine with statements ahead of it carries its own DELIMITER lines.  *)
Peeled(nodes) ==
  LET routine == NodeText(Last(nodes))
      lead == Terminated(EmitSql(Front(nodes)), "DML")
  IN CASE target = "tsql" -> lead \o <<"newline", "go", "newline">> \o routine
       [] target = "mysql" ->
            lead \o Newlines(2) \o Wrapped(Terminated(routine, "PROCEDURAL"))
       [] OTHER -> lead \o Newlines(2) \o routine

Result(b) ==
  IF b.type # "PROCEDURAL" THEN EmitSql(b.nodes)
  ELSE IF Len(b.nodes) > 1 THEN Peeled(b.nodes)
  ELSE NodeText(b.nodes[1])

PartOf(b) ==
  LET terminated == Terminated(Result(b), b.type)
      sql == IF target = "mysql" THEN SafeComments(Wrapped(terminated)) ELSE terminated
  IN [sql |-> sql, is_comment |-> b.type = "COMMENT" \/ IsCommentOnly(sql)]

-----------------------------------------------------------------------------
(* Between parts.                                                          *)

(* Only a PL/SQL block wants a slash: a head at the start, comments aside,  *)
(* or a stored unit at the start of any line.                              *)
NeedsSlash(t) ==
  LET code == SubSeq(t, TriviaEnd(Spaced(t)), Len(t))
      lines == SelectSeq(LinesOf(code), LAMBDA l : ~IsRemark(l))
  IN /\ lines # <<>>
     /\ \/ Head(lines[1]) \in {"begin", "routine"}
        \/ \E n \in DOMAIN lines : Head(lines[n]) = "routine"

Separator_Slash(previous) ==
  CASE target = "tsql" -> <<"newline", "go", "newline", "newline">>
    [] target = "oracle" -> <<"newline", "slash", "newline", "newline">>
    [] OTHER -> Newlines(2)

Separator(previous) ==
  CASE target = "tsql" -> <<"newline", "go", "newline", "newline">>
    [] target = "oracle" /\ NeedsSlash(previous) -> <<"newline", "slash", "newline", "newline">>
    [] OTHER -> Newlines(2)

Init ==
  /\ \E i \in Inputs : target = i.target /\ batches = i.batches
  /\ emitted = <<>> /\ parts = <<>> /\ joined = 0 /\ output = <<>>
  /\ pc = "batch"

Emit ==
  /\ pc = "batch" /\ batches # <<>>
  /\ parts' = Append(parts, PartOf(Head(batches)))
  /\ emitted' = emitted \o Head(batches).nodes
  /\ batches' = Tail(batches)
  /\ UNCHANGED <<target, joined, output, pc>>

EndBatches ==
  /\ pc = "batch" /\ batches = <<>>
  /\ pc' = "join"
  /\ UNCHANGED <<target, batches, emitted, parts, joined, output>>

Joins(text) ==
  /\ output' = text
  /\ joined' = joined + 1
  /\ UNCHANGED <<target, batches, emitted, parts, pc>>

FirstPart ==
  /\ pc = "join" /\ joined = 0 /\ parts # <<>>
  /\ Joins(parts[1].sql)

(* A comment goes with the part after it.                                  *)
GluePart ==
  /\ pc = "join" /\ joined \in 1..(Len(parts) - 1)
  /\ parts[joined].is_comment
  /\ Joins(Trimmed(output) \o Newlines(1) \o parts[joined + 1].sql)

SeparatePart ==
  /\ pc = "join" /\ joined \in 1..(Len(parts) - 1)
  /\ ~parts[joined].is_comment
  /\ Joins(output \o Separator(parts[joined].sql) \o parts[joined + 1].sql)

Return ==
  /\ pc = "join" /\ joined = Len(parts)
  /\ output' = IF /\ target = "oracle" /\ parts # <<>>
                  /\ ~Last(parts).is_comment /\ NeedsSlash(Last(parts).sql)
               THEN output \o <<"newline", "slash">> ELSE output
  /\ pc' = "done"
  /\ UNCHANGED <<target, batches, emitted, parts, joined>>

Finished == pc = "done" /\ UNCHANGED vars

Next == Emit \/ EndBatches \/ FirstPart \/ GluePart \/ SeparatePart \/ Return \/ Finished

Spec == Init /\ [][Next]_vars

-----------------------------------------------------------------------------
(* Properties.                                                             *)

(* A text as the target's client sees it.                                  *)
Seen(t) ==
  IF target # "mysql" THEN Spaced(t)
  ELSE [n \in DOMAIN t |-> IF t[n] = "divider" THEN "word" ELSE t[n]]

(* The shipped script is read by the client itself: mysql knows no blocks    *)
(* and cuts at every semicolon the DELIMITER lines do not protect.         *)
Cuts(t) ==
  Separators(target, t) \cup
  {n \in InCodeAt(target, t) :
     target = "mysql" /\ t[n] = "semi" /\ ~DelimiterIsDollar(t, n)}

Read(t) == StatementsBetween(target, t, Cuts(t))

(* A text as its emitter means it: a divider in code starts a comment.     *)
Intended(t) ==
  LET code == InCodeAt(target, Spaced(t))
  IN Seen([n \in DOMAIN t |-> IF t[n] = "divider" /\ n \in code THEN "dashes" ELSE t[n]])

(* The statements one text stands for, a routine being one of them.        *)
Meant(text) ==
  IF target = "mysql" /\ "routine" \in ToSet(text)
  THEN CodeOfAll(target, <<Intended(WithoutSemi(text))>>)
  ELSE Read(Intended(text))

(* The target's client reads the shipped script as the statements that were *)
(* emitted, each alone, in order and unchanged: no separator is missing,   *)
(* falls in a comment or a literal, or cuts a routine (emit_sql,           *)
(* _ensure_terminated, _wrap_mysql_routine, _join_parts).                  *)
ReadsAsEmitted ==
  pc = "done" =>
    Read(Seen(output)) =
      FlattenSeq([n \in DOMAIN emitted |->
        FlattenSeq([m \in DOMAIN emitted[n].texts |-> Meant(emitted[n].texts[m])])])

(* SQL*Plus runs nothing twice: a slash follows a PL/SQL block, never a    *)
(* statement its semicolon has already run ("it must follow only PL/SQL    *)
(* blocks").                                                               *)
NothingRunsTwice ==
  pc = "done" /\ target = "oracle" =>
    LET t == Seen(output) IN
    LET code == InCodeAt(target, t)
    IN \A n \in code : t[n] = "slash" => InUnit(t, code, n)
=============================================================================
