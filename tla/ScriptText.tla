----------------------------- MODULE ScriptText -----------------------------
(***************************************************************************)
(* The text of a script as both splitters read it: a sequence of the marks *)
(* they tell apart.  These are a quote, E' (equote), a double quote, a     *)
(* semicolon, `--' (dashes), `/*' (open) and its close, $$ (dollar), $tag$ *)
(* (tag), a backslash, a newline, the words BEGIN, TRANSACTION, END, CASE, *)
(* the head of a CREATE PROCEDURE (routine), a directive of the client     *)
(* alone on its line (go, slash, rem, set, delimiter_dollar,               *)
(* delimiter_semi), and any other text (word).  Set is a SET of an option. *)
(***************************************************************************)
EXTENDS Naturals, SequencesExt

Dialects == {"tsql", "oracle", "postgresql", "mysql"}

Marks ==
  {"quote", "semi", "dashes", "open", "close", "dollar", "tag", "backslash", "equote",
   "dquote", "newline", "begin", "transaction", "end", "case", "routine", "word",
   "go", "slash", "rem", "set", "delimiter_dollar", "delimiter_semi"}

(* A set of a text's positions, in order.                                  *)
InOrder(t, positions) ==
  LET upTo[n \in 0..Len(t)] ==
        CASE n = 0 -> <<>>
          [] n > 0 /\ n \in positions -> Append(upTo[n - 1], n)
          [] OTHER -> upTo[n - 1]
  IN upTo[Len(t)]

Find(t, mark, from) ==
  LET at == {n \in from..Len(t) : t[n] = mark}
  IN IF at = {} THEN Len(t) + 1 ELSE Min(at)

(* str.strip(): only newlines are blank here.                              *)
Strip(t) ==
  LET code == {n \in DOMAIN t : t[n] # "newline"}
  IN IF code = {} THEN <<>> ELSE SubSeq(t, Min(code), Max(code))

AppendStripped(seq, t) == IF Strip(t) = <<>> THEN seq ELSE Append(seq, Strip(t))

(* The pieces of a text between the marks of a set.                        *)
Pieces(t, marks) ==
  LET cuts == InOrder(t, {n \in DOMAIN t : t[n] \in marks})
      ends == <<0>> \o cuts \o <<Len(t) + 1>>
  IN [n \in 1..(Len(ends) - 1) |-> SubSeq(t, ends[n] + 1, ends[n + 1] - 1)]

(* The position after the comments and blanks a text starts with.          *)
TriviaEnd(t) ==
  LET after[n \in 1..(Len(t) + 1)] ==
        CASE n <= Len(t) /\ t[n] = "newline" -> after[n + 1]
          [] n <= Len(t) /\ t[n] = "dashes"  -> after[Find(t, "newline", n)]
          [] n <= Len(t) /\ t[n] = "open" /\ Find(t, "close", n) <= Len(t) ->
               after[Find(t, "close", n) + 1]
          [] OTHER -> n
  IN after[1]

(* Comments are removed without a look at strings.                         *)
IsExecutable(t) == TriviaEnd(t) <= Len(t)
=============================================================================
