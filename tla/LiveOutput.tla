----------------------------- MODULE LiveOutput -----------------------------
(***************************************************************************)
(* Live validation: the statements of the output are tried one by one in a *)
(* session of the target engine (validate_statements), and those the       *)
(* engine rejects are turned into comments in the output text              *)
(* (_validate_output_live).                                                *)
(*                                                                         *)
(* A statement is what the session and the replacement tell apart: its     *)
(* text, what it does to the session, and what is wrong with it.           *)
(***************************************************************************)
EXTENDS Naturals, FiniteSets, SequencesExt

CONSTANTS
  Outputs,   \* the outputs of the instance: target and statements
  Texts,     \* texts of statements
  Within,    \* Within[t]: the other texts that occur in text t
  OneLine    \* the texts of a single line

Targets == {"tsql", "postgresql", "mysql", "oracle"}
Kinds == {"query", "ddl", "commit", "rollback", "use"}
Faults == {"none", "syntax", "missing_table", "missing_column", "missing_database",
           "slow"}   \* slow: runs until the time limit, if there is one

Statement == [text : Texts, kind : Kinds, fault : Faults]

ASSUME OutputsAssumption ==
  /\ Outputs \subseteq [target : Targets, statements : Seq(Statement)]
  /\ Within \in [Texts -> SUBSET Texts]
  /\ OneLine \subseteq Texts

VARIABLES
  output,    \* target and statements (split_statements of the joined parts)
  pc,        \* "connect", "try", "execute", "clean", "degrade", "done" or "raised"
  n,         \* position in the statements
  verdicts,  \* TRUE where the engine's error text was kept
  session,   \* the engine's side of the connection
  cells      \* the statements in the output text: "sql", "comment" or "cut"

vars == <<output, pc, n, verdicts, session, cells>>

Current == output.statements[n]
Target == output.target

(* The session: the database in use, the objects created and not committed *)
(* and those committed, the time limit now, at the savepoint and as of the *)
(* last commit, and whether the transaction has the savepoint, has failed, *)
(* or met a slow statement without a limit.                                *)
NewSession ==
  [database |-> "own", pending |-> {}, persisted |-> {}, limited |-> FALSE,
   limitedAtSavepoint |-> FALSE, limitedAtCommit |-> FALSE, savepoint |-> FALSE,
   failed |-> FALSE, overran |-> FALSE]

Init ==
  /\ output \in Outputs
  /\ pc = "connect"
  /\ n = 1
  /\ verdicts = <<>>
  /\ session = NewSession
  /\ cells = [c \in DOMAIN output.statements |-> "sql"]

-----------------------------------------------------------------------------
(* The engines.                                                            *)

Committed(s) ==
  [s EXCEPT !.persisted = @ \cup s.pending, !.pending = {}, !.savepoint = FALSE,
            !.failed = FALSE, !.limitedAtCommit = s.limited]

RolledBack(s) ==
  [s EXCEPT !.pending = {}, !.savepoint = FALSE, !.failed = FALSE,
            !.limited = s.limitedAtCommit]

RolledBackToSavepoint(s) ==
  [s EXCEPT !.pending = {}, !.failed = FALSE, !.limited = s.limitedAtSavepoint]

(* Whether a statement fails; only PostgreSQL runs under a time limit.     *)
Fails(s, st) ==
  CASE Target = "tsql" -> st.fault \in {"syntax", "missing_database"}
    [] Target = "postgresql" ->
         s.failed \/ st.fault \notin {"none", "slow"} \/ (st.fault = "slow" /\ s.limited)
    [] OTHER -> st.fault \notin {"none", "slow"}

(* What a statement that does not fail leaves in a session that runs it.   *)
Effect(s, st) ==
  CASE st.kind = "ddl" /\ Target = "mysql" ->
         [s EXCEPT !.persisted = @ \cup {[database |-> s.database, text |-> st.text]}]
    [] st.kind = "ddl" /\ Target = "postgresql" ->
         [s EXCEPT !.pending = @ \cup {[database |-> s.database, text |-> st.text]}]
    [] st.kind = "use" -> [s EXCEPT !.database = "other"]
    [] st.kind = "commit" /\ Target = "postgresql" -> Committed(s)
    [] st.kind = "rollback" /\ Target = "postgresql" -> RolledBack(s)
    [] OTHER -> [s EXCEPT !.overran = @ \/ (Target = "postgresql" /\ st.fault = "slow")]

(* T-SQL parses and Oracle parses: neither runs the statement.             *)
Executes == Target \in {"postgresql", "mysql"}

After(s, st) ==
  CASE Fails(s, st) -> [s EXCEPT !.failed = Target = "postgresql"]
    [] ~Fails(s, st) /\ Executes -> Effect(s, st)
    [] OTHER -> s

(* The validators' view of an error: of the statement, or of the engine it *)
(* happens to run on.  Oracle reports a missing column as ORA-00904, which *)
(* is among the syntax codes.                                              *)
IsSyntaxError_AnyError(s, st) == TRUE
IsSyntaxError(s, st) ==
  CASE Target = "tsql" -> st.fault # "missing_database"
    [] Target = "oracle" -> st.fault \in {"syntax", "missing_column"}
    [] OTHER -> ~s.failed /\ st.fault = "syntax"

-----------------------------------------------------------------------------
(* The validation.                                                         *)

(* SET statement_timeout; the throwaway database of MySQL.                 *)
Setup ==
  CASE Target = "postgresql" -> [session EXCEPT !.limited = TRUE]
    [] Target = "mysql" -> [session EXCEPT !.database = "throwaway"]
    [] OTHER -> session

Connect ==
  /\ pc = "connect"
  /\ output.statements # <<>>
  /\ session' = Setup
  /\ pc' = "try"
  /\ UNCHANGED <<output, n, verdicts, cells>>

Nothing ==
  /\ pc = "connect"
  /\ output.statements = <<>>
  /\ pc' = "done"
  /\ UNCHANGED <<output, n, verdicts, session, cells>>

(* A bad URL, or an engine that refuses the connection.                    *)
ConnectFails ==
  /\ pc = "connect"
  /\ output.statements # <<>>
  /\ pc' = "raised"
  /\ UNCHANGED <<output, n, verdicts, session, cells>>

Savepoint ==
  /\ pc = "try"
  /\ n <= Len(output.statements)
  /\ session' = IF Target = "postgresql"
                THEN [session EXCEPT !.savepoint = TRUE,
                                     !.limitedAtSavepoint = session.limited]
                ELSE session
  /\ pc' = "execute"
  /\ UNCHANGED <<output, n, verdicts, cells>>

(* Oracle runs DDL when it parses it, so DDL is not tried.                 *)
IsSkipped(st) == Target = "oracle" /\ st.kind = "ddl"

SkipDdl ==
  /\ pc = "execute"
  /\ IsSkipped(Current)
  /\ verdicts' = Append(verdicts, FALSE)
  /\ pc' = "clean"
  /\ UNCHANGED <<output, n, session, cells>>

Execute ==
  /\ pc = "execute"
  /\ ~IsSkipped(Current)
  /\ verdicts' = Append(verdicts, Fails(session, Current) /\ IsSyntaxError(session, Current))
  /\ session' = After(session, Current)
  /\ pc' = "clean"
  /\ UNCHANGED <<output, n, cells>>

(* ROLLBACK TO the savepoint; when it is gone, a rollback of all.          *)
CleanUp_OnErrorOnly(s) ==
  CASE s.savepoint /\ s.failed -> RolledBackToSavepoint(s)
    [] ~s.savepoint -> RolledBack(s)
    [] OTHER -> s

CleanUp_NewSession(s) ==
  IF s.savepoint THEN RolledBackToSavepoint(s)
  ELSE [RolledBack(s) EXCEPT !.limited = FALSE]

CleanUp(s) == IF s.savepoint THEN RolledBackToSavepoint(s) ELSE RolledBack(s)

NextStatement ==
  /\ pc = "clean"
  /\ session' = IF Target = "postgresql" THEN CleanUp(session) ELSE session
  /\ n' = n + 1
  /\ pc' = "try"
  /\ UNCHANGED <<output, verdicts, cells>>

(* The transaction is rolled back, the throwaway database dropped.         *)
Closed ==
  CASE Target = "postgresql" -> RolledBack(session)
    [] Target = "mysql" ->
         [session EXCEPT !.persisted = {o \in @ : o.database # "throwaway"}]
    [] OTHER -> session

Disconnect ==
  /\ pc = "try"
  /\ n > Len(output.statements)
  /\ session' = Closed
  /\ n' = 1
  /\ pc' = "degrade"
  /\ UNCHANGED <<output, verdicts, cells>>

-----------------------------------------------------------------------------
(* The replacement of the rejected statements.                             *)

(* Whether the text of a cell still has a text in it.  A comment starts    *)
(* every line with `--', so it keeps the texts of one line only.           *)
Has(c, text) ==
  /\ text \in Within[output.statements[c].text] \cup {output.statements[c].text}
  /\ cells[c] = "sql" \/ text \in OneLine

Holders(text) == {c \in DOMAIN cells : Has(c, text)}

(* str.replace(statement, carrier, 1): the first place the text is found.  *)
Degraded(text) ==
  LET first == CHOOSE c \in Holders(text) : \A d \in Holders(text) : c <= d
      became == CASE cells[first] = "comment" -> "comment"
                  [] cells[first] = "sql" /\ output.statements[first].text = text -> "comment"
                  [] OTHER -> "cut"
  IN IF Holders(text) = {} THEN cells ELSE [cells EXCEPT ![first] = became]

Degrade ==
  /\ pc = "degrade"
  /\ n <= Len(output.statements)
  /\ cells' = IF verdicts[n] THEN Degraded(Current.text) ELSE cells
  /\ n' = n + 1
  /\ UNCHANGED <<output, pc, verdicts, session>>

Return ==
  /\ pc = "degrade"
  /\ n > Len(output.statements)
  /\ pc' = "done"
  /\ UNCHANGED <<output, n, verdicts, session, cells>>

Finished == pc \in {"done", "raised"} /\ UNCHANGED vars

Next ==
  \/ Connect \/ Nothing \/ ConnectFails
  \/ Savepoint \/ SkipDdl \/ Execute \/ NextStatement \/ Disconnect
  \/ Degrade \/ Return \/ Finished

Spec == Init /\ [][Next]_vars

-----------------------------------------------------------------------------
(* Properties.                                                             *)

Databases == {"own", "throwaway", "other"}
Object == [database : Databases, text : Texts]
Session ==
  [database : Databases, pending : SUBSET Object, persisted : SUBSET Object,
   limited : BOOLEAN, limitedAtSavepoint : BOOLEAN, limitedAtCommit : BOOLEAN,
   savepoint : BOOLEAN, failed : BOOLEAN, overran : BOOLEAN]

(* The state of a validation keeps its types, with one verdict for every   *)
(* statement tried (validate_statements; zip(..., strict=True)).           *)
TypeOK ==
  /\ pc \in {"connect", "try", "execute", "clean", "degrade", "done", "raised"}
  /\ n \in 1..(Len(output.statements) + 1)
  /\ verdicts \in Seq(BOOLEAN)
  /\ pc = "connect" => n = 1 /\ Len(verdicts) = 0
  /\ pc \in {"try", "execute"} => Len(verdicts) = n - 1
  /\ pc = "clean" => Len(verdicts) = n
  /\ pc \in {"execute", "clean"} => n <= Len(output.statements)
  /\ pc = "degrade" => Len(verdicts) = Len(output.statements)
  /\ cells \in [DOMAIN output.statements -> {"sql", "comment", "cut"}]
  /\ session \in Session

(* The statements with a syntax error, and no others, end as comments,     *)
(* wherever in the script they stand and whatever ran before them in the   *)
(* same session: a session left in a failed transaction would accept all   *)
(* that follows, an error of the environment must not degrade good SQL.    *)
MalformedAreCommented ==
  pc = "done" =>
    \A c \in DOMAIN cells :
      LET st == output.statements[c]
      IN cells[c] = IF st.fault = "syntax" /\ ~IsSkipped(st) THEN "comment" ELSE "sql"

(* Validation has no side effect: whatever the statements did, and those   *)
(* that end the transaction they are tried in, nothing outlives the        *)
(* session.                                                                *)
NothingPersists == pc \in {"degrade", "done", "raised"} => session.persisted = {}

(* Every statement PostgreSQL runs is under the time limit, although the   *)
(* limit was set in a transaction that the statements may end.             *)
NothingOverruns == ~session.overran

=============================================================================
