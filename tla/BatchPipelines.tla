--------------------------- MODULE BatchPipelines ---------------------------
(***************************************************************************)
(* What each pipeline of Transpiler returns for a batch: the form of its   *)
(* output, the carriers in it, and the warnings and unsupported entries    *)
(* that come with it, for every return of _transpile_procedural,           *)
(* _transpile_dml, _transpile_set_batch and the catalog guards.            *)
(*                                                                         *)
(* A statement is what the recognizers see in it (its kind) and what the   *)
(* engine below answers for it (its run): the converter and transformer    *)
(* for DML and DDL, parser, transformer and emitter for a routine.         *)
(***************************************************************************)
EXTENDS Reporting

CONSTANTS Source, Target   \* the dialect pair

Dialects == {"tsql", "oracle", "postgresql", "mysql", "sqlite"}

ASSUME DialectAssumption == Source \in Dialects /\ Target \in Dialects \ {"sqlite"}

Returned(form, carriers, warnings, unsupported) ==
  [form |-> form, carriers |-> carriers, warnings |-> warnings,
   unsupported |-> unsupported]

Clean(form)     == Returned(form, <<>>, <<>>, <<>>)
Carry(frag, code) == [frag |-> frag, code |-> code]
AddWarning(r, w) == [r EXCEPT !.warnings = Append(@, w)]
AddWarnings(r, ws) == [r EXCEPT !.warnings = ws \o @]

(* Outputs that are joined into one: what is executable in either stays.   *)
JoinedForm(f, g) ==
  IF "raw" \in {f, g} THEN "raw"
  ELSE IF "sql" \in {f, g} THEN "sql"
  ELSE IF f = g THEN f ELSE "block"

Joined(r, s) ==
  Returned(JoinedForm(r.form, s.form), r.carriers \o s.carriers,
           r.warnings \o s.warnings, r.unsupported \o s.unsupported)

JoinAll(rs) ==
  LET upTo[n \in 1..Len(rs)] ==
        IF n = 1 THEN rs[1] ELSE Joined(upTo[n - 1], rs[n])
  IN upTo[Len(rs)]

-----------------------------------------------------------------------------
(* The sqlglot pipeline (_transpile_dml_inner).                            *)

(* An engine run: clauses its converter never read (the tripwire), its     *)
(* other warnings and entries, the carriers it writes, and where it ends.  *)
(* What the transformer reported is kept when only the emitter raises.     *)
Engine(st) ==
  LET unread == [n \in DOMAIN st.run.unread |->
                   Warn(st.run.unread[n], "unread_args", "1228")]
      transformed == Source # Target
                     /\ st.run.ends \notin {"parser_raises", "transformer_raises"}
      noted == unread \o (IF transformed THEN st.run.notes ELSE <<>>)
      entries == IF transformed THEN st.run.unsupported ELSE <<>>
  IN IF st.run.ends = "emitted"
     THEN Returned(st.run.form, st.run.carriers, noted, entries)
     ELSE Returned("raw", <<>>, Append(noted, Warn("dml failed", "dml", "1229")), entries)

(* T-SQL clauses stripped before the parse, each with its warning.         *)
StrippedClause(st) ==
  CASE Source = "tsql" /\ st.kind = "textimage" ->
         <<Warn("textimage dropped", "physical_clause", "1221")>>
    [] Source = "tsql" /\ st.kind = "nocheck_add" ->
         <<Warn("nocheck dropped", "constraint_check", "1222")>>
    [] OTHER -> <<>>

(* Oracle ORGANIZATION INDEX/HEAP is stripped too, and leaves a carrier.   *)
Organization(st) ==
  LET r == Engine(st)
      w == Warn("organization dropped", "physical_clause", NoCode)
  IN IF st.run.ends # "emitted" THEN AddWarnings(r, <<w>>)
     ELSE AddWarnings([r EXCEPT !.carriers = Append(@, Carry("c-organization", "1209"))],
                      <<w>>)

AlterColumn(st) ==
  Returned("sql", <<>>,
           IF Target = "oracle" /\ st.kind = "alter_column_null"
           THEN <<Warn("redundant null", "alter_column_null", "1227")>> ELSE <<>>,
           <<>>)

CreateSchema(st) ==
  IF Target = "oracle"
  THEN Returned("lines", <<Carry("c-schema", "1208")>>,
                <<Warn("schema is a user", "create_schema", NoCode)>>,
                <<"u-schema">>)
  ELSE Returned("sql", <<>>,
                IF st.kind = "create_schema_owner"
                THEN <<Warn("schema owner", "create_schema", NoCode)>> ELSE <<>>,
                <<>>)

(* ALTER TABLE ... [NO]CHECK CONSTRAINT: an enable/disable form, or a      *)
(* restorable note, which is a block comment.                              *)
CheckState(st) ==
  IF st.mapped THEN Clean("sql")
  ELSE Returned("block", <<Carry("c-check-state", "1210")>>,
                <<Warn("check state", "constraint_state", NoCode)>>, <<>>)

SystemProc ==
  Returned("lines", <<Carry("c-sysproc", "1211")>>,
           <<Warn("sysproc skipped", "system_proc", NoCode)>>, <<"u-sysproc">>)

(* The OUTPUT clause is cut, the base statement transpiled, and the clause *)
(* re-attached as RETURNING or documented.                                 *)
OutputClause(st) ==
  LET base == Engine(st)
  IN IF Target = "postgresql" /\ st.kind # "output_merge" THEN base
     ELSE [base EXCEPT !.carriers = Append(@, Carry("c-output", "1212"))]

(* A default whose value does not parse in the target.                     *)
DefaultConstraint(st) ==
  LET r == Engine(st)
  IN IF st.run.ends # "emitted" \/ st.mapped THEN r
     ELSE Returned("lines", <<Carry("c-default", "1213")>>,
                   <<Warn("default value", "ddl_default", NoCode)>>, r.unsupported)

TranspileDml(st) ==
  CASE Source = "oracle" /\ Target # "oracle" /\ st.kind = "oracle_modify" -> Clean("sql")
    [] Source = "oracle" /\ Target # "oracle" /\ st.kind = "organization" ->
         Organization(st)
    [] Source = "tsql" /\ Target # "tsql"
         /\ st.kind \in {"alter_column", "alter_column_null"} -> AlterColumn(st)
    [] Source = "tsql" /\ Target # "tsql"
         /\ st.kind \in {"create_schema", "create_schema_owner"} -> CreateSchema(st)
    [] Source = "tsql" /\ Target # "tsql" /\ st.kind = "check_state" -> CheckState(st)
    [] Source = "tsql" /\ Target # "tsql" /\ st.kind = "system_proc" -> SystemProc
    [] Source = "tsql" /\ st.kind \in {"output", "output_merge"} -> OutputClause(st)
    [] Source = "tsql" /\ st.kind = "default_constraint" -> DefaultConstraint(st)
    [] OTHER -> AddWarnings(Engine(st), StrippedClause(st))

(* A batch headed by a system procedure is split on its `;'s, so that the  *)
(* statements after the call still transpile; any other goes whole to the  *)
(* engine, its first statement standing for all.                           *)
TranspileStatements(sts) ==
  IF Source = "tsql" /\ Target # "tsql" /\ sts[1].kind = "system_proc"
  THEN JoinAll([n \in DOMAIN sts |-> TranspileDml(sts[n])])
  ELSE TranspileDml(sts[1])

-----------------------------------------------------------------------------
(* SET options and the batches no guard recognizer could extract.          *)

(* The statements commented out under a carrier of their own, by source    *)
(* and target.                                                             *)
SetNote(kind, from, to, frag, code, says) ==
  [kind |-> kind, from |-> from, to |-> to, carrier |-> Carry(frag, code),
   warning |-> Warn(says, "set_option", NoCode)]

SetNotes ==
  {SetNote("read_committed", Dialects \ {"oracle"}, {"oracle"},
           "c-read-committed", "1214", "read committed"),
   SetNote("set_role", Dialects \ {"tsql"}, {"tsql"},
           "c-set-role", "1215", "set role"),
   SetNote("set_constraints", {"postgresql"}, {"mysql", "tsql"},
           "c-set-constraints", "1216", "set constraints"),
   SetNote("session_auth", {"postgresql"}, Dialects \ {"postgresql"},
           "c-session-auth", "1217", "session authorization"),
   SetNote("guc", {"postgresql"}, Dialects \ {"postgresql"},
           "c-guc", "1218", "pg setting"),
   SetNote("knob", {"mysql"}, Dialects \ {"mysql"},
           "c-knob", "1219", "mysql setting")}

CommentedOut(w, unsupported) == Returned("lines", <<>>, <<w>>, unsupported)

SetOption_Silent(st) == Clean(IF Source = Target THEN "sql" ELSE "lines")

SetOption(st) ==
  LET notes == {n \in SetNotes : n.kind = st.kind /\ Source \in n.from /\ Target \in n.to}
  IN IF notes # {}
     THEN LET note == CHOOSE n \in notes : TRUE
          IN Returned("lines", <<note.carrier>>, <<note.warning>>, <<>>)
     ELSE CASE Source = "tsql" /\ Target # "tsql" /\ st.kind # "guard" ->
                 CommentedOut(Warn("set option", "set_option", "1223"), <<>>)
            [] Source = "tsql" /\ Target # "tsql" /\ st.kind = "guard" ->
                 CommentedOut(Warn("unrecognized guard", "unhandled_batch", "1224"),
                              <<"unrecognized guard">>)
            [] Source = "oracle" /\ Target # "oracle" ->
                 CommentedOut(Warn("sqlplus directive", "set_option", "1223"), <<>>)
            [] OTHER -> Clean("sql")

IsSet(st) == st.kind \in {"set", "read_committed"}

(* A session SET followed by other statements is split and only the SETs   *)
(* degrade; any other SET batch is handled whole, by its first statement.  *)
TranspileSetBatch(sts) ==
  IF Source = "tsql" /\ Target # "tsql" /\ Len(sts) > 1 /\ IsSet(sts[1])
  THEN JoinAll([n \in DOMAIN sts |->
                  IF IsSet(sts[n]) THEN SetOption(sts[n]) ELSE TranspileDml(sts[n])])
  ELSE SetOption(sts[1])

-----------------------------------------------------------------------------
(* Catalog guards: IF [NOT] EXISTS (<probe>) <body> [ELSE <branch>].       *)

WarnElseDropped(r, g) ==
  IF g.else = "none" THEN r
  ELSE AddWarning(r, Warn("else dropped", "guard_dropped", "1226"))

WarnGuardDropped(r, g) ==
  WarnElseDropped(AddWarning(r, Warn("guard dropped", "guard_dropped", "1225")), g)

(* The ELSE branch is carried when it is one PRINT the pipeline translates *)
(* without a warning.                                                      *)
ElseCarried(g) == g.else = "print" /\ Target \in {"oracle", "postgresql", "mysql"}

(* The probe's own form on the target: plain statements on a recognized    *)
(* column probe only.                                                      *)
HasFaithfulGuard(r, g) ==
  /\ Target \in {"postgresql", "oracle", "mysql"}
  /\ g.columnProbe
  /\ r.form # "lines"
  /\ g.plainBody

FaithfulGuard(r, g) ==
  LET wrapped == [r EXCEPT !.form = "sql"]
  IN IF ElseCarried(g) THEN wrapped ELSE WarnElseDropped(wrapped, g)

FaithfulOrDropped(r, g) ==
  IF HasFaithfulGuard(r, g) THEN FaithfulGuard(r, g) ELSE WarnGuardDropped(r, g)

(* An absence guard around a CREATE: a guard that carries the ELSE branch  *)
(* first, then IF NOT EXISTS (Oracle: a catalog probe) where the target    *)
(* has one.                                                                *)
HasIdempotentForm(r, g) ==
  /\ r.form = "sql"
  /\ \/ Target = "oracle" /\ g.creates # "none"
     \/ Target \in {"postgresql", "mysql"} /\ g.creates = "table"
     \/ Target = "postgresql" /\ g.creates = "index"

GuardIdempotent(r, g) ==
  IF ElseCarried(g) /\ HasFaithfulGuard(r, g) THEN FaithfulGuard(r, g)
  ELSE IF HasIdempotentForm(r, g) THEN WarnElseDropped(r, g)
  ELSE IF Target = "mysql" /\ g.creates = "index" /\ r.form = "sql"
  THEN WarnElseDropped(AddWarning(r, Warn("index guard dropped", "guard_dropped", "1225")),
                       g)
  ELSE FaithfulOrDropped(r, g)

(* IF OBJECT_ID(...) IS NOT NULL DROP x.                                   *)
DropGuard(g) ==
  LET dropped ==
        CASE Target = "mysql" /\ g.drops = "index" ->
               WarnGuardDropped(Clean("sql"), [g EXCEPT !.else = "none"])
          [] Target = "mysql" /\ g.drops = "sequence" -> SetOption([kind |-> "guard"])
          [] OTHER -> Clean("sql")
  IN WarnElseDropped(dropped, g)

TranspileGuard(g) ==
  IF g.drops # "none" /\ g.polarity = "present" THEN DropGuard(g)
  ELSE LET body == TranspileDml(g.body)
       IN IF g.polarity = "absent" THEN GuardIdempotent(body, g)
          ELSE FaithfulOrDropped(body, g)

-----------------------------------------------------------------------------
(* The procedural engine.                                                  *)

ParseNotes(run) ==
  [n \in DOMAIN run.errors |-> Warn(run.errors[n], "procedural_parse", NoCode)] \o
  [n \in DOMAIN run.parseWarnings |->
     Warn(run.parseWarnings[n], "procedural_parse",
          IF run.parseWarnings[n] = "parse fallback" THEN "1170" ELSE NoCode)]

TransformNotes(run) ==
  IF Source = Target THEN <<>>
  ELSE [n \in DOMAIN run.notes |-> Warn(run.notes[n], "procedural_transform", NoCode)]

(* A routine: no tree, an exception on the way, or the emitted routine.    *)
(* The transformer's notes are lost when the transformer raises, kept when *)
(* the emitter does.                                                       *)
Routine(run) ==
  CASE run.ends = "no_tree" -> Returned("raw", <<>>, ParseNotes(run), <<>>)
    [] run.ends = "parser_raises" ->
         Returned("raw", <<>>, <<Warn("routine failed", "procedural", "1232")>>, <<>>)
    [] run.ends = "transformer_raises" ->
         Returned("raw", <<>>,
           Append(ParseNotes(run), Warn("routine failed", "procedural", "1232")), <<>>)
    [] run.ends = "emitter_raises" ->
         Returned("raw", <<>>,
           Append(ParseNotes(run) \o TransformNotes(run),
                  Warn("routine failed", "procedural", "1232")), <<>>)
    [] run.ends = "emitted" ->
         Returned(run.form, run.carriers, ParseNotes(run) \o TransformNotes(run), <<>>)

(* Statements folded into the routine's batch are peeled off, transpiled   *)
(* as DDL and gated on their own, since a routine's text defeats the gate. *)
GatedLead(lead) ==
  LET r == TranspileDml(lead)
  IN IF lead.gated
     THEN Returned("lines", <<Carry("gate", "1151")>>,
                   Append(r.warnings, Warn("gate", "validity_gate", NoCode)),
                   Append(r.unsupported, "gate"))
     ELSE r

TranspileProcedural(b) ==
  IF b.lead = <<>> THEN Routine(b.routine)
  ELSE Joined(JoinAll([n \in DOMAIN b.lead |-> GatedLead(b.lead[n])]),
              Routine(b.routine))

-----------------------------------------------------------------------------
(* The routing of the batch loop.  Leading comments of a SET or guard      *)
(* batch are put back in front of its result, which changes nothing here.  *)
PipelineResult(b) ==
  CASE b.type = "PROCEDURAL" -> TranspileProcedural(b)
    [] b.type = "SET_OPTION" /\ b.guard # <<>> /\ Source = "tsql" /\ Target # "tsql" ->
         TranspileGuard(b.guard[1])
    [] b.type = "SET_OPTION" /\ ~(b.guard # <<>> /\ Source = "tsql" /\ Target # "tsql") ->
         TranspileSetBatch(b.statements)
    [] OTHER -> TranspileStatements(b.statements)

-----------------------------------------------------------------------------
(* What the pipelines ask of the engines: lists, and a word where they     *)
(* emit no statement.  An emitter leaves a carrier where it writes a       *)
(* comment, a parser without a tree an error.                              *)
IsList(s) == s \in Seq(Entries(s))

Honest(st) ==
  /\ IsList(st.run.unread) /\ IsList(st.run.notes) /\ IsList(st.run.carriers)
  /\ st.run.ends = "emitted" /\ st.run.form # "sql" => st.run.carriers # <<>>

HonestRoutine(run) ==
  /\ IsList(run.errors) /\ IsList(run.parseWarnings) /\ IsList(run.notes)
  /\ IsList(run.carriers)
  /\ run.ends \in {"no_tree", "parser_raises", "transformer_raises", "emitter_raises",
                   "emitted"}
  /\ run.ends = "emitted" /\ run.form # "sql" => run.carriers # <<>>
  /\ run.ends = "no_tree" => run.errors # <<>> \/ run.parseWarnings # <<>>

EngineSaysSo(b) ==
  /\ IsList(b.statements) /\ b.statements # <<>>
  /\ \A n \in DOMAIN b.statements : Honest(b.statements[n])
  /\ IsList(b.lead) /\ \A n \in DOMAIN b.lead : Honest(b.lead[n])
  /\ IsList(b.guard) /\ \A n \in DOMAIN b.guard : Honest(b.guard[n].body)
  /\ HonestRoutine(b.routine)
=============================================================================
