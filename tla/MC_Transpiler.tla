--------------------------- MODULE MC_Transpiler ---------------------------
(***************************************************************************)
(* The batch loop over the code's own pipelines, for TLC: small palettes   *)
(* of batches, and every script of up to MaxLength of them.                *)
(***************************************************************************)
EXTENDS TranspilerPromise, BatchPipelines

CONSTANT MaxLength

MCPipeline(b) == {PipelineResult(b)}
MCSourceTsql == Source = "tsql"

(* Which texts share a run of three words, computed from the literals of   *)
(* the source with the target filled in.                                   *)
SharedWords ==
  [no_target_equivalent |->
     {"c-sysproc", "c-check-state", "c-default", "c-knob", "c-pivot", "c-sample",
      "c-routine", "c-session-auth", "c-guc", "sysproc skipped", "set constraints",
      "session authorization", "note-a"},
   has_no_target |->
     {"c-default", "c-knob", "c-pivot", "c-sample", "c-session-auth", "c-guc",
      "schema owner"},
   target_has_no |-> {"c-output", "c-set-constraints"},
   constraint_check_state |-> {"c-check-state", "check state"},
   default_constraint_value |-> {"c-default", "default value"},
   preserved_as_a |-> {"check state", "c-set-role", "c-set-constraints", "closer"},
   as_a_comment |-> {"read committed", "c-set-role", "c-set-constraints", "closer"},
   oracle_schema_is |-> {"c-schema", "schema is a user"},
   has_no_oracle |-> {"c-schema", "u-schema"},
   oracle_organization_index |-> {"c-organization", "organization dropped"},
   read_committed_is |-> {"c-read-committed", "read committed"},
   set_session_authorization |-> {"c-session-auth", "session authorization"},
   postgresql_session_setting |-> {"c-guc", "pg setting"},
   mysql_session_setting |-> {"c-knob", "mysql setting"}]

MCTexts ==
  UNION {SharedWords[g] : g \in DOMAIN SharedWords} \cup
  {"c-output", "c-unparsed", "c-raw", "u-sysproc", "gate", "diverge", "dml failed", "routine failed",
   "textimage dropped", "nocheck dropped", "redundant null", "set option",
   "unrecognized guard", "sqlplus directive", "else dropped", "guard dropped",
   "index guard dropped", "note-b", "set role", "parse fallback", "parse note", "unread clause",
   "lossy note", "u-lossy"}

MCShingles ==
  [t \in MCTexts |-> {t} \cup {g \in DOMAIN SharedWords : t \in SharedWords[g]}]

MCCodes == {"1003", "1036", "1150", "1151", "1170", "1193", "1207", "1208", "1209", "1210", "1211",
            "1212", "1213", "1214", "1215", "1216", "1217", "1218", "1219", "1221",
            "1222", "1223", "1224", "1225", "1226", "1227", "1228", "1229", "1230",
            "1231", "1232", "1233"}

MCFeatures == {"validity_gate", "value_divergence", "lossy_conversion", "unread_args",
               "dml", "physical_clause", "constraint_check", "alter_column_null",
               "create_schema", "constraint_state", "system_proc", "ddl_default",
               "set_option", "unhandled_batch", "guard_dropped", "procedural",
               "procedural_parse", "procedural_transform", "transform"}

-----------------------------------------------------------------------------
(* Statements, guards and routines.                                        *)

Emitted  == [ends |-> "emitted", form |-> "sql", unread |-> <<>>, notes |-> <<>>,
             unsupported |-> <<>>, carriers |-> <<>>]
Statement(kind) == [kind |-> kind, run |-> Emitted, mapped |-> FALSE, gated |-> FALSE]
Plain  == Statement("plain")
Writes(carriers) == [Plain EXCEPT !.run.carriers = carriers]
Pivot  == Writes(<<Carry("c-pivot", "1150")>>)
Sample == Writes(<<Carry("c-sample", "1036")>>)
Lossy  == [Plain EXCEPT !.run.notes = <<Warn("lossy note", "transform", NoCode)>>,
                        !.run.unsupported = <<"u-lossy">>,
                        !.run.unread = <<"unread clause">>]
Unparsed == [Plain EXCEPT !.run.form = "lines",
                          !.run.carriers = <<Carry("c-unparsed", "1003")>>]
Fails(at) == [Lossy EXCEPT !.run.ends = at]

NoRoutine == [ends |-> "emitted", form |-> "sql", errors |-> <<>>, parseWarnings |-> <<>>,
              notes |-> <<>>, carriers |-> <<>>]
Guard(body) == [polarity |-> "absent", drops |-> "none", creates |-> "none",
                columnProbe |-> FALSE, plainBody |-> TRUE, else |-> "none",
                body |-> body]

Batch(type) ==
  [type |-> type, blank |-> FALSE, quoting |-> <<>>, tx |-> <<"other">>,
   parses |-> TRUE, verdicts |-> {"valid"}, diverges |-> FALSE,
   statements |-> <<Plain>>, guard |-> <<>>, lead |-> <<>>, routine |-> NoRoutine]

Dml(sts)    == [Batch("DML") EXCEPT !.statements = sts]
Set(sts)    == [Batch("SET_OPTION") EXCEPT !.statements = sts]
Guarded(g)  == [Batch("SET_OPTION") EXCEPT !.guard = <<g>>]
RoutineOf(run) == [Batch("PROCEDURAL") EXCEPT !.routine = run]
Folded(lead, run) == [RoutineOf(run) EXCEPT !.lead = <<lead>>]

NotedRoutine == [NoRoutine EXCEPT !.notes = <<"note-a", "note-b">>,
                                  !.carriers = <<Carry("c-routine", "1193")>>]

UnparsedRoutine == [NoRoutine EXCEPT !.errors = <<"parse note">>, !.form = "lines",
                                     !.carriers = <<Carry("c-raw", "1170")>>]

FallbackRoutine == [NoRoutine EXCEPT !.parseWarnings = <<"parse fallback">>,
                                     !.carriers = <<Carry("c-raw", "1170")>>]

-----------------------------------------------------------------------------
(* The ways a T-SQL batch may lose something.                              *)
ReportBatches ==
  {Dml(<<Statement("system_proc"), Pivot>>),
   Dml(<<Statement("check_state")>>),
   Dml(<<Pivot>>), Dml(<<Sample>>), Dml(<<Unparsed>>),
   Dml(<<Fails("emitter_raises")>>),
   [Dml(<<Lossy>>) EXCEPT !.verdicts = {"valid", "invalid"}],
   [Dml(<<Statement("default_constraint")>>) EXCEPT !.diverges = TRUE],
   [Dml(<<Plain>>) EXCEPT !.diverges = TRUE],
   Set(<<Statement("set"), Statement("output_merge")>>),
   Set(<<Statement("guard")>>),
   RoutineOf(NotedRoutine), RoutineOf(UnparsedRoutine), RoutineOf(FallbackRoutine),
   RoutineOf([NotedRoutine EXCEPT !.ends = "emitter_raises",
                                  !.parseWarnings = <<"parse fallback", "parse note">>]),
   [Folded([Pivot EXCEPT !.gated = TRUE], NotedRoutine)
      EXCEPT !.verdicts = {"valid", "invalid"}],
   [Batch("COMMENT") EXCEPT !.blank = TRUE],
   [Batch("DML") EXCEPT !.blank = TRUE]}

(* One batch each: every shape of a catalog guard, the rewrites that       *)
(* bypass the engine, the SET options, and every way a run may end.        *)
GuardBatches ==
  {Guarded([Guard(body) EXCEPT !.polarity = p, !.columnProbe = probe, !.else = e,
                               !.creates = c]) :
     body \in {Plain, Statement("check_state")}, p \in {"absent", "present"},
     probe \in BOOLEAN, e \in {"none", "print", "other"},
     c \in {"none", "table", "index"}}
  \cup {Guarded([Guard(Plain) EXCEPT !.polarity = "present", !.drops = d, !.else = e]) :
          d \in {"table", "index", "sequence"}, e \in {"none", "print", "other"}}

DdlBatches ==
  {Dml(<<Statement(kind)>>) :
     kind \in {"oracle_modify", "organization", "alter_column", "alter_column_null",
               "create_schema", "create_schema_owner", "check_state", "system_proc",
               "output", "output_merge", "default_constraint", "textimage",
               "nocheck_add"}}
  \cup {Dml(<<[Statement(kind) EXCEPT !.mapped = TRUE]>>) :
          kind \in {"check_state", "default_constraint"}}
  \cup {Set(<<Statement(kind)>>) :
          kind \in {"set", "read_committed", "set_role", "set_constraints",
                    "session_auth", "guc", "knob", "guard"}}
  \cup {Dml(<<Fails(at)>>) :
          at \in {"parser_raises", "transformer_raises", "emitter_raises", "emitted"}}
  \cup {RoutineOf([NotedRoutine EXCEPT !.ends = at, !.errors = <<"parse note">>]) :
          at \in {"parser_raises", "transformer_raises", "emitter_raises", "emitted"}}

(* Openers that ship or degrade and their closers, one statement to a batch *)
(* and no savepoints; QUOTED_IDENTIFIER toggles, at most one to a batch    *)
(* and ahead of its quotes.                                                *)
Tx(op) == [Batch("DML") EXCEPT !.tx = <<op>>]
UnparsedOpener == [Tx("begin") EXCEPT !.parses = FALSE, !.statements = <<Unparsed>>]
Quoting(items) == [Batch("DML") EXCEPT !.quoting = items]
TransactionBatches == {Tx("commit"), Tx("rollback"), Tx("begin"), UnparsedOpener}
SessionBatches ==
  TransactionBatches \cup
  {[Tx("begin") EXCEPT !.verdicts = {"invalid"}],
   [Tx("begin") EXCEPT !.statements = <<Fails("parser_raises")>>, !.parses = FALSE],
   Quoting(<<"off">>), Quoting(<<"on">>), Quoting(<<"quote">>),
   Quoting(<<"off", "quote">>), Quoting(<<"on", "quote">>)}

MCBatches == ReportBatches \cup GuardBatches \cup DdlBatches \cup SessionBatches

(* Transactions nest and unbalance in one batch more.                      *)
Upto(n, S) == UNION {[1..m -> S] : m \in 0..n}
MCScripts ==
  Upto(MaxLength, ReportBatches) \cup Upto(1, MCBatches)
    \cup Upto(MaxLength, SessionBatches) \cup Upto(MaxLength + 1, TransactionBatches)

(* The batches above are such as the theorems about the loop ask for.      *)
ASSUME MCBatchesAssumption ==
  TogglesAhead /\ OneStatementEach /\ CodesTell /\ \A b \in Batches : EngineSaysSo(b)
=============================================================================
