# Verification of the unique SQL transpiler

`unique` translates SQL scripts between T-SQL, Oracle, PostgreSQL and MySQL (and
SQLite in part). It is a compiler whose input is often untranslatable, so the
hard part of its contract is not what it translates but what it says about what
it could not translate: nothing may be lost in silence. This directory holds
TLA+ models of the code that keeps that contract, the TLC configurations that
check them, and theorems about them checked by TLAPS. Paths below are relative
to `src/src/unique` unless they start with `src/`.

## 1. The system and its parts

| Part | Source | State | Operations |
|---|---|---|---|
| Batch loop | `core/transpiler/_core.py` `transpile` | output parts, warnings, unsupported entries, reconciled fragments, transaction stack, QUOTED_IDENTIFIER flag | skip, route, gate, match transactions, emit, reconcile carriers, register unsupported, give fallback codes, aggregate |
| Pipelines | `core/transpiler/_core.py` `_transpile_*` | none across batches | DML, SET, catalog guards, routines with folded leading statements |
| Reporting rules | `core/transpiler/_text_rules.py` | none | when a warning covers a carrier, what is comment-only, which warnings collapse |
| Context of a transpilation | `core/transpiler/_core.py` 408-522, 861-894, `core/converter/harvest.py` | ContextVars, metadata connection, running column types | harvest, set, fold an ALTER, restate a type, reset |
| Output assembly | `core/transpiler/_core.py` 834-934, 2281-2453 | output text | join parts, terminate, wrap MySQL routines, batch separators |
| Live validation | `core/live_validate.py`, `_core.py` 2395 | an open session of the target engine | per-engine dry run, comment out what the engine rejects |
| Batch splitter | `core/batch_splitter.py` | line buffer | one splitter per dialect, `classify_batch` |
| Statement splitter | `core/sql_split.py` | cursor, buffer, in_dollar, in_string, depth_begin | `split_statements` |
| Output gate | `core/output_gate.py` | none | validity checks and value divergences on an output text |
| Converter | `core/converter/` | unread-argument sink | sqlglot tree to IR, IR to SQL: functions, operators, clauses |
| Transformer | `core/transformer.py`, `core/mappings.py` | none across statements | per-dialect IR rewrites, warnings |
| Procedural engine | `core/procedural/` | token cursor, recovered errors, routine scopes | lexer, recovering parser, transformer, emitters |
| Registry, detection, source validation | `core/registry.py`, `core/detection.py`, `core/validation.py` | registry of dialects | look-ups, scores, one parse per batch |
| Metadata resolver | `core/metadata.py` | connection and cache | column types and constraints from a source database |
| Similarity | `core/similarity.py` | none | measures on token sequences |
| Diagnostics, rationales | `core/diagnostics.py`, `core/rationales.py` | none | tables of codes and texts |
| API and CLI | `api/app.py`, `cli/main.py` | none across requests | one transpilation per request |

**How they interact.** `transpile` validates the source, harvests declarations
into ContextVars, splits the script into batches and runs one loop body per
batch. A body calls one pipeline; the pipeline calls a converter or the
procedural engine, either of which may raise half way through, and returns a
result object (output text, warnings, unsupported entries). The warnings of that
result and of the whole script are the *same objects*: the loop changes the
first list's elements and the second changes with it. The output text carries
comments (`-- UNIQUE-1210: ...`, the *carriers*) for what was lost; after every
batch the loop reads them back out of the text and reconciles them with the
warnings and the unsupported entries. The gate may replace a part by a carrier;
that in turn has to take down a COMMIT of a later batch. At the end the
warnings are aggregated and the parts joined, and the joined text may be split
into statements again by the gate, the live validators and the engine tests.

**Where it is hard.** There are no threads in the core: the difficulty is order
and partial failure. State crosses batches (transactions, QUOTED_IDENTIFIER,
reconciled fragments, codes written through shared objects); a pipeline fails
after it has already reported; two descriptions of the same loss are recognised
only by sharing three words in a row; a decision taken in one batch must be
honoured in another; scanners keep flags that one misread mark leaves set for
the rest of the script. `PROJECT.json` lists each hazard at its line.

**What makes each part correct.**

- *Batch loop*: every batch has one part, in order; every carrier is mirrored by
  a warning and every dropped statement by an unsupported entry; nothing
  reported is taken back; no loss is filed twice; a code reaches the result; no
  COMMIT ships whose BEGIN did not; quotes are read as the session reads them;
  the loop ends.
- *Pipelines*: whatever fails, and wherever, an output that is not a translation
  comes with a carrier or a warning.
- *Statement splitter*: the statements are those the engine's client would send.
- *Batch splitter*: the batches hold the script's statements, in order; no
  boundary falls inside a string, a comment or a body; a batch's type is that of
  its code.
- *Context*: a transpilation leaves no state behind, however it ends; a
  statement sees the types that hold at its position.
- *Output assembly*: the target's client reads the statements that were emitted,
  each once and each alone.
- *Live validation*: every statement the engine rejected is commented out and no
  other is; the session has no lasting effect.
- *Procedural engine*: a test of a cursor, a jump and an error do in the emitted
  routine what they did in the source's; the work done is the same.
- *Converter*: an expression has on the target the value it had on the source,
  and the table an ALTER leaves is the one the source's leaves.

## 2. Modules

| Module | Kind | Models |
|---|---|---|
| `Reporting` | operators | carriers, warnings, coverage, comment-only, aggregation |
| `BatchPipelines` | operators | every return path of the pipelines, as a result per batch |
| `Transpiler` | state machine | the batch loop |
| `LossPromise` | abstract specification | what a transpilation promises about losses |
| `TranspilerPromise` | refinement | the mapping from the loop's state to the promise's |
| `ScriptText` | operators | a script as a sequence of marks, and what both splitters do with one |
| `ClientScript` | reference definition | how an engine's client reads a script |
| `BatchSplit` | state machine | `BatchSplitter.split`, `classify_batch` |
| `StatementSplit` | state machine | `split_statements` |
| `LiveOutput` | state machine | the live validators and `_validate_output_live` |
| `OutputJoin` | state machine | terminators, separators, DELIMITER wrapping, the join of the parts |
| `RunningTypes` | state machine | `COLUMN_TYPES` and `COLUMN_NOT_NULL` under the ALTERs of a script |
| `CursorState` | state machine | cursor operations, their attributes and the emulation of them |
| `LoopLabels` | state machine | loops, their labels and the jumps between them |
| `HandlerScope` | state machine | handlers, errors and the transactions around them |
| `Calendar` | operators | dates by month, day and minute |
| `CallForms` | frame | one call of a function, before and after translation |
| `DateForms` | actions | sums, counts, truncations and fields of dates |
| `TextForms` | actions | slices, searches, paddings, lengths and replacements of texts, NULL |
| `FunctionForms` | state machine of one step | `DateForms` and `TextForms` |
| `Engines` | operators | values, operators and grammars of the four engines |
| `OperatorForms` | state machine | expressions: parentheses, operators and their emulations |
| `MC_*` | TLC | palettes and bounds of each run |
| `Transpiler_proofs`, `BatchSplit_proofs`, `StatementSplit_proofs`, `LiveOutput_proofs`, `RunningTypes_proofs`, `CursorState_proofs`, `LoopLabels_proofs`, `HandlerScope_proofs` | proofs | section 5 |

Abbreviations below: EM, EE, EF, EP are `core/converter/emit.py`, `emit_expr.py`,
`emit_functions.py`, `emit_passthrough.py`; HV is `harvest.py` there; PT and PE are
`core/procedural/transformer/` and `core/procedural/emitter/`.

### Transpiler and Reporting

A text matters to the loop only through the runs of three words it contains
(`_carrier_fragments`, `_warning_covers`), so a text is an atom with a set of
*shingles*; the sets used by TLC are computed from the literals in the source.
A result's output is one of four forms: `sql`, `lines` (only `--` lines),
`block` (only a `/* */` comment) and `raw` (an error comment and the source);
the difference between `lines` and `block` is the one `_is_comment_only` makes.

| Action | Code (`_core.py`) |
|---|---|
| `SkipBatch`, `StartBatch` | 546-561: blank test, QUOTED_IDENTIFIER |
| `RouteComment`, `RoutePipeline` | 563-659 |
| `GateReject`, `GateDiverge`, `GatePass` | 661-711 |
| `TxOpen`, `TxClose`, `TxDegrade`, `TxNone` | 713-745 |
| `EmitPart` | 747-770 |
| `ReconcileKnown`, `ReconcileNew`, `ReconcileEnd` | 771-812, one carrier per step |
| `RegisterUnsupported`, `RegisterEnd` | 812-823 |
| `FallbackCodes` | 823-838 |
| `Return` | 840-860 |

`all_warnings` is one sequence; `result.warnings` is the part of it that has
`own = TRUE` and the current batch, so a stamp through either is a stamp on the
same record, as with the shared objects of the code. The pipelines are a
constant operator `Pipeline(b)`: the theorems hold for any pipeline that returns
a well-typed result, the runs use `BatchPipelines`. There, the engines below a
pipeline are inputs of a batch: how far a run gets (`parser_raises`,
`transformer_raises`, `emitter_raises`, `emitted`), its notes, unread clauses and
carriers. Every enumerated input is one the source can produce.

### ScriptText and ClientScript

A script is a sequence of *marks*: the tokens the scanner tells apart (quote,
semicolon, `--`, `/*`, `*/`, `$$`, backslash, newline, BEGIN, TRANSACTION, END,
CASE, the head of a routine, a line GO, `/` or DELIMITER) and `word` for
everything else. `ClientScript` says what they mean to a client of the engine:
the region each mark is read in, the nesting of blocks, and which marks separate
statements. It is written by position over the whole script and shares nothing
with the splitters, which are checked against it.

### BatchSplit and StatementSplit

T-SQL and PostgreSQL batches are scanned mark by mark (`SkipLineComment`,
`SkipBlockComment`, `SkipString`, `SkipIdentifier`, `SkipBody`, `CutAtGo`,
`CutAtSemi`, `Advance`: `_split_on_toplevel_go`, `_split_postgresql`); Oracle and
MySQL are read line by line, one action per kind of line (`InsideComment`,
`Remark`, `SetDirective`, `Slash`, `OpenComment`, `OpenUnit`, `OracleLine`;
`Delimiter`, `SplitLine`, `MysqlLine`). A batch is classified when it is cut.
`line_offset` and Oracle's `begin_depth`, which nothing reads, are left out.

In the statement splitter the directive lines cut the script into chunks
(`Chunks`: GO for T-SQL, `/` and the search for a unit head for Oracle, DELIMITER
for MySQL), a chunk is kept whole or scanned, and the scanner has one action per
branch of the loop of `_split_semicolons`, in the order of the branches.

### LiveOutput

The four validators are one automaton over a session of the engine (`Connect`,
`Savepoint`, `Execute` or `SkipDdl`, `NextStatement`, `Disconnect`), with what
each engine does at a COMMIT, a ROLLBACK and a failed statement as external
operators. `Degrade` is one turn of the loop that comments rejected statements
out: the output text is a sequence of cells, one per statement, and a
replacement hits the first cell that holds the text, a comment included.

### OutputJoin

A batch is a sequence of nodes with the texts their emitters wrote, in marks.
The texts of a batch are joined (`EmitSql`: `emit_sql`, EM:420-450), terminated
(`Terminated`) and, on MySQL, wrapped in DELIMITER lines and given MySQL comments
(`Wrapped`, `SafeComments`), all in `Emit`; the parts are then put one behind the
other (`FirstPart`, `GluePart`, `SeparatePart`), with Oracle's slash where
`NeedsSlash` says so (`_core.py` 834-934 and 2281-2453). The result is read back by
`ClientScript`, for MySQL with a client that cuts at every semicolon DELIMITER does
not protect.

### RunningTypes

Two engines run beside the converter: `schema` is what the script does on the
source, `shipped` what the emitted script does on the target. An action is one
statement: the source engine takes it, the running maps fold it
(`fold_alter_into_running_types`, HV:357-465) and the emission writes the
target's form from the maps as they were or have become, in the code's order.

| Action | Code |
|---|---|
| `CreateTable`, `DropTable` | the harvest of HV:189-343; both statements ship unchanged |
| `AddColumn`, `AddColumns`, `DropColumn`, `RenameColumn` | EP:1352-1460, EM:1709-1761, EP:408-423; folds HV:381-404 |
| `ChangeType`, `ChangeTypeUsingCast`, `ChangeTypeUsing` | PostgreSQL `TYPE`: EP:159-169, 258-291, 704-746, EM:1635 |
| `SetNullability` | PostgreSQL `SET`/`DROP NOT NULL`: EP:754-805 |
| `Modify`, `Change` | MySQL: EP:171-194, 309-340 |
| `OracleModify` | EM:500-559, answered before the fold |
| `AlterColumn` | T-SQL: `_core.py` 1200-1277, answered before the fold |

`flagged` records what a carrier or a warning hands to the reader, by column and
aspect; a property asks nothing of a flagged aspect.

### CursorState, LoopLabels, HandlerScope

The three stateful translations of the procedural engine, each with the source
routine and the emitted one in lockstep, one source statement per action.

*CursorState.* Oracle's attributes become variables declared, set and reset beside
the cursor operations (`_emulate_cursor_state`, PT `base.py` 3369-3443, `tsql.py`
608-668, `mysql.py` 198-325); T-SQL's `@@FETCH_STATUS` becomes the NOT FOUND flag,
FOUND or the %FOUND of one cursor. `Bind`, `Open`, `Fetch`, `FetchNothing`, `Close`,
`Deallocate`, `Lookup` and `Modify` move both routines; `src` and `tgt` are the
engines' cursors, `signal` the target's own flag, `missed`, `counter` and
`openFlag` the emulation.

*LoopLabels.* `nest` is the path from the routine to the statement being emitted;
`Open` and `Close` keep `_loop_label_stack` and `_loop_label_counter` as the
emitter does, `Exit` and `Continue` resolve a jump against them (PE `mysql.py`,
`tsql.py`, `base.py`). A jump is told by the construct it lands on, whether it
is conditional, and whether the loop it continues takes its step.

*HandlerScope.* `Open` and `Close` nest blocks with handlers; `Fail`, `Raise` and
`Rethrow` send an error through them on both sides; `Begin`, `Commit`, `Rollback`,
`Save`, `RollbackToSave` are transaction control as each emitter keeps, drops or
adds it (PT `base.py` 440-520 and 2880-2960, PE `base.py` 1930-1990). The work done
is a set of writes on each side.

### CallForms, DateForms, TextForms, FunctionForms

A step converts one call (`CallForms`): `meant` is what the source engine computes
for it, `emitted` what the target computes for the text the converter writes, or a
carrier or a refusal. Both sides are evaluated on the same arguments, so what is
compared is values and never spellings.

In `DateForms` a date is a month number, a day and a minute (`Calendar`), so month
ends, weekdays and ISO weeks are arithmetic. Its actions are `AddUnits`,
`AddCompound`, `AddUnitsInText`, `AddMonths`, `EndOfMonth`, `CountUnits`,
`CountDays`, `CountMonths`, `Truncate`, `RoundToMonth` and `Extract` (EF:90-360,
1200-1620, 3362-3393; PT `_expr.py` 211-267, 1403-1531). Months can be added only as
the code does on each target, with its corrections.

In `TextForms` a text is a sequence of character codes. Operators named ...On are
what an engine computes: where a negative start is counted from, what a negative
length gives, that LEN drops trailing blanks and that Oracle has no empty text.
Operators named ...Form are the emitted expressions, evaluated with the target's
operators. The actions are `Substring`, `LeftPart`, `RightPart`, `Repeat`, `Pad`,
`Splice`, `Trim`, `Length`, `Position`, `Replace`, `Ascii`, `Greatest` and `Decode`
(EF:583-716, 1031-1080, 1422-1470, 1636-2146, 2414-2438, 2606-2651, 2737-2752,
3061-3131, 3430-3453; EE:1112-1193; PT `_expr.py` 1253-1340). An argument is a literal or
a column, because most rewrites act on literals only.

### Engines and OperatorForms

Values are integers, decimals as exact fractions, texts, NULL and errors, and
`Engines` gives each engine's operators on them and its grammar: binding
strengths, associativity and what closes what. `OperatorForms` builds an
expression bottom-up on a stack from a row of leaves and emits it as it goes.
Every element of the stack holds three things: the value the *source* computes
for the tree, the value the *target* computes for what was emitted if every
operand kept its parentheses (`grouped`), and the emitted text, read with the target's
grammar (`read`). `BinaryForm` and `UnaryForm` translate `_emit_binary`,
`_emit_unary` and their guards (EE:1000-1110, 1990-2560), with the comparison of
rows (`RowForm`, EE:2099-2200) and concatenation (`ConcatForm`, EE:2383-2464).
Operands the emitter gets wrong are named in `ClearBinary`, `ClearUnary` (grouping)
and `KeptBinary` (values); each condition there is a hazard or the finding.

## 3. Runs

| Run | Checks | States |
|---|---|---|
| `reports` | T-SQL to Oracle, every script of up to 3 batches out of the lossy ones, every single batch out of the guard, DDL, SET and routine shapes, every script of up to 4 openers, closers and QUOTED_IDENTIFIER toggles: all properties of the loop, the refinement of `LossPromise`, termination | 235 000 |
| `split` | up to 3 fragments in each dialect: the scanner against the client | 72 000 |
| `batches` | up to 3 fragments and an unfinished last statement in each dialect: the four readers against the client | 116 000 |
| `live` | outputs of up to 4 statements with texts of their own, for each target: the verdicts, the session and the replacement | 78 000 |
| `join` | outputs of up to 3 batches for each target: the shipped text read by the target's client | 106 000 |
| `schema` | scripts over a table of 3 columns and 2 types, every pair of engines: the columns on both engines, the running maps | 26 000 |
| `cursors` | routines over 2 cursors of up to 2 rows, in the six directions that rewrite cursor tests | 468 000 |
| `loops` | routines nested 3 deep with up to 4 loops, every pair of engines, and MySQL to itself | 192 000 |
| `handlers` | routines with blocks 2 deep and 2 writes, every pair of engines | 480 000 |
| `functions` | one call, every pair of engines: 33 dates and every pair of them, 5 amounts; 8 texts and 8 positions | 192 000 |
| `operators` | every expression over 8 rows of 2 or 3 leaves with 1 or 2 unary operators, every pair of engines | 65 000 |
| `regroup` | a comment of the converter that the code does not keep (section 6) | violated |

**Bounds.** Every interaction between batches that the loop has goes through a
list or a flag, and needs a batch that writes it, one that reads it and, for
warnings shared by three, one in between: three batches. An orphan closer needs
an opener, a nested opener and two closers: four. Counts in warnings, codes and
transactions are bounded by the script. Three fragments put every fragment after
every flag another can leave set, with a statement on both sides, and a
fragment always ends its line: two statements share a line only inside one. Four
live statements put a commit, a DDL and a failure before a statement that must
still be judged. A separator depends on the two parts it joins, and the joined
text on what the last one left open: three batches. A rename needs a column to
move, a name to take and a column that stays: three columns; a change of type
needs two types. A cursor test may answer for another cursor: two; a row read, a
row missed and a FETCH after that need up to two rows. A jump leaves its own
loop, the next or one beyond: three levels; the fourth loop takes a label some
closed loop had. An error passes a block to reach the next: two blocks; work of
the protected block and work before it: two writes. The dates are the ends of
months of every length, both sides of New Year, of a week, of a day and of an
hour, and dates before 1970 and 1900; an amount is one step, one year, more than a
year, and either sign. The texts are NULL, empty, blank, with blanks before or behind,
and one in which a part occurs twice; the positions lie before, at, inside and behind
the ends of each. Precedence and associativity show in two operators, which
take three leaves, and a unary operator on either side of one.

**Palettes.** A script, a routine or an expression that the code is known to get
wrong is left out of the runs that pass. Each omission is a named part of the MC
module or of the module itself, so that a later fix of the code is checked by
deleting it. Those that are findings of their own kind are in section 6; all of
them, with their lines:

- `reports`: one transaction statement to a batch, no savepoint, at most one
  QUOTED_IDENTIFIER toggle and that ahead of the quotes. `_core.py:156` gives a
  batch of several no role, 163 pops on a savepoint, 556 is an `elif`.
- `split`: no CASE in a PostgreSQL or MySQL body (`sql_split.py:236`), no `$$` in
  a PostgreSQL literal (205), no directive line in a string or a comment (45).
- `batches`: what the head of `MC_BatchSplit` lists.
- `live`: no ROLLBACK on PostgreSQL (it takes the time limit with it), no USE on
  MySQL (it leaves the throwaway database), no missing column on Oracle (it counts
  as a syntax error), no two statements with one text.
- `join` (`Amiss`): a statement with a trailing note ahead of another of its
  batch (EM:436), a literal whose last line starts with dashes (`_core.py:2312`),
  a MySQL literal with a line that starts with `--` (`_text_rules.py` 267-274), a
  MySQL routine below a block comment, which gets no DELIMITER lines
  (`_core.py:1097`, 1195).
- `schema` (`KeptForms`, and `MaxCreates` = 1): PostgreSQL `TYPE ... USING` to
  Oracle drops the USING (EP:261-271); Oracle MODIFY is answered before the fold
  and leaves `COLUMN_TYPES` behind (`_core.py:1377`), and to T-SQL or MySQL loses
  NOT NULL (EM:508-559); of an ADD of two columns the first is folded, as NOT NULL
  (HV:394-404); ADD ... PRIMARY KEY is not folded; MySQL MODIFY and CHANGE to
  PostgreSQL and Oracle keep a NOT NULL the source drops; PostgreSQL TYPE to MySQL
  is a bare MODIFY, which drops it; T-SQL ALTER COLUMN without a nullability
  says NULL on the source and nothing on PostgreSQL and Oracle; NOT NULL on
  a NOT NULL column is ORA-01442 (`_core.py` 1264-1267); and of two CREATE TABLEs of
  one table the harvest knows the last.
- `cursors` (`KeptHabits`, `KeptKinds`): `v_fetch_done` is reset by the OPENs and
  FETCHes that maintain emulated flags only, so a FETCH after one that found
  nothing, an unread cursor or an empty SELECT INTO leaves it set (PT `mysql.py:152`);
  %ROWCOUNT is not reset by a second OPEN; %FOUND before the first FETCH is FALSE,
  not NULL; the second OPEN of a bound variable is dropped; DEALLOCATE of an open
  cursor has no CLOSE on the other engines; Oracle's %FOUND stands for the
  textually last FETCH, whichever ran; PL/pgSQL's FOUND is set by any statement that
  writes; from Oracle to PostgreSQL only EXIT WHEN is mapped. The emulation itself
  is missing in functions, triggers and anonymous blocks (PT `tsql.py:679`,
  `mysql.py` 283-325).
- `loops` (`KeptHabits`): CONTINUE WHEN loses its condition on T-SQL and MySQL;
  CONTINUE in a range or rows FOR skips the step on T-SQL (PE `tsql.py:427`);
  EXIT and CONTINUE in a FOR take the wrong label on MySQL, an outer LEAVE or ITERATE
  the inner loop on T-SQL, an outer ITERATE the inner loop on PostgreSQL and Oracle;
  a labelled WHILE or BEGIN loses its label (PT `base.py` 2833-2858); two nested
  cursor FORs over one variable get one label.
- `handlers` (`Lost`): several or named handlers become one CATCH (PT `base.py`
  469-486); a SELECT INTO that finds no row raises on Oracle, warns on MySQL
  and does neither on the others; outside a TRY, T-SQL goes on after
  an error (PE `tsql.py` 546-575); COMMIT with no BEGIN is error 3902 there (PE
  `base.py:1944`); the ROLLBACK of a CATCH is dropped on PostgreSQL, and its
  sections undo their own work (`src/docs/03-unsupported.md:340`); SQLWARNING
  handlers; BEGIN TRAN after work already committed; savepoints on PostgreSQL.
- `functions`, dates (`Countable`, `Settled`, `Readable`): TIMESTAMPDIFF is adjusted
  the wrong way when it runs backwards and at month ends (EF 264-266), minutes
  before 1970 are rounded the other way (EF:341), two-argument DATEDIFF on Oracle
  keeps the times (EF:288), Oracle WW and MySQL's WEEK field are read as ISO weeks
  (EF:1208, 1385), ROUND to a month keeps the time (EF:1607), a negative amount
  prints `--1` (EF:202, 232).
- `functions`, texts (`Portable`, `Searchable`): a start before the text that is a
  column, or lies further before it than the text is long; LEN where trailing blanks
  count (EF:1909, 2116, 2748, and MySQL's LENGTH of a column); REPLICATE with a
  negative count (EF:1876, NULL on T-SQL only); RIGHT with MySQL's negative length; STUFF
  outside the text, whose NULL or error the other engines do not give; TRIM of a set
  of two from or to MySQL; a second occurrence or a backward INSTR in a body, whose
  fourth argument and sign are ignored (PT `_expr.py` 1301-1338); a search from before
  the start; an empty needle elsewhere than in a script; a NULL to REPLACE or
  GREATEST of a column (EF:1675) or of T-SQL; NULL against NULL in DECODE, unless the
  second is a literal (EF:2643, and any in a body, PT `_expr.py` 1272); and the empty
  text on Oracle, which is a documented limit (`src/docs/03-unsupported.md:172`).
- `operators` (`ClearBinary`, `ClearUnary`, `KeptBinary`): a product whose right
  factor is a quotient (EE:1068, section 6), bit operators of different kinds (1047,
  1084-1108), `||` with a sum on its right on Oracle (2404), bitwise NOT over a binary
  operation (2532-2540), `- -x`, chained comparisons, rows compared with <> inside an
  AND (2129, 2175), division of integer columns (2000), Oracle's MOD by 0, NULL
  columns in a concatenation (2402), integers in `+` beside strings (2425), bits of
  negative numbers on MySQL, whose bits are unsigned.

**Fairness.** `transpile` and `split_statements` are plain sequential functions:
once called, they keep taking steps until they return. `WF_vars(Next)` says just
that, and no more than that is assumed. Everything else is checked for safety only.
`Finished` is the stutter of a function that has returned, so deadlock is checked
in the runs of functions; `schema`, `loops`, `handlers`, `functions` and `operators`
say `CHECK_DEADLOCK FALSE`, because a script, a routine or an expression may end
anywhere, or at its bound.

## 4. Properties

| Property | What would break it |
|---|---|
| `CarriersMirrored` | a fragment looked at once while codes are stamped by several batches |
| `DroppedBatchReported` | an `unsupported` entry judged by the wrong list |
| `NoDegradeWithoutTrace` | an error path that returns a fresh result |
| `SynthesizedOnlyWhenSilent` | coverage tested against one batch instead of the script |
| `ProceduralWarningsCoded` | fallback codes given too early, or not to both features |
| `EveryBatchEmitted` | a comment batch taken for a blank one |
| `ReportOnlyGrows` | a second carrier overwriting the code of the first |
| `ResultMirrors` | aggregation that merges by less than feature and text |
| `PromiseKept` | the loop ending a batch before its last carrier |
| `NoOrphanCloser` | an opener that degrades and is not recognised as one |
| `QuotesReadAsInSession` | a toggle applied to the wrong batch |
| `Terminates`, `Splits` | a branch that does not advance |
| `SplitsAsClient`, `InStepWithClient` | a mark read in the wrong region, a BEGIN taken for a block |
| `BatchesReadAsScript` | a batch end inside a string, a comment, a body or a unit |
| `NothingGlued` | routine or PL/SQL mode that outlives the routine |
| `TypesFitCode` | a comment or a literal that decides where a batch is routed |
| `MalformedAreCommented` | an environmental error taken for a syntax error, or a failed transaction that hides one |
| `NothingPersists`, `NothingOverruns` | a clean-up that misses a case, a fresh session without the time limit |
| `ReadsAsEmitted` | a terminator put into a comment, a statement joined to the one before it, a body cut by the client |
| `NothingRunsTwice` | a slash after a statement that has already run |
| `SchemaKept` | a type restated without the nullability the column has by then |
| `KnowledgeIsCurrent` | a statement that moves a column and not what is known of it |
| `TargetAccepts` | a nullability or a column said twice to an engine that refuses that |
| `AttributesAsOnSource` | an emulation variable set or reset on one path of two |
| `StatusAsOnSource` | a test that asks the flag of another cursor or of an earlier FETCH |
| `RowsAsOnSource` | an OPEN made twice or not at all on one side |
| `JumpsAsWritten` | a label resolved against the loops of the target instead of the source's |
| `LabelsDistinct` | a made-up label that some other loop already has |
| `HandlersAsWritten` | a handler moved to another block, or run for an error it did not name |
| `WorkKept` | transaction control dropped on one side of an error |
| `SumsKept`, `CountsKept` | month ends, signs, boundaries counted against complete periods |
| `PartsKept` | a format word that means another week or another year |
| `TextsKept` | a position counted from the other end, a length off by trailing blanks, a NULL taken for a text |
| `GroupingKept` | an operand left bare that the target groups otherwise |
| `ValuesKept` | an operator whose value differs at zero, at a negative or at NULL |

## 5. What is proved

Thirty theorems. Those about the loop hold for scripts of any length, any
batches and any pipeline, texts, codes and shingles (one is about the pipelines of
`BatchPipelines`); those about the splitters for scripts of any length in all four
dialects; those about live validation for outputs of any length; those about columns
for any tables, columns and types and scripts of any length; those about cursors for
any set of cursors, any number of rows and routines of any length; those about loops
and handlers for routines of any length nested to any depth:

| Theorem | Module | States |
|---|---|---|
| `TypeCorrect` | `Transpiler_proofs` | `TypeOK` |
| `ReportNeverShrinks` | `Transpiler_proofs` | `ReportOnlyGrows` |
| `CarriersAreMirrored` | `Transpiler_proofs` | `CarriersMirrored` |
| `DroppedIsReported` | `Transpiler_proofs` | `DroppedBatchReported` |
| `EveryBatchIsEmitted` | `Transpiler_proofs` | `EveryBatchEmitted` |
| `LossesFiledOnce` | `Transpiler_proofs` | `SynthesizedOnlyWhenSilent` |
| `ProceduralWarningsAreCoded` | `Transpiler_proofs` | `ProceduralWarningsCoded` |
| `LoopKeepsPromise` | `Transpiler_proofs` | `PromiseKept`: the loop implements `LossPromise` |
| `DegradesLeaveTraces` | `Transpiler_proofs` | `NoDegradeWithoutTrace`, given `PipelinesLeaveTraces` |
| `PipelinesDegradeAloud` | `Transpiler_proofs` | `NoDegradeWithoutTrace` over `BatchPipelines`, given `EngineSaysSo` |
| `QuotesFollowTheSession` | `Transpiler_proofs` | `QuotesReadAsInSession`, given `TogglesAhead` |
| `ClosersFollowOpeners` | `Transpiler_proofs` | `NoOrphanCloser`, given `OneStatementEach` |
| `ResultMirrorsLosses` | `Transpiler_proofs` | `ResultMirrors`, given `CodesTell` |
| `ScanKeepsStep` | `StatementSplit_proofs` | `InStepWithClient` of the statement splitter, given `AllReadable` |
| `SplitSendsAsClient` | `StatementSplit_proofs` | `SplitsAsClient`, given `AllSplittable` |
| `ReadersKeepStep` | `BatchSplit_proofs` | `InStepWithClient` of the batch splitter, given `AllReadable` |
| `ValidationIsTyped` | `LiveOutput_proofs` | `TypeOK` |
| `ValidationLeavesNothing` | `LiveOutput_proofs` | `NothingPersists`, given `StaysInDatabase` |
| `ValidationIsLimited` | `LiveOutput_proofs` | `NothingOverruns`, given `KeepsLimit` |
| `MalformedEndAsComments` | `LiveOutput_proofs` | `MalformedAreCommented`, given `ColumnsExist`, `TextsApart` |
| `ColumnsAreKept` | `RunningTypes_proofs` | `SchemaKept`, given `KeepsForms` |
| `KnowledgeStaysCurrent` | `RunningTypes_proofs` | `KnowledgeIsCurrent`, given `KeepsForms` |
| `AltersAreAccepted` | `RunningTypes_proofs` | `TargetAccepts`, given `KeepsForms` |
| `FetchesReadAlike` | `CursorState_proofs` | `RowsAsOnSource`, given `KeepsIdioms` |
| `AttributesAreEmulated` | `CursorState_proofs` | `AttributesAsOnSource`, given `KeepsIdioms` |
| `TestsAnswerAlike` | `CursorState_proofs` | `StatusAsOnSource`, given `KeepsIdioms` |
| `LabelsStayDistinct` | `LoopLabels_proofs` | `LabelsDistinct`, given `KeepsIdioms` |
| `JumpsAreKept` | `LoopLabels_proofs` | `JumpsAsWritten`, given `KeepsIdioms` |
| `ErrorsRunAlike` | `HandlerScope_proofs` | `HandlersAsWritten`, given `KeepsIdioms` |
| `WorkIsKept` | `HandlerScope_proofs` | `WorkKept`, given `KeepsIdioms` |

**Assumptions.** `ShinglesAssumption`: a text shares words with itself (the code
returns no fragment that is empty; a text of fewer than three words is its own
shingle). `CodesAssumption`: the two generic codes are codes. `InputsAssumption`,
`DialectAssumption`, `PipelineAssumption`, `OutputsAssumption`, `PaletteAssumption`, `NoneAssumption`,
`MaxCreatesAssumption`, `RowsAssumption`, `PairsAssumption`,
`IdiomsAssumption` and `BoundsAssumption` type the constants. TLC evaluates each of them in the runs
of its module.

Twenty-one theorems have a hypothesis. Of live validation: no USE on MySQL
(`StaysInDatabase`), no ROLLBACK on PostgreSQL (`KeepsLimit`), no missing column on
Oracle (`ColumnsExist`), no text that occurs twice or inside another (`TextsApart`).
Of columns and routines: the forms of `KeptForms` and one CREATE per table
(`KeepsForms`), the habits of `KeptHabits` and `KeptKinds`, or none of `Lost`
(`KeepsIdioms`, in each module). Of the loop:

- `PipelinesLeaveTraces`: a pipeline's answer that is not a translation has a carrier
  or a warning. This is a contract between the loop and the pipelines, and
  `PipelinesDegradeAloud` discharges it for those of the code: there, `EngineSaysSo`
  asks of the engines below them only that a comment emitted in place of a
  statement is a carrier, and that a parser that returns no tree says why.
- `TogglesAhead`: a batch toggles QUOTED_IDENTIFIER one way and ahead of its quotes
  (the loop keeps one flag to a batch).
- `OneStatementEach`: a batch has at most one transaction statement, no ROLLBACK TO
  SAVEPOINT, one that parses unless it is an opener.
- `CodesTell`: warnings with one feature and text have one code, none has the feature
  of what the loop synthesizes, and carriers that share a code are covered together
  or not at all. Without it the property is false: a carrier may stamp its code on
  the second of two equal warnings, and aggregation keeps the code of the first.

Of `InStepWithClient`, for both splitters: `AllReadable`, that every script is
`Readable`, one whose marks the readers and the client take alike. Which marks these
are is said there dialect by dialect. For the batch splitter: on T-SQL no E'' literal and GO alone on its line; on
PostgreSQL no body with its own tag inside a comment or a literal, and no doubled quote
in an E'' literal (there the model's client is the simplification); on Oracle no string
over several lines and no block comment that opens behind a REM or SET; on MySQL
nothing open at the end of a line, for its reader keeps nothing from one line to the
next. For the statement splitter: no REM on Oracle and no E'' literal, quoted
identifier, `$tag$` or `$$` inside a literal on PostgreSQL.

Of `SplitsAsClient`: `AllSplittable`, that every script is `Readable` and besides

- ends outside strings and bodies;
- has only the directives of its dialect, in code and, but for GO, outside blocks (the
  chunks are cut with no look at the text); on MySQL a `$$` that is the delimiter is in
  code too;
- has a CASE, where semicolons split, outside blocks only, and ended before the next
  block, CASE, semicolon or directive (the scanner counts no CASE, so the END of one
  inside a block closes the block: a hazard);
- on Oracle, has no SET of the client, and starts a PL/SQL unit at the start of a line
  and of a statement.

The hypotheses are what the palettes of section 3 leave out, no more. The runs check
instances that satisfy them: `MCBatchesAssumption` and the two `MCInputsAssumption`s
let TLC evaluate those of the loop and the splitters (that of the statement splitter
evaluates `Splittable`, which implies `Readable`). Each form left out is the
hazard or finding that would make the theorem false, or a form of script the dialect's
client does not take.

**Arguments.** Typing comes first and is used by all others.
`CarriersMirrored` is not inductive: while a batch is reconciled only a prefix of
its carriers has been looked at, and a carrier already in `reconciled` is skipped
because an *earlier* carrier with its text was mirrored. `LossInv` states both
facts, and that nothing takes a mirror away comes from `ReportGrows`, proved
for every step first. `RegistrationInv` does the same for `unsupported`.
`EmissionInv` relates the parts to the batches before `i`, with the part of the
current batch when the stage is past emission. `CodedInv` says that the procedural
warnings of finished batches have codes and that any warning without one is of
the current batch. `LoopKeepsPromise` maps each action to `Report`, `Ship`, `Close` or a
stutter: the part ships when the body of its batch ends, and `LossInv` and
`RegistrationInv` at that moment are exactly `Accounted`.

`TraceInv` follows the traces of the current result through the gate and the
transaction check to its part; that every return path of a pipeline has traces is a
lemma per path in the last section of `Transpiler_proofs`. `QuotesInv` equates the
loop's flag with the session's reading of the batches before `i`, which is a function
on the prefixes of the script. `TxInv` relates three runs: that of the source script, that of the output so far and
the stack of the loop. The transactions the source has open are the topmost entries of
the stack (`Matched`), and the output has at least as many open as there are entries among these
whose opener shipped, so a closer that ships finds one. `ResultMirrors` speaks of the
aggregated warnings, after which the mirror of `LossInv` may be gone: `ClaimInv` keeps, for
every part, the warning that mirrors each of its carriers and where the code came
from, `OwnInv` and `KeyInv` that every filed warning has the feature and text of one
raised, with its code, or is the loop's own; `AggregateExists` and `AllRepresented`
(least and greatest index, since induction over the recursive function cannot be
cited) say that aggregation leaves one warning for each feature and text.

Both `InStepWithClient` compare a scanner with a fold over the whole script.
`Regions` is a function that each mark determines from the one before: `RegionHolds`,
`RegionLasts` and `RegionsClose` say where a comment, string or body that opens at a
mark ends, and the scanners' searches end there too. `ScanInv` adds that every chunk
is read as a script of its own, and that the two flags are exactly the region of the
next mark. `BatchInv` is the same for four readers: those that jump over a region land
on the mark behind it (`StringEnds`: no quote before the one found closes the string);
those by line carry only the comment flag, so `CommentIs` relates the fold of
`CommentStep` along a line with the regions of its marks, and `QuietLineIs` covers the lines
(REM, SET) on which the reader skips the fold.

`SplitsAsClient` compares two texts: the code of `statements`, and `Client`, which the
client computes from the whole script by its regions, depths and separators. The
argument has two halves. `SplitInv` is inductive with `ScanInv` and is about the
scanner: the code of `statements` so far, what the current chunk has yet to send
(`SentSoFar`; the buffer is the statement since the last separator) and what the chunks
still to come send (`SendsOf`) are together `Client`. `DepthKept` is what it needs of
the flag `depth_begin`: it is the client's depth, except inside a flat CASE, where no
semicolon is read; `ExecutableKeeps` says that Oracle's filter on the finished statements
removes no code. The other half makes `SplitInv` true at the start
(`ChunksSendAll`): the chunks, each read as a script of its own, send what the client
sends for the whole script. `PiecesCut` says where a script is cut, per dialect;
`PartStatement` and `PartSends` that a part which starts in code at depth 0 has the
regions, depths, separators and hence statements of the script; `BlockSends` covers
Oracle, whose blocks between slashes are cut once more where a unit begins. Depths,
pieces and sends are folds and functions over positions: what they are at a
position is proved by induction over the positions for which it holds, taken as a set
(`UpTo`), which needs no induction rule with an operator parameter.

In live validation, `PersistInv` finds what makes `NothingPersists` true of the end
of a session: MySQL creates in the throwaway database only, and PostgreSQL starts
every statement with nothing to commit, so a statement that commits has nothing to
keep. `LimitInv` says that the clean-up finds the limit wherever it looks: before a
statement runs there is a savepoint that has the limit, and after it there still
is, or the last commit was made under the limit. `VerdictInv` says that no
statement finds the transaction failed, so a verdict is about its own statement, and
that while the replacements run exactly the malformed cells before `n` are comments.

The three properties of `RunningTypes` are not inductive one by one: an ALTER is
emitted from the maps, so columns are kept only while the maps are current. `IInv`
says of every cell at once that the two engines agree up to flags, and that what
the maps say of it is what it is wherever the emission will read it (untracked
tables are unknown, a tracked column's type and nullability are known to the
targets that restate them), that a table still to come has no column yet and its
harvest in the maps, and that nothing was refused. A step writes one row or one
cell; `RowKeeps` and `CellKeeps` carry the rest over, and each action has a lemma
about the cell it writes.

In `CursorState`, `RowsInv` relates the two engines' cursors through `bound`: a
cursor variable is open on the target from where it is bound. `AttributesInv`
says what each emulation variable holds between two statements, and `StatusInv`
that the target's own flag is the answer of the FETCH `since` speaks of. Typing and
`RowsInv` come first, and the other two rest on them.

`JumpsAsWritten` is about labels given when a loop was opened, so `NestInv` says of
every open frame which of its four labels it has, and of every two that a label in
both cannot be: made-up labels count up, and a name belongs to one open loop.
`StackInv` says that the entries of `_loop_label_stack` are the labelled frames in
their order (a function `at` from entries to frames); it is what makes "the last
entry" and "the last entry with this source label" mean the innermost loop and the
named one. A WHILE is labelled only if a jump shows in its body, and the jump that is
being emitted is what shows (`MysqlLabelIs`).

In `HandlerScope` one fact carries the rest (`FatesAgree`): two sides agree on an
error when the block that takes it on the source runs the same handlers on the target
and no block inside it takes the error instead. `ErrorsAgree`, `LookupsAgree` and
`WarningsAgree` establish it per class of error and pair of engines, each time from
the habits the pair keeps. `BlocksInv` bounds the handlers a source can have;
`EndsWithoutError` uses that only T-SQL begins transactions. `WorkInv` says that the two databases hold the same work, and their savepoints and the
marks of open blocks too; what a ROLLBACK would return to may differ, but only between
an engine that always has a transaction and one that begins it, outside a transaction
of the source (`Agree`).

**Only model-checked.** `BatchesReadAsScript`, `NothingGlued` and
`TypesFitCode`, and the two properties of `OutputJoin`. The argument of
`SplitsAsClient` carries over to them in principle. What it lacks is that the batches are
not slices of the script: three of four readers rebuild them line by line and strip them, and
`OutputJoin` joins them again with separators that the converters add, so
`PartStatement` does not apply to them as it stands (section 7). The values of
`DateForms` and `TextForms` are arithmetic of calendars and positions case by case, in
one step, so that TLC's enumeration of the boundaries is the argument; those of
`OperatorForms` rest on its `read`, a RECURSIVE parser. Out of the prover's reach
altogether is liveness under fairness (`Terminates`, `Splits`).

## 6. What the code does that its text does not say

One of these is a run; the others were met while modelling, are hazards in
`PROJECT.json` at their line, and are outside the palettes of section 3.

- `regroup`: the converter drops parentheses and EE:1010 says that an expression
  regains them, and 1066 that a right operand keeps them wherever
  `a op (b op c)` differs from `(a op b) op c`; the product is not in the set at
  1068, so `a * (b % c)` ships as `a * b % c`.
- `ROLLBACK TO SAVEPOINT` pops the transaction stack, so after a degraded opener
  the COMMIT ships without a transaction (`_core.py:163`, against the comment at 542).
- The code of a carrier that another loss's warning covers is in the output only
  (`_core.py:800`, against 773).
- A statement kept as a block comment is not in `unsupported` (`_core.py:1489`,
  against `src/tests/unit/core/test_no_silent_loss.py:3`).
- The END of a CASE closes the BEGIN ... END body around it (`sql_split.py:236`,
  against 173).
- A header comment of three lines that quotes CREATE PROCEDURE puts the Oracle
  reader in PL/SQL mode, and the script after it is one batch
  (`batch_splitter.py:661`, against the comment at 656).
- A `--` comment that ends in a semicolon cuts an Oracle or MySQL statement in two
  (`batch_splitter.py:681`, against 7).
- A rejected statement that occurs twice is commented out once, and its text is
  found in the first comment the second time (`_core.py:2423`, against
  `live_validate.py:10`).
- A COMMIT in the EXCEPTION section of an Oracle routine ships to PostgreSQL (PT
  `base.py:2897`), where it raises the error that PT `postgresql.py:277` describes for
  TRY ... CATCH and drops there.
- DATEDIFF in weeks is the floor of the days by seven on MySQL (EF:324), not the
  boundaries `src/docs/rationale/datetime/datediff-datepart-unit-maps.md:60` says.
- T-SQL gets LEN(x) as the length of a slice that had none, which "always covers it"
  (EF:2115), but LEN leaves trailing blanks out: `SUBSTRING('x ', 1)` becomes 'x'.
- GREATEST and LEAST of T-SQL ignore NULLs "(and T-SQL)" as PostgreSQL's do, says
  EF:1675; only PostgreSQL's are rewritten for MySQL and Oracle.
- TRIM of several characters takes any of them off on every engine but MySQL, which
  takes off the whole text; EF:2135 counts MySQL among the others.
- The occurrence of Oracle's INSTR is dropped in routine bodies (PT `_expr.py:1301`)
  without a note, which `convert.py:3350` avoids for scripts.
- A statement with a trailing note is joined to the next by a semicolon inside the
  note (EM:436), although 433 and `_core.py:2308` know of such notes.

## 7. Plan

Done, in this order: `Reporting`, `BatchPipelines`, `Transpiler`, `LossPromise`
(thirteen theorems); `ScriptText`, `ClientScript`, `StatementSplit` (two), `BatchSplit`
(one); `LiveOutput` (four); `RunningTypes` (three); `CursorState` (three), `LoopLabels`
(two), `HandlerScope` (two); `OutputJoin`; `Calendar`, `CallForms`, `DateForms`,
`TextForms`; `Engines`, `OperatorForms`.

Left, most important first:

1. `TranspileContext`: ContextVars, harvest, resolver and the unread-argument sink
   over a thread that serves several requests. Theorem: a finished
   transpilation leaves the context as it found it.
2. The registries a routine leaves for its callers in later batches (degraded
   routines, out parameters): a call emitted ahead of its routine.
3. `ProceduralParser`: recovery makes progress and keeps every token.
4. Conditions and values: where a boolean may stand on each target.
5. A proof of `NothingGlued` for PostgreSQL first, whose batches are slices: a slice
   that starts in code has the regions, depths and statements of the script (the lemmas on
   parts in `StatementSplit_proofs`), and `ReadersKeepStep` gives the start. The line readers need the modes of a line
   (routine, PL/SQL) in `BatchInv` as well.

## 8. Not modelled

Parts that keep state and are not modelled yet: the context of a transpilation
(`_core.py` 408-522, 861-894), the procedural parser, the rewrites of declarations,
triggers and packages, the registries of routines and their calls, the metadata
resolver. What `RunningTypes`, `CursorState`, `LoopLabels` and `HandlerScope` model
of the converter and the procedural engine is said in section 2.

Most of the code is tree-to-tree rewriting without state, one function or clause at
a time, and a model of each rewrite would be a transliteration of it: queries and
DDL (`convert.py`, `emit_ddl.py`, `emit_relations.py`), functions of JSON, XML,
regular expressions, formats and hashes (`emit_functions.py`), the position of
conditions and values (`emit.py` 1120-1507), LIKE, and numbers in strings. Dates and
operators are modelled because the engines differ there in values, and a wrong one
runs without an error; so are the functions of texts that count positions. In
`DateForms` the base DATEDIFF (EF 173-183), a DATETRUNC of T-SQL and the types of
results are left out.

The text checks of the output gate are regular expressions: the loop's model
allows either verdict on any output, and `OutputJoin` lets every text pass. Tables
(diagnostics, rationales, built-ins, mappings), logging, the HTML front end, the
command line's formatting, similarity, detection and the registry keep no state
that crosses a call, and are left out.
