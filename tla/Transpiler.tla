----------------------------- MODULE Transpiler -----------------------------
(***************************************************************************)
(* The batch loop of Transpiler.transpile: every batch of the script is    *)
(* routed to a pipeline, its output gated, matched against the open        *)
(* transactions and emitted; then its carrier comments are reconciled with *)
(* the warnings and the unsupported entries of the result.                 *)
(*                                                                         *)
(* The pipelines are a parameter: Pipeline(b) is the set of results batch  *)
(* b may come back with (module BatchPipelines gives the code's).          *)
(***************************************************************************)
EXTENDS Reporting, SequencesExt

CONSTANTS
  Batches,      \* the batches a script is made of
  Scripts,      \* the scripts of the instance, sequences of batches
  SourceTsql,   \* whether the source dialect is T-SQL
  Pipeline(_),  \* the results a batch's pipeline may return
  GateText,     \* "output failed the ... validity check ..."
  DivergeText,  \* "<a known value divergence>"
  CloserText    \* "transaction closer preserved as a comment ..."

BatchTypes == {"COMMENT", "SET_OPTION", "DML", "DDL", "PROCEDURAL", "UNKNOWN"}
TxOps      == {"begin", "commit", "rollback", "rollback_to", "other"}
QuoteItems == {"off", "on", "quote"}

(* What the loop looks at in a batch: its class, whether its text is       *)
(* blank, its SET QUOTED_IDENTIFIER toggles and double quotes in textual   *)
(* order, its top-level statements (as transaction operations), whether    *)
(* they parse, the verdicts the gate may reach on its output, and whether  *)
(* its text matches a known value divergence.                              *)
BatchShape ==
  [type : BatchTypes, blank : BOOLEAN, quoting : Seq(QuoteItems),
   tx : Seq(TxOps), parses : BOOLEAN,
   verdicts : SUBSET {"valid", "invalid"}, diverges : BOOLEAN]

Shape(b) ==
  [type |-> b.type, blank |-> b.blank, quoting |-> b.quoting, tx |-> b.tx,
   parses |-> b.parses, verdicts |-> b.verdicts, diverges |-> b.diverges]

ASSUME InputsAssumption ==
  /\ \A b \in Batches : Shape(b) \in BatchShape
  /\ Scripts \subseteq Seq(Batches)
  /\ SourceTsql \in BOOLEAN
  /\ {GateText, DivergeText, CloserText} \subseteq Texts
  /\ {"1151", "1207", "1233"} \subseteq Codes
  /\ {"validity_gate", "value_divergence", "lossy_conversion"} \subseteq Features

ASSUME PipelineAssumption == \A b \in Batches : \A r \in Pipeline(b) : r \in Result

VARIABLES
  script,          \* batches of the script (BatchSplitter.split)
  i,               \* index of the current batch
  pc,              \* stage of the loop body
  res,             \* result of the current batch
  k,               \* index of the carrier being reconciled
  qiOff,           \* quoted_identifier_off
  txStack,         \* tx_stack: TRUE iff the opener emitted executable SQL
  parts,           \* output_parts, with the carriers in their text
  allWarnings,     \* all_warnings
  allUnsupported,  \* all_unsupported
  reconciled,      \* reconciled_frags
  unsupSeen,       \* unsupported_seen
  final            \* the returned warnings, << >> before

reportVars == <<allWarnings, allUnsupported, reconciled, unsupSeen>>
vars == <<script, i, pc, res, k, qiOff, txStack, parts, reportVars, final>>

B == script[i]
NoResult == [form |-> "lines", carriers |-> <<>>, warnings |-> <<>>,
             unsupported |-> <<>>]

-----------------------------------------------------------------------------
Init ==
  /\ script \in Scripts
  /\ i = 1
  /\ pc = "next"
  /\ res = NoResult
  /\ k = 1
  /\ qiOff = FALSE
  /\ txStack = <<>>
  /\ parts = <<>>
  /\ allWarnings = <<>>
  /\ allUnsupported = <<>>
  /\ reconciled = {}
  /\ unsupSeen = {}
  /\ final = <<>>

(* Blank batches are skipped, explicit comment batches are not.            *)
IsSkipped_DropComments(b) == b.blank
IsSkipped(b) == b.blank /\ b.type # "COMMENT"

SkipBatch ==
  /\ pc = "next"
  /\ i <= Len(script)
  /\ IsSkipped(B)
  /\ i' = i + 1
  /\ UNCHANGED <<script, pc, res, k, qiOff, txStack, parts, reportVars, final>>

QuotedIdentifier_NeverOn(b) ==
  SourceTsql /\ ("off" \in Entries(b.quoting) \/ qiOff)

(* The running QUOTED_IDENTIFIER state: a batch that holds an OFF anywhere *)
(* turns it off, else one that holds an ON turns it on.                    *)
QuotedIdentifier(b) ==
  CASE ~SourceTsql -> FALSE
    [] SourceTsql /\ "off" \in Entries(b.quoting) -> TRUE
    [] SourceTsql /\ "off" \notin Entries(b.quoting)
                  /\ "on" \in Entries(b.quoting) -> FALSE
    [] OTHER -> qiOff

StartBatch ==
  /\ pc = "next"
  /\ i <= Len(script)
  /\ ~IsSkipped(B)
  /\ qiOff' = QuotedIdentifier(B)
  /\ pc' = "route"
  /\ UNCHANGED <<script, i, res, k, txStack, parts, reportVars, final>>

(* A comment batch is kept verbatim; any other goes to its pipeline.       *)
RouteComment ==
  /\ pc = "route"
  /\ B.type = "COMMENT"
  /\ res' = NoResult
  /\ pc' = "gate"
  /\ UNCHANGED <<script, i, k, qiOff, txStack, parts, reportVars, final>>

RoutePipeline ==
  /\ pc = "route"
  /\ B.type # "COMMENT"
  /\ res' \in Pipeline(B)
  /\ pc' = "gate"
  /\ UNCHANGED <<script, i, k, qiOff, txStack, parts, reportVars, final>>

-----------------------------------------------------------------------------
(* The output validity gate.                                               *)

IsGated == B.type # "COMMENT" /\ ~IsCommentOnly(res.form)

(* The output is replaced by the source batch as a carrier; the warnings   *)
(* of the rejected output stay.                                            *)
GateReject ==
  /\ pc = "gate"
  /\ IsGated
  /\ "invalid" \in B.verdicts
  /\ res' = [form |-> "lines",
             carriers |-> <<[frag |-> GateText, code |-> "1151"]>>,
             warnings |-> Append(res.warnings, Warn(GateText, "validity_gate", NoCode)),
             unsupported |-> Append(res.unsupported, GateText)]
  /\ pc' = "tx"
  /\ UNCHANGED <<script, i, k, qiOff, txStack, parts, reportVars, final>>

(* Valid output with a known value divergence keeps its SQL and gets a     *)
(* leading carrier.                                                        *)
GateDiverge ==
  /\ pc = "gate"
  /\ IsGated
  /\ "valid" \in B.verdicts
  /\ B.diverges
  /\ res' = [res EXCEPT
       !.carriers = <<[frag |-> DivergeText, code |-> "1207"]>> \o @,
       !.warnings = Append(@, Warn(DivergeText, "value_divergence", NoCode))]
  /\ pc' = "tx"
  /\ UNCHANGED <<script, i, k, qiOff, txStack, parts, reportVars, final>>

GatePass ==
  /\ pc = "gate"
  /\ IsGated => "valid" \in B.verdicts /\ ~B.diverges
  /\ pc' = "tx"
  /\ UNCHANGED <<script, i, res, k, qiOff, txStack, parts, reportVars, final>>

-----------------------------------------------------------------------------
(* Transaction coherence.                                                  *)

TransactionRole_ParsedOnly(b) ==
  IF b.blank \/ ~b.parses \/ Len(b.tx) # 1 THEN "none"
  ELSE CASE b.tx[1] = "begin" -> "open"
         [] b.tx[1] \in {"commit", "rollback", "rollback_to"} -> "close"
         [] OTHER -> "none"

(* _batch_transaction_role: a batch that does not parse is classified by   *)
(* its first keyword, a batch of several statements not at all, and every  *)
(* ROLLBACK, to a savepoint or not, is a closer.                           *)
TransactionRole(b) ==
  IF b.blank \/ b.tx = <<>> THEN "none"
  ELSE IF ~b.parses THEN IF b.tx[1] = "begin" THEN "open" ELSE "none"
  ELSE IF Len(b.tx) # 1 THEN "none"
  ELSE CASE b.tx[1] = "begin" -> "open"
         [] b.tx[1] \in {"commit", "rollback", "rollback_to"} -> "close"
         [] OTHER -> "none"

IsTracked == B.type \notin {"PROCEDURAL", "COMMENT"}

TxOpen ==
  /\ pc = "tx"
  /\ IsTracked
  /\ TransactionRole(B) = "open"
  /\ txStack' = Append(txStack, ~IsCommentOnly(res.form))
  /\ pc' = "emit"
  /\ UNCHANGED <<script, i, res, k, qiOff, parts, reportVars, final>>

IsCloser == IsTracked /\ TransactionRole(B) = "close" /\ txStack # <<>>
Top(stack) == stack[Len(stack)]
Pop(stack) == SubSeq(stack, 1, Len(stack) - 1)

TxClose ==
  /\ pc = "tx"
  /\ IsCloser
  /\ Top(txStack)
  /\ txStack' = Pop(txStack)
  /\ pc' = "emit"
  /\ UNCHANGED <<script, i, res, k, qiOff, parts, reportVars, final>>

(* The opener degraded to a carrier, so its closer degrades too.           *)
TxDegrade ==
  /\ pc = "tx"
  /\ IsCloser
  /\ ~Top(txStack)
  /\ txStack' = Pop(txStack)
  /\ res' = [form |-> "lines",
             carriers |-> <<[frag |-> CloserText, code |-> "1233"]>>,
             warnings |-> Append(res.warnings,
                                 Warn(CloserText, "lossy_conversion", "1233")),
             unsupported |-> Append(res.unsupported, CloserText)]
  /\ pc' = "emit"
  /\ UNCHANGED <<script, i, k, qiOff, parts, reportVars, final>>

TxNone ==
  /\ pc = "tx"
  /\ ~(IsTracked /\ TransactionRole(B) = "open")
  /\ ~IsCloser
  /\ pc' = "emit"
  /\ UNCHANGED <<script, i, res, k, qiOff, txStack, parts, reportVars, final>>

-----------------------------------------------------------------------------
(* The part is appended and the warnings of the batch are filed.           *)

File(ws) ==
  [n \in DOMAIN ws |-> [msg |-> ws[n].msg, feature |-> ws[n].feature,
                        code |-> ws[n].code, batch |-> i, own |-> TRUE]]

EmitPart ==
  /\ pc = "emit"
  /\ parts' = Append(parts,
       [batch |-> i, type |-> B.type, form |-> res.form,
        carriers |-> res.carriers,
        isComment |-> B.type = "COMMENT" \/ IsCommentOnly(res.form)])
  /\ allWarnings' = allWarnings \o File(res.warnings)
  /\ allUnsupported' = allUnsupported \o res.unsupported
  /\ k' = 1
  /\ pc' = IF B.type = "COMMENT" THEN "fallback" ELSE "reconcile"
  /\ UNCHANGED <<script, i, res, qiOff, txStack, reconciled, unsupSeen, final>>

-----------------------------------------------------------------------------
(* Reconciliation of one carrier.                                          *)

C == res.carriers[k]
IsOwn(w) == w.own /\ w.batch = i

Stamped_Overwrite(ws) ==
  [n \in DOMAIN ws |->
     IF /\ C.code # NoCode
        /\ IsOwn(ws[n])
        /\ WarningCovers(C.frag, {ws[n].msg})
     THEN [ws[n] EXCEPT !.code = C.code] ELSE ws[n]]

(* The carrier's code is stamped onto the batch's own warnings that cover  *)
(* its fragment and have no code.                                          *)
Stamped(ws) ==
  [n \in DOMAIN ws |->
     IF /\ C.code # NoCode
        /\ IsOwn(ws[n])
        /\ ws[n].code = NoCode
        /\ WarningCovers(C.frag, {ws[n].msg})
     THEN [ws[n] EXCEPT !.code = C.code] ELSE ws[n]]

AlreadyCoded_AnyCode(ws) == \E n \in DOMAIN ws : IsOwn(ws[n]) /\ ws[n].code # NoCode

AlreadyCoded(ws) ==
  C.code # NoCode /\ \E n \in DOMAIN ws : IsOwn(ws[n]) /\ ws[n].code = C.code

IsReported_OwnOnly(ws) ==
  \E n \in DOMAIN ws : IsOwn(ws[n]) /\
     (ws[n].code = C.code \/ WarningCovers(C.frag, {ws[n].msg}))

IsReported(ws) == AlreadyCoded(ws) \/ WarningCovers(C.frag, Messages(ws))

Synthesized == [msg |-> C.frag, feature |-> "lossy_conversion", code |-> C.code,
                batch |-> i, own |-> FALSE]

(* A fragment an earlier batch reconciled, or this output repeats, stamps  *)
(* but adds nothing.                                                       *)
ReconcileKnown ==
  /\ pc = "reconcile"
  /\ k <= Len(res.carriers)
  /\ C.frag \in reconciled
  /\ allWarnings' = IF IsRepeated(res.carriers, k) THEN allWarnings
                    ELSE Stamped(allWarnings)
  /\ k' = k + 1
  /\ UNCHANGED <<script, i, pc, res, qiOff, txStack, parts, allUnsupported,
                 reconciled, unsupSeen, final>>

ReconcileNew ==
  /\ pc = "reconcile"
  /\ k <= Len(res.carriers)
  /\ C.frag \notin reconciled
  /\ LET stamped == Stamped(allWarnings)
     IN allWarnings' = IF IsReported(stamped) THEN stamped
                       ELSE Append(stamped, Synthesized)
  /\ reconciled' = reconciled \cup {C.frag}
  /\ k' = k + 1
  /\ UNCHANGED <<script, i, pc, res, qiOff, txStack, parts, allUnsupported,
                 unsupSeen, final>>

ReconcileEnd_OffByOne ==
  /\ pc = "reconcile"
  /\ k >= Len(res.carriers)
  /\ k' = 1
  /\ pc' = IF IsCommentOnly(res.form) THEN "unsupported" ELSE "fallback"
  /\ UNCHANGED <<script, i, res, qiOff, txStack, parts, reportVars, final>>

ReconcileEnd_UntilNoneLeft ==
  /\ pc = "reconcile"
  /\ k > Len(res.carriers)
  /\ k' = 1
  /\ pc' = IF res.carriers # <<>> THEN "reconcile" ELSE "fallback"
  /\ UNCHANGED <<script, i, res, qiOff, txStack, parts, reportVars, final>>

ReconcileEnd ==
  /\ pc = "reconcile"
  /\ k > Len(res.carriers)
  /\ k' = 1
  /\ pc' = IF IsCommentOnly(res.form) THEN "unsupported" ELSE "fallback"
  /\ UNCHANGED <<script, i, res, qiOff, txStack, parts, reportVars, final>>

IsUnregistered_ByWarnings ==
  C.frag \notin unsupSeen /\ ~WarningCovers(C.frag, Messages(allWarnings))

IsUnregistered ==
  C.frag \notin unsupSeen /\ ~WarningCovers(C.frag, Entries(allUnsupported))

(* A batch reduced to comments registers its carriers as unsupported,      *)
(* unless an entry already reports them.                                   *)
RegisterUnsupported ==
  /\ pc = "unsupported"
  /\ k <= Len(res.carriers)
  /\ unsupSeen' = IF IsUnregistered THEN unsupSeen \cup {C.frag} ELSE unsupSeen
  /\ allUnsupported' = IF IsUnregistered THEN Append(allUnsupported, C.frag)
                       ELSE allUnsupported
  /\ k' = k + 1
  /\ UNCHANGED <<script, i, pc, res, qiOff, txStack, parts, allWarnings, reconciled, final>>

RegisterEnd ==
  /\ pc = "unsupported"
  /\ k > Len(res.carriers)
  /\ k' = 1
  /\ pc' = "fallback"
  /\ UNCHANGED <<script, i, res, qiOff, txStack, parts, reportVars, final>>

(* The generic code of the procedural engine, for its warnings no carrier  *)
(* of the batch gave a code.                                               *)
WithFallback_ParseOnly(w) ==
  IF IsOwn(w) /\ w.code = NoCode /\ w.feature = "procedural_parse"
  THEN [w EXCEPT !.code = FallbackCode(w.feature)] ELSE w

WithFallback(w) ==
  IF IsOwn(w) /\ w.code = NoCode /\ IsProcedural(w.feature)
  THEN [w EXCEPT !.code = FallbackCode(w.feature)] ELSE w

FallbackCodes ==
  /\ pc = "fallback"
  /\ allWarnings' = [n \in DOMAIN allWarnings |-> WithFallback(allWarnings[n])]
  /\ i' = i + 1
  /\ res' = NoResult
  /\ pc' = "next"
  /\ UNCHANGED <<script, k, qiOff, txStack, parts, allUnsupported, reconciled,
                 unsupSeen, final>>

(* After the last batch the result is assembled.                           *)
Return ==
  /\ pc = "next"
  /\ i > Len(script)
  /\ final' = AggregateWarnings(allWarnings)
  /\ pc' = "done"
  /\ UNCHANGED <<script, i, res, k, qiOff, txStack, parts, reportVars>>

Finished == pc = "done" /\ UNCHANGED vars

Next ==
  \/ SkipBatch \/ StartBatch
  \/ RouteComment \/ RoutePipeline
  \/ GateReject \/ GateDiverge \/ GatePass
  \/ TxOpen \/ TxClose \/ TxDegrade \/ TxNone
  \/ EmitPart
  \/ ReconcileKnown \/ ReconcileNew \/ ReconcileEnd
  \/ RegisterUnsupported \/ RegisterEnd
  \/ FallbackCodes
  \/ Return
  \/ Finished

(* transpile is a sequential function: nothing keeps it from its next step. *)
Spec == Init /\ [][Next]_vars /\ WF_vars(Next)

-----------------------------------------------------------------------------
(* Properties.                                                             *)

Stages == {"next", "route", "gate", "tx", "emit", "reconcile", "unsupported",
           "fallback", "done"}

Part == [batch : Nat, type : BatchTypes, form : Forms, carriers : Seq(Carrier),
         isComment : BOOLEAN]

TypeOK ==
  /\ script \in Scripts
  /\ i \in Nat \ {0}
  /\ pc \in Stages
  /\ pc \notin {"next", "done"} => i <= Len(script)
  /\ res \in Result
  /\ k \in Nat \ {0}
  /\ qiOff \in BOOLEAN
  /\ txStack \in Seq(BOOLEAN)
  /\ parts \in Seq(Part)
  /\ allWarnings \in Seq(Filed)
  /\ allUnsupported \in Seq(Texts)
  /\ reconciled \in SUBSET Texts
  /\ unsupSeen \in SUBSET Texts

(* The carriers of the parts whose reconciliation is over.                 *)
IsSettled(p) == parts[p].type # "COMMENT" /\ (p < Len(parts) \/ pc # "reconcile")
SettledCarriers ==
  UNION {Entries(parts[p].carriers) : p \in {q \in DOMAIN parts : IsSettled(q)}}

(* A carrier text is mirrored when some warning covers it or, worded       *)
(* otherwise, has the code of a carrier with that text.                    *)
IsMirrored(frag, ws) ==
  \/ WarningCovers(frag, Messages(ws))
  \/ \E p \in DOMAIN parts : \E c \in Entries(parts[p].carriers) :
       c.frag = frag /\ c.code # NoCode /\ \E n \in DOMAIN ws : ws[n].code = c.code

(* No silent loss: once a batch is reconciled, every carrier its output    *)
(* ships is mirrored by a warning of the result, although a fragment is    *)
(* looked at once for the whole script and codes are stamped in between.   *)
CarriersMirrored == \A c \in SettledCarriers : IsMirrored(c.frag, allWarnings)

(* An executable batch reduced to `--' comments is reported as             *)
(* unsupported, under its own carrier's text or an entry that covers it.   *)
DroppedBatchReported ==
  \A p \in DOMAIN parts :
    (IsSettled(p) /\ parts[p].isComment /\ (p < Len(parts) \/ pc # "unsupported")) =>
      \A c \in Entries(parts[p].carriers) :
        WarningCovers(c.frag, Entries(allUnsupported))

(* An output that is not the translated statement never comes without a    *)
(* trace: a carrier in it, or a warning its pipeline raised.               *)
NoDegradeWithoutTrace ==
  \A p \in DOMAIN parts :
    (parts[p].type # "COMMENT" /\ parts[p].form # "sql") =>
      \/ parts[p].carriers # <<>>
      \/ \E n \in DOMAIN allWarnings :
           allWarnings[n].own /\ allWarnings[n].batch = parts[p].batch

(* A warning is synthesized only for a carrier no earlier warning of the   *)
(* whole script reports, so the same loss is never filed twice.            *)
SynthesizedOnlyWhenSilent ==
  \A n \in DOMAIN allWarnings : ~allWarnings[n].own =>
    \A m \in 1..(n - 1) : ~WarningCovers(allWarnings[n].msg, {allWarnings[m].msg})

(* Every warning of the procedural engine has a code once its batch is     *)
(* over.                                                                   *)
ProceduralWarningsCoded ==
  \A n \in DOMAIN allWarnings :
    allWarnings[n].batch < i /\ IsProcedural(allWarnings[n].feature) =>
      allWarnings[n].code # NoCode

(* A database session nests transactions and counts them, as @@TRANCOUNT   *)
(* does; a closer without a transaction is an orphan.                      *)
TxStep(s, op) ==
  CASE op = "begin" -> [s EXCEPT !.open = @ + 1]
    [] op \in {"commit", "rollback", "rollback_to"} /\ s.open = 0 ->
         [s EXCEPT !.orphan = TRUE]
    [] op = "commit" /\ s.open > 0 -> [s EXCEPT !.open = @ - 1]
    [] op = "rollback" /\ s.open > 0 -> [s EXCEPT !.open = 0]
    [] OTHER -> s

Run(s, ops) ==
  LET after[n \in 0..Len(ops)] ==
        IF n = 0 THEN s ELSE TxStep(after[n - 1], ops[n])
  IN after[Len(ops)]

Session(texts) ==
  LET after[n \in 0..Len(texts)] ==
        IF n = 0 THEN [open |-> 0, orphan |-> FALSE] ELSE Run(after[n - 1], texts[n])
  IN after[Len(texts)]

MeetsOrphan(texts) == Session(texts).orphan

(* The statements of the first n batches as written, and as they ship: a   *)
(* part that is only comments runs none.                                   *)
Written(n) == [m \in 1..n |-> script[m].tx]

RunsOf(b, form) == IF b.type # "COMMENT" /\ form \in {"sql", "raw"} THEN b.tx ELSE <<>>
Shipped == [p \in DOMAIN parts |-> RunsOf(script[parts[p].batch], parts[p].form)]

(* Running the output never meets a COMMIT or ROLLBACK without a           *)
(* transaction (T-SQL errors 3902 and 3903) if the script itself did not.  *)
NoOrphanCloser ==
  pc = "fallback" /\ MeetsOrphan(Shipped) => MeetsOrphan(Written(i))

(* QUOTED_IDENTIFIER after a text: its last toggle, or how it was before;  *)
(* and after the first n batches, in a session that starts with it on.     *)
Toggles(items) == {j \in DOMAIN items : items[j] # "quote"}

QuotesOff(items, before) ==
  IF Toggles(items) = {} THEN before ELSE items[Max(Toggles(items))] = "off"

SessionQuotesOff(n) ==
  LET toggling == {m \in 1..n : Toggles(script[m].quoting) # {}}
  IN IF toggling = {} THEN FALSE ELSE QuotesOff(script[Max(toggling)].quoting, FALSE)

(* Double quotes are read as the session that runs the script reads them:  *)
(* strings under QUOTED_IDENTIFIER OFF, identifiers under ON.              *)
QuotesReadAsInSession ==
  pc = "route" /\ SourceTsql =>
    \A j \in DOMAIN B.quoting :
      B.quoting[j] = "quote" =>
        QuotesOff(SubSeq(B.quoting, 1, j), SessionQuotesOff(i - 1)) = qiOff

(* The batches these two are about.  A batch toggles QUOTED_IDENTIFIER one *)
(* way only, ahead of the quotes it reads, and a blank one not at all: the *)
(* loop keeps one flag to a batch.                                         *)
TogglesAhead ==
  \A b \in Batches :
    /\ ~({"on", "off"} \subseteq Entries(b.quoting))
    /\ \A j, l \in DOMAIN b.quoting :
         j < l /\ b.quoting[j] = "quote" => b.quoting[l] = "quote"
    /\ b.blank => Toggles(b.quoting) = {}

(* A batch holds at most one statement; one that begins or ends a          *)
(* transaction is a batch the loop tracks, closes the whole transaction,   *)
(* parses unless it opens one, and is not turned into a block comment.     *)
Moves(b) == b.tx # <<>> /\ b.tx[1] # "other"

OneStatementEach ==
  \A b \in Batches :
    /\ Len(b.tx) <= 1
    /\ Moves(b) =>
         /\ b.tx[1] # "rollback_to"
         /\ ~b.blank /\ b.type \notin {"PROCEDURAL", "COMMENT"}
         /\ b.tx[1] # "begin" => b.parses
         /\ \A r \in Pipeline(b) : r.form # "block"

(* Every batch that is not blank has exactly one part, and the parts are   *)
(* in script order.                                                        *)
EveryBatchEmitted ==
  pc = "done" =>
    /\ {parts[p].batch : p \in DOMAIN parts} =
         {n \in DOMAIN script : ~script[n].blank \/ script[n].type = "COMMENT"}
    /\ \A p, q \in DOMAIN parts : p < q => parts[p].batch < parts[q].batch

(* What is filed stays: a warning is never removed or reworded, a code     *)
(* once given never changes, an unsupported entry never disappears.        *)
Extends(old, new) ==
  /\ Len(new) >= Len(old)
  /\ \A n \in DOMAIN old :
       /\ new[n].msg = old[n].msg
       /\ old[n].code # NoCode => new[n].code = old[n].code
ReportGrows ==
  /\ Extends(allWarnings, allWarnings')
  /\ Entries(allUnsupported) \subseteq Entries(allUnsupported')
ReportOnlyGrows == [][ReportGrows]_vars

(* A transpilation ends.                                                   *)
Terminates == <>(pc = "done")

=============================================================================
