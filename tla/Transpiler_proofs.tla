-------------------------- MODULE Transpiler_proofs --------------------------
(* Machine-checked proofs about the batch loop (module Transpiler), for    *)
(* any script, any pipeline and any table of texts, shingles and codes;    *)
(* and, at the end, about the pipelines of module BatchPipelines.  LossInv *)
(* and RegistrationInv are the inductive strengthenings of                 *)
(* CarriersMirrored and DroppedBatchReported.                              *)
EXTENDS TranspilerPromise, BatchPipelines, FiniteSetTheorems, NaturalsInduction, WellFoundedInduction, TLAPS

(* A non-empty set of numbers has a least one.                             *)
LEMMA SomeLeast ==
  ASSUME NEW T \in SUBSET Nat, T # {}
  PROVE  \E m \in T : \A j \in T : m <= j
<1> DEFINE R == {ss \in Nat \X Nat : ss[1] < ss[2]}
<1>1. PICK x \in T : \A y \in T : ~(<<y, x>> \in R)
  <2> HIDE DEF R
  <2>1. IsWellFoundedOn(R, Nat)
    BY NatLessThanWellFounded DEF OpToRel, R
  <2>2. QED
    BY <2>1, WFMin
<1>2. ASSUME NEW y \in T PROVE x <= y
  <2>1. x \in Nat /\ y \in Nat /\ ~(<<y, x>> \in R)
    BY <1>1
  <2>2. ~(y < x)
    BY <2>1
  <2>3. QED
    BY <2>1, <2>2
<1>3. QED
  BY <1>2

(* A function on 1..n is a sequence of length n.                           *)
LEMMA FunctionIsSeq ==
  ASSUME NEW S, NEW n \in Nat, NEW f \in [1..n -> S]
  PROVE  f \in Seq(S) /\ Len(f) = n
OBVIOUS

(* The domain, length and elements of a sequence.                          *)
LEMMA SeqIsFunction ==
  ASSUME NEW S, NEW s \in Seq(S)
  PROVE  Len(s) \in Nat /\ DOMAIN s = 1..Len(s) /\ \A n \in DOMAIN s : s[n] \in S
OBVIOUS

(* Stamping a code keeps the warnings and their number.                    *)
LEMMA StampedIsSeq ==
  ASSUME NEW ws \in Seq(Filed), C \in Carrier
  PROVE  Stamped(ws) \in Seq(Filed) /\ Len(Stamped(ws)) = Len(ws)
<1>1. \A n \in 1..Len(ws) : ws[n] \in Filed
  BY SeqIsFunction
<1>2. ASSUME NEW n \in 1..Len(ws)
      PROVE  [ws[n] EXCEPT !.code = C.code] \in Filed
  BY <1>1 DEF Filed, Carrier
<1>3. Stamped(ws) \in [1..Len(ws) -> Filed]
  BY <1>1, <1>2, SeqIsFunction DEF Stamped
<1>4. QED
  BY <1>3, FunctionIsSeq, SeqIsFunction

(* Filing the warnings of a batch keeps their number.                      *)
LEMMA FileIsSeq ==
  ASSUME NEW ws \in Seq(Warning), i \in Nat
  PROVE  File(ws) \in Seq(Filed) /\ Len(File(ws)) = Len(ws)
<1>1. \A n \in 1..Len(ws) : ws[n] \in Warning
  BY SeqIsFunction
<1>2. File(ws) \in [1..Len(ws) -> Filed]
  BY <1>1, SeqIsFunction DEF File, Filed, Warning
<1>3. QED
  BY <1>2, FunctionIsSeq, SeqIsFunction

(* The generic procedural codes keep the warnings and their number.        *)
LEMMA WithFallbackIsSeq ==
  ASSUME NEW ws \in Seq(Filed), NEW gs, gs = [n \in DOMAIN ws |-> WithFallback(ws[n])]
  PROVE  gs \in Seq(Filed) /\ Len(gs) = Len(ws)
<1>1. \A n \in 1..Len(ws) : ws[n] \in Filed
  BY SeqIsFunction
<1>2. ASSUME NEW w \in Filed PROVE WithFallback(w) \in Filed
  <2>1. {"1230", "1231"} \subseteq Codes
    BY CodesAssumption
  <2>2. QED
    BY <2>1 DEF WithFallback, FallbackCode, Filed
<1>3. gs \in [1..Len(ws) -> Filed]
  BY <1>1, <1>2, SeqIsFunction
<1>4. QED
  BY <1>3, FunctionIsSeq, SeqIsFunction

(* Inside the loop body the index stays in the script.                     *)
LEMMA CurrentBatch ==
  ASSUME TypeOK, i <= Len(script)
  PROVE  B \in Batches /\ B.type \in BatchTypes
<1>1. script \in Seq(Batches) /\ i \in 1..Len(script)
  BY InputsAssumption, SeqIsFunction DEF TypeOK
<1>2. B \in Batches
  BY <1>1, SeqIsFunction DEF B
<1>3. Shape(B) \in BatchShape
  BY <1>2, InputsAssumption
<1>4. B.type \in BatchTypes
  BY <1>3 DEF Shape, BatchShape
<1>5. QED
  BY <1>2, <1>4

(* The k-th carrier is one while any is left.                              *)
LEMMA CurrentCarrier ==
  ASSUME TypeOK, k <= Len(res.carriers)
  PROVE  C \in Carrier /\ C.frag \in Texts
<1>1. res.carriers \in Seq(Carrier) /\ k \in 1..Len(res.carriers)
  BY DEF TypeOK, Result
<1>2. C \in Carrier
  BY <1>1, SeqIsFunction DEF C
<1>3. QED
  BY <1>2 DEF Carrier

(* The carriers and warnings the loop itself writes are typed.             *)
LEMMA LiteralsTyped ==
  /\ NoResult \in Result
  /\ [frag |-> GateText, code |-> "1151"] \in Carrier
  /\ [frag |-> DivergeText, code |-> "1207"] \in Carrier
  /\ [frag |-> CloserText, code |-> "1233"] \in Carrier
  /\ Warn(GateText, "validity_gate", NoCode) \in Warning
  /\ Warn(DivergeText, "value_divergence", NoCode) \in Warning
  /\ Warn(CloserText, "lossy_conversion", "1233") \in Warning
<1>1. NoResult \in Result
  BY DEF NoResult, Result, Forms
<1>2. QED
  BY <1>1, InputsAssumption DEF Carrier, Warning, Warn

(* The loop starts typed.                                                  *)
LEMMA TypeInit == Init => TypeOK
<1> SUFFICES ASSUME Init PROVE TypeOK
  OBVIOUS
<1>1. script \in Scripts /\ i \in Nat \ {0} /\ res \in Result
  BY LiteralsTyped DEF Init
<1>2. pc \in Stages /\ (pc \notin {"next", "done"} => i <= Len(script))
  BY DEF Init, Stages
<1>3. k \in Nat \ {0}
  BY DEF Init
<1>4. qiOff \in BOOLEAN
  BY DEF Init
<1>5. /\ txStack \in Seq(BOOLEAN)
      /\ parts \in Seq(Part)
      /\ allWarnings \in Seq(Filed)
      /\ allUnsupported \in Seq(Texts)
  BY DEF Init
<1>6. reconciled \in SUBSET Texts /\ unsupSeen \in SUBSET Texts
  BY DEF Init
<1>7. QED
  BY <1>1, <1>2, <1>3, <1>4, <1>5, <1>6 DEF TypeOK

(* Every step of the loop keeps the types.                                 *)
LEMMA TypeNext == TypeOK /\ [Next]_vars => TypeOK'
<1> SUFFICES ASSUME TypeOK, [Next]_vars PROVE TypeOK'
  OBVIOUS
<1>1. CASE SkipBatch
  BY <1>1 DEF SkipBatch, TypeOK, reportVars
<1>2. CASE StartBatch
  <2>1. qiOff' \in BOOLEAN
    BY <1>2 DEF StartBatch, QuotedIdentifier, TypeOK
  <2>2. QED
    BY <1>2, <2>1 DEF StartBatch, TypeOK, reportVars, Stages
<1>3. CASE RouteComment
  BY <1>3, LiteralsTyped DEF RouteComment, TypeOK, reportVars, Stages
<1>4. CASE RoutePipeline
  <2>1. res' \in Result
    BY <1>4, CurrentBatch, PipelineAssumption DEF RoutePipeline, TypeOK
  <2>2. QED
    BY <1>4, <2>1 DEF RoutePipeline, TypeOK, reportVars, Stages
<1>5. CASE GateReject
  <2>1. res' \in Result
    BY <1>5, LiteralsTyped, InputsAssumption DEF GateReject, TypeOK, Result, Forms
  <2>2. QED
    BY <1>5, <2>1 DEF GateReject, TypeOK, reportVars, Stages
<1>6. CASE GateDiverge
  <2> DEFINE lead == <<[frag |-> DivergeText, code |-> "1207"]>>
             warn == Warn(DivergeText, "value_divergence", NoCode)
  <2>1. res' \in Result
    <3>1. lead \in Seq(Carrier) /\ warn \in Warning
      BY LiteralsTyped
    <3>2. lead \o res.carriers \in Seq(Carrier)
      BY <3>1 DEF TypeOK, Result
    <3>3. Append(res.warnings, warn) \in Seq(Warning)
      BY <3>1 DEF TypeOK, Result
    <3> HIDE DEF lead, warn
    <3>4. res' = [res EXCEPT !.carriers = lead \o @, !.warnings = Append(@, warn)]
      BY <1>6 DEF GateDiverge, lead, warn
    <3>5. QED
      BY <3>2, <3>3, <3>4 DEF TypeOK, Result
  <2>2. QED
    BY <1>6, <2>1 DEF GateDiverge, TypeOK, reportVars, Stages
<1>7. CASE GatePass
  BY <1>7 DEF GatePass, TypeOK, reportVars, Stages
<1>8. CASE TxOpen
  <2>1. txStack' \in Seq(BOOLEAN)
    BY <1>8 DEF TxOpen, TypeOK
  <2>2. QED
    BY <1>8, <2>1 DEF TxOpen, TypeOK, reportVars, Stages
<1>9. CASE TxClose
  <2>1. txStack' \in Seq(BOOLEAN)
    BY <1>9 DEF TxClose, TypeOK, IsCloser, Pop
  <2>2. QED
    BY <1>9, <2>1 DEF TxClose, TypeOK, reportVars, Stages
<1>10. CASE TxDegrade
  <2>1. txStack' \in Seq(BOOLEAN)
    BY <1>10 DEF TxDegrade, TypeOK, IsCloser, Pop
  <2>2. res' \in Result
    BY <1>10, LiteralsTyped, InputsAssumption DEF TxDegrade, TypeOK, Result, Forms
  <2>3. QED
    BY <1>10, <2>1, <2>2 DEF TxDegrade, TypeOK, reportVars, Stages
<1>11. CASE TxNone
  BY <1>11 DEF TxNone, TypeOK, reportVars, Stages
<1>12. CASE EmitPart
  <2>1. parts' \in Seq(Part)
    BY <1>12, CurrentBatch DEF EmitPart, TypeOK, Part, Result, IsCommentOnly
  <2>2. allWarnings' \in Seq(Filed)
    BY <1>12, FileIsSeq DEF EmitPart, TypeOK, Result
  <2>3. allUnsupported' \in Seq(Texts)
    BY <1>12 DEF EmitPart, TypeOK, Result
  <2>4. QED
    BY <1>12, <2>1, <2>2, <2>3 DEF EmitPart, TypeOK, Stages
<1>13. CASE ReconcileKnown
  <2>1. allWarnings' \in Seq(Filed)
    BY <1>13, CurrentCarrier, StampedIsSeq DEF ReconcileKnown, TypeOK
  <2>2. QED
    BY <1>13, <2>1 DEF ReconcileKnown, TypeOK, Stages
<1>14. CASE ReconcileNew
  <2>1. C \in Carrier /\ C.frag \in Texts
    BY <1>14, CurrentCarrier DEF ReconcileNew
  <2>2. Synthesized \in Filed
    BY <2>1, InputsAssumption DEF Synthesized, Filed, Carrier, TypeOK
  <2>3. allWarnings' \in Seq(Filed)
    BY <1>14, <2>1, <2>2, StampedIsSeq DEF ReconcileNew, TypeOK
  <2>4. QED
    BY <1>14, <2>1, <2>3 DEF ReconcileNew, TypeOK, Stages
<1>15. CASE ReconcileEnd
  BY <1>15 DEF ReconcileEnd, TypeOK, reportVars, Stages
<1>16. CASE RegisterUnsupported
  BY <1>16, CurrentCarrier DEF RegisterUnsupported, TypeOK, Stages
<1>17. CASE RegisterEnd
  BY <1>17 DEF RegisterEnd, TypeOK, reportVars, Stages
<1>18. CASE FallbackCodes
  <2>1. allWarnings' \in Seq(Filed)
    BY <1>18, WithFallbackIsSeq DEF FallbackCodes, TypeOK
  <2>2. QED
    BY <1>18, <2>1, LiteralsTyped DEF FallbackCodes, TypeOK, Stages
<1>19. CASE Return
  BY <1>19 DEF Return, TypeOK, reportVars, Stages
<1>20. CASE UNCHANGED vars
  BY <1>20 DEF vars, reportVars, TypeOK
<1>21. QED
  BY <1>1, <1>2, <1>3, <1>4, <1>5, <1>6, <1>7, <1>8, <1>9, <1>10, <1>11, <1>12,
     <1>13, <1>14, <1>15, <1>16, <1>17, <1>18, <1>19, <1>20 DEF Next, Finished

(* Every variable of the batch loop of transpile has its type, for every   *)
(* script, pipeline, set of texts and set of codes.                        *)
THEOREM TypeCorrect == Spec => []TypeOK
BY TypeInit, TypeNext, PTL DEF Spec

-----------------------------------------------------------------------------
(* Stamping rewords nothing and changes no code already given.             *)
LEMMA StampedExtends ==
  ASSUME NEW ws \in Seq(Filed), C \in Carrier
  PROVE  Extends(ws, Stamped(ws))
<1>1. \A n \in 1..Len(ws) : ws[n] \in Filed
  BY SeqIsFunction
<1>2. QED
  BY <1>1, StampedIsSeq, SeqIsFunction DEF Stamped, Extends, Filed

(* Appending warnings leaves those before them alone.                      *)
LEMMA AppendExtends ==
  ASSUME NEW ws \in Seq(Filed), NEW more \in Seq(Filed)
  PROVE  Extends(ws, ws \o more) /\ \A w \in Filed : Extends(ws, Append(ws, w))
BY SeqIsFunction DEF Extends

(* A concatenation keeps the entries of its first sequence.                *)
LEMMA EntriesConcat ==
  ASSUME NEW S, NEW s \in Seq(S), NEW t \in Seq(S)
  PROVE  Entries(s) \subseteq Entries(s \o t)
<1>1. ASSUME NEW n \in 1..Len(s) PROVE s[n] \in Entries(s \o t)
  <2>1. n \in 1..Len(s \o t) /\ (s \o t)[n] = s[n]
    OBVIOUS
  <2>2. QED
    BY <2>1, SeqIsFunction DEF Entries
<1>2. QED
  BY <1>1, SeqIsFunction DEF Entries

(* The entries after an append.                                            *)
LEMMA EntriesAppend ==
  ASSUME NEW S, NEW s \in Seq(S), NEW e \in S
  PROVE  Entries(Append(s, e)) = Entries(s) \cup {e}
<1> DEFINE t == Append(s, e)
<1>1. DOMAIN s = 1..Len(s) /\ DOMAIN t = 1..(Len(s) + 1)
  BY SeqIsFunction
<1>2. t[Len(s) + 1] = e /\ \A n \in 1..Len(s) : t[n] = s[n]
  OBVIOUS
<1>3. Len(s) \in Nat
  OBVIOUS
<1> HIDE DEF t
<1>4. QED
  BY <1>1, <1>2, <1>3 DEF Entries, t

(* Extending twice is extending.                                           *)
LEMMA ExtendsTransitive ==
  ASSUME NEW a \in Seq(Filed), NEW b \in Seq(Filed), NEW c \in Seq(Filed),
         Extends(a, b), Extends(b, c)
  PROVE  Extends(a, c)
<1>1. 1..Len(a) \subseteq 1..Len(b)
  BY SeqIsFunction DEF Extends
<1>2. QED
  BY <1>1, SeqIsFunction DEF Extends

(* The generic codes go to warnings without a code only.                   *)
LEMMA WithFallbackExtends ==
  ASSUME NEW ws \in Seq(Filed), NEW gs, gs = [n \in DOMAIN ws |-> WithFallback(ws[n])]
  PROVE  Extends(ws, gs)
<1>1. \A n \in 1..Len(ws) : ws[n] \in Filed
  BY SeqIsFunction
<1>2. QED
  BY <1>1, WithFallbackIsSeq, SeqIsFunction DEF Extends, WithFallback, Filed

(* One step of the loop only adds to what is reported.                     *)
LEMMA ReportStep == TypeOK /\ [Next]_vars => ReportGrows
<1> SUFFICES ASSUME TypeOK, [Next]_vars PROVE ReportGrows
  OBVIOUS
<1>1. ASSUME UNCHANGED <<allWarnings, allUnsupported>> PROVE ReportGrows
  BY <1>1, SeqIsFunction DEF ReportGrows, Extends, TypeOK
<1>2. CASE EmitPart
  <2>1. File(res.warnings) \in Seq(Filed)
    BY FileIsSeq DEF TypeOK, Result
  <2>2. Extends(allWarnings, allWarnings')
    BY <1>2, <2>1, AppendExtends DEF EmitPart, TypeOK
  <2>3. Entries(allUnsupported) \subseteq Entries(allUnsupported')
    BY <1>2, EntriesConcat DEF EmitPart, TypeOK, Result
  <2>4. QED
    BY <2>2, <2>3 DEF ReportGrows
<1>3. CASE ReconcileKnown
  <2>1. Extends(allWarnings, allWarnings')
    <3>1. Extends(allWarnings, allWarnings)
      BY SeqIsFunction DEF Extends, TypeOK
    <3>2. QED
      BY <1>3, <3>1, CurrentCarrier, StampedExtends DEF ReconcileKnown, TypeOK
  <2>2. QED
    BY <1>3, <2>1 DEF ReconcileKnown, ReportGrows
<1>4. CASE ReconcileNew
  <2>1. C \in Carrier /\ C.frag \in Texts
    BY <1>4, CurrentCarrier DEF ReconcileNew
  <2>2. Synthesized \in Filed
    BY <2>1, InputsAssumption DEF Synthesized, Filed, Carrier, TypeOK
  <2> DEFINE stamped == Stamped(allWarnings)
  <2>3. stamped \in Seq(Filed) /\ Extends(allWarnings, stamped)
    BY <2>1, StampedIsSeq, StampedExtends DEF TypeOK
  <2>4. allWarnings' = stamped \/ allWarnings' = Append(stamped, Synthesized)
    BY <1>4 DEF ReconcileNew
  <2> HIDE DEF stamped
  <2>5. Extends(stamped, Append(stamped, Synthesized))
    BY <2>2, <2>3, AppendExtends
  <2>6. Append(stamped, Synthesized) \in Seq(Filed)
    BY <2>2, <2>3
  <2>7. Extends(allWarnings, allWarnings')
    BY <2>3, <2>4, <2>5, <2>6, ExtendsTransitive DEF TypeOK
  <2>8. QED
    BY <1>4, <2>7 DEF ReconcileNew, ReportGrows
<1>5. CASE RegisterUnsupported
  <2>1. Extends(allWarnings, allWarnings')
    BY <1>5, SeqIsFunction DEF RegisterUnsupported, Extends, TypeOK
  <2>2. Entries(allUnsupported) \subseteq Entries(allUnsupported')
    BY <1>5, CurrentCarrier, EntriesAppend DEF RegisterUnsupported, TypeOK
  <2>3. QED
    BY <2>1, <2>2 DEF ReportGrows
<1>6. CASE FallbackCodes
  BY <1>6, WithFallbackExtends DEF FallbackCodes, TypeOK, ReportGrows
<1>7. QED
  BY <1>1, <1>2, <1>3, <1>4, <1>5, <1>6
  DEF Next, vars, reportVars, Finished, SkipBatch, StartBatch, RouteComment,
      RoutePipeline, GateReject, GateDiverge, GatePass, TxOpen, TxClose, TxDegrade,
      TxNone, ReconcileEnd, RegisterEnd, Return

(* No step of the loop removes or rewords a warning, changes a code once   *)
(* given or removes an unsupported entry, although codes are stamped       *)
(* through shared objects while later batches append.                      *)
THEOREM ReportNeverShrinks == Spec => ReportOnlyGrows
<1>1. TypeOK /\ [Next]_vars => [ReportGrows]_vars
  BY ReportStep
<1>2. QED
  BY <1>1, TypeCorrect, PTL DEF Spec, ReportOnlyGrows

-----------------------------------------------------------------------------
(* The last part is the current batch's while it is being reconciled.      *)
CurrentPart ==
  pc \in {"reconcile", "unsupported"} =>
    /\ parts # <<>>
    /\ parts[Len(parts)].type # "COMMENT"
    /\ parts[Len(parts)].carriers = res.carriers
    /\ parts[Len(parts)].isComment = IsCommentOnly(res.form)

(* Fragments leave the reconciliation in `reconciled': those of the        *)
(* settled parts, and of the current part those before the k-th.           *)
FragmentsReconciled ==
  /\ \A c \in SettledCarriers : c.frag \in reconciled
  /\ pc = "reconcile" =>
       \A j \in DOMAIN res.carriers : j < k => res.carriers[j].frag \in reconciled

ReconciledMirrored == \A f \in reconciled : IsMirrored(f, allWarnings)

LossInv == CurrentPart /\ FragmentsReconciled /\ ReconciledMirrored

PartsExtend ==
  Len(parts) <= Len(parts') /\ \A p \in 1..Len(parts) : parts'[p] = parts[p]

(* A mirrored fragment stays mirrored: warnings are only added, parts      *)
(* only appended.                                                          *)
LEMMA MirrorKept ==
  ASSUME TypeOK, TypeOK', Extends(allWarnings, allWarnings'), PartsExtend,
         NEW f, IsMirrored(f, allWarnings)
  PROVE  IsMirrored(f, allWarnings)'
<1>1. /\ DOMAIN allWarnings = 1..Len(allWarnings) /\ Len(allWarnings) \in Nat
      /\ DOMAIN allWarnings' = 1..Len(allWarnings') /\ Len(allWarnings') \in Nat
      /\ DOMAIN parts = 1..Len(parts) /\ Len(parts) \in Nat
      /\ DOMAIN parts' = 1..Len(parts') /\ Len(parts') \in Nat
  BY SeqIsFunction DEF TypeOK
<1>2. /\ DOMAIN allWarnings \subseteq DOMAIN allWarnings'
      /\ DOMAIN parts \subseteq DOMAIN parts'
  BY <1>1 DEF Extends, PartsExtend
<1>3. CASE WarningCovers(f, Messages(allWarnings))
  <2>1. Messages(allWarnings) \subseteq Messages(allWarnings')
    BY <1>2 DEF Messages, Extends
  <2>2. QED
    BY <1>3, <2>1 DEF IsMirrored, WarningCovers
<1>4. ASSUME NEW p \in DOMAIN parts, NEW c \in Entries(parts[p].carriers),
             c.frag = f, c.code # NoCode,
             NEW n \in DOMAIN allWarnings, allWarnings[n].code = c.code
      PROVE  IsMirrored(f, allWarnings)'
  <2>1. p \in DOMAIN parts' /\ c \in Entries(parts'[p].carriers)
    BY <1>1, <1>2 DEF PartsExtend
  <2>2. n \in DOMAIN allWarnings' /\ allWarnings'[n].code = c.code
    BY <1>2, <1>4 DEF Extends
  <2>3. QED
    BY <1>4, <2>1, <2>2 DEF IsMirrored
<1>5. QED
  BY <1>3, <1>4 DEF IsMirrored

(* The settled carriers change with the parts or at the end of a           *)
(* reconciliation.                                                         *)
LEMMA SettledUnchanged ==
  ASSUME UNCHANGED parts, (pc = "reconcile") <=> (pc' = "reconcile")
  PROVE  SettledCarriers' = SettledCarriers
BY DEF SettledCarriers, IsSettled

(* A text covers itself: it shares its own three-word runs.                *)
LEMMA CoversItself == \A t \in Texts : \A ws : t \in ws => WarningCovers(t, ws)
BY ShinglesAssumption DEF WarningCovers

(* A new fragment is mirrored by the warning it is reported under: one     *)
(* that covers it, one with its code, or the synthesized one.              *)
LEMMA NewIsMirrored ==
  ASSUME TypeOK, TypeOK', CurrentPart, ReconcileNew, NEW f, f = C.frag
  PROVE  IsMirrored(f, allWarnings)'
<1> DEFINE stamped == Stamped(allWarnings)
<1>1. C \in Carrier /\ f \in Texts
  BY CurrentCarrier DEF ReconcileNew
<1>2. stamped \in Seq(Filed)
  BY <1>1, StampedIsSeq DEF TypeOK
<1>3. parts' = parts
  BY DEF ReconcileNew
<1>4. \E p \in DOMAIN parts : C \in Entries(parts[p].carriers)
  <2>1. Len(parts) \in DOMAIN parts
    BY DEF CurrentPart, ReconcileNew, TypeOK
  <2>2. k \in DOMAIN res.carriers
    BY DEF ReconcileNew, TypeOK, Result
  <2>3. C \in Entries(res.carriers)
    BY <2>2 DEF C, Entries
  <2>4. QED
    BY <2>1, <2>3 DEF CurrentPart, ReconcileNew
<1>5. CASE IsReported(stamped)
  <2>1. allWarnings' = stamped
    BY <1>5 DEF ReconcileNew
  <2>2. CASE WarningCovers(C.frag, Messages(stamped))
    BY <2>1, <2>2 DEF IsMirrored
  <2>3. CASE AlreadyCoded(stamped)
    BY <1>3, <1>4, <2>1, <2>3 DEF IsMirrored, AlreadyCoded
  <2>4. QED
    BY <1>5, <2>2, <2>3 DEF IsReported
<1>6. CASE ~IsReported(stamped)
  <2>1. allWarnings' = Append(stamped, Synthesized)
    BY <1>6 DEF ReconcileNew
  <2>2. Len(allWarnings') \in DOMAIN allWarnings'
        /\ allWarnings'[Len(allWarnings')] = Synthesized
    <3> HIDE DEF stamped
    <3>1. QED
      BY <1>2, <2>1
  <2>3. f \in Messages(allWarnings')
    BY <2>2 DEF Messages, Synthesized
  <2>4. QED
    BY <1>1, <2>3, CoversItself DEF IsMirrored
<1>7. QED
  BY <1>5, <1>6

(* Every step of the loop keeps the reconciliation invariant.              *)
LEMMA LossNext == TypeOK /\ TypeOK' /\ LossInv /\ [Next]_vars => LossInv'
<1> SUFFICES ASSUME TypeOK, TypeOK', LossInv, [Next]_vars PROVE LossInv'
  OBVIOUS
<1> USE DEF LossInv
<1>0. Extends(allWarnings, allWarnings')
  BY ReportStep DEF ReportGrows
<1>1. ASSUME UNCHANGED <<parts, reconciled>>,
             (pc = "reconcile") <=> (pc' = "reconcile"),
             pc' \in {"reconcile", "unsupported"} => UNCHANGED <<pc, res>>,
             pc = "reconcile" => UNCHANGED k
      PROVE  LossInv'
  <2>1. CurrentPart'
    BY <1>1 DEF CurrentPart, IsCommentOnly
  <2>2. FragmentsReconciled'
    BY <1>1, SettledUnchanged DEF FragmentsReconciled
  <2>3. ReconciledMirrored'
    <3>1. PartsExtend
      BY <1>1, SeqIsFunction DEF PartsExtend, TypeOK
    <3>2. QED
      BY <1>0, <1>1, <3>1, MirrorKept DEF ReconciledMirrored
  <2>4. QED
    BY <2>1, <2>2, <2>3
<1>2. CASE EmitPart
  <2> DEFINE part == [batch |-> i, type |-> B.type, form |-> res.form,
                      carriers |-> res.carriers,
                      isComment |-> B.type = "COMMENT" \/ IsCommentOnly(res.form)]
  <2>1. /\ parts' = Append(parts, part)
        /\ Len(parts') = Len(parts) + 1 /\ Len(parts) \in Nat
        /\ parts'[Len(parts')] = part
        /\ \A p \in 1..Len(parts) : parts'[p] = parts[p]
    BY <1>2 DEF EmitPart, TypeOK
  <2>2. DOMAIN parts = 1..Len(parts) /\ DOMAIN parts' = 1..(Len(parts) + 1)
    BY <2>1, SeqIsFunction DEF TypeOK
  <2>3. CurrentPart'
    <3>1. B.type # "COMMENT" => parts'[Len(parts')].isComment = IsCommentOnly(res.form)'
      BY <1>2, <2>1 DEF EmitPart, IsCommentOnly
    <3>2. QED
      BY <1>2, <2>1, <3>1 DEF EmitPart, CurrentPart
  <2>4. \A p \in DOMAIN parts' : IsSettled(p)' => p \in DOMAIN parts /\ IsSettled(p)
    BY <1>2, <2>1, <2>2 DEF EmitPart, IsSettled
  <2>5. SettledCarriers' \subseteq SettledCarriers
    BY <2>1, <2>2, <2>4 DEF SettledCarriers
  <2>6. FragmentsReconciled'
    <3>1. k' = 1 /\ reconciled' = reconciled
      BY <1>2 DEF EmitPart
    <3>2. \A j \in DOMAIN res.carriers : j \in Nat \ {0}
      BY SeqIsFunction DEF TypeOK, Result
    <3>3. res' = res
      BY <1>2 DEF EmitPart
    <3>4. QED
      BY <2>5, <3>1, <3>2, <3>3 DEF FragmentsReconciled
  <2>7. ReconciledMirrored'
    <3>1. PartsExtend /\ reconciled' = reconciled
      BY <1>2, <2>1 DEF EmitPart, PartsExtend
    <3>2. QED
      BY <1>0, <3>1, MirrorKept DEF ReconciledMirrored
  <2>8. QED
    BY <2>3, <2>6, <2>7
<1>3. ASSUME ReconcileKnown \/ ReconcileNew PROVE LossInv'
  <2>1. /\ pc = "reconcile" /\ pc' = pc /\ parts' = parts /\ res' = res
        /\ k <= Len(res.carriers) /\ k' = k + 1 /\ k \in Nat \ {0}
        /\ reconciled' = reconciled \cup {C.frag}
    BY <1>3 DEF ReconcileKnown, ReconcileNew, TypeOK
  <2>2. CurrentPart'
    BY <2>1 DEF CurrentPart, IsCommentOnly
  <2>3. FragmentsReconciled'
    <3>1. \A j \in DOMAIN res.carriers : j \in Nat
      BY SeqIsFunction DEF TypeOK, Result
    <3>3. \A j \in DOMAIN res.carriers : j < k + 1 => j < k \/ j = k
      BY <2>1, <3>1
    <3>2. SettledCarriers' = SettledCarriers
      BY <2>1, SettledUnchanged
    <3>4. QED
      BY <2>1, <3>2, <3>3 DEF FragmentsReconciled, C
  <2>4. PartsExtend
    BY <2>1, SeqIsFunction DEF PartsExtend, TypeOK
  <2>5. ASSUME NEW f \in reconciled PROVE IsMirrored(f, allWarnings)'
    BY <1>0, <2>4, <2>5, MirrorKept DEF ReconciledMirrored
  <2> PICK f : f = C.frag
    OBVIOUS
  <2>6. IsMirrored(f, allWarnings)'
    <3>1. CASE f \in reconciled
      BY <2>5, <3>1
    <3>2. CASE f \notin reconciled
      BY <1>3, <3>2, NewIsMirrored DEF ReconcileKnown
    <3>3. QED
      BY <3>1, <3>2
  <2>7. QED
    BY <2>1, <2>2, <2>3, <2>5, <2>6 DEF ReconciledMirrored
<1>4. CASE ReconcileEnd
  <2>1. /\ pc = "reconcile" /\ k > Len(res.carriers) /\ k \in Nat
        /\ pc' \in {"unsupported", "fallback"}
        /\ UNCHANGED <<parts, res, reconciled, allWarnings>>
    BY <1>4 DEF ReconcileEnd, reportVars, TypeOK
  <2>2. CurrentPart'
    BY <2>1 DEF CurrentPart, IsCommentOnly
  <2>3. \A c \in Entries(res.carriers) : c.frag \in reconciled
    <3>1. \A j \in DOMAIN res.carriers : j < k
      BY <2>1, SeqIsFunction DEF TypeOK, Result
    <3>2. QED
      BY <2>1, <3>1 DEF FragmentsReconciled, Entries
  <2>4. \A p \in DOMAIN parts : IsSettled(p)' => p = Len(parts) \/ IsSettled(p)
    <3>1. \A p \in DOMAIN parts : p \in Nat /\ p <= Len(parts) /\ Len(parts) \in Nat
      BY SeqIsFunction DEF TypeOK
    <3>2. QED
      BY <2>1, <3>1 DEF IsSettled
  <2>5. \A c \in SettledCarriers' : c \in SettledCarriers \/ c \in Entries(res.carriers)
    BY <2>1, <2>4 DEF SettledCarriers, CurrentPart
  <2>6. FragmentsReconciled'
    BY <2>1, <2>3, <2>5 DEF FragmentsReconciled
  <2>7. ReconciledMirrored'
    BY <2>1 DEF ReconciledMirrored, IsMirrored
  <2>8. QED
    BY <2>2, <2>6, <2>7
<1>5. CASE RegisterUnsupported
  BY <1>1, <1>5 DEF RegisterUnsupported
<1>6. CASE RegisterEnd
  BY <1>1, <1>6 DEF RegisterEnd, reportVars
<1>7. CASE FallbackCodes
  BY <1>1, <1>7 DEF FallbackCodes
<1>8. CASE UNCHANGED vars
  BY <1>1, <1>8 DEF vars, reportVars
<1>9. QED
  BY <1>1, <1>2, <1>3, <1>4, <1>5, <1>6, <1>7, <1>8
  DEF Next, reportVars, Finished, SkipBatch, StartBatch, RouteComment,
      RoutePipeline, GateReject, GateDiverge, GatePass, TxOpen, TxClose, TxDegrade,
      TxNone, Return

(* Every carrier of a reconciled batch is mirrored by a warning: the       *)
(* reconciliation loop of transpile, for every script and pipeline.        *)
THEOREM CarriersAreMirrored == Spec => []CarriersMirrored
<1>1. Init => LossInv
  BY DEF Init, LossInv, CurrentPart, FragmentsReconciled, ReconciledMirrored,
         SettledCarriers
<1>2. TypeOK /\ TypeOK' /\ LossInv /\ [Next]_vars => LossInv'
  BY LossNext
<1>3. LossInv => CarriersMirrored
  BY DEF LossInv, FragmentsReconciled, ReconciledMirrored, CarriersMirrored
<1>4. QED
  BY <1>1, <1>2, <1>3, TypeCorrect, PTL DEF Spec

-----------------------------------------------------------------------------
(* What the registration of a comment-only batch has covered so far.       *)
IsUnsupported(f) == WarningCovers(f, Entries(allUnsupported))

RegistrationInv ==
  /\ CurrentPart
  /\ \A f \in unsupSeen : IsUnsupported(f)
  /\ pc = "unsupported" =>
       \A j \in DOMAIN res.carriers : j < k => IsUnsupported(res.carriers[j].frag)
  /\ DroppedBatchReported

(* An entry that covers a fragment stays in allUnsupported.                *)
LEMMA UnsupportedKept ==
  ASSUME TypeOK, [Next]_vars, NEW f, IsUnsupported(f)
  PROVE  IsUnsupported(f)'
BY ReportStep DEF ReportGrows, IsUnsupported, WarningCovers

(* Every step of the loop keeps the registration invariant.                *)
LEMMA RegistrationNext ==
  TypeOK /\ TypeOK' /\ LossInv' /\ RegistrationInv /\ [Next]_vars => RegistrationInv'
<1> SUFFICES ASSUME TypeOK, TypeOK', CurrentPart', RegistrationInv, [Next]_vars
             PROVE  RegistrationInv'
  BY DEF LossInv
<1>0. DOMAIN parts = 1..Len(parts) /\ Len(parts) \in Nat
  BY SeqIsFunction DEF TypeOK
<1> DEFINE Done(p) == /\ IsSettled(p) /\ parts[p].isComment
                      /\ p < Len(parts) \/ pc # "unsupported"
           Covered(p) == \A c \in Entries(parts[p].carriers) : IsUnsupported(c.frag)
<1>a. DroppedBatchReported <=> \A p \in DOMAIN parts : Done(p) => Covered(p)
  BY DEF DroppedBatchReported, IsUnsupported
<1>b. DroppedBatchReported' <=> \A p \in DOMAIN parts' : Done(p)' => Covered(p)'
  BY DEF DroppedBatchReported, IsUnsupported
<1>c. ASSUME NEW p \in DOMAIN parts, parts'[p] = parts[p], Covered(p)
      PROVE  Covered(p)'
  BY <1>c, UnsupportedKept
<1> HIDE DEF Done, Covered
<1>1. ASSUME UNCHANGED <<parts, unsupSeen>>,
             \A p \in DOMAIN parts : Done(p)' => Done(p),
             pc' = "unsupported" => UNCHANGED <<pc, res, k>>
      PROVE  RegistrationInv'
  <2>1. DroppedBatchReported'
    BY <1>1, <1>a, <1>b, <1>c DEF RegistrationInv
  <2>2. \A f \in unsupSeen' : IsUnsupported(f)'
    BY <1>1, UnsupportedKept DEF RegistrationInv
  <2>3. (pc = "unsupported" =>
           \A j \in DOMAIN res.carriers : j < k => IsUnsupported(res.carriers[j].frag))'
    <3> SUFFICES ASSUME pc' = "unsupported"
                 PROVE  (\A j \in DOMAIN res.carriers :
                           j < k => IsUnsupported(res.carriers[j].frag))'
      OBVIOUS
    <3>1. pc = "unsupported" /\ res' = res /\ k' = k
      BY <1>1
    <3>2. ASSUME NEW j \in DOMAIN res.carriers, j < k
          PROVE  IsUnsupported(res.carriers[j].frag)'
      <4> PICK f : f = res.carriers[j].frag
        OBVIOUS
      <4>1. IsUnsupported(f)
        BY <3>1, <3>2 DEF RegistrationInv
      <4>2. IsUnsupported(f)'
        BY <4>1, UnsupportedKept
      <4>3. QED
        BY <3>1, <4>2
    <3>3. QED
      BY <3>1, <3>2
  <2>4. CurrentPart'
    OBVIOUS
  <2>5. QED
    BY <2>1, <2>2, <2>3, <2>4 DEF RegistrationInv
<1>2. ASSUME UNCHANGED <<parts, unsupSeen>>,
             pc \notin {"reconcile", "unsupported"},
             pc' # "unsupported"
      PROVE  RegistrationInv'
  <2>1. \A p \in DOMAIN parts : Done(p)' => Done(p)
    BY <1>2 DEF Done, IsSettled
  <2>2. QED
    BY <1>1, <1>2, <2>1
<1>3. CASE EmitPart
  <2>1. UNCHANGED unsupSeen /\ pc = "emit" /\ pc' # "unsupported"
    BY <1>3 DEF EmitPart
  <2>2. /\ Len(parts') = Len(parts) + 1
        /\ \A p \in 1..Len(parts) : parts'[p] = parts[p]
        /\ DOMAIN parts' = 1..(Len(parts) + 1)
    BY <1>3, SeqIsFunction DEF EmitPart, TypeOK
  <2>3. \A p \in DOMAIN parts' : Done(p)' => p \in DOMAIN parts /\ Done(p)
    BY <1>0, <1>3, <2>2 DEF EmitPart, Done, IsSettled
  <2>4. DroppedBatchReported'
    BY <1>0, <1>a, <1>b, <1>c, <2>2, <2>3 DEF RegistrationInv
  <2>5. QED
    BY <2>1, <2>4, UnsupportedKept DEF RegistrationInv
<1>4. CASE ReconcileKnown \/ ReconcileNew
  <2>1. UNCHANGED <<parts, unsupSeen, pc>> /\ pc = "reconcile"
    BY <1>4 DEF ReconcileKnown, ReconcileNew
  <2>2. \A p \in DOMAIN parts : Done(p)' => Done(p)
    BY <2>1 DEF Done, IsSettled
  <2>3. QED
    BY <1>1, <2>1, <2>2
<1>5. CASE ReconcileEnd
  <2>1. /\ pc = "reconcile" /\ k' = 1 /\ UNCHANGED <<parts, unsupSeen, res>>
        /\ pc' = IF IsCommentOnly(res.form) THEN "unsupported" ELSE "fallback"
    BY <1>5 DEF ReconcileEnd, reportVars
  <2>2. parts[Len(parts)].isComment = IsCommentOnly(res.form)
    BY <2>1 DEF CurrentPart, RegistrationInv
  <2>3. \A p \in DOMAIN parts : Done(p)' => Done(p)
    BY <1>0, <2>1, <2>2 DEF Done, IsSettled
  <2>4. DroppedBatchReported'
    BY <2>1, <2>3, <1>a, <1>b, <1>c DEF RegistrationInv
  <2>5. \A j \in DOMAIN res.carriers : ~(j < 1)
    BY SeqIsFunction DEF TypeOK, Result
  <2>6. QED
    BY <2>1, <2>4, <2>5, UnsupportedKept DEF RegistrationInv
<1>6. CASE RegisterUnsupported
  <2>1. /\ pc = "unsupported" /\ k <= Len(res.carriers) /\ k' = k + 1
        /\ k \in Nat /\ UNCHANGED <<pc, res, parts>>
    BY <1>6 DEF RegisterUnsupported, TypeOK
  <2> PICK f : f = C.frag
    OBVIOUS
  <2>2. IsUnsupported(f)'
    <3>1. CASE IsUnsupported(f)
      BY <3>1, UnsupportedKept
    <3>2. CASE ~IsUnsupported(f)
      <4>1. f \notin unsupSeen
        BY <3>2 DEF RegistrationInv
      <4>2. allUnsupported' = Append(allUnsupported, f) /\ f \in Texts
        BY <1>6, <3>2, <4>1, CurrentCarrier
        DEF RegisterUnsupported, IsUnregistered, IsUnsupported
      <4>3. f \in Entries(allUnsupported')
        BY <4>2, EntriesAppend DEF TypeOK
      <4>4. QED
        BY <4>2, <4>3, CoversItself DEF IsUnsupported
    <3>3. QED
      BY <3>1, <3>2
  <2>3. unsupSeen' \subseteq unsupSeen \cup {f}
    BY <1>6 DEF RegisterUnsupported
  <2>4. \A j \in DOMAIN res.carriers : j < k + 1 => IsUnsupported(res.carriers[j].frag)'
    <3>1. \A j \in DOMAIN res.carriers : j < k + 1 => j < k \/ j = k
      <4>1. \A j \in DOMAIN res.carriers : j \in Nat
        BY SeqIsFunction DEF TypeOK, Result
      <4>2. QED
        BY <2>1, <4>1
    <3>2. QED
      BY <2>1, <2>2, <3>1, UnsupportedKept DEF RegistrationInv, C
  <2>5. DroppedBatchReported'
    <3>1. \A p \in DOMAIN parts : Done(p)' => Done(p)
      BY <2>1 DEF Done, IsSettled
    <3>2. QED
      BY <2>1, <3>1, <1>a, <1>b, <1>c DEF RegistrationInv
  <2>6. QED
    BY <2>1, <2>2, <2>3, <2>4, <2>5, UnsupportedKept DEF RegistrationInv
<1>7. CASE RegisterEnd
  <2>1. /\ pc = "unsupported" /\ pc' = "fallback" /\ k > Len(res.carriers) /\ k \in Nat
        /\ UNCHANGED <<parts, unsupSeen, res, allUnsupported>>
    BY <1>7 DEF RegisterEnd, reportVars, TypeOK
  <2>2. Covered(Len(parts))
    <3>1. \A j \in DOMAIN res.carriers : j < k
      BY <2>1, SeqIsFunction DEF TypeOK, Result
    <3>2. QED
      BY <2>1, <3>1 DEF Covered, RegistrationInv, CurrentPart, Entries
  <2>3. \A p \in DOMAIN parts : Done(p)' => Done(p) \/ p = Len(parts)
    BY <1>0, <2>1 DEF Done, IsSettled
  <2>4. DroppedBatchReported'
    BY <2>1, <2>2, <2>3, <1>a, <1>b, <1>c DEF RegistrationInv
  <2>5. QED
    BY <2>1, <2>4, UnsupportedKept DEF RegistrationInv
<1>8. CASE UNCHANGED vars
  BY <1>8 DEF vars, reportVars, RegistrationInv, DroppedBatchReported, IsSettled,
              IsUnsupported
<1>9. QED
  BY <1>2, <1>3, <1>4, <1>5, <1>6, <1>7, <1>8
  DEF Next, reportVars, Finished, SkipBatch, StartBatch, RouteComment,
      RoutePipeline, GateReject, GateDiverge, GatePass, TxOpen, TxClose, TxDegrade,
      TxNone, FallbackCodes, Return

(* A batch reduced to `--' carriers is reported as unsupported.            *)
THEOREM DroppedIsReported == Spec => []DroppedBatchReported
<1>1. Init => LossInv /\ RegistrationInv
  BY DEF Init, LossInv, CurrentPart, FragmentsReconciled, ReconciledMirrored,
         SettledCarriers, RegistrationInv, DroppedBatchReported
<1>2. TypeOK /\ TypeOK' /\ LossInv /\ RegistrationInv /\ [Next]_vars
        => LossInv' /\ RegistrationInv'
  BY LossNext, RegistrationNext
<1>3. RegistrationInv => DroppedBatchReported
  BY DEF RegistrationInv
<1>4. QED
  BY <1>1, <1>2, <1>3, TypeCorrect, PTL DEF Spec

-----------------------------------------------------------------------------

(* What has been emitted: the batches before the current one that are not  *)
(* skipped and, once EmitPart has run, the current one.                    *)
HasEmitted == pc \in {"reconcile", "unsupported", "fallback"}
Emitted ==
  {n \in 1..(i - 1) : ~IsSkipped(script[n])} \cup (IF HasEmitted THEN {i} ELSE {})

EmissionInv ==
  /\ pc = "done" => i > Len(script)
  /\ i <= Len(script) + 1
  /\ pc \notin {"next", "done"} => ~IsSkipped(B)
  /\ {parts[p].batch : p \in DOMAIN parts} = Emitted
  /\ \A p, q \in DOMAIN parts : p < q => parts[p].batch < parts[q].batch

(* Every step of the loop keeps the emission invariant.                    *)
LEMMA EmissionNext == TypeOK /\ EmissionInv /\ [Next]_vars => EmissionInv'
<1> SUFFICES ASSUME TypeOK, EmissionInv, [Next]_vars PROVE EmissionInv'
  OBVIOUS
<1>0. /\ i \in Nat \ {0} /\ Len(script) \in Nat /\ script \in Seq(Batches)
      /\ DOMAIN parts = 1..Len(parts) /\ Len(parts) \in Nat
  BY InputsAssumption, SeqIsFunction DEF TypeOK
<1>1. CASE SkipBatch
  <2>1. /\ i <= Len(script) /\ i' = i + 1 /\ pc = "next" /\ pc' = "next"
        /\ script' = script /\ parts' = parts /\ IsSkipped(script[i])
    BY <1>1 DEF SkipBatch, B
  <2>2. Emitted' = Emitted
    <3>1. 1..(i' - 1) = (1..(i - 1)) \cup {i}
      BY <1>0, <2>1
    <3>2. QED
      BY <2>1, <3>1 DEF Emitted, HasEmitted, IsSkipped
  <2>3. QED
    BY <1>0, <2>1, <2>2 DEF EmissionInv
<1>2. CASE EmitPart
  <2>1. /\ pc = "emit" /\ HasEmitted' /\ i' = i /\ script' = script
        /\ Len(parts') = Len(parts) + 1
        /\ parts'[Len(parts) + 1].batch = i
        /\ \A p \in 1..Len(parts) : parts'[p] = parts[p]
        /\ DOMAIN parts' = 1..(Len(parts) + 1)
    BY <1>2, SeqIsFunction DEF EmitPart, HasEmitted, TypeOK
  <2>2. Emitted' = Emitted \cup {i}
    BY <2>1 DEF Emitted, HasEmitted, IsSkipped
  <2>3. {parts'[p].batch : p \in DOMAIN parts'} = {parts[p].batch : p \in DOMAIN parts} \cup {i}
    <3>1. DOMAIN parts' = DOMAIN parts \cup {Len(parts) + 1}
      BY <1>0, <2>1
    <3>2. QED
      BY <1>0, <2>1, <3>1
  <2>4. \A p \in DOMAIN parts : parts[p].batch \in 1..(i - 1)
    BY <2>1 DEF EmissionInv, Emitted, HasEmitted
  <2>5. \A p, q \in DOMAIN parts' : p < q => parts'[p].batch < parts'[q].batch
    BY <1>0, <2>1, <2>4 DEF EmissionInv
  <2>6. QED
    BY <1>2, <2>1, <2>2, <2>3, <2>5 DEF EmissionInv, EmitPart, B, IsSkipped, TypeOK
<1>3. CASE FallbackCodes
  <2>1. /\ pc = "fallback" /\ pc' = "next" /\ i' = i + 1
        /\ script' = script /\ parts' = parts /\ ~IsSkipped(script[i])
        /\ i <= Len(script)
    BY <1>3 DEF FallbackCodes, EmissionInv, B, TypeOK
  <2>2. Emitted' = Emitted
    <3>1. 1..(i' - 1) = (1..(i - 1)) \cup {i}
      BY <1>0, <2>1
    <3>2. QED
      BY <2>1, <3>1 DEF Emitted, HasEmitted, IsSkipped
  <2>3. QED
    BY <1>0, <2>1, <2>2 DEF EmissionInv
<1>4. ASSUME UNCHANGED <<script, i, parts>>, HasEmitted' <=> HasEmitted,
             pc' = "done" => pc = "done" \/ i > Len(script),
             pc' \notin {"next", "done"} => pc \notin {"next", "done"} \/ ~IsSkipped(B)
      PROVE  EmissionInv'
  BY <1>4 DEF EmissionInv, Emitted, IsSkipped, B
<1>5. CASE StartBatch \/ Return
  BY <1>4, <1>5 DEF StartBatch, Return, HasEmitted
<1>6. CASE RouteComment \/ RoutePipeline \/ GateReject \/ GateDiverge \/ GatePass
  BY <1>4, <1>6 DEF RouteComment, RoutePipeline, GateReject, GateDiverge, GatePass,
                    HasEmitted
<1>7. CASE TxOpen \/ TxClose \/ TxDegrade \/ TxNone
  BY <1>4, <1>7 DEF TxOpen, TxClose, TxDegrade, TxNone, HasEmitted
<1>8. CASE ReconcileKnown \/ ReconcileNew \/ ReconcileEnd \/ RegisterUnsupported
           \/ RegisterEnd
  BY <1>4, <1>8 DEF ReconcileKnown, ReconcileNew, ReconcileEnd, RegisterUnsupported,
                    RegisterEnd, HasEmitted
<1>9. CASE UNCHANGED vars
  BY <1>4, <1>9 DEF vars, HasEmitted
<1>10. QED
  BY <1>1, <1>2, <1>3, <1>5, <1>6, <1>7, <1>8, <1>9 DEF Next, Finished

(* Nothing is emitted at the start.                                        *)
LEMMA EmissionInit == Init => EmissionInv
<1>1. Init => script \in Seq(Batches)
  BY InputsAssumption DEF Init
<1>2. ASSUME Init PROVE Emitted = {}
  BY <1>2 DEF Init, Emitted, HasEmitted
<1>3. Init => Len(script) \in Nat /\ i = 1 /\ pc = "next" /\ parts = <<>>
  BY <1>1 DEF Init
<1>4. ASSUME parts = <<>> PROVE DOMAIN parts = {}
  BY <1>4
<1>5. QED
  BY <1>2, <1>3, <1>4 DEF EmissionInv

(* Every batch that is not blank has exactly one part, in script order:    *)
(* none vanishes between the splitter and the output of transpile.         *)
THEOREM EveryBatchIsEmitted == Spec => []EveryBatchEmitted
<1>1. Init => EmissionInv
  BY EmissionInit
<1>2. TypeOK /\ EmissionInv /\ [Next]_vars => EmissionInv'
  BY EmissionNext
<1>3. TypeOK /\ EmissionInv => EveryBatchEmitted
  <2> SUFFICES ASSUME TypeOK, EmissionInv, pc = "done" PROVE EveryBatchEmitted
    BY DEF EveryBatchEmitted
  <2>1. i = Len(script) + 1 /\ DOMAIN script = 1..Len(script) /\ Len(script) \in Nat
    BY InputsAssumption, SeqIsFunction DEF EmissionInv, TypeOK
  <2>2. 1..(i - 1) = DOMAIN script
    BY <2>1
  <2>3. Emitted = {n \in DOMAIN script : ~IsSkipped(script[n])}
    BY <2>2 DEF Emitted, HasEmitted
  <2>4. QED
    BY <2>3 DEF EmissionInv, EveryBatchEmitted, IsSkipped
<1>4. QED
  BY <1>1, <1>2, <1>3, TypeCorrect, PTL DEF Spec

-----------------------------------------------------------------------------
(* What one step does to the warnings: those filed keep all but a missing  *)
(* code; new ones are the batch's own, filed by EmitPart, or one           *)
(* synthesized for a fragment that no warning covers.                      *)
SameWarning(v, w) ==
  /\ w.msg = v.msg /\ w.feature = v.feature /\ w.batch = v.batch /\ w.own = v.own
  /\ v.code # NoCode => w.code = v.code

KeepsWarnings(old, new) ==
  /\ Len(old) <= Len(new)
  /\ \A n \in 1..Len(old) : SameWarning(old[n], new[n])

NewWarnings ==
  \A n \in 1..Len(allWarnings') : n > Len(allWarnings) =>
    LET w == allWarnings'[n]
    IN /\ w.batch = i
       /\ \/ pc = "emit" /\ w.own
          \/ /\ pc = "reconcile" /\ ~w.own
             /\ w.feature = "lossy_conversion"
             /\ n = Len(allWarnings) + 1
             /\ ~WarningCovers(w.msg, Messages(allWarnings))

(* Stamping keeps the warnings.                                            *)
LEMMA StampedKeeps ==
  ASSUME NEW ws \in Seq(Filed), C \in Carrier
  PROVE  /\ Stamped(ws) \in Seq(Filed) /\ Len(Stamped(ws)) = Len(ws)
         /\ KeepsWarnings(ws, Stamped(ws))
         /\ Messages(Stamped(ws)) = Messages(ws)
<1>1. \A n \in 1..Len(ws) : ws[n] \in Filed
  BY SeqIsFunction
<1>2. Stamped(ws) \in Seq(Filed) /\ Len(Stamped(ws)) = Len(ws)
  BY StampedIsSeq
<1>3. \A n \in 1..Len(ws) : SameWarning(ws[n], Stamped(ws)[n])
  BY <1>1, SeqIsFunction DEF Stamped, Filed, SameWarning
<1>4. DOMAIN Stamped(ws) = DOMAIN ws /\ DOMAIN ws = 1..Len(ws)
  BY <1>2, SeqIsFunction
<1>5. Messages(Stamped(ws)) = Messages(ws)
  BY <1>3, <1>4 DEF Messages, SameWarning
<1>6. QED
  BY <1>2, <1>3, <1>5, SeqIsFunction DEF KeepsWarnings

(* Every step keeps the warnings and files new ones as NewWarnings says.   *)
LEMMA WarningsStep ==
  TypeOK /\ [Next]_vars => KeepsWarnings(allWarnings, allWarnings') /\ NewWarnings
<1> SUFFICES ASSUME TypeOK, [Next]_vars
             PROVE  KeepsWarnings(allWarnings, allWarnings') /\ NewWarnings
  OBVIOUS
<1>0. allWarnings \in Seq(Filed) /\ Len(allWarnings) \in Nat
  BY SeqIsFunction DEF TypeOK
<1>1. ASSUME UNCHANGED allWarnings
      PROVE  KeepsWarnings(allWarnings, allWarnings') /\ NewWarnings
  BY <1>0, <1>1 DEF KeepsWarnings, NewWarnings, SameWarning
<1>2. CASE EmitPart
  <2> DEFINE more == File(res.warnings)
  <2>1. pc = "emit" /\ allWarnings' = allWarnings \o more
    BY <1>2 DEF EmitPart
  <2>2. more \in Seq(Filed) /\ \A n \in 1..Len(more) : more[n].own /\ more[n].batch = i
    <3>1. res.warnings \in Seq(Warning) /\ i \in Nat
      BY DEF TypeOK, Result
    <3>2. File(res.warnings) \in Seq(Filed) /\ Len(File(res.warnings)) = Len(res.warnings)
      BY <3>1, FileIsSeq
    <3>3. \A n \in 1..Len(res.warnings) : File(res.warnings)[n].own
                                           /\ File(res.warnings)[n].batch = i
      BY <3>1, SeqIsFunction DEF File
    <3>4. QED
      BY <3>2, <3>3
  <2> HIDE DEF more
  <2>3. /\ Len(allWarnings') = Len(allWarnings) + Len(more) /\ Len(more) \in Nat
        /\ \A n \in 1..Len(allWarnings) : allWarnings'[n] = allWarnings[n]
        /\ \A n \in 1..Len(more) : allWarnings'[Len(allWarnings) + n] = more[n]
    BY <1>0, <2>1, <2>2
  <2>4. ASSUME NEW n \in 1..Len(allWarnings'), n > Len(allWarnings)
        PROVE  allWarnings'[n].own /\ allWarnings'[n].batch = i
    <3>1. n - Len(allWarnings) \in 1..Len(more)
      BY <1>0, <2>3, <2>4
    <3>2. allWarnings'[Len(allWarnings) + (n - Len(allWarnings))] = more[n - Len(allWarnings)]
      BY <2>3, <3>1
    <3>3. QED
      BY <1>0, <2>2, <3>1, <3>2
  <2>5. QED
    BY <1>0, <2>1, <2>3, <2>4 DEF KeepsWarnings, NewWarnings, SameWarning
<1>3. CASE ReconcileKnown
  <2>1. allWarnings' = allWarnings \/ allWarnings' = Stamped(allWarnings)
    BY <1>3 DEF ReconcileKnown
  <2>2. C \in Carrier
    BY <1>3, CurrentCarrier DEF ReconcileKnown
  <2>3. QED
    BY <1>0, <1>1, <2>1, <2>2, StampedKeeps DEF NewWarnings
<1>4. CASE ReconcileNew
  <2> DEFINE stamped == Stamped(allWarnings)
  <2>1. C \in Carrier
    BY <1>4, CurrentCarrier DEF ReconcileNew
  <2>2. /\ stamped \in Seq(Filed) /\ Len(stamped) = Len(allWarnings)
        /\ KeepsWarnings(allWarnings, stamped)
        /\ Messages(stamped) = Messages(allWarnings)
    BY <1>0, <2>1, StampedKeeps
  <2>3. pc = "reconcile"
    BY <1>4 DEF ReconcileNew
  <2>4. CASE IsReported(stamped)
    <3>1. allWarnings' = stamped
      BY <1>4, <2>4 DEF ReconcileNew
    <3>2. QED
      BY <1>0, <2>2, <3>1 DEF NewWarnings
  <2>5. CASE ~IsReported(stamped)
    <3>1. allWarnings' = Append(stamped, Synthesized)
      BY <1>4, <2>5 DEF ReconcileNew
    <3>2. ~WarningCovers(C.frag, Messages(allWarnings))
      BY <2>2, <2>5 DEF IsReported
    <3> PICK w : w = Synthesized
      OBVIOUS
    <3>3. /\ w.msg = C.frag /\ w.batch = i /\ ~w.own /\ w.feature = "lossy_conversion"
      BY DEF Synthesized
    <3>4. allWarnings' = Append(stamped, w)
      BY <3>1
    <3> HIDE DEF stamped
    <3>5. /\ Len(allWarnings') = Len(allWarnings) + 1
          /\ allWarnings'[Len(allWarnings) + 1] = w
          /\ \A n \in 1..Len(allWarnings) : allWarnings'[n] = stamped[n]
      BY <1>0, <2>2, <3>4
    <3>6. NewWarnings
      BY <1>0, <2>3, <3>2, <3>3, <3>5 DEF NewWarnings
    <3>7. KeepsWarnings(allWarnings, allWarnings')
      BY <1>0, <2>2, <3>5 DEF KeepsWarnings
    <3>8. QED
      BY <3>6, <3>7
  <2>6. QED
    BY <2>4, <2>5
<1>5. CASE FallbackCodes
  <2>1. allWarnings' = [n \in DOMAIN allWarnings |-> WithFallback(allWarnings[n])]
    BY <1>5 DEF FallbackCodes
  <2>2. Len(allWarnings') = Len(allWarnings)
    BY <1>0, <2>1, WithFallbackIsSeq
  <2>3. \A n \in 1..Len(allWarnings) : allWarnings[n] \in Filed
                                        /\ allWarnings'[n] = WithFallback(allWarnings[n])
    BY <1>0, <2>1, SeqIsFunction
  <2>4. \A n \in 1..Len(allWarnings) : SameWarning(allWarnings[n], allWarnings'[n])
    BY <2>3 DEF WithFallback, SameWarning, Filed
  <2>5. QED
    BY <1>0, <2>2, <2>4 DEF KeepsWarnings, NewWarnings
<1>6. QED
  BY <1>1, <1>2, <1>3, <1>4, <1>5
  DEF Next, vars, reportVars, Finished, SkipBatch, StartBatch, RouteComment,
      RoutePipeline, GateReject, GateDiverge, GatePass, TxOpen, TxClose, TxDegrade,
      TxNone, ReconcileEnd, RegisterUnsupported, RegisterEnd, Return

-----------------------------------------------------------------------------
(* A loss is filed once: what SynthesizedOnlyWhenSilent needs is inductive *)
(* by itself, since filed messages never change.                           *)
THEOREM LossesFiledOnce == Spec => []SynthesizedOnlyWhenSilent
<1>1. Init => SynthesizedOnlyWhenSilent
  BY DEF Init, SynthesizedOnlyWhenSilent
<1>2. TypeOK /\ TypeOK' /\ SynthesizedOnlyWhenSilent /\ [Next]_vars
        => SynthesizedOnlyWhenSilent'
  <2> SUFFICES ASSUME TypeOK, TypeOK', SynthesizedOnlyWhenSilent, [Next]_vars,
                      NEW n \in DOMAIN allWarnings', ~allWarnings'[n].own,
                      NEW m \in 1..(n - 1)
               PROVE  ~WarningCovers(allWarnings'[n].msg, {allWarnings'[m].msg})
    BY DEF SynthesizedOnlyWhenSilent
  <2>1. KeepsWarnings(allWarnings, allWarnings') /\ NewWarnings
    BY WarningsStep
  <2>2. /\ DOMAIN allWarnings = 1..Len(allWarnings) /\ Len(allWarnings) \in Nat
        /\ DOMAIN allWarnings' = 1..Len(allWarnings') /\ Len(allWarnings') \in Nat
    BY SeqIsFunction DEF TypeOK
  <2>3. CASE n <= Len(allWarnings)
    <3>1. m \in 1..Len(allWarnings) /\ n \in DOMAIN allWarnings
      BY <2>2, <2>3
    <3>2. /\ allWarnings'[n].msg = allWarnings[n].msg
          /\ allWarnings'[m].msg = allWarnings[m].msg
          /\ ~allWarnings[n].own
      BY <2>1, <2>2, <3>1 DEF KeepsWarnings, SameWarning
    <3>3. QED
      BY <3>1, <3>2 DEF SynthesizedOnlyWhenSilent
  <2>4. CASE n > Len(allWarnings)
    <3>1. /\ n = Len(allWarnings) + 1
          /\ ~WarningCovers(allWarnings'[n].msg, Messages(allWarnings))
      BY <2>1, <2>2, <2>4 DEF NewWarnings
    <3>2. m \in DOMAIN allWarnings
      BY <2>2, <3>1
    <3>3. allWarnings'[m].msg \in Messages(allWarnings)
      BY <2>1, <2>2, <3>2 DEF KeepsWarnings, SameWarning, Messages
    <3>4. QED
      BY <3>1, <3>3 DEF WarningCovers
  <2>5. QED
    BY <2>2, <2>3, <2>4
<1>3. QED
  BY <1>1, <1>2, TypeCorrect, PTL DEF Spec

(* Before its batch is over a warning may lack a code; it is of the        *)
(* current batch then, and only after EmitPart.                            *)
CodedInv ==
  \A n \in DOMAIN allWarnings :
    LET w == allWarnings[n]
    IN /\ w.batch <= i
       /\ w.batch = i => HasEmitted
       /\ ~w.own => w.feature = "lossy_conversion"
       /\ w.batch < i /\ IsProcedural(w.feature) => w.code # NoCode

LEMMA CodedNext == TypeOK /\ TypeOK' /\ CodedInv /\ [Next]_vars => CodedInv'
<1> SUFFICES ASSUME TypeOK, TypeOK', CodedInv, [Next]_vars PROVE CodedInv'
  OBVIOUS
<1>1. KeepsWarnings(allWarnings, allWarnings') /\ NewWarnings
  BY WarningsStep
<1>2. /\ DOMAIN allWarnings = 1..Len(allWarnings) /\ Len(allWarnings) \in Nat
      /\ DOMAIN allWarnings' = 1..Len(allWarnings') /\ Len(allWarnings') \in Nat
      /\ i \in Nat
      /\ \A n \in 1..Len(allWarnings) : allWarnings[n].batch \in Nat
      /\ \A n \in 1..Len(allWarnings') : allWarnings'[n].batch \in Nat
  <2>1. /\ \A n \in DOMAIN allWarnings : allWarnings[n] \in Filed
        /\ \A n \in DOMAIN allWarnings' : allWarnings'[n] \in Filed
    BY SeqIsFunction DEF TypeOK
  <2>2. \A w \in Filed : w.batch \in Nat
    BY DEF Filed
  <2>3. QED
    BY <2>1, <2>2, SeqIsFunction DEF TypeOK
<1>3. CASE FallbackCodes
  <2>1. /\ i' = i + 1
        /\ allWarnings' = [n \in DOMAIN allWarnings |-> WithFallback(allWarnings[n])]
    BY <1>3 DEF FallbackCodes
  <2>2. ASSUME NEW n \in DOMAIN allWarnings'
        PROVE  LET w == allWarnings'[n]
               IN /\ w.batch <= i
                  /\ ~w.own => w.feature = "lossy_conversion"
                  /\ IsProcedural(w.feature) => w.code # NoCode
    <3>1. /\ n \in DOMAIN allWarnings
          /\ allWarnings'[n] = WithFallback(allWarnings[n])
          /\ allWarnings[n] \in Filed
      BY <1>2, <2>1, SeqIsFunction DEF TypeOK
    <3>2. SameWarning(allWarnings[n], allWarnings'[n])
      BY <1>1, <1>2, <3>1 DEF KeepsWarnings
    <3>3. CASE allWarnings[n].batch < i
      BY <1>2, <3>1, <3>2, <3>3 DEF CodedInv, SameWarning
    <3>4. CASE allWarnings[n].batch = i /\ allWarnings[n].own
      <4>1. IsProcedural(allWarnings[n].feature) => allWarnings'[n].code # NoCode
        <5>1. {"1230", "1231"} \subseteq Codes /\ NoCode \notin Codes
          BY CodesAssumption
        <5>2. QED
          BY <3>1, <3>4, <5>1 DEF WithFallback, IsOwn, FallbackCode, Filed
      <4>2. QED
        BY <1>2, <3>1, <3>2, <3>4, <4>1 DEF CodedInv, SameWarning
    <3>5. CASE allWarnings[n].batch = i /\ ~allWarnings[n].own
      BY <1>2, <3>1, <3>2, <3>5 DEF CodedInv, SameWarning, IsProcedural
    <3>6. QED
      BY <1>2, <3>1, <3>3, <3>4, <3>5 DEF CodedInv
  <2>3. QED
    BY <1>2, <2>1, <2>2 DEF CodedInv
<1>4. CASE ~FallbackCodes
  <2>1. /\ i' = i \/ (i' = i + 1 /\ pc = "next")
        /\ HasEmitted /\ i' = i => HasEmitted'
        /\ (HasEmitted' /\ i' = i) \/ UNCHANGED allWarnings
    <3>1. CASE SkipBatch \/ StartBatch \/ RouteComment \/ RoutePipeline \/ GateReject
                 \/ GateDiverge \/ GatePass
      BY <3>1 DEF HasEmitted, reportVars, SkipBatch, StartBatch, RouteComment,
                  RoutePipeline, GateReject, GateDiverge, GatePass
    <3>2. CASE TxOpen \/ TxClose \/ TxDegrade \/ TxNone \/ Return
      BY <3>2 DEF HasEmitted, reportVars, TxOpen, TxClose, TxDegrade, TxNone, Return
    <3>3. CASE EmitPart \/ ReconcileKnown \/ ReconcileNew
      BY <3>3 DEF HasEmitted, EmitPart, ReconcileKnown, ReconcileNew
    <3>4. CASE ReconcileEnd \/ RegisterUnsupported \/ RegisterEnd
      BY <3>4 DEF HasEmitted, reportVars, ReconcileEnd, RegisterUnsupported,
                  RegisterEnd
    <3>5. CASE UNCHANGED vars
      BY <3>5 DEF vars, reportVars, HasEmitted
    <3>6. QED
      BY <1>4, <3>1, <3>2, <3>3, <3>4, <3>5 DEF Next, Finished
  <2>2. ASSUME NEW n \in 1..Len(allWarnings)
        PROVE  LET w == allWarnings'[n]
               IN /\ w.batch <= i'
                  /\ w.batch = i' => HasEmitted'
                  /\ ~w.own => w.feature = "lossy_conversion"
                  /\ w.batch < i' /\ IsProcedural(w.feature) => w.code # NoCode
    <3>1. SameWarning(allWarnings[n], allWarnings'[n])
      BY <1>1 DEF KeepsWarnings
    <3>2. CASE i' = i
      BY <1>2, <2>1, <3>1, <3>2 DEF CodedInv, SameWarning
    <3>3. CASE i' # i
      <4>1. i' = i + 1 /\ pc = "next" /\ ~HasEmitted
        BY <2>1, <3>3 DEF HasEmitted
      <4>2. allWarnings[n].batch < i
        BY <1>2, <4>1 DEF CodedInv
      <4>3. QED
        BY <1>2, <4>1, <3>1, <4>2 DEF CodedInv, SameWarning
    <3>4. QED
      BY <3>2, <3>3
  <2>3. ASSUME NEW n \in 1..Len(allWarnings'), n > Len(allWarnings)
        PROVE  LET w == allWarnings'[n]
               IN /\ w.batch = i' /\ HasEmitted'
                  /\ ~w.own => w.feature = "lossy_conversion"
    BY <1>1, <1>2, <2>1, <2>3 DEF NewWarnings
  <2>4. QED
    BY <1>2, <2>1, <2>2, <2>3 DEF CodedInv
<1>5. QED
  BY <1>3, <1>4

(* Every warning of the procedural engine leaves its batch with a code:    *)
(* a carrier's, or the generic one of the last step of the loop body.      *)
THEOREM ProceduralWarningsAreCoded == Spec => []ProceduralWarningsCoded
<1>1. Init => CodedInv
  BY DEF Init, CodedInv
<1>2. TypeOK /\ TypeOK' /\ CodedInv /\ [Next]_vars => CodedInv'
  BY CodedNext
<1>3. TypeOK /\ CodedInv => ProceduralWarningsCoded
  BY DEF CodedInv, ProceduralWarningsCoded
<1>4. QED
  BY <1>1, <1>2, <1>3, TypeCorrect, PTL DEF Spec

-----------------------------------------------------------------------------
(* An answer that is not the translated statement has a carrier or a       *)
(* warning: what NoDegradeWithoutTrace asks of the pipelines.              *)
LeavesTrace(r) == r.form # "sql" => r.carriers # <<>> \/ r.warnings # <<>>
PipelinesLeaveTraces == \A b \in Batches : \A r \in Pipeline(b) : LeavesTrace(r)

TraceInv ==
  /\ pc \in {"gate", "tx", "emit"} /\ B.type # "COMMENT" => LeavesTrace(res)
  /\ NoDegradeWithoutTrace

(* The gate and the transaction check leave a trace of what they replace.  *)
LEMMA ReplacedLeavesTrace ==
  ASSUME TypeOK, [Next]_vars, pc \in {"gate", "tx"}, LeavesTrace(res)
  PROVE  LeavesTrace(res')
<1>1. res \in Result /\ res.carriers \in Seq(Carrier) /\ res.warnings \in Seq(Warning)
  BY DEF TypeOK, Result
<1>2. CASE GateReject
  <2>1. res'.carriers = <<[frag |-> GateText, code |-> "1151"]>>
    BY <1>2 DEF GateReject
  <2>2. res'.carriers # <<>>
    BY <2>1
  <2>3. QED
    BY <2>2 DEF LeavesTrace
<1>3. CASE TxDegrade
  <2>1. res'.carriers = <<[frag |-> CloserText, code |-> "1233"]>>
    BY <1>3 DEF TxDegrade
  <2>2. res'.carriers # <<>>
    BY <2>1
  <2>3. QED
    BY <2>2 DEF LeavesTrace
<1>4. CASE GateDiverge
  <2>1. res'.warnings = Append(res.warnings, Warn(DivergeText, "value_divergence", NoCode))
    BY <1>1, <1>4 DEF GateDiverge, Result
  <2>2. res'.warnings # <<>>
    BY <1>1, <2>1, LiteralsTyped
  <2>3. QED
    BY <2>2 DEF LeavesTrace
<1>5. CASE UNCHANGED res
  BY <1>5 DEF LeavesTrace
<1>6. QED
  BY <1>2, <1>3, <1>4, <1>5
  DEF Next, vars, SkipBatch, StartBatch, RouteComment, RoutePipeline, GatePass, TxOpen,
      TxClose, TxNone, EmitPart, ReconcileKnown, ReconcileNew, ReconcileEnd,
      RegisterUnsupported, RegisterEnd, FallbackCodes, Return, Finished

LEMMA TraceNext ==
  ASSUME PipelinesLeaveTraces, TypeOK, TypeOK', TraceInv, [Next]_vars
  PROVE  TraceInv'
<1>1. /\ DOMAIN allWarnings = 1..Len(allWarnings) /\ Len(allWarnings) \in Nat
      /\ DOMAIN allWarnings' = 1..Len(allWarnings') /\ Len(allWarnings') \in Nat
      /\ DOMAIN parts = 1..Len(parts) /\ Len(parts) \in Nat
  BY SeqIsFunction DEF TypeOK
<1>2. KeepsWarnings(allWarnings, allWarnings')
  BY WarningsStep
<1>3. ASSUME NEW n \in DOMAIN allWarnings
      PROVE  /\ n \in DOMAIN allWarnings'
             /\ allWarnings'[n].batch = allWarnings[n].batch
             /\ allWarnings[n].own => allWarnings'[n].own
  BY <1>1, <1>2 DEF KeepsWarnings, SameWarning
<1>4. ASSUME NEW p \in DOMAIN parts, parts[p].type # "COMMENT", parts[p].form # "sql"
      PROVE  \/ parts[p].carriers # <<>>
             \/ \E n \in DOMAIN allWarnings' :
                  allWarnings'[n].own /\ allWarnings'[n].batch = parts[p].batch
  BY <1>3, <1>4 DEF TraceInv, NoDegradeWithoutTrace
<1>5. CASE EmitPart
  <2>1. /\ pc = "emit" /\ pc' \in {"reconcile", "fallback"}
        /\ parts'[Len(parts) + 1] =
             [batch |-> i, type |-> B.type, form |-> res.form, carriers |-> res.carriers,
              isComment |-> B.type = "COMMENT" \/ IsCommentOnly(res.form)]
        /\ \A p \in 1..Len(parts) : parts'[p] = parts[p]
        /\ DOMAIN parts' = 1..(Len(parts) + 1)
        /\ allWarnings' = allWarnings \o File(res.warnings)
    BY <1>5, SeqIsFunction DEF EmitPart, TypeOK
  <2>2. B.type # "COMMENT" => LeavesTrace(res)
    BY <2>1 DEF TraceInv
  <2>3. ASSUME res.warnings # <<>>
        PROVE  \E n \in DOMAIN allWarnings' :
                 allWarnings'[n].own /\ allWarnings'[n].batch = i
    <3> DEFINE more == File(res.warnings)
    <3>1. res.warnings \in Seq(Warning) /\ i \in Nat /\ Len(res.warnings) \in Nat
          /\ Len(res.warnings) # 0 /\ allWarnings \in Seq(Filed)
      BY <2>3 DEF TypeOK, Result
    <3>2. more \in Seq(Filed) /\ Len(more) = Len(res.warnings)
      BY <3>1, FileIsSeq
    <3>3. more[1].own /\ more[1].batch = i
      BY <3>1 DEF File
    <3>4. allWarnings' = allWarnings \o more
      BY <2>1
    <3> HIDE DEF more
    <3>5. 1 \in 1..Len(more) /\ Len(allWarnings') = Len(allWarnings) + Len(more)
          /\ allWarnings'[Len(allWarnings) + 1] = more[1]
      <4>1. Len(more) \in Nat /\ Len(more) >= 1
        BY <3>1, <3>2
      <4>2. Len(allWarnings') = Len(allWarnings) + Len(more)
        <5>1. allWarnings \in Seq(Filed) /\ more \in Seq(Filed)
          BY <3>1, <3>2
        <5>2. Len(allWarnings \o more) = Len(allWarnings) + Len(more)
          BY <5>1
        <5>3. QED
          BY <3>4, <5>2
      <4>3. \A n \in 1..Len(more) : allWarnings'[Len(allWarnings) + n] = more[n]
        BY <3>1, <3>2, <3>4
      <4>4. QED
        BY <4>1, <4>2, <4>3
    <3>6. Len(allWarnings) + 1 \in DOMAIN allWarnings'
      BY <1>1, <3>1, <3>2, <3>5
    <3>7. QED
      BY <3>3, <3>5, <3>6
  <2>4. ASSUME NEW p \in DOMAIN parts', parts'[p].type # "COMMENT", parts'[p].form # "sql"
        PROVE  \/ parts'[p].carriers # <<>>
               \/ \E n \in DOMAIN allWarnings' :
                    allWarnings'[n].own /\ allWarnings'[n].batch = parts'[p].batch
    <3>1. CASE p = Len(parts) + 1
      BY <2>1, <2>2, <2>3, <2>4, <3>1 DEF LeavesTrace
    <3>2. CASE p # Len(parts) + 1
      <4>1. p \in DOMAIN parts /\ parts'[p] = parts[p]
        BY <1>1, <2>1, <3>2
      <4>2. QED
        BY <1>4, <2>4, <4>1
    <3>3. QED
      BY <3>1, <3>2
  <2>5. QED
    BY <2>1, <2>4 DEF TraceInv, NoDegradeWithoutTrace
<1>6. CASE UNCHANGED parts
  <2>1. NoDegradeWithoutTrace'
    BY <1>4, <1>6 DEF NoDegradeWithoutTrace
  <2>2. CASE RoutePipeline
    <3>1. B \in Batches /\ res' \in Pipeline(B)
      BY <2>2, CurrentBatch DEF RoutePipeline, TypeOK
    <3>2. QED
      BY <2>1, <3>1 DEF TraceInv, PipelinesLeaveTraces
  <2>3. CASE pc \in {"gate", "tx"} /\ pc' \in {"tx", "emit", "gate"} /\ B' = B
    BY <2>1, <2>3, ReplacedLeavesTrace DEF TraceInv
  <2>4. CASE UNCHANGED <<pc, script, i, res>>
    BY <2>1, <2>4 DEF TraceInv, B, LeavesTrace
  <2>5. CASE pc' \notin {"gate", "tx", "emit"} \/ RouteComment
    BY <2>1, <2>5 DEF TraceInv, RouteComment, B
  <2>6. QED
    BY <2>2, <2>3, <2>4, <2>5
    DEF Next, vars, SkipBatch, StartBatch, GateReject, GateDiverge, GatePass, TxOpen, TxClose,
        TxDegrade, TxNone, EmitPart, ReconcileKnown, ReconcileNew, ReconcileEnd,
        RegisterUnsupported, RegisterEnd, FallbackCodes, Return, Finished, B
<1>7. QED
  BY <1>5, <1>6
  DEF Next, vars, SkipBatch, StartBatch, RouteComment, RoutePipeline, GateReject, GateDiverge,
      GatePass, TxOpen, TxClose, TxDegrade, TxNone, ReconcileKnown, ReconcileNew, ReconcileEnd,
      RegisterUnsupported, RegisterEnd, FallbackCodes, Return, Finished

(* An output that is not the translated statement never comes without a    *)
(* carrier or a warning, if no pipeline answers so: not after the gate,    *)
(* the transaction check, the emission or the rewriting of codes either.   *)
THEOREM DegradesLeaveTraces ==
  ASSUME PipelinesLeaveTraces
  PROVE  Spec => []NoDegradeWithoutTrace
<1>1. Init => TraceInv
  BY DEF Init, TraceInv, NoDegradeWithoutTrace
<1>2. TypeOK /\ TypeOK' /\ TraceInv /\ [Next]_vars => TraceInv'
  BY TraceNext
<1>3. TraceInv => NoDegradeWithoutTrace
  BY DEF TraceInv
<1>4. QED
  BY <1>1, <1>2, <1>3, TypeCorrect, PTL DEF Spec

-----------------------------------------------------------------------------

LoopInv == TypeOK /\ LossInv /\ RegistrationInv /\ EmissionInv

(* The instance reads texts as the loop does.                              *)
LEMMA SameReading ==
  /\ \A f, ms : Promise!WarningCovers(f, ms) <=> WarningCovers(f, ms)
  /\ \A s : Promise!Entries(s) = Entries(s)
BY DEF Promise!WarningCovers, WarningCovers, Promise!Entries, Entries

(* The parts, the shipped ones among them, and the domains of the lists.   *)
LEMMA ShippedFacts ==
  ASSUME TypeOK, LossInv
  PROVE  /\ DOMAIN parts = 1..Len(parts) /\ Len(parts) \in Nat
         /\ DOMAIN allWarnings = 1..Len(allWarnings) /\ Len(allWarnings) \in Nat
         /\ ~InBatch => ShippedCount = Len(parts)
         /\ InBatch => ShippedCount = Len(parts) - 1
BY SeqIsFunction DEF TypeOK, ShippedCount

(* A report that grows in the loop grows in the promise.                   *)
LEMMA GrownStep == TypeOK /\ TypeOK' /\ [Next]_vars => Promise!Grown
<1> SUFFICES ASSUME TypeOK, TypeOK', [Next]_vars PROVE Promise!Grown
  OBVIOUS
<1>1. /\ Extends(allWarnings, allWarnings')
      /\ Entries(allUnsupported) \subseteq Entries(allUnsupported')
  BY ReportStep DEF ReportGrows
<1>2. DOMAIN allWarnings \subseteq DOMAIN allWarnings'
  <2>1. /\ DOMAIN allWarnings = 1..Len(allWarnings) /\ Len(allWarnings) \in Nat
        /\ DOMAIN allWarnings' = 1..Len(allWarnings') /\ Len(allWarnings') \in Nat
    BY SeqIsFunction DEF TypeOK
  <2>2. QED
    BY <1>1, <2>1 DEF Extends
<1>3. Messages(allWarnings) \subseteq Messages(allWarnings')
  BY <1>1, <1>2 DEF Messages, Extends
<1>4. FiledCodes \subseteq FiledCodes'
  BY <1>1, <1>2 DEF FiledCodes, Extends
<1>5. QED
  BY <1>1, <1>3, <1>4 DEF Promise!Grown

(* Between batches every part is accounted for.                            *)
LEMMA AllAccounted ==
  LoopInv /\ pc = "next" => \A p \in DOMAIN parts : Promise!Accounted(ShippedParts[p])
<1> SUFFICES ASSUME LoopInv, pc = "next", NEW p \in DOMAIN parts
             PROVE  Promise!Accounted(ShippedParts[p])
  OBVIOUS
<1>1. ~InBatch /\ ShippedCount = Len(parts) /\ DOMAIN parts = 1..Len(parts)
  BY ShippedFacts DEF LoopInv, InBatch
<1>2. /\ DOMAIN ShippedParts = DOMAIN parts
      /\ \A q \in DOMAIN parts :
           /\ ShippedParts[q].carriers = parts[q].carriers
           /\ ShippedParts[q].executable <=> parts[q].type # "COMMENT"
           /\ ShippedParts[q].reduced = parts[q].isComment
  BY <1>1 DEF ShippedParts
<1> SUFFICES ASSUME parts[p].type # "COMMENT", NEW c \in Entries(parts[p].carriers)
             PROVE  /\ Promise!Mirrored(c)
                    /\ parts[p].isComment => WarningCovers(c.frag, Entries(allUnsupported))
  BY <1>2, SameReading DEF Promise!Accounted
<1>3. IsSettled(p)
  BY DEF IsSettled
<1>4. IsMirrored(c.frag, allWarnings)
  <2>1. c \in SettledCarriers
    BY <1>3 DEF SettledCarriers
  <2>2. QED
    BY <2>1 DEF LoopInv, LossInv, FragmentsReconciled, ReconciledMirrored
<1>5. Promise!Mirrored(c)
  <2>1. CASE WarningCovers(c.frag, Messages(allWarnings))
    BY <2>1, SameReading DEF Promise!Mirrored
  <2>2. ASSUME NEW q \in DOMAIN parts, NEW d \in Entries(parts[q].carriers),
               d.frag = c.frag, d.code # NoCode,
               NEW n \in DOMAIN allWarnings, allWarnings[n].code = d.code
        PROVE  Promise!Mirrored(c)
    <3>1. d.code \in FiledCodes
      BY <2>2 DEF FiledCodes
    <3>2. d \in Entries(ShippedParts[q].carriers)
      BY <1>2
    <3>3. QED
      BY <1>2, <2>2, <3>1, <3>2, SameReading DEF Promise!Mirrored
  <2>3. QED
    BY <1>4, <2>1, <2>2 DEF IsMirrored
<1>6. parts[p].isComment => WarningCovers(c.frag, Entries(allUnsupported))
  BY <1>3 DEF LoopInv, RegistrationInv, DroppedBatchReported
<1>7. QED
  BY <1>5, <1>6

(* The end of a loop body ships the part of its batch.                     *)
LEMMA FallbackShips ==
  LoopInv /\ LoopInv' /\ FallbackCodes => Promise!Ship
<1> SUFFICES ASSUME LoopInv, LoopInv', FallbackCodes PROVE Promise!Ship
  OBVIOUS
<1>1. /\ pc = "fallback" /\ pc' = "next" /\ parts' = parts
      /\ InBatch /\ ~InBatch'
  BY DEF FallbackCodes, InBatch
<1>2. /\ ShippedCount = Len(parts) - 1 /\ ShippedCount' = Len(parts)
      /\ DOMAIN parts = 1..Len(parts) /\ Len(parts) \in Nat
  BY <1>1, ShippedFacts DEF LoopInv, ShippedCount
<1>3. Len(parts) # 0
  <2>1. i \in Emitted
    BY <1>1 DEF Emitted, HasEmitted
  <2>2. \E p \in DOMAIN parts : parts[p].batch = i
    BY <2>1 DEF LoopInv, EmissionInv
  <2>3. QED
    BY <1>2, <2>2
<1> DEFINE last == Len(parts)
<1>4. /\ ShippedParts \in [1..(last - 1) -> {ShippedParts[p] : p \in 1..(last - 1)}]
      /\ DOMAIN ShippedParts = 1..(last - 1)
      /\ DOMAIN ShippedParts' = 1..last
      /\ \A p \in 1..(last - 1) : ShippedParts'[p] = ShippedParts[p]
      /\ \A p \in 1..(last - 1) : ShippedParts[p].batch = parts[p].batch
      /\ ShippedParts'[last].batch = parts[last].batch
  BY <1>1, <1>2, <1>3 DEF ShippedParts
<1>5. Len(ShippedParts) = last - 1 /\ Len(ShippedParts') = last
  BY <1>2, <1>3, <1>4
<1>6. \A p \in 1..(last - 1) : parts[p].batch < parts[last].batch
  BY <1>2, <1>3 DEF LoopInv, EmissionInv
<1>7. Promise!Accounted(ShippedParts[Len(ShippedParts)])'
  <2>1. (pc = "next")' /\ last \in DOMAIN parts'
    BY <1>1, <1>2, <1>3
  <2>2. (LoopInv /\ pc = "next"
           => \A p \in DOMAIN parts : Promise!Accounted(ShippedParts[p]))'
    BY AllAccounted, PTL
  <2>3. PICK p \in DOMAIN parts' : p = last
    BY <2>1
  <2>4. Promise!Accounted(ShippedParts[p])'
    BY <2>1, <2>2
  <2>5. QED
    BY <1>5, <2>3, <2>4 DEF Promise!Accounted
<1>8. Promise!Grown
  BY GrownStep DEF LoopInv, Next
<1>9. QED
  BY <1>1, <1>2, <1>3, <1>4, <1>5, <1>6, <1>7, <1>8 DEF Promise!Ship

(* No other step ships: it reports, closes or stutters.                    *)
LEMMA PromiseStep ==
  LoopInv /\ LoopInv' /\ [Next]_vars => [Promise!Next]_(Promise!promiseVars)
<1> SUFFICES ASSUME LoopInv, LoopInv', [Next]_vars
             PROVE  [Promise!Next]_(Promise!promiseVars)
  OBVIOUS
<1>1. Promise!Grown
  BY GrownStep DEF LoopInv
<1>2. ASSUME pc # "done", pc' # "done", ShippedParts' = ShippedParts
      PROVE  Promise!Report
  BY <1>1, <1>2 DEF Promise!Report
<1>3. ASSUME UNCHANGED parts, InBatch' <=> InBatch
      PROVE  ShippedParts' = ShippedParts
  BY <1>3 DEF ShippedParts, ShippedCount
<1>4. CASE EmitPart
  <2>1. /\ pc = "emit" /\ pc' # "done" /\ ~InBatch /\ InBatch'
        /\ Len(parts') = Len(parts) + 1
        /\ \A p \in 1..Len(parts) : parts'[p] = parts[p]
    BY <1>4 DEF EmitPart, InBatch, LoopInv, TypeOK
  <2>2. ShippedCount' = ShippedCount /\ ShippedCount = Len(parts)
    BY <2>1, SeqIsFunction DEF ShippedCount, LoopInv, TypeOK
  <2>3. ShippedParts' = ShippedParts
    BY <2>1, <2>2 DEF ShippedParts
  <2>4. QED
    BY <1>2, <2>1, <2>3 DEF Promise!Next
<1>5. CASE FallbackCodes
  BY <1>5, FallbackShips DEF Promise!Next
<1>6. CASE Return
  BY <1>3, <1>6 DEF Return, reportVars, InBatch, FiledCodes, Promise!Close, Promise!Next
<1>7. CASE SkipBatch \/ StartBatch \/ RouteComment \/ RoutePipeline
  BY <1>2, <1>3, <1>7 DEF SkipBatch, StartBatch, RouteComment, RoutePipeline, InBatch,
                          Promise!Next
<1>8. CASE GateReject \/ GateDiverge \/ GatePass
  BY <1>2, <1>3, <1>8 DEF GateReject, GateDiverge, GatePass, InBatch, Promise!Next
<1>9. CASE TxOpen \/ TxClose \/ TxDegrade \/ TxNone
  BY <1>2, <1>3, <1>9 DEF TxOpen, TxClose, TxDegrade, TxNone, InBatch, Promise!Next
<1>10. CASE ReconcileKnown \/ ReconcileNew \/ ReconcileEnd
  BY <1>2, <1>3, <1>10 DEF ReconcileKnown, ReconcileNew, ReconcileEnd, InBatch,
                           Promise!Next
<1>11. CASE RegisterUnsupported \/ RegisterEnd
  BY <1>2, <1>3, <1>11 DEF RegisterUnsupported, RegisterEnd, InBatch, Promise!Next
<1>12. CASE UNCHANGED vars
  BY <1>3, <1>12 DEF vars, reportVars, InBatch, FiledCodes, Promise!promiseVars
<1>13. QED
  BY <1>4, <1>5, <1>6, <1>7, <1>8, <1>9, <1>10, <1>11, <1>12 DEF Next, Finished

(* The batch loop implements the promise: a part of the output is shipped  *)
(* with the report of all it lost, in script order.                        *)
THEOREM LoopKeepsPromise == Spec => PromiseKept
<1>1. Init => LossInv /\ RegistrationInv /\ EmissionInv
  <2>1. Init => LossInv /\ RegistrationInv
    BY DEF Init, LossInv, CurrentPart, FragmentsReconciled, ReconciledMirrored,
           SettledCarriers, RegistrationInv, DroppedBatchReported
  <2>2. QED
    BY <2>1, EmissionInit
<1>2. TypeOK /\ TypeOK' /\ LossInv /\ RegistrationInv /\ EmissionInv /\ [Next]_vars
        => LossInv' /\ RegistrationInv' /\ EmissionInv'
  BY LossNext, RegistrationNext, EmissionNext
<1>3. Init => Promise!Init
  <2> SUFFICES ASSUME Init PROVE Promise!Init
    OBVIOUS
  <2>1. parts = <<>> /\ allWarnings = <<>> /\ allUnsupported = <<>> /\ pc = "next"
    BY DEF Init
  <2>2. ShippedParts = <<>>
    BY <2>1 DEF ShippedParts, ShippedCount, InBatch
  <2>3. QED
    BY <2>1, <2>2 DEF Promise!Init, FiledCodes, Messages, Entries
<1>4. LoopInv /\ LoopInv' /\ [Next]_vars => [Promise!Next]_(Promise!promiseVars)
  BY PromiseStep
<1>5. QED
  BY <1>1, <1>2, <1>3, <1>4, TypeCorrect, PTL
  DEF Spec, LoopInv, PromiseKept, Promise!Spec

-----------------------------------------------------------------------------
(* What the loop carries from batch to batch follows the session that runs *)
(* the script: the QUOTED_IDENTIFIER flag, and the open transactions.      *)
(* Both hold of scripts whose batches make one move each; the hypotheses   *)
(* TogglesAhead and OneStatementEach say so of the batches.                *)

(* A non-empty set of numbers up to n has a greatest one.                  *)
LEMMA SomeGreatest ==
  ASSUME NEW n \in Nat, NEW S \in SUBSET (1..n), S # {}
  PROVE  \E m \in S : \A j \in S : m >= j
<1> DEFINE T == {x \in Nat : n - x \in S}
<1>1. T \subseteq Nat /\ T # {}
  <2>1. PICK m \in S : TRUE
    OBVIOUS
  <2>2. m \in 1..n /\ n - m \in Nat /\ n - (n - m) = m
    BY <2>1
  <2>3. QED
    BY <2>2
<1>2. PICK x \in T : \A y \in T : x <= y
  <2> HIDE DEF T
  <2>1. QED
    BY <1>1, SomeLeast
<1>3. ASSUME NEW j \in S PROVE n - x >= j
  <2>1. j \in 1..n /\ n - j \in Nat /\ n - (n - j) = j
    BY <1>3
  <2>2. x <= n - j /\ x \in Nat
    BY <1>2, <2>1
  <2>3. QED
    BY <2>1, <2>2
<1>4. QED
  BY <1>3

LEMMA MaxIsGreatest ==
  ASSUME NEW n \in Nat, NEW S \in SUBSET (1..n), S # {}
  PROVE  Max(S) \in S /\ \A j \in S : Max(S) >= j
BY SomeGreatest DEF Max

LEMMA MaxIs ==
  ASSUME NEW n \in Nat, NEW S \in SUBSET (1..n), NEW m \in S, \A j \in S : m >= j
  PROVE  Max(S) = m
<1>1. Max(S) \in S /\ Max(S) >= m /\ m >= Max(S)
  BY MaxIsGreatest
<1>2. Max(S) \in 1..n /\ m \in 1..n
  BY <1>1
<1>3. QED
  BY <1>1, <1>2

-----------------------------------------------------------------------------
(* The quotes of a batch are quotes and toggles.                           *)
LEMMA QuotingTyped ==
  ASSUME NEW b \in Batches
  PROVE  /\ DOMAIN b.quoting = 1..Len(b.quoting) /\ Len(b.quoting) \in Nat
         /\ \A j \in DOMAIN b.quoting : b.quoting[j] \in QuoteItems
<1>1. Shape(b) \in BatchShape
  BY InputsAssumption
<1>2. b.quoting \in Seq(QuoteItems)
  BY <1>1 DEF Shape, BatchShape
<1>3. QED
  BY <1>2, SeqIsFunction

(* A batch that toggles leaves the flag as every one of its toggles has it. *)
LEMMA TogglesDecide ==
  ASSUME TogglesAhead, NEW b \in Batches, NEW before \in BOOLEAN
  PROVE  /\ Toggles(b.quoting) = {} => QuotesOff(b.quoting, before) = before
         /\ Toggles(b.quoting) # {} =>
              /\ "off" \in Entries(b.quoting) \/ "on" \in Entries(b.quoting)
              /\ QuotesOff(b.quoting, before) <=> "off" \in Entries(b.quoting)
         /\ Toggles(b.quoting) = {} =>
              "off" \notin Entries(b.quoting) /\ "on" \notin Entries(b.quoting)
<1> DEFINE T == Toggles(b.quoting)
<1>1. /\ DOMAIN b.quoting = 1..Len(b.quoting) /\ Len(b.quoting) \in Nat
      /\ \A j \in DOMAIN b.quoting : b.quoting[j] \in {"off", "on", "quote"}
  BY QuotingTyped DEF QuoteItems
<1>2. T \subseteq 1..Len(b.quoting)
  BY <1>1 DEF Toggles
<1>3. ASSUME T # {}
      PROVE  /\ "off" \in Entries(b.quoting) \/ "on" \in Entries(b.quoting)
             /\ QuotesOff(b.quoting, before) <=> "off" \in Entries(b.quoting)
  <2>1. Max(T) \in T
    BY <1>1, <1>2, <1>3, MaxIsGreatest
  <2>2. /\ Max(T) \in DOMAIN b.quoting
        /\ b.quoting[Max(T)] \in {"off", "on"}
    BY <1>1, <2>1 DEF Toggles
  <2>3. QuotesOff(b.quoting, before) <=> b.quoting[Max(T)] = "off"
    BY <1>3 DEF QuotesOff
  <2>4. b.quoting[Max(T)] \in Entries(b.quoting)
    BY <2>2 DEF Entries
  <2>5. ~({"on", "off"} \subseteq Entries(b.quoting))
    BY DEF TogglesAhead
  <2>6. QED
    BY <2>2, <2>3, <2>4, <2>5
<1>4. T = {} => "off" \notin Entries(b.quoting) /\ "on" \notin Entries(b.quoting)
  BY DEF Toggles, Entries
<1>5. T = {} => QuotesOff(b.quoting, before) = before
  BY DEF QuotesOff
<1>6. QED
  BY <1>3, <1>4, <1>5

(* One batch more: the session reads on from where the last batch left it. *)
LEMMA SessionGoesOn ==
  ASSUME TypeOK, TogglesAhead, NEW n \in 1..Len(script)
  PROVE  /\ SessionQuotesOff(n - 1) \in BOOLEAN
         /\ SessionQuotesOff(n) <=> QuotesOff(script[n].quoting, SessionQuotesOff(n - 1))
<1> DEFINE Off(m) == QuotesOff(script[m].quoting, FALSE)
           Toggling(m) == {l \in 1..m : Toggles(script[l].quoting) # {}}
<1>1. script \in Seq(Batches) /\ Len(script) \in Nat /\ n \in Nat /\ n - 1 \in Nat
  BY InputsAssumption, SeqIsFunction DEF TypeOK
<1>2. \A m \in 1..n : script[m] \in Batches
  BY <1>1, SeqIsFunction
<1>3. \A m \in 1..n : Off(m) \in BOOLEAN
  BY <1>2, TogglesDecide DEF QuotesOff
<1>4. /\ SessionQuotesOff(n) <=> (IF Toggling(n) = {} THEN FALSE ELSE Off(Max(Toggling(n))))
      /\ SessionQuotesOff(n - 1) =
           (IF Toggling(n - 1) = {} THEN FALSE ELSE Off(Max(Toggling(n - 1))))
  BY DEF SessionQuotesOff
<1>5. SessionQuotesOff(n - 1) \in BOOLEAN
  <2>1. CASE Toggling(n - 1) # {}
    <3>1. Max(Toggling(n - 1)) \in Toggling(n - 1)
      BY <1>1, <2>1, MaxIsGreatest
    <3>2. Max(Toggling(n - 1)) \in 1..n
      BY <1>1, <3>1
    <3>3. QED
      BY <1>3, <1>4, <3>2
  <2>2. QED
    BY <1>4, <2>1
<1>6. CASE Toggles(script[n].quoting) # {}
  <2>1. n \in Toggling(n) /\ Toggling(n) \subseteq 1..n /\ \A j \in Toggling(n) : n >= j
    BY <1>1, <1>6
  <2>2. Max(Toggling(n)) = n
    BY <1>1, <2>1, MaxIs
  <2>3. SessionQuotesOff(n) <=> Off(n)
    BY <1>4, <2>1, <2>2
  <2>4. QuotesOff(script[n].quoting, SessionQuotesOff(n - 1)) <=> Off(n)
    BY <1>6 DEF QuotesOff
  <2>5. QED
    BY <1>5, <2>3, <2>4
<1>7. CASE Toggles(script[n].quoting) = {}
  <2>1. Toggling(n) = Toggling(n - 1)
    BY <1>1, <1>7
  <2>2. SessionQuotesOff(n) <=> SessionQuotesOff(n - 1)
    BY <1>4, <2>1
  <2>3. QED
    BY <1>2, <1>5, <1>7, <2>2, TogglesDecide
<1>8. QED
  BY <1>5, <1>6, <1>7

(* The flag is the session's after the batches read: those before the      *)
(* current one, and the current one once its loop body has started.        *)
ReadBatches == IF pc \in {"next", "done"} THEN i - 1 ELSE i
QuotesInv == SourceTsql => (qiOff <=> SessionQuotesOff(ReadBatches))

LEMMA QuotesNext ==
  ASSUME TogglesAhead, TypeOK, TypeOK', QuotesInv, [Next]_vars
  PROVE  QuotesInv'
<1> SUFFICES ASSUME SourceTsql PROVE qiOff' <=> SessionQuotesOff(ReadBatches)'
  BY DEF QuotesInv
<1>0. qiOff <=> SessionQuotesOff(ReadBatches)
  BY DEF QuotesInv
<1>1. script' = script
  BY DEF Next, vars, SkipBatch, StartBatch, RouteComment, RoutePipeline, GateReject,
         GateDiverge, GatePass, TxOpen, TxClose, TxDegrade, TxNone, EmitPart,
         ReconcileKnown, ReconcileNew, ReconcileEnd, RegisterUnsupported, RegisterEnd,
         FallbackCodes, Return, Finished
<1>2. i \in Nat \ {0} /\ qiOff \in BOOLEAN /\ script \in Seq(Batches)
  BY InputsAssumption DEF TypeOK
<1>3. ASSUME NEW n, ReadBatches' = n, ReadBatches = n, qiOff' = qiOff
      PROVE  qiOff' <=> SessionQuotesOff(ReadBatches)'
  BY <1>0, <1>1, <1>3 DEF SessionQuotesOff
<1>4. CASE SkipBatch
  <2>1. i \in 1..Len(script) /\ ReadBatches = i - 1 /\ ReadBatches' = i /\ qiOff' = qiOff
    BY <1>2, <1>4 DEF SkipBatch, ReadBatches
  <2>2. B \in Batches /\ Toggles(B.quoting) = {}
    BY <1>4, <1>2, CurrentBatch DEF SkipBatch, IsSkipped, TogglesAhead
  <2>3. SessionQuotesOff(i) <=> QuotesOff(script[i].quoting, SessionQuotesOff(i - 1))
    BY <2>1, SessionGoesOn
  <2>4. SessionQuotesOff(i) <=> SessionQuotesOff(i - 1)
    BY <2>1, <2>2, <2>3, SessionGoesOn, TogglesDecide DEF B
  <2>5. SessionQuotesOff(ReadBatches)' <=> SessionQuotesOff(i)
    BY <1>1, <2>1 DEF SessionQuotesOff
  <2>6. QED
    BY <1>0, <2>1, <2>4, <2>5
<1>5. CASE StartBatch
  <2>1. /\ i \in 1..Len(script) /\ ReadBatches = i - 1 /\ ReadBatches' = i
        /\ qiOff' = QuotedIdentifier(B)
    BY <1>2, <1>5 DEF StartBatch, ReadBatches
  <2>2. B \in Batches
    BY <1>5, <1>2, CurrentBatch DEF StartBatch
  <2>3. SessionQuotesOff(i) <=> QuotesOff(B.quoting, SessionQuotesOff(i - 1))
    BY <2>1, SessionGoesOn DEF B
  <2>4. SessionQuotesOff(i - 1) \in BOOLEAN
    BY <2>1, SessionGoesOn
  <2>5. QuotedIdentifier(B) <=> QuotesOff(B.quoting, qiOff)
    <3>1. CASE Toggles(B.quoting) = {}
      BY <1>2, <2>2, <3>1, TogglesDecide DEF QuotedIdentifier
    <3>2. CASE Toggles(B.quoting) # {}
      BY <1>2, <2>2, <3>2, TogglesDecide DEF QuotedIdentifier
    <3>3. QED
      BY <3>1, <3>2
  <2>6. qiOff = SessionQuotesOff(i - 1)
    BY <1>0, <1>2, <2>1, <2>4
  <2>7. SessionQuotesOff(ReadBatches)' <=> SessionQuotesOff(i)
    BY <1>1, <2>1 DEF SessionQuotesOff
  <2>8. QED
    BY <2>1, <2>3, <2>5, <2>6, <2>7
<1>6. CASE FallbackCodes
  BY <1>2, <1>3, <1>6 DEF FallbackCodes, ReadBatches
<1>7. CASE RouteComment \/ RoutePipeline \/ GateReject \/ GateDiverge \/ GatePass
  BY <1>3, <1>7 DEF RouteComment, RoutePipeline, GateReject, GateDiverge, GatePass,
                    ReadBatches
<1>8. CASE TxOpen \/ TxClose \/ TxDegrade \/ TxNone \/ EmitPart \/ Return
  BY <1>3, <1>8 DEF TxOpen, TxClose, TxDegrade, TxNone, EmitPart, Return, ReadBatches
<1>9. CASE ReconcileKnown \/ ReconcileNew \/ ReconcileEnd \/ RegisterUnsupported \/ RegisterEnd
  BY <1>3, <1>9 DEF ReconcileKnown, ReconcileNew, ReconcileEnd, RegisterUnsupported,
                    RegisterEnd, ReadBatches
<1>10. CASE UNCHANGED vars
  BY <1>3, <1>10 DEF vars, ReadBatches
<1>11. QED
  BY <1>4, <1>5, <1>6, <1>7, <1>8, <1>9, <1>10 DEF Next, Finished

(* Double quotes are read as the session reads them: the flag every batch  *)
(* is routed with is the session's at each of its quotes.                  *)
THEOREM QuotesFollowTheSession ==
  ASSUME TogglesAhead
  PROVE  Spec => []QuotesReadAsInSession
<1>1. Init => QuotesInv
  <2>1. SessionQuotesOff(0) = FALSE
    BY DEF SessionQuotesOff
  <2>2. QED
    BY <2>1 DEF Init, QuotesInv, ReadBatches
<1>2. TypeOK /\ TypeOK' /\ QuotesInv /\ [Next]_vars => QuotesInv'
  BY QuotesNext
<1>3. TypeOK /\ QuotesInv => QuotesReadAsInSession
  <2> SUFFICES ASSUME TypeOK, QuotesInv, pc = "route", SourceTsql,
                      NEW j \in DOMAIN B.quoting, B.quoting[j] = "quote"
               PROVE  QuotesOff(SubSeq(B.quoting, 1, j), SessionQuotesOff(i - 1)) = qiOff
    BY DEF QuotesReadAsInSession
  <2> DEFINE head == SubSeq(B.quoting, 1, j)
             before == SessionQuotesOff(i - 1)
  <2>1. i \in 1..Len(script)
    BY InputsAssumption, SeqIsFunction DEF TypeOK
  <2>2. B \in Batches /\ qiOff \in BOOLEAN
    BY <2>1, CurrentBatch DEF TypeOK
  <2>3. /\ before \in BOOLEAN
        /\ qiOff <=> QuotesOff(B.quoting, before)
    BY <2>1, SessionGoesOn DEF B, QuotesInv, ReadBatches
  <2>4. /\ DOMAIN B.quoting = 1..Len(B.quoting) /\ Len(B.quoting) \in Nat
        /\ \A l \in DOMAIN B.quoting : l > j => B.quoting[l] = "quote"
    BY <2>2, QuotingTyped DEF TogglesAhead
  <2>5. DOMAIN head = 1..j /\ \A l \in 1..j : head[l] = B.quoting[l]
    BY <2>4
  <2>6. Toggles(head) = Toggles(B.quoting)
    BY <2>4, <2>5 DEF Toggles
  <2>7. QuotesOff(head, before) = QuotesOff(B.quoting, before)
    <3>1. CASE Toggles(head) # {}
      <4>1. Toggles(head) \subseteq 1..j /\ j \in Nat
        BY <2>4, <2>5 DEF Toggles
      <4>2. Max(Toggles(head)) \in 1..j
        BY <3>1, <4>1, MaxIsGreatest
      <4>3. QED
        BY <2>5, <2>6, <3>1, <4>2 DEF QuotesOff
    <3>2. QED
      BY <2>6, <3>1 DEF QuotesOff
  <2>8. QuotesOff(B.quoting, before) \in BOOLEAN
    BY <2>3 DEF QuotesOff
  <2>9. QED
    BY <2>2, <2>3, <2>7, <2>8
<1>4. QED
  BY <1>1, <1>2, <1>3, TypeCorrect, PTL DEF Spec

-----------------------------------------------------------------------------
(* Sessions of at most one transaction statement to a batch.               *)
States == [open : Nat, orphan : BOOLEAN]
Start  == [open |-> 0, orphan |-> FALSE]
Ones   == {t \in Seq(TxOps) : Len(t) <= 1}

LEMMA TxStepTyped == \A s \in States, op \in TxOps : TxStep(s, op) \in States
<1> SUFFICES ASSUME NEW s \in States, NEW op \in TxOps PROVE TxStep(s, op) \in States
  OBVIOUS
<1>1. s.open \in Nat /\ s.orphan \in BOOLEAN
  BY DEF States
<1>2. [s EXCEPT !.open = @ + 1] \in States
  BY <1>1 DEF States
<1>3. [s EXCEPT !.orphan = TRUE] \in States
  BY <1>1 DEF States
<1>4. [s EXCEPT !.open = 0] \in States /\ (s.open > 0 => [s EXCEPT !.open = @ - 1] \in States)
  BY <1>1 DEF States
<1>5. CASE op = "begin"
  BY <1>2, <1>5 DEF TxStep
<1>6. CASE op # "begin" /\ s.open = 0
  BY <1>3, <1>6 DEF TxStep
<1>7. CASE op # "begin" /\ s.open > 0
  BY <1>4, <1>7 DEF TxStep
<1>8. QED
  BY <1>1, <1>5, <1>6, <1>7

(* What one statement does to a session, and none.                         *)
RunsAs(h, s, ops) ==
  h = [n \in 0..Len(ops) |-> IF n = 0 THEN s ELSE TxStep(h[n - 1], ops[n])]

LEMMA RunUnfolds ==
  ASSUME NEW s, NEW ops, NEW f, RunsAs(f, s, ops)
  PROVE  \E h : RunsAs(h, s, ops) /\ Run(s, ops) = h[Len(ops)]
<1> DEFINE after == CHOOSE h : RunsAs(h, s, ops)
<1>1. Run(s, ops) = after[Len(ops)]
  BY Zenon DEF Run, RunsAs
<1>2. RunsAs(after, s, ops)
  BY Zenon
<1>3. QED
  BY <1>1, <1>2

LEMMA RunNothing == \A s : Run(s, <<>>) = s
<1> SUFFICES ASSUME NEW s, NEW ops, ops = <<>> PROVE Run(s, ops) = s
  OBVIOUS
<1>1. RunsAs([n \in 0..0 |-> s], s, ops)
  BY DEF RunsAs
<1>2. PICK h : RunsAs(h, s, ops) /\ Run(s, ops) = h[Len(ops)]
  BY <1>1, RunUnfolds
<1>3. QED
  BY <1>2 DEF RunsAs

LEMMA RunOne == \A s, op : Run(s, <<op>>) = TxStep(s, op)
<1> SUFFICES ASSUME NEW s, NEW op, NEW ops, ops = <<op>> PROVE Run(s, ops) = TxStep(s, op)
  OBVIOUS
<1>1. Len(ops) = 1 /\ ops[1] = op
  OBVIOUS
<1>2. RunsAs([n \in 0..1 |-> IF n = 0 THEN s ELSE TxStep(s, op)], s, ops)
  BY <1>1 DEF RunsAs
<1>3. PICK h : RunsAs(h, s, ops) /\ Run(s, ops) = h[Len(ops)]
  BY <1>2, RunUnfolds
<1>4. h[0] = s /\ h[1] = TxStep(h[0], ops[1])
  BY <1>1, <1>3 DEF RunsAs
<1>5. QED
  BY <1>1, <1>3, <1>4

(* A batch of at most one statement runs it.                               *)
LEMMA RunOnes ==
  ASSUME NEW t \in Ones
  PROVE  /\ t = <<>> \/ (t[1] \in TxOps /\ t = <<t[1]>>)
         /\ \A s \in States : Run(s, t) \in States
<1>1. t = <<>> \/ (t[1] \in TxOps /\ t = <<t[1]>>)
  <2>0. t \in Seq(TxOps) /\ Len(t) \in Nat /\ Len(t) <= 1
    BY DEF Ones
  <2>1. t \in Seq(TxOps) /\ Len(t) \in {0, 1}
    BY <2>0
  <2>2. Len(t) = 0 => t = <<>>
    BY <2>1
  <2>3. Len(t) = 1 => t[1] \in TxOps /\ t = <<t[1]>>
    BY <2>1
  <2>4. QED
    BY <2>1, <2>2, <2>3
<1>2. QED
  BY <1>1, RunNothing, RunOne, TxStepTyped

(* The session of a script, batch by batch.                                *)
SessionAs(h, texts) ==
  h = [n \in 0..Len(texts) |-> IF n = 0 THEN Start ELSE Run(h[n - 1], texts[n])]

Typed(h, texts) ==
  /\ h \in [0..Len(texts) -> States]
  /\ h[0] = Start
  /\ \A n \in 1..Len(texts) : h[n] = Run(h[n - 1], texts[n])

LEMMA SessionExists ==
  ASSUME NEW texts \in Seq(Ones)
  PROVE  \E h : Typed(h, texts)
<1> DEFINE Upto(m, h) == /\ h \in [0..m -> States]
                         /\ h[0] = Start
                         /\ \A n \in 1..m : h[n] = Run(h[n - 1], texts[n])
           Bad == {m \in 0..Len(texts) : ~\E h : Upto(m, h)}
<1>0. Len(texts) \in Nat /\ \A n \in 1..Len(texts) : texts[n] \in Ones
  OBVIOUS
<1>1. ASSUME Bad # {} PROVE FALSE
  <2>0. Bad \subseteq Nat
    OBVIOUS
  <2>1. PICK m \in Bad : \A j \in Bad : m <= j
    <3> HIDE DEF Bad
    <3>1. QED
      BY <1>1, <2>0, SomeLeast
  <2>2. CASE m = 0
    <3>1. Start \in States
      BY DEF Start, States
    <3>2. Upto(0, [n \in 0..0 |-> Start])
      BY <3>1
    <3>3. QED
      BY <2>1, <2>2, <3>2
  <2>3. CASE m # 0
    <3>0. m \in 1..Len(texts) /\ m - 1 \in 0..Len(texts) /\ ~(m <= m - 1)
      BY <1>0, <2>1, <2>3
    <3>1. m \in 1..Len(texts) /\ m - 1 \in 0..Len(texts) /\ m - 1 \notin Bad
      BY <2>1, <3>0
    <3>2. PICK h : Upto(m - 1, h)
      BY <3>1
    <3> DEFINE g == [n \in 0..m |-> IF n = m THEN Run(h[m - 1], texts[m]) ELSE h[n]]
    <3>3. \A n \in 0..(m - 1) : h[n] \in States /\ g[n] = h[n]
      BY <1>0, <3>1, <3>2
    <3>4. g[m] = Run(g[m - 1], texts[m]) /\ g[m] \in States
      <4>1. m \in 0..m /\ m - 1 \in 0..(m - 1)
        BY <1>0, <3>1
      <4>2. g[m] = Run(h[m - 1], texts[m]) /\ g[m - 1] = h[m - 1] /\ h[m - 1] \in States
        BY <3>3, <4>1
      <4>3. texts[m] \in Ones
        BY <1>0, <3>1
      <4>4. QED
        BY <4>2, <4>3, RunOnes
    <3>5. g \in [0..m -> States]
      <4>1. \A n \in 0..m : n = m \/ n \in 0..(m - 1)
        BY <1>0, <3>1
      <4>2. \A n \in 0..m : g[n] \in States
        BY <3>3, <3>4, <4>1
      <4> QED
        BY <4>2
    <3>6. \A n \in 1..(m - 1) : g[n] = Run(g[n - 1], texts[n])
      BY <1>0, <3>1, <3>2, <3>3
    <3>7. g[0] = Start
      BY <1>0, <3>1, <3>2, <3>3
    <3> HIDE DEF g
    <3>8. \A n \in 1..m : g[n] = Run(g[n - 1], texts[n])
      BY <1>0, <3>1, <3>4, <3>6
    <3>9. QED
      BY <2>1, <3>5, <3>7, <3>8
  <2>4. QED
    BY <2>2, <2>3
<1>2. QED
  BY <1>0, <1>1 DEF Typed

LEMMA SessionIs ==
  ASSUME NEW texts \in Seq(Ones), NEW f, Typed(f, texts)
  PROVE  Session(texts) = f[Len(texts)]
<1> DEFINE h == CHOOSE h : SessionAs(h, texts)
<1>0. Len(texts) \in Nat
  OBVIOUS
<1>1. Session(texts) = h[Len(texts)]
  BY Zenon DEF Session, SessionAs, Start
<1>2. SessionAs(f, texts)
  BY <1>0 DEF Typed, SessionAs
<1>3. SessionAs(h, texts)
  BY <1>2, Zenon
<1> HIDE DEF h
<1> DEFINE Bad == {n \in 0..Len(texts) : h[n] # f[n]}
<1>4. ASSUME Bad # {} PROVE FALSE
  <2>0. Bad \subseteq Nat
    OBVIOUS
  <2>1. PICK m \in Bad : \A j \in Bad : m <= j
    <3> HIDE DEF Bad
    <3>1. QED
      BY <1>4, <2>0, SomeLeast
  <2>2. m # 0
    BY <1>0, <1>3, <2>1 DEF SessionAs, Typed
  <2>3. m - 1 \in 0..Len(texts) /\ h[m - 1] = f[m - 1] /\ m \in 1..Len(texts)
    BY <1>0, <2>1, <2>2
  <2>4. h[m] = Run(h[m - 1], texts[m])
    BY <1>0, <1>3, <2>3 DEF SessionAs
  <2>5. QED
    BY <2>1, <2>3, <2>4 DEF Typed
<1>5. QED
  BY <1>0, <1>1, <1>4

(* Nothing run, and one batch more.                                        *)
LEMMA SessionGrows ==
  /\ Session(<<>>) = Start
  /\ \A texts \in Seq(Ones), t \in Ones :
       /\ Session(texts) \in States
       /\ Session(Append(texts, t)) = Run(Session(texts), t)
<1>1. Session(<<>>) = Start
  <2>1. Typed([n \in 0..0 |-> Start], <<>>) /\ <<>> \in Seq(Ones)
    BY DEF Typed, Start, States
  <2>2. QED
    BY <2>1, SessionIs
<1>2. ASSUME NEW texts \in Seq(Ones), NEW t \in Ones
      PROVE  /\ Session(texts) \in States
             /\ Session(Append(texts, t)) = Run(Session(texts), t)
  <2> DEFINE N == Len(texts)
             more == Append(texts, t)
  <2>1. PICK f : Typed(f, texts)
    BY SessionExists
  <2>2. Session(texts) = f[N] /\ N \in Nat /\ f[N] \in States
    BY <2>1, SessionIs DEF Typed
  <2> DEFINE g == [n \in 0..(N + 1) |-> IF n = N + 1 THEN Run(f[N], t) ELSE f[n]]
  <2>3. more \in Seq(Ones) /\ Len(more) = N + 1 /\ more[N + 1] = t
        /\ \A n \in 1..N : more[n] = texts[n]
    OBVIOUS
  <2>4. \A n \in 0..N : g[n] = f[n] /\ f[n] \in States
    BY <2>1, <2>2 DEF Typed
  <2>5. g[N + 1] = Run(f[N], t) /\ Run(f[N], t) \in States
    BY <2>2, RunOnes
  <2>6. g \in [0..(N + 1) -> States]
    <3>1. \A n \in 0..(N + 1) : n = N + 1 \/ n \in 0..N
      BY <2>2
    <3>2. \A n \in 0..(N + 1) : g[n] \in States
      BY <2>4, <2>5, <3>1
    <3>3. QED
      BY <3>2
  <2>7. g[0] = Start
    BY <2>1, <2>2, <2>4 DEF Typed
  <2> HIDE DEF g, more
  <2>8. \A n \in 1..N : g[n] = Run(g[n - 1], more[n])
    BY <2>1, <2>2, <2>3, <2>4 DEF Typed
  <2>9. Typed(g, more)
    BY <2>2, <2>3, <2>4, <2>5, <2>6, <2>7, <2>8 DEF Typed
  <2>10. Session(more) = g[N + 1]
    BY <2>3, <2>9, SessionIs
  <2>11. QED
    BY <2>2, <2>5, <2>10 DEF more
<1>3. QED
  BY <1>1, <1>2

-----------------------------------------------------------------------------
(* The stack follows both sessions: the script's open transactions are its *)
(* topmost entries, and the output has opened those that are TRUE.         *)
Live(stack, open) == {j \in (Len(stack) - open + 1)..Len(stack) : stack[j]}
Matched(s, t, stack) ==
  \/ s.orphan
  \/ /\ ~t.orphan
     /\ s.open <= Len(stack)
     /\ t.open >= Cardinality(Live(stack, s.open))

LEMMA TxStepFacts ==
  ASSUME NEW s \in States
  PROVE  /\ TxStep(s, "begin").open = s.open + 1
         /\ TxStep(s, "begin").orphan <=> s.orphan
         /\ \A op \in {"commit", "rollback"} :
              /\ TxStep(s, op).orphan <=> (s.orphan \/ s.open = 0)
              /\ s.open > 0 => TxStep(s, op).open = IF op = "commit" THEN s.open - 1 ELSE 0
         /\ TxStep(s, "other") = s
<1>1. s.open \in Nat /\ s.orphan \in BOOLEAN
  BY DEF States
<1>2. /\ TxStep(s, "begin") = [s EXCEPT !.open = @ + 1]
      /\ TxStep(s, "other") = s
  BY DEF TxStep
<1>3. TxStep(s, "begin").open = s.open + 1 /\ (TxStep(s, "begin").orphan <=> s.orphan)
  BY <1>1, <1>2 DEF States
<1>4. ASSUME NEW op \in {"commit", "rollback"}
      PROVE  /\ TxStep(s, op).orphan <=> (s.orphan \/ s.open = 0)
             /\ s.open > 0 => TxStep(s, op).open = IF op = "commit" THEN s.open - 1 ELSE 0
  <2>1. CASE s.open = 0
    <3>1. TxStep(s, op) = [s EXCEPT !.orphan = TRUE]
      BY <2>1 DEF TxStep
    <3>2. QED
      BY <2>1, <3>1 DEF States
  <2>2. CASE s.open > 0
    <3>1. /\ op = "commit" => TxStep(s, op) = [s EXCEPT !.open = @ - 1]
          /\ op = "rollback" => TxStep(s, op) = [s EXCEPT !.open = 0]
      BY <2>2 DEF TxStep
    <3>2. op = "commit" => /\ TxStep(s, op).open = s.open - 1
                           /\ TxStep(s, op).orphan <=> s.orphan
      BY <3>1 DEF States
    <3>3. op = "rollback" => /\ TxStep(s, op).open = 0
                             /\ TxStep(s, op).orphan <=> s.orphan
      BY <3>1 DEF States
    <3>4. QED
      BY <2>2, <3>2, <3>3
  <2>3. QED
    BY <1>1, <2>1, <2>2
<1>5. QED
  BY <1>2, <1>3, <1>4

(* The entries counted are finitely many.                                  *)
LEMMA LiveFinite ==
  ASSUME NEW stack \in Seq(BOOLEAN), NEW open \in Nat, open <= Len(stack)
  PROVE  /\ IsFiniteSet(Live(stack, open)) /\ Cardinality(Live(stack, open)) \in Nat
         /\ Live(stack, open) \subseteq 1..Len(stack)
<1>1. Live(stack, open) \subseteq 1..Len(stack) /\ Len(stack) \in Nat
  BY DEF Live
<1>2. IsFiniteSet(1..Len(stack))
  BY <1>1, FS_Interval
<1>3. QED
  BY <1>1, <1>2, FS_Subset, FS_CardinalityType

(* An opener, which ships or does not.                                     *)
LEMMA MatchedOpen ==
  ASSUME NEW s \in States, NEW t \in States, NEW stack \in Seq(BOOLEAN),
         NEW ships \in BOOLEAN, Matched(s, t, stack),
         NEW u, u = IF ships THEN TxStep(t, "begin") ELSE t
  PROVE  Matched(TxStep(s, "begin"), u, Append(stack, ships))
<1> DEFINE N == Len(stack)
           more == Append(stack, ships)
           L == Live(stack, s.open)
<1>1. /\ s.open \in Nat /\ t.open \in Nat /\ N \in Nat
      /\ TxStep(s, "begin").open = s.open + 1 /\ (TxStep(s, "begin").orphan <=> s.orphan)
      /\ TxStep(t, "begin").open = t.open + 1 /\ (TxStep(t, "begin").orphan <=> t.orphan)
  BY TxStepFacts DEF States
<1>2. SUFFICES ASSUME ~s.orphan PROVE Matched(TxStep(s, "begin"), u, more)
  BY <1>1 DEF Matched
<1>3. ~t.orphan /\ s.open <= N /\ t.open >= Cardinality(L)
  BY <1>2 DEF Matched
<1>4. IsFiniteSet(L) /\ Cardinality(L) \in Nat /\ L \subseteq 1..N
  BY <1>1, <1>3, LiveFinite
<1>5. /\ Len(more) = N + 1 /\ more[N + 1] = ships
      /\ \A j \in 1..N : more[j] = stack[j]
  OBVIOUS
<1>6. Live(more, s.open + 1) = IF ships THEN L \cup {N + 1} ELSE L
  <2>1. (N + 1) - (s.open + 1) + 1 = N - s.open + 1 /\ 1 <= N - s.open + 1
    BY <1>1, <1>3
  <2>2. (N - s.open + 1)..(N + 1) = ((N - s.open + 1)..N) \cup {N + 1}
    BY <1>1, <1>3
  <2>3. \A j \in (N - s.open + 1)..N : more[j] = stack[j]
    BY <1>1, <1>3, <1>5, <2>1
  <2> HIDE DEF more
  <2>4. QED
    BY <1>5, <2>1, <2>2, <2>3 DEF Live
<1>7. Cardinality(Live(more, s.open + 1)) = Cardinality(L) + (IF ships THEN 1 ELSE 0)
  <2>1. N + 1 \notin L
    BY <1>1, <1>4
  <2>2. Cardinality(L \cup {N + 1}) = Cardinality(L) + 1
    BY <1>4, <2>1, FS_AddElement
  <2>3. QED
    BY <1>4, <1>6, <2>2
<1>8. /\ ~u.orphan /\ u.open = t.open + (IF ships THEN 1 ELSE 0)
  BY <1>1, <1>3
<1> HIDE DEF more, L
<1>9. s.open + 1 <= Len(more) /\ u.open >= Cardinality(Live(more, s.open + 1))
  BY <1>1, <1>3, <1>4, <1>5, <1>7, <1>8
<1>10. QED
  BY <1>1, <1>8, <1>9 DEF Matched

(* A closer, which ships only if its opener did.                           *)
LEMMA MatchedClose ==
  ASSUME NEW s \in States, NEW t \in States, NEW stack \in Seq(BOOLEAN), stack # <<>>,
         NEW op \in {"commit", "rollback"}, NEW ships \in BOOLEAN,
         ships => Top(stack), Matched(s, t, stack),
         NEW u, u = IF ships THEN TxStep(t, op) ELSE t
  PROVE  Matched(TxStep(s, op), u, Pop(stack))
<1> DEFINE N == Len(stack)
           less == Pop(stack)
           L == Live(stack, s.open)
<1>1. /\ s.open \in Nat /\ t.open \in Nat /\ N \in Nat /\ N >= 1
      /\ TxStep(s, op).orphan <=> (s.orphan \/ s.open = 0)
  BY TxStepFacts DEF States
<1>2. SUFFICES ASSUME ~s.orphan, s.open > 0 PROVE Matched(TxStep(s, op), u, less)
  BY <1>1 DEF Matched
<1>3. ~t.orphan /\ s.open <= N /\ t.open >= Cardinality(L)
  BY <1>2 DEF Matched
<1>4. IsFiniteSet(L) /\ Cardinality(L) \in Nat /\ L \subseteq 1..N
  BY <1>1, <1>3, LiveFinite
<1>5. less \in Seq(BOOLEAN) /\ Len(less) = N - 1 /\ \A j \in 1..(N - 1) : less[j] = stack[j]
  <2>1. less = SubSeq(stack, 1, N - 1) /\ N - 1 \in Nat
    BY <1>1 DEF Pop
  <2>2. SubSeq(stack, 1, N - 1) = [j \in 1..(N - 1) |-> stack[j]]
    BY <1>1
  <2>3. \A j \in 1..(N - 1) : stack[j] \in BOOLEAN
    BY <1>1
  <2>4. [j \in 1..(N - 1) |-> stack[j]] \in [1..(N - 1) -> BOOLEAN]
    BY <2>3
  <2>5. /\ less \in [1..(N - 1) -> BOOLEAN] /\ N - 1 \in Nat
        /\ \A j \in 1..(N - 1) : less[j] = stack[j]
    BY <2>1, <2>2, <2>4
  <2> HIDE DEF less
  <2>6. QED
    BY <2>5, FunctionIsSeq
<1> HIDE DEF less
<1>6. stack[N] \in BOOLEAN /\ (N \in L <=> stack[N]) /\ Top(stack) = stack[N]
  BY <1>1, <1>2, <1>3 DEF Live, Top
<1>7. stack[N] => Cardinality(L) >= 1 /\ Cardinality(L \ {N}) = Cardinality(L) - 1
  <2>1. stack[N] => Cardinality(L \ {N}) = Cardinality(L) - 1
    BY <1>4, <1>6, FS_RemoveElement
  <2>2. IsFiniteSet(L \ {N}) /\ Cardinality(L \ {N}) \in Nat
    BY <1>4, FS_Subset, FS_CardinalityType
  <2>3. QED
    BY <1>4, <2>1, <2>2
<1>8. Live(less, s.open - 1) = L \ {N}
  <2>1. (N - 1) - (s.open - 1) + 1 = N - s.open + 1 /\ 1 <= N - s.open + 1
    BY <1>1, <1>3
  <2>2. (N - s.open + 1)..(N - 1) = ((N - s.open + 1)..N) \ {N}
    BY <1>1, <1>3
  <2>3. \A j \in (N - s.open + 1)..(N - 1) : less[j] = stack[j]
    BY <1>1, <1>3, <1>5, <2>1
  <2>4. QED
    BY <1>5, <2>1, <2>2, <2>3 DEF Live
<1>9. ships => t.open > 0 /\ stack[N]
  BY <1>1, <1>3, <1>4, <1>6, <1>7
<1>10. ~u.orphan
  BY <1>3, <1>9, TxStepFacts
<1> HIDE DEF L
<1>11. CASE op = "commit"
  <2>1. TxStep(s, op).open = s.open - 1 /\ (ships => TxStep(t, op).open = t.open - 1)
    BY <1>2, <1>9, <1>11, TxStepFacts
  <2>2. Cardinality(L \ {N}) <= Cardinality(L) /\ Cardinality(L \ {N}) \in Nat
    BY <1>4, <1>6, <1>7, FS_Subset, FS_CardinalityType
  <2>3. u.open >= Cardinality(Live(less, s.open - 1))
    <3>1. PICK c, d : c = Cardinality(L) /\ d = Cardinality(L \ {N})
      OBVIOUS
    <3>2. u.open = IF ships THEN t.open - 1 ELSE t.open
      BY <2>1
    <3>3. c \in Nat /\ d \in Nat /\ d <= c /\ t.open >= c /\ (ships => d = c - 1)
      BY <1>3, <1>4, <1>7, <1>9, <2>2, <3>1
    <3>4. u.open >= d
      BY <1>1, <3>2, <3>3
    <3>5. QED
      BY <1>8, <3>1, <3>4
  <2>4. s.open - 1 <= Len(less)
    BY <1>1, <1>3, <1>5
  <2>5. QED
    BY <1>10, <2>1, <2>3, <2>4 DEF Matched
<1>12. CASE op = "rollback"
  <2>1. TxStep(s, op).open = 0 /\ (ships => TxStep(t, op).open = 0)
    BY <1>2, <1>9, <1>12, TxStepFacts
  <2>2. Live(less, 0) = {}
    BY <1>1, <1>5 DEF Live
  <2>3. Cardinality(Live(less, 0)) = 0
    BY <2>2, FS_EmptySet
  <2>4. u.open >= 0 /\ 0 <= Len(less)
    BY <1>1, <1>5, <2>1
  <2>5. QED
    BY <1>10, <2>1, <2>3, <2>4 DEF Matched
<1>13. QED
  BY <1>11, <1>12

(* A closer of a script without an open transaction is an orphan of it.    *)
LEMMA MatchedOrphan ==
  ASSUME NEW s \in States, NEW t, NEW u, NEW op \in {"commit", "rollback"},
         Matched(s, t, <<>>)
  PROVE  Matched(TxStep(s, op), u, <<>>)
<1>1. s.orphan \/ s.open <= 0
  BY DEF Matched
<1>2. TxStep(s, op).orphan
  BY <1>1, TxStepFacts DEF States
<1>3. QED
  BY <1>2 DEF Matched

-----------------------------------------------------------------------------
(* The statement of a batch, its role, and what it does to a session.      *)
LEMMA BatchMoves ==
  ASSUME OneStatementEach, NEW b \in Batches
  PROVE  /\ b.tx \in Ones
         /\ ~Moves(b) => /\ TransactionRole(b) = "none"
                         /\ \A s \in States : Run(s, b.tx) = s
         /\ Moves(b) => /\ b.tx[1] \in {"begin", "commit", "rollback"}
                        /\ \A s \in States : Run(s, b.tx) = TxStep(s, b.tx[1])
                        /\ b.type \notin {"PROCEDURAL", "COMMENT"} /\ ~IsSkipped(b)
                        /\ TransactionRole(b) = IF b.tx[1] = "begin" THEN "open" ELSE "close"
<1>1. Shape(b) \in BatchShape
  BY InputsAssumption
<1>2. b.tx \in Seq(TxOps) /\ b.parses \in BOOLEAN /\ b.blank \in BOOLEAN
  BY <1>1 DEF Shape, BatchShape
<1>3. b.tx \in Ones
  BY <1>2 DEF Ones, OneStatementEach
<1>4. b.tx = <<>> \/ (b.tx[1] \in TxOps /\ b.tx = <<b.tx[1]>>)
  BY <1>3, RunOnes
<1>5. ASSUME ~Moves(b)
      PROVE  /\ TransactionRole(b) = "none"
             /\ \A s \in States : Run(s, b.tx) = s
  <2>1. b.tx = <<>> \/ (b.tx[1] = "other" /\ b.tx = <<b.tx[1]>>)
    BY <1>4, <1>5 DEF Moves
  <2>2. TransactionRole(b) = "none"
    BY <2>1 DEF TransactionRole
  <2>3. ASSUME NEW s \in States PROVE Run(s, b.tx) = s
    <3>1. CASE b.tx = <<>>
      BY <3>1, RunNothing
    <3>2. CASE b.tx = <<b.tx[1]>> /\ b.tx[1] = "other"
      <4>1. Run(s, b.tx) = TxStep(s, "other")
        BY <3>2, RunOne
      <4>2. QED
        BY <4>1, TxStepFacts
    <3>3. QED
      BY <2>1, <3>1, <3>2
  <2>4. QED
    BY <2>2, <2>3
<1>6. ASSUME Moves(b)
      PROVE  /\ b.tx[1] \in {"begin", "commit", "rollback"}
             /\ \A s \in States : Run(s, b.tx) = TxStep(s, b.tx[1])
             /\ b.type \notin {"PROCEDURAL", "COMMENT"} /\ ~IsSkipped(b)
             /\ TransactionRole(b) = IF b.tx[1] = "begin" THEN "open" ELSE "close"
  <2>1. b.tx # <<>> /\ b.tx[1] # "other" /\ b.tx = <<b.tx[1]>> /\ b.tx[1] \in TxOps
    BY <1>4, <1>6 DEF Moves
  <2>2. /\ b.tx[1] # "rollback_to" /\ ~b.blank /\ b.type \notin {"PROCEDURAL", "COMMENT"}
        /\ b.tx[1] # "begin" => b.parses
    BY <1>6 DEF OneStatementEach
  <2>3. b.tx[1] \in {"begin", "commit", "rollback"}
    BY <2>1, <2>2 DEF TxOps
  <2>4. \A s \in States : Run(s, b.tx) = TxStep(s, b.tx[1])
    BY <2>1, RunOne
  <2>5. Len(b.tx) = 1
    <3>1. \A op : Len(<<op>>) = 1
      OBVIOUS
    <3>2. QED
      BY <2>1, <3>1
  <2>6. TransactionRole(b) = IF b.tx[1] = "begin" THEN "open" ELSE "close"
    BY <2>1, <2>2, <2>3, <2>5 DEF TransactionRole
  <2>7. QED
    BY <2>2, <2>3, <2>4, <2>6 DEF IsSkipped
<1>7. QED
  BY <1>3, <1>5, <1>6

(* The session of the script, batch by batch.                              *)
LEMMA WrittenGrows ==
  ASSUME OneStatementEach, TypeOK, NEW n \in 0..Len(script)
  PROVE  /\ Session(Written(n)) \in States
         /\ n > 0 => /\ Session(Written(n - 1)) \in States
                     /\ Session(Written(n)) = Run(Session(Written(n - 1)), script[n].tx)
<1>1. script \in Seq(Batches) /\ Len(script) \in Nat
  BY InputsAssumption, SeqIsFunction DEF TypeOK
<1>2. \A m \in 1..Len(script) : script[m].tx \in Ones
  BY <1>1, BatchMoves
<1>3. ASSUME NEW m \in 0..Len(script) PROVE Written(m) \in Seq(Ones) /\ Len(Written(m)) = m
  <2>1. Written(m) \in [1..m -> Ones] /\ m \in Nat
    BY <1>1, <1>2 DEF Written
  <2>2. QED
    BY <2>1, FunctionIsSeq
<1>4. Session(Written(n)) \in States
  <2>1. script # <<>> \/ n = 0
    BY <1>1
  <2>2. <<>> \in Ones
    BY DEF Ones
  <2>3. QED
    BY <1>3, <2>2, SessionGrows
<1>5. ASSUME n > 0
      PROVE  /\ Session(Written(n - 1)) \in States
             /\ Session(Written(n)) = Run(Session(Written(n - 1)), script[n].tx)
  <2>1. n \in 1..Len(script) /\ n - 1 \in 0..Len(script) /\ n - 1 \in Nat
    BY <1>1, <1>5
  <2>2. script[n].tx \in Ones
    BY <1>2, <2>1
  <2>3. Written(n - 1) \in Seq(Ones) /\ Len(Written(n - 1)) = n - 1
    BY <1>3, <2>1
  <2>4. Written(n) = Append(Written(n - 1), script[n].tx)
    <3>1. Append(Written(n - 1), script[n].tx)
            = [m \in 1..((n - 1) + 1) |-> IF m = (n - 1) + 1 THEN script[n].tx
                                        ELSE Written(n - 1)[m]]
      BY <2>3
    <3>2. \A m \in 1..n : m # n => Written(n - 1)[m] = script[m].tx
      BY <2>1 DEF Written
    <3>3. (n - 1) + 1 = n
      BY <2>1
    <3>4. QED
      BY <3>1, <3>2, <3>3 DEF Written
  <2>5. QED
    BY <2>2, <2>3, <2>4, SessionGrows
<1>6. QED
  BY <1>4, <1>5

(* The session of the output.                                              *)
LEMMA RunsOfTyped ==
  ASSUME OneStatementEach, NEW b \in Batches, NEW form
  PROVE  RunsOf(b, form) \in Ones
<1>1. b.tx \in Ones /\ <<>> \in Ones
  BY BatchMoves DEF Ones
<1>2. QED
  BY <1>1 DEF RunsOf

LEMMA ShippedTyped ==
  ASSUME OneStatementEach, TypeOK, EmissionInv
  PROVE  Shipped \in Seq(Ones) /\ Len(Shipped) = Len(parts) /\ Session(Shipped) \in States
<1>1. /\ script \in Seq(Batches) /\ Len(script) \in Nat
      /\ DOMAIN parts = 1..Len(parts) /\ Len(parts) \in Nat /\ i \in Nat
  BY InputsAssumption, SeqIsFunction DEF TypeOK
<1>2. ASSUME NEW p \in DOMAIN parts PROVE script[parts[p].batch] \in Batches
  <2>1. parts[p].batch \in Emitted
    BY DEF EmissionInv
  <2>2. Emitted \subseteq 1..Len(script)
    BY <1>1 DEF Emitted, HasEmitted, EmissionInv, TypeOK
  <2>3. \A n \in 1..Len(script) : script[n] \in Batches
    BY <1>1
  <2>4. QED
    BY <2>1, <2>2, <2>3
<1>3. \A p \in 1..Len(parts) : RunsOf(script[parts[p].batch], parts[p].form) \in Ones
  BY <1>1, <1>2, RunsOfTyped
<1>4. Shipped \in [1..Len(parts) -> Ones]
  BY <1>1, <1>3 DEF Shipped
<1>5. Shipped \in Seq(Ones) /\ Len(Shipped) = Len(parts)
  BY <1>1, <1>4, FunctionIsSeq
<1>6. <<>> \in Ones
  BY DEF Ones
<1>7. QED
  BY <1>5, <1>6, SessionGrows

(* The batches the stack has seen, the session the output is in once the   *)
(* current batch ships, and the invariant: the stack follows both.         *)
Stacked == IF pc \in {"next", "route", "gate", "tx", "done"} THEN i - 1 ELSE i
Running == IF pc = "emit" THEN Run(Session(Shipped), RunsOf(B, res.form))
           ELSE Session(Shipped)
TxInv ==
  /\ Matched(Session(Written(Stacked)), Running, txStack)
  /\ pc \in {"gate", "tx", "emit"} /\ Moves(B) => res.form # "block"

LEMMA TxInit == OneStatementEach /\ Init => TxInv
<1> SUFFICES ASSUME OneStatementEach, Init PROVE TxInv
  OBVIOUS
<1>1. /\ i = 1 /\ pc = "next" /\ txStack = <<>> /\ parts = <<>>
  BY DEF Init
<1>2. Stacked = 0 /\ Written(0) = <<>> /\ Shipped = <<>> /\ Running = Session(Shipped)
  <2>1. DOMAIN parts = {}
    BY <1>1
  <2>2. QED
    BY <1>1, <2>1 DEF Stacked, Written, Shipped, Running
<1>3. Session(<<>>) = Start
  BY SessionGrows
<1>4. Matched(Start, Start, <<>>)
  <2>1. Live(<<>>, 0) = {}
    BY DEF Live
  <2>2. QED
    BY <2>1, FS_EmptySet DEF Matched, Start
<1>5. QED
  BY <1>1, <1>2, <1>3, <1>4 DEF TxInv

LEMMA TxNext ==
  ASSUME OneStatementEach, TypeOK, TypeOK', EmissionInv, EmissionInv', TxInv, [Next]_vars
  PROVE  TxInv'
<1> DEFINE before(n) == Session(Written(n))
           moved == Moves(B) => res.form # "block"
<1>1. script' = script
  BY DEF Next, vars, SkipBatch, StartBatch, RouteComment, RoutePipeline, GateReject,
         GateDiverge, GatePass, TxOpen, TxClose, TxDegrade, TxNone, EmitPart,
         ReconcileKnown, ReconcileNew, ReconcileEnd, RegisterUnsupported, RegisterEnd,
         FallbackCodes, Return, Finished
<1>2. i \in Nat \ {0} /\ script \in Seq(Batches) /\ txStack \in Seq(BOOLEAN)
      /\ Len(script) \in Nat /\ i - 1 \in Nat
  BY InputsAssumption, SeqIsFunction DEF TypeOK
<1>3. ASSUME NEW n, NEW t, Stacked' = n, Running' = t, Matched(before(n), t, txStack')
      PROVE  Matched(Session(Written(Stacked)), Running, txStack)'
  <2>1. Written(Stacked)' = Written(n)
    BY <1>1, <1>3 DEF Written
  <2>2. Session(Written(Stacked))' = Session(Written(n))
    BY <2>1
  <2>3. QED
    BY <1>3, <2>2 DEF Matched, Live
<1>4. Matched(before(Stacked), Running, txStack)
  BY DEF TxInv
<1>5. ASSUME Stacked' = Stacked, Running' = Running, txStack' = txStack,
             pc' \in {"gate", "tx", "emit"} /\ Moves(B)' => res'.form # "block"
      PROVE  TxInv'
  BY <1>3, <1>4, <1>5 DEF TxInv
<1>6. ASSUME UNCHANGED parts PROVE Shipped' = Shipped
  BY <1>1, <1>6 DEF Shipped
<1>7. ASSUME pc \notin {"next", "done"} PROVE B \in Batches /\ i \in 1..Len(script)
  BY <1>2, <1>7, CurrentBatch DEF TypeOK
<1>8. CASE SkipBatch
  <2>1. /\ Stacked = i - 1 /\ Stacked' = i /\ Running' = Running /\ txStack' = txStack
        /\ pc' = "next" /\ i \in 1..Len(script) /\ IsSkipped(B)
    BY <1>2, <1>6, <1>8 DEF SkipBatch, Stacked, Running
  <2>2. B \in Batches /\ ~Moves(B)
    <3>1. B \in Batches
      BY <1>2, <2>1, CurrentBatch
    <3>2. QED
      BY <2>1, <3>1, BatchMoves
  <2>3. before(i) = before(i - 1)
    <3>1. i \in 0..Len(script) /\ i > 0
      BY <2>1
    <3>2. before(i - 1) \in States /\ before(i) = Run(before(i - 1), B.tx)
      BY <3>1, WrittenGrows DEF B
    <3>3. QED
      BY <2>2, <3>2, BatchMoves
  <2>4. QED
    BY <1>3, <1>4, <2>1, <2>3 DEF TxInv
<1>9. CASE StartBatch
  BY <1>2, <1>5, <1>6, <1>9 DEF StartBatch, Stacked, Running
<1>10. CASE RouteComment
  <2>1. ~Moves(B)
    BY <1>7, <1>10, BatchMoves DEF RouteComment
  <2>2. Moves(B)' = Moves(B)
    BY <1>10, <1>1 DEF RouteComment, Moves, B
  <2>3. QED
    BY <1>5, <1>6, <1>10, <2>1, <2>2 DEF RouteComment, Stacked, Running
<1>11. CASE RoutePipeline
  <2>1. Moves(B) => res'.form # "block"
    BY <1>7, <1>11 DEF RoutePipeline, OneStatementEach
  <2>2. Moves(B)' = Moves(B)
    BY <1>11, <1>1 DEF RoutePipeline, Moves, B
  <2>3. QED
    BY <1>5, <1>6, <1>11, <2>1, <2>2 DEF RoutePipeline, Stacked, Running
<1>12. CASE GateReject \/ GateDiverge \/ GatePass
  <2>1. /\ pc = "gate" /\ pc' = "tx" /\ UNCHANGED <<script, i, parts, txStack>>
        /\ res'.form = res.form \/ res'.form = "lines"
    <3>1. CASE GateReject
      BY <3>1 DEF GateReject
    <3>2. CASE GateDiverge
      BY <3>2 DEF GateDiverge, TypeOK, Result
    <3>3. CASE GatePass
      BY <3>3 DEF GatePass
    <3>4. QED
      BY <1>12, <3>1, <3>2, <3>3
  <2>2. Moves(B)' = Moves(B)
    BY <2>1 DEF Moves, B
  <2>3. Moves(B) => res.form # "block"
    BY <2>1 DEF TxInv
  <2>4. QED
    BY <1>5, <1>6, <2>1, <2>2, <2>3 DEF Stacked, Running
<1>13. CASE EmitPart
  <2> DEFINE t == RunsOf(B, res.form)
  <2>1. /\ pc = "emit" /\ pc' \in {"fallback", "reconcile"}
        /\ UNCHANGED <<script, i, txStack>> /\ Stacked' = Stacked
    BY <1>13 DEF EmitPart, Stacked
  <2>2. Running' = Session(Shipped)'
    BY <2>1 DEF Running
  <2>3. t \in Ones
    BY <1>7, <2>1, RunsOfTyped
  <2>4. Shipped' = Append(Shipped, t)
    <3>1. Shipped \in Seq(Ones) /\ Len(Shipped) = Len(parts)
      BY ShippedTyped
    <3>2. /\ DOMAIN parts = 1..Len(parts) /\ Len(parts) \in Nat
          /\ DOMAIN parts' = 1..(Len(parts) + 1)
          /\ \A p \in 1..Len(parts) : parts'[p] = parts[p]
          /\ parts'[Len(parts) + 1].batch = i /\ parts'[Len(parts) + 1].form = res.form
      BY <1>13, SeqIsFunction DEF EmitPart, TypeOK
    <3>3. Shipped' = [p \in 1..(Len(parts) + 1) |->
                        RunsOf(script[parts'[p].batch], parts'[p].form)]
      BY <2>1, <3>2 DEF Shipped, RunsOf
    <3>4. \A p \in 1..Len(parts) : Shipped[p] = RunsOf(script[parts[p].batch], parts[p].form)
      BY <3>2 DEF Shipped
    <3>5. RunsOf(script[parts'[Len(parts) + 1].batch], parts'[Len(parts) + 1].form) = t
      BY <3>2 DEF B
    <3>6. Append(Shipped, t) = [p \in 1..(Len(parts) + 1) |->
                                 IF p = Len(parts) + 1 THEN t ELSE Shipped[p]]
      BY <3>1
    <3> HIDE DEF t
    <3>7. ASSUME NEW p \in 1..(Len(parts) + 1)
          PROVE  RunsOf(script[parts'[p].batch], parts'[p].form)
                   = IF p = Len(parts) + 1 THEN t ELSE Shipped[p]
      BY <3>2, <3>4, <3>5
    <3>8. QED
      BY <3>3, <3>6, <3>7
  <2>5. Session(Append(Shipped, t)) = Run(Session(Shipped), t)
    BY <2>3, ShippedTyped, SessionGrows
  <2>6. Running' = Running
    <3>1. Session(Shipped)' = Session(Append(Shipped, t))
      BY <2>4
    <3>2. Running = Run(Session(Shipped), t)
      BY <2>1 DEF Running
    <3>3. QED
      BY <2>2, <2>5, <3>1, <3>2
  <2>7. QED
    BY <1>5, <2>1, <2>6
<1>14. CASE ReconcileKnown \/ ReconcileNew \/ ReconcileEnd \/ RegisterUnsupported \/ RegisterEnd
  BY <1>5, <1>6, <1>14 DEF ReconcileKnown, ReconcileNew, ReconcileEnd, RegisterUnsupported,
                           RegisterEnd, Stacked, Running
<1>15. CASE FallbackCodes \/ Return
  <2>1. Stacked' = Stacked
    BY <1>2, <1>15 DEF FallbackCodes, Return, Stacked
  <2>2. QED
    BY <1>5, <1>6, <1>15, <2>1 DEF FallbackCodes, Return, Running
<1>16. CASE UNCHANGED vars
  BY <1>1, <1>5, <1>6, <1>16 DEF vars, Stacked, Running, TxInv, B, Moves
<1>17. CASE TxOpen \/ TxClose \/ TxDegrade \/ TxNone
  <2> DEFINE s == Session(Written(i - 1))
             t == Session(Shipped)
             runs == RunsOf(B, res'.form)
             op == B.tx[1]
  <2>1. /\ pc = "tx" /\ pc' = "emit" /\ UNCHANGED <<script, i, parts>>
        /\ Stacked = i - 1 /\ Stacked' = i
    BY <1>17 DEF TxOpen, TxClose, TxDegrade, TxNone, Stacked
  <2>2. B \in Batches /\ i \in 1..Len(script) /\ B' = B
    BY <1>7, <2>1 DEF B
  <2>3. s \in States /\ t \in States /\ Session(Written(i)) = Run(s, B.tx)
    <3>1. i \in 0..Len(script) /\ i > 0
      BY <2>2
    <3>2. QED
      BY <3>1, WrittenGrows, ShippedTyped DEF B
  <2>4. Matched(s, t, txStack)
    BY <1>4, <2>1 DEF Running
  <2>5. Running' = Run(t, runs)
    <3>1. Shipped' = Shipped
      BY <1>6, <2>1
    <3>2. Running' = Run(Session(Shipped)', RunsOf(B', res'.form))
      BY <2>1 DEF Running, RunsOf
    <3>3. QED
      BY <2>2, <3>1, <3>2
  <2>6. SUFFICES /\ Matched(Run(s, B.tx), Run(t, runs), txStack')
                 /\ Moves(B) => res'.form # "block"
    <3>1. Moves(B)' <=> Moves(B)
      BY <2>2 DEF Moves
    <3>2. QED
      BY <1>3, <2>1, <2>3, <2>5, <2>6, <3>1 DEF TxInv
  <2>7. Moves(B) => res'.form # "block"
    BY <1>17, <2>1 DEF TxInv, TxOpen, TxClose, TxDegrade, TxNone
  <2>8. runs = <<>> \/ runs = B.tx
    BY DEF RunsOf
  <2>9. CASE ~Moves(B)
    <3>1. txStack' = txStack
      BY <1>17, <2>2, <2>9, BatchMoves DEF TxOpen, TxClose, TxDegrade, TxNone, IsCloser
    <3>2. Run(s, B.tx) = s /\ Run(t, runs) = t
      BY <2>2, <2>3, <2>8, <2>9, BatchMoves, RunNothing
    <3>3. QED
      BY <2>4, <2>7, <3>1, <3>2
  <2>10. CASE Moves(B)
    <3>1. /\ op \in {"begin", "commit", "rollback"} /\ IsTracked
          /\ Run(s, B.tx) = TxStep(s, op) /\ Run(t, B.tx) = TxStep(t, op)
          /\ TransactionRole(B) = IF op = "begin" THEN "open" ELSE "close"
          /\ B.type # "COMMENT"
      BY <2>2, <2>3, <2>10, BatchMoves DEF IsTracked
    <3>2. res'.form \in Forms
      BY DEF TypeOK, Result
    <3> DEFINE ships == res'.form \in {"sql", "raw"}
    <3>3. Run(t, runs) = IF ships THEN TxStep(t, op) ELSE t
      BY <3>1, RunNothing DEF RunsOf
    <3>4. ships <=> ~IsCommentOnly(res'.form)
      BY <2>7, <2>10, <3>2 DEF Forms, IsCommentOnly
    <3>5. CASE op = "begin"
      <4>1. TxOpen
        BY <1>17, <3>1, <3>5 DEF TxClose, TxDegrade, TxNone, IsCloser
      <4>2. txStack' = Append(txStack, ships) /\ ships \in BOOLEAN
        <5>1. res' = res /\ txStack' = Append(txStack, ~IsCommentOnly(res.form))
          BY <4>1 DEF TxOpen
        <5>2. (~IsCommentOnly(res.form)) = ships
          BY <3>4, <5>1 DEF IsCommentOnly
        <5>3. QED
          BY <5>1, <5>2
      <4>3. Matched(TxStep(s, "begin"), Run(t, runs), Append(txStack, ships))
        BY <1>2, <2>3, <2>4, <3>3, <3>5, <4>2, MatchedOpen
      <4>4. QED
        BY <2>7, <3>1, <3>5, <4>2, <4>3
    <3>6. CASE op # "begin" /\ txStack = <<>>
      <4>1. txStack' = <<>>
        BY <1>17, <3>1, <3>6 DEF TxOpen, TxClose, TxDegrade, TxNone, IsCloser
      <4>2. op \in {"commit", "rollback"}
        BY <3>1, <3>6
      <4>3. Matched(TxStep(s, op), Run(t, runs), <<>>)
        BY <2>3, <2>4, <3>6, <4>2, MatchedOrphan
      <4>4. QED
        BY <2>7, <3>1, <4>1, <4>3
    <3>7. CASE op # "begin" /\ txStack # <<>>
      <4>1. op \in {"commit", "rollback"} /\ ships \in BOOLEAN
        BY <3>1, <3>7
      <4>2. txStack' = Pop(txStack) /\ (ships => Top(txStack))
        <5>1. CASE TxClose
          BY <5>1 DEF TxClose
        <5>2. CASE TxDegrade
          BY <5>2 DEF TxDegrade
        <5>3. ~TxOpen /\ ~TxNone
          BY <3>1, <3>7 DEF TxOpen, TxNone, IsCloser
        <5>4. QED
          BY <1>17, <5>1, <5>2, <5>3
      <4>3. Matched(TxStep(s, op), Run(t, runs), Pop(txStack))
        BY <1>2, <2>3, <2>4, <3>3, <3>7, <4>1, <4>2, MatchedClose
      <4>4. QED
        BY <2>7, <3>1, <4>2, <4>3
    <3>8. QED
      BY <3>5, <3>6, <3>7
  <2>11. QED
    BY <2>9, <2>10
<1>18. QED
  BY <1>8, <1>9, <1>10, <1>11, <1>12, <1>13, <1>14, <1>15, <1>16, <1>17 DEF Next, Finished

(* Running the output never meets an orphan closer the script does not     *)
(* meet itself, when an opener may degrade in one batch and its closer     *)
(* come batches later, behind others.                                      *)
THEOREM ClosersFollowOpeners ==
  ASSUME OneStatementEach
  PROVE  Spec => []NoOrphanCloser
<1>1. Init => EmissionInv /\ TxInv
  BY EmissionInit, TxInit
<1>2. TypeOK /\ TypeOK' /\ EmissionInv /\ TxInv /\ [Next]_vars => EmissionInv' /\ TxInv'
  BY EmissionNext, TxNext
<1>3. TypeOK /\ TxInv => NoOrphanCloser
  BY DEF TxInv, NoOrphanCloser, MeetsOrphan, Matched, Stacked, Running
<1>4. QED
  BY <1>1, <1>2, <1>3, TypeCorrect, PTL DEF Spec

-----------------------------------------------------------------------------
(* Aggregation: the result keeps the first warning of every text.          *)
AggregatedAs(h, ws) ==
  h = [n \in 0..Len(ws) |-> CASE n = 0 -> <<>>
                              [] n > 0 /\ IsFirst(ws, n) -> Append(h[n - 1], Counted(ws, n))
                              [] OTHER -> h[n - 1]]

(* The aggregate is built up as its definition says.                       *)
LEMMA AggregateExists ==
  ASSUME NEW ws, Len(ws) \in Nat
  PROVE  \E h : AggregatedAs(h, ws)
<1> DEFINE body(f, n) == CASE n = 0 -> <<>>
                           [] n > 0 /\ IsFirst(ws, n) -> Append(f[n - 1], Counted(ws, n))
                           [] OTHER -> f[n - 1]
           Upto(m, h) == h = [n \in 0..m |-> body(h, n)]
           Bad == {m \in 0..Len(ws) : ~\E h : Upto(m, h)}
<1>1. ASSUME Bad # {} PROVE FALSE
  <2>0. Bad \in SUBSET Nat
    OBVIOUS
  <2>1. PICK m \in Bad : \A j \in Bad : m <= j
    <3> HIDE DEF Bad
    <3>1. QED
      BY <1>1, <2>0, SomeLeast
  <2>2. CASE m = 0
    <3>1. Upto(0, [n \in 0..0 |-> <<>>])
      OBVIOUS
    <3>2. QED
      BY <2>1, <2>2, <3>1
  <2>3. CASE m # 0
    <3>1. m \in 1..Len(ws) /\ m - 1 \in 0..Len(ws) /\ ~(m <= m - 1) /\ m \in Nat
      BY <2>1, <2>3
    <3>2. PICK h : Upto(m - 1, h)
      BY <2>1, <3>1
    <3> DEFINE last == body(h, m)
               g == [n \in 0..m |-> IF n = m THEN last ELSE h[n]]
    <3>3. \A n \in 0..m : n = m \/ n \in 0..(m - 1)
      BY <3>1
    <3>4. \A n \in 0..(m - 1) : g[n] = h[n] /\ n # m
      BY <3>1
    <3>5. \A n \in 0..(m - 1) : n # 0 => n - 1 \in 0..(m - 1)
      BY <3>1
    <3>6. \A n \in 0..(m - 1) : n # 0 => g[n - 1] = h[n - 1]
      BY <3>4, <3>5
    <3>7. \A n \in 0..(m - 1) : h[n] = body(h, n)
      BY <3>2
    <3>8. g[m] = last /\ g[m - 1] = h[m - 1]
      BY <3>1, <3>4
    <3>9. g = [n \in 0..m |-> g[n]]
      OBVIOUS
    <3>10. \A n \in 0..(m - 1) : g[n] = body(g, n)
      <4> HIDE DEF g
      <4>1. TAKE n \in 0..(m - 1)
      <4>2. CASE n = 0
        BY <3>4, <3>7, <4>2
      <4>3. CASE n # 0
        <5>1. g[n - 1] = h[n - 1] /\ n > 0
          BY <3>6, <4>3
        <5>2. QED
          BY <3>4, <3>7, <4>3, <5>1
      <4>4. QED
        BY <4>2, <4>3
    <3>11. g[m] = body(g, m)
      <4> HIDE DEF g
      <4>1. QED
        BY <3>1, <3>8
    <3>12. Upto(m, g)
      <4> HIDE DEF g
      <4>1. QED
        BY <3>3, <3>9, <3>10, <3>11
    <3>13. QED
      BY <2>1, <3>12
  <2>4. QED
    BY <2>2, <2>3
<1>2. QED
  BY <1>1 DEF AggregatedAs

(* Every warning has one of its feature and text in the result, with the   *)
(* code of a filed one.                                                    *)
Represented(out, ws, n) ==
  \E m \in 1..Len(ws), q \in DOMAIN out :
    /\ m <= n /\ SameKey(ws[m], ws[n])
    /\ out[q].msg = ws[m].msg /\ out[q].code = ws[m].code

(* What an append keeps of a sequence, and adds.                           *)
LEMMA AppendKeeps ==
  ASSUME NEW S, NEW out \in Seq(S), NEW x \in S
  PROVE  /\ Append(out, x) \in Seq(S)
         /\ DOMAIN out \subseteq DOMAIN Append(out, x)
         /\ \A q \in DOMAIN out : Append(out, x)[q] = out[q]
         /\ \E q \in DOMAIN Append(out, x) : Append(out, x)[q] = x
<1>1. Append(out, x)[Len(out) + 1] = x /\ Len(out) + 1 \in DOMAIN Append(out, x)
  OBVIOUS
<1>2. QED
  BY <1>1

(* The aggregate represents every warning it is made from.                 *)
LEMMA AllRepresented ==
  ASSUME NEW ws, Len(ws) \in Nat, DOMAIN ws = 1..Len(ws)
  PROVE  \A n \in 1..Len(ws) : Represented(AggregateWarnings(ws), ws, n)
<1> DEFINE h == CHOOSE h : AggregatedAs(h, ws)
           All == {Counted(ws, n) : n \in 1..Len(ws)}
           Holds(m) == /\ h[m] \in Seq(All)
                       /\ \A n \in 1..m : Represented(h[m], ws, n)
           Bad == {m \in 0..Len(ws) : ~Holds(m)}
<1>1. AggregateWarnings(ws) = h[Len(ws)]
  BY Zenon DEF AggregateWarnings, AggregatedAs
<1>2. AggregatedAs(h, ws)
  BY AggregateExists, Zenon
<1> HIDE DEF h
<1>3. ASSUME Bad # {} PROVE FALSE
  <2>0. Bad \in SUBSET Nat
    OBVIOUS
  <2>1. PICK m \in Bad : \A j \in Bad : m <= j
    <3> HIDE DEF Bad
    <3>1. QED
      BY <1>3, <2>0, SomeLeast
  <2>2. m \in 0..Len(ws) /\ m \in Nat /\ ~Holds(m)
    BY <2>1
  <2>3. h[m] = CASE m = 0 -> <<>>
                 [] m > 0 /\ IsFirst(ws, m) -> Append(h[m - 1], Counted(ws, m))
                 [] OTHER -> h[m - 1]
    BY <1>2, <2>2 DEF AggregatedAs
  <2>4. CASE m = 0
    <3>1. h[m] = <<>>
      BY <2>3, <2>4
    <3> HIDE DEF All
    <3>2. <<>> \in Seq(All)
      OBVIOUS
    <3>3. QED
      BY <2>2, <2>4, <3>1, <3>2
  <2>5. CASE m # 0
    <3>1. m - 1 \in 0..Len(ws) /\ ~(m <= m - 1) /\ m \in 1..Len(ws) /\ m > 0
      BY <2>2, <2>5
    <3>2. Holds(m - 1)
      BY <2>1, <3>1
    <3>3. Counted(ws, m) \in All
      BY <3>1
    <3>4. /\ Counted(ws, m).msg = ws[m].msg /\ Counted(ws, m).code = ws[m].code
      BY DEF Counted
    <3>5. /\ h[m] \in Seq(All) /\ DOMAIN h[m - 1] \subseteq DOMAIN h[m]
          /\ \A q \in DOMAIN h[m - 1] : h[m][q] = h[m - 1][q]
      <4>1. CASE IsFirst(ws, m)
        <5>1. h[m] = Append(h[m - 1], Counted(ws, m))
          BY <2>3, <3>1, <4>1
        <5> HIDE DEF All
        <5>2. QED
          BY <3>2, <3>3, <5>1, AppendKeeps
      <4>2. CASE ~IsFirst(ws, m)
        BY <2>3, <3>1, <3>2, <4>2
      <4>3. QED
        BY <4>1, <4>2
    <3>6. ASSUME NEW n \in 1..(m - 1) PROVE Represented(h[m], ws, n)
      BY <3>2, <3>5 DEF Represented
    <3>7. Represented(h[m], ws, m)
      <4>1. CASE IsFirst(ws, m)
        <5>1. h[m] = Append(h[m - 1], Counted(ws, m))
          BY <2>3, <3>1, <4>1
        <5>2. \E q \in DOMAIN h[m] : h[m][q] = Counted(ws, m)
          <6> HIDE DEF All
          <6>1. QED
            BY <3>2, <3>3, <5>1, AppendKeeps
        <5>3. SameKey(ws[m], ws[m]) /\ m <= m
          BY <3>1 DEF SameKey
        <5>4. QED
          BY <3>1, <3>4, <5>2, <5>3 DEF Represented
      <4>2. CASE ~IsFirst(ws, m)
        <5>1. PICK j \in 1..(m - 1) : SameKey(ws[j], ws[m])
          BY <4>2 DEF IsFirst
        <5>2. PICK l \in 1..Len(ws), q \in DOMAIN h[m] :
                 /\ l <= j /\ SameKey(ws[l], ws[j])
                 /\ h[m][q].msg = ws[l].msg /\ h[m][q].code = ws[l].code
          BY <3>6 DEF Represented
        <5>3. l <= m /\ SameKey(ws[l], ws[m])
          BY <3>1, <5>1, <5>2 DEF SameKey
        <5>4. QED
          BY <5>2, <5>3 DEF Represented
      <4>3. QED
        BY <4>1, <4>2
    <3>8. \A n \in 1..m : n = m \/ n \in 1..(m - 1)
      BY <3>1
    <3>9. QED
      BY <2>2, <3>5, <3>6, <3>7, <3>8
  <2>6. QED
    BY <2>4, <2>5
<1>4. Holds(Len(ws))
  <2>1. Len(ws) \in 0..Len(ws)
    OBVIOUS
  <2>2. QED
    BY <1>3, <2>1
<1>5. QED
  BY <1>1, <1>4

-----------------------------------------------------------------------------
(* Where the codes of the filed warnings come from.  A result that is      *)
(* fresh is a pipeline's; one that the gate or the transaction check wrote *)
(* reports all its carriers.                                               *)
Reported(r) == \A c \in Entries(r.carriers) : WarningCovers(c.frag, Messages(r.warnings))

Fresh(r) ==
  /\ Entries(r.warnings) \subseteq RaisedWarnings
  /\ CoveredAlike(r)
  /\ \A c \in Entries(r.carriers) :
       c.code # "1207" /\ ~WarningCovers(c.frag, {DivergeText})

Told(r) ==
  /\ \A w \in Entries(r.warnings) : w \in RaisedWarnings \/ w.feature = "lossy_conversion"
  /\ Reported(r) \/ (CoveredAlike(r) /\ Entries(r.warnings) \subseteq RaisedWarnings)

ResultInv ==
  /\ pc = "gate" => Fresh(res)
  /\ pc \in {"tx", "emit", "reconcile"} => Told(res)

(* Appending to a result's warnings.                                       *)
LEMMA MessagesAppend ==
  ASSUME NEW S, NEW s \in Seq(S), NEW w \in S
  PROVE  Messages(Append(s, w)) = Messages(s) \cup {w.msg}
<1>1. \A t : Messages(t) = {e.msg : e \in Entries(t)}
  BY DEF Messages, Entries
<1>2. Entries(Append(s, w)) = Entries(s) \cup {w}
  BY EntriesAppend
<1>3. QED
  BY <1>1, <1>2

(* The entries after a prepend.                                            *)
LEMMA PrependedEntries ==
  ASSUME NEW S, NEW s \in Seq(S), NEW e \in S
  PROVE  Entries(<<e>> \o s) \subseteq Entries(s) \cup {e}
<1>1. <<e>> \in Seq(S) /\ Len(<<e>>) = 1 /\ <<e>>[1] = e /\ Len(s) \in Nat
  OBVIOUS
<1>2. DOMAIN (<<e>> \o s) = 1..(1 + Len(s))
  BY <1>1
<1>3. \A n \in 1..(1 + Len(s)) : (<<e>> \o s)[n] = IF n = 1 THEN e ELSE s[n - 1]
  BY <1>1
<1>4. \A n \in 1..(1 + Len(s)) : n # 1 => n - 1 \in DOMAIN s
  BY <1>1
<1>5. QED
  BY <1>2, <1>3, <1>4 DEF Entries

(* What the gate and the transaction check put in a result's place.        *)
LEMMA ReplacedIsTold ==
  ASSUME TypeOK, TypeOK', ResultInv, GateReject \/ TxDegrade
  PROVE  Told(res')
<1>1. PICK t, f, c, d :
        /\ t \in Texts
        /\ f # "lossy_conversion" => Warn(t, f, c) \in RaisedWarnings
        /\ Warn(t, f, c) \in Warning /\ Warn(t, f, c).msg = t /\ Warn(t, f, c).feature = f
        /\ res'.carriers = <<[frag |-> t, code |-> d]>>
        /\ res'.warnings = Append(res.warnings, Warn(t, f, c))
  <2>1. CASE GateReject
    <3>1. GateText \in Texts /\ Warn(GateText, "validity_gate", NoCode) \in Warning
          /\ Warn(GateText, "validity_gate", NoCode).msg = GateText
          /\ Warn(GateText, "validity_gate", NoCode).feature = "validity_gate"
          /\ Warn(GateText, "validity_gate", NoCode) \in RaisedWarnings
      BY LiteralsTyped, InputsAssumption DEF Warn, RaisedWarnings
    <3>2. /\ res'.carriers = <<[frag |-> GateText, code |-> "1151"]>>
          /\ res'.warnings = Append(res.warnings, Warn(GateText, "validity_gate", NoCode))
      BY <2>1 DEF GateReject
    <3>3. QED
      BY <3>1, <3>2
  <2>2. CASE TxDegrade
    <3>1. CloserText \in Texts /\ Warn(CloserText, "lossy_conversion", "1233") \in Warning
          /\ Warn(CloserText, "lossy_conversion", "1233").msg = CloserText
          /\ Warn(CloserText, "lossy_conversion", "1233").feature = "lossy_conversion"
      BY LiteralsTyped, InputsAssumption DEF Warn
    <3>2. /\ res'.carriers = <<[frag |-> CloserText, code |-> "1233"]>>
          /\ res'.warnings = Append(res.warnings,
                                    Warn(CloserText, "lossy_conversion", "1233"))
      BY <2>2 DEF TxDegrade
    <3>3. QED
      BY <3>1, <3>2
  <2>3. QED
    BY <2>1, <2>2
<1> DEFINE last == Warn(t, f, c)
<1>2. res.warnings \in Seq(Warning)
  BY DEF TypeOK, Result
<1>3. \A w \in Entries(res.warnings) : w \in RaisedWarnings \/ w.feature = "lossy_conversion"
  BY DEF ResultInv, Fresh, Told, GateReject, TxDegrade
<1>4. Entries(res'.warnings) = Entries(res.warnings) \cup {last}
  BY <1>1, <1>2, EntriesAppend
<1>5. Messages(res'.warnings) = Messages(res.warnings) \cup {t}
  BY <1>1, <1>2, MessagesAppend
<1>6. Entries(res'.carriers) = {[frag |-> t, code |-> d]}
  BY <1>1 DEF Entries
<1>7. WarningCovers(t, Messages(res'.warnings))
  BY <1>1, <1>5, CoversItself
<1>8. Reported(res')
  BY <1>6, <1>7 DEF Reported
<1> HIDE DEF last
<1>9. \A w \in Entries(res'.warnings) : w \in RaisedWarnings \/ w.feature = "lossy_conversion"
  BY <1>1, <1>3, <1>4 DEF last
<1>10. QED
  BY <1>8, <1>9 DEF Told

(* What the gate adds to a result with a known divergence.                 *)
LEMMA DivergingIsTold ==
  ASSUME TypeOK, ResultInv, GateDiverge
  PROVE  Told(res')
<1> DEFINE note == [frag |-> DivergeText, code |-> "1207"]
           last == Warn(DivergeText, "value_divergence", NoCode)
<1>1. res.warnings \in Seq(Warning) /\ res.carriers \in Seq(Carrier)
  BY DEF TypeOK, Result
<1>2. /\ res'.carriers = <<note>> \o res.carriers
      /\ res'.warnings = Append(res.warnings, last)
  BY DEF GateDiverge, TypeOK, Result
<1>3. last \in Warning /\ last.msg = DivergeText /\ last \in RaisedWarnings
      /\ note \in Carrier /\ note.frag = DivergeText /\ note.code = "1207"
      /\ DivergeText \in Texts
  BY LiteralsTyped, InputsAssumption DEF Warn, RaisedWarnings
<1> HIDE DEF note, last
<1>4. Entries(res'.carriers) \subseteq Entries(res.carriers) \cup {note}
  BY <1>1, <1>2, <1>3, PrependedEntries
<1>5. Entries(res'.warnings) = Entries(res.warnings) \cup {last}
  BY <1>1, <1>2, <1>3, EntriesAppend
<1>6. Messages(res'.warnings) = Messages(res.warnings) \cup {DivergeText}
  BY <1>1, <1>2, <1>3, MessagesAppend
<1>7. Fresh(res)
  BY DEF ResultInv, GateDiverge
<1>8. Entries(res'.warnings) \subseteq RaisedWarnings
  BY <1>3, <1>5, <1>7 DEF Fresh
<1>9. CoveredAlike(res')
  <2>1. SUFFICES ASSUME NEW e \in Entries(res'.carriers), NEW d \in Entries(res'.carriers),
                        e.code = d.code, e.code # NoCode,
                        WarningCovers(d.frag, Messages(res'.warnings))
                 PROVE  WarningCovers(e.frag, Messages(res'.warnings))
    BY DEF CoveredAlike
  <2>2. CASE e = note
    BY <1>3, <1>6, <2>2, CoversItself
  <2>3. CASE e # note
    <3>1. e \in Entries(res.carriers) /\ e.code # "1207"
      BY <1>4, <1>7, <2>3 DEF Fresh
    <3>2. d \in Entries(res.carriers)
      BY <1>3, <1>4, <2>1, <3>1
    <3>3. CASE WarningCovers(d.frag, Messages(res.warnings))
      <4>1. WarningCovers(e.frag, Messages(res.warnings))
        BY <1>7, <2>1, <3>1, <3>2, <3>3 DEF Fresh, CoveredAlike
      <4>2. QED
        BY <1>6, <4>1 DEF WarningCovers
    <3>4. WarningCovers(d.frag, Messages(res.warnings))
      BY <1>6, <1>7, <2>1, <3>2 DEF Fresh, WarningCovers
    <3>5. QED
      BY <3>3, <3>4
  <2>4. QED
    BY <2>2, <2>3
<1>10. QED
  BY <1>8, <1>9 DEF Told

(* Every step keeps the result of the current batch told.                  *)
LEMMA ResultNext ==
  ASSUME CodesTell, TypeOK, TypeOK', ResultInv, [Next]_vars
  PROVE  ResultInv'
<1>1. \A r : Fresh(r) => Told(r)
  BY DEF Fresh, Told
<1>2. CASE RoutePipeline
  <2>1. B \in Batches /\ res' \in Pipeline(B) /\ pc' = "gate"
    BY <1>2, CurrentBatch DEF RoutePipeline, TypeOK
  <2> PICK r : r = res'
    OBVIOUS
  <2>4. Entries(r.warnings) \subseteq RaisedWarnings
    BY <2>1 DEF RaisedWarnings
  <2>2. Fresh(res')
    BY <2>1, <2>4 DEF CodesTell, Fresh
  <2>3. QED
    BY <2>1, <2>2 DEF ResultInv
<1>3. CASE RouteComment
  <2>1. Fresh(NoResult)
    BY DEF Fresh, NoResult, Entries, CoveredAlike
  <2>2. QED
    BY <1>3, <2>1 DEF RouteComment, ResultInv
<1>4. CASE GateReject \/ TxDegrade
  BY <1>4, ReplacedIsTold DEF GateReject, TxDegrade, ResultInv
<1>5. CASE GateDiverge
  BY <1>5, DivergingIsTold DEF GateDiverge, ResultInv
<1>6. CASE GatePass \/ TxOpen \/ TxClose \/ TxNone \/ EmitPart \/ ReconcileKnown \/ ReconcileNew
  BY <1>1, <1>6 DEF GatePass, TxOpen, TxClose, TxNone, EmitPart, ReconcileKnown, ReconcileNew,
     ResultInv
<1>7. CASE SkipBatch \/ StartBatch \/ ReconcileEnd \/ RegisterUnsupported \/ RegisterEnd
           \/ FallbackCodes \/ Return
  BY <1>7 DEF SkipBatch, StartBatch, ReconcileEnd, RegisterUnsupported, RegisterEnd,
     FallbackCodes, Return, ResultInv
<1>8. CASE UNCHANGED vars
  BY <1>8 DEF vars, ResultInv
<1>9. QED
  BY <1>2, <1>3, <1>4, <1>5, <1>6, <1>7, <1>8 DEF Next, Finished

-----------------------------------------------------------------------------
(* The entries of the report after an emission.                            *)
LEMMA EmitFiles ==
  ASSUME TypeOK, EmitPart
  PROVE  /\ \A n \in DOMAIN allWarnings :
              n \in DOMAIN allWarnings' /\ allWarnings'[n] = allWarnings[n]
         /\ \A n \in DOMAIN allWarnings' : n \notin DOMAIN allWarnings =>
              \E u \in Entries(res.warnings) :
                SameKey(u, allWarnings'[n]) /\ allWarnings'[n].code = u.code
         /\ Messages(res.warnings) \subseteq Messages(allWarnings')
<1> DEFINE more == File(res.warnings)
<1>1. res.warnings \in Seq(Warning) /\ i \in Nat /\ allWarnings \in Seq(Filed)
  BY DEF TypeOK, Result
<1>2. more \in Seq(Filed) /\ Len(more) = Len(res.warnings)
  BY <1>1, FileIsSeq
<1>3. \A n \in DOMAIN res.warnings :
        SameKey(res.warnings[n], more[n]) /\ more[n].code = res.warnings[n].code
  BY DEF File, SameKey
<1>4. DOMAIN res.warnings = 1..Len(more)
  BY <1>1, <1>2
<1>5. allWarnings' = allWarnings \o more
  BY DEF EmitPart
<1> HIDE DEF more
<1>6. /\ DOMAIN allWarnings = 1..Len(allWarnings) /\ Len(allWarnings) \in Nat /\ Len(more) \in Nat
      /\ DOMAIN allWarnings' = 1..(Len(allWarnings) + Len(more))
      /\ \A n \in 1..Len(allWarnings) : allWarnings'[n] = allWarnings[n]
      /\ \A n \in 1..Len(more) : allWarnings'[Len(allWarnings) + n] = more[n]
  <2>1. allWarnings \in Seq(Filed) /\ more \in Seq(Filed)
    BY <1>1, <1>2
  <2>2. /\ DOMAIN allWarnings = 1..Len(allWarnings) /\ Len(allWarnings) \in Nat /\ Len(more) \in Nat
        /\ DOMAIN (allWarnings \o more) = 1..(Len(allWarnings) + Len(more))
    BY <2>1
  <2>3. \A n \in 1..Len(allWarnings) : (allWarnings \o more)[n] = allWarnings[n]
    BY <2>1
  <2>4. \A n \in 1..Len(more) : (allWarnings \o more)[Len(allWarnings) + n] = more[n]
    BY <2>1
  <2>5. QED
    BY <1>5, <2>2, <2>3, <2>4
<1>7. ASSUME NEW n \in DOMAIN allWarnings', n \notin DOMAIN allWarnings
      PROVE  \E u \in Entries(res.warnings) :
               SameKey(u, allWarnings'[n]) /\ allWarnings'[n].code = u.code
  <2>1. n - Len(allWarnings) \in 1..Len(more)
        /\ Len(allWarnings) + (n - Len(allWarnings)) = n
    BY <1>6, <1>7
  <2>2. allWarnings'[n] = more[n - Len(allWarnings)]
    BY <1>6, <2>1
  <2>3. QED
    BY <1>3, <1>4, <2>1, <2>2 DEF Entries
<1>8. ASSUME NEW n \in DOMAIN res.warnings
      PROVE  res.warnings[n].msg \in Messages(allWarnings')
  <2>1. Len(allWarnings) + n \in DOMAIN allWarnings' /\ allWarnings'[Len(allWarnings) + n] = more[n]
    BY <1>4, <1>6
  <2>2. QED
    BY <1>3, <2>1 DEF Messages, SameKey
<1>9. \A n \in DOMAIN allWarnings : n \in DOMAIN allWarnings' /\ allWarnings'[n] = allWarnings[n]
  BY <1>6
<1>10. QED
  BY <1>7, <1>8, <1>9 DEF Messages

(* What a stamp does to one warning.                                       *)
LEMMA StampedEntry ==
  ASSUME NEW ws \in Seq(Filed), NEW n \in DOMAIN ws
  PROVE  /\ n \in DOMAIN Stamped(ws) /\ SameKey(ws[n], Stamped(ws)[n])
         /\ IsOwn(Stamped(ws)[n]) <=> IsOwn(ws[n])
         /\ \/ Stamped(ws)[n].code = ws[n].code
            \/ Stamped(ws)[n].code = C.code /\ C.code # NoCode
               /\ WarningCovers(C.frag, {ws[n].msg})
<1>1. ws[n] \in Filed /\ n \in DOMAIN Stamped(ws)
  BY SeqIsFunction DEF Stamped
<1>2. QED
  BY <1>1 DEF Stamped, Filed, SameKey, IsOwn

(* While a batch is reconciled its own warnings have the code they came    *)
(* with or that of a carrier they cover.                                   *)
CodedAs(w, u, carriers, n) ==
  /\ SameKey(u, w)
  /\ \/ w.code = u.code
     \/ \E j \in DOMAIN carriers :
          j < n /\ carriers[j].code = w.code /\ WarningCovers(carriers[j].frag, {w.msg})

OwnCoded(ws, r, b, n) ==
  /\ Messages(r.warnings) \subseteq Messages(ws)
  /\ \A m \in DOMAIN ws : ws[m].own /\ ws[m].batch = b =>
       \E u \in Entries(r.warnings) : CodedAs(ws[m], u, r.carriers, n)

OwnInv == pc = "reconcile" => OwnCoded(allWarnings, res, i, k)

(* The stamp of the k-th carrier keeps that up to the next.                *)
LEMMA StampKeepsOwn ==
  ASSUME TypeOK, OwnInv, pc = "reconcile", k <= Len(res.carriers),
         NEW n \in DOMAIN allWarnings, IsOwn(Stamped(allWarnings)[n])
  PROVE  \E u \in Entries(res.warnings) : CodedAs(Stamped(allWarnings)[n], u, res.carriers, k + 1)
<1> DEFINE w == Stamped(allWarnings)[n]
<1>1. k \in DOMAIN res.carriers /\ k \in Nat /\ \A j \in DOMAIN res.carriers : j \in Nat
  BY SeqIsFunction DEF TypeOK, Result
<1>2. allWarnings \in Seq(Filed)
  BY DEF TypeOK
<1>3. /\ SameKey(allWarnings[n], w) /\ IsOwn(allWarnings[n])
      /\ \/ w.code = allWarnings[n].code
         \/ w.code = C.code /\ C.code # NoCode /\ WarningCovers(C.frag, {allWarnings[n].msg})
  BY <1>2, StampedEntry
<1>4. PICK u \in Entries(res.warnings) : CodedAs(allWarnings[n], u, res.carriers, k)
  BY <1>3 DEF OwnInv, OwnCoded, IsOwn
<1> HIDE DEF w
<1>5. CASE w.code = allWarnings[n].code
  <2>1. w.msg = allWarnings[n].msg /\ w.feature = allWarnings[n].feature
    BY <1>3 DEF SameKey
  <2>2. \A j \in DOMAIN res.carriers : j < k => j < k + 1
    BY <1>1
  <2>3. CodedAs(w, u, res.carriers, k + 1)
    BY <1>4, <1>5, <2>1, <2>2 DEF CodedAs, SameKey
  <2>4. QED
    BY <2>3 DEF w
<1>6. CASE w.code = C.code /\ WarningCovers(C.frag, {allWarnings[n].msg})
  <2>1. k < k + 1 /\ C = res.carriers[k]
    BY <1>1 DEF C
  <2>2. CodedAs(w, u, res.carriers, k + 1)
    BY <1>1, <1>3, <1>4, <1>6, <2>1 DEF CodedAs, SameKey
  <2>3. QED
    BY <2>2 DEF w
<1>7. QED
  BY <1>3, <1>5, <1>6

(* The synthesized warning is not the batch's own.                         *)
LEMMA NewReconciles ==
  ASSUME TypeOK, ReconcileNew
  PROVE  /\ \A n \in DOMAIN allWarnings : allWarnings'[n] = Stamped(allWarnings)[n]
         /\ \A n \in DOMAIN allWarnings' : n \notin DOMAIN allWarnings =>
              allWarnings'[n] = Synthesized /\ ~IsReported(Stamped(allWarnings))
         /\ DOMAIN allWarnings \subseteq DOMAIN allWarnings'
         /\ ~IsReported(Stamped(allWarnings)) => Synthesized \in Entries(allWarnings')
<1> DEFINE stamped == Stamped(allWarnings)
<1>1. C \in Carrier
  BY CurrentCarrier DEF ReconcileNew
<1>2. stamped \in Seq(Filed) /\ Len(stamped) = Len(allWarnings) /\ allWarnings \in Seq(Filed)
  BY <1>1, StampedIsSeq DEF TypeOK
<1>3. DOMAIN allWarnings = 1..Len(allWarnings) /\ DOMAIN stamped = 1..Len(allWarnings)
      /\ Len(allWarnings) \in Nat
  BY <1>2, SeqIsFunction
<1>4. CASE IsReported(stamped)
  <2>1. allWarnings' = stamped
    BY <1>4 DEF ReconcileNew
  <2> HIDE DEF stamped
  <2>2. QED
    BY <1>3, <1>4, <2>1 DEF stamped
<1>5. CASE ~IsReported(stamped)
  <2> PICK w : w = Synthesized
    OBVIOUS
  <2>1. allWarnings' = Append(stamped, w)
    BY <1>5 DEF ReconcileNew
  <2> HIDE DEF stamped
  <2>2. /\ DOMAIN allWarnings' = 1..(Len(allWarnings) + 1)
        /\ allWarnings'[Len(allWarnings) + 1] = w
        /\ \A n \in 1..Len(allWarnings) : allWarnings'[n] = stamped[n]
    BY <1>2, <2>1
  <2>3. w \in Entries(allWarnings')
    BY <1>3, <2>2 DEF Entries
  <2>4. \A n \in DOMAIN allWarnings' : n \notin DOMAIN allWarnings => n = Len(allWarnings) + 1
    BY <1>3, <2>2
  <2>5. QED
    BY <1>3, <1>5, <2>2, <2>3, <2>4 DEF stamped
<1>6. QED
  BY <1>4, <1>5

(* Every step keeps the codes of the batch's own warnings so.               *)
LEMMA OwnNext ==
  ASSUME TypeOK, TypeOK', CodedInv, OwnInv, [Next]_vars
  PROVE  OwnInv'
<1>0. /\ DOMAIN allWarnings = 1..Len(allWarnings) /\ Len(allWarnings) \in Nat
      /\ k \in Nat /\ allWarnings \in Seq(Filed)
  BY SeqIsFunction DEF TypeOK
<1>1. CASE EmitPart
  <2>1. k' = 1 /\ i' = i /\ res' = res /\ pc = "emit"
    BY <1>1 DEF EmitPart
  <2>2. ASSUME NEW n \in DOMAIN allWarnings', allWarnings'[n].own, allWarnings'[n].batch = i
        PROVE  \E u \in Entries(res.warnings) : CodedAs(allWarnings'[n], u, res.carriers, 1)
    <3>1. n \notin DOMAIN allWarnings
      <4>1. ASSUME n \in DOMAIN allWarnings PROVE FALSE
        <5>1. allWarnings[n].batch = i
          BY <1>1, <2>1, <2>2, <4>1, EmitFiles
        <5>2. HasEmitted
          BY <4>1, <5>1 DEF CodedInv
        <5>3. QED
          BY <2>1, <5>2 DEF HasEmitted
      <4>2. QED
        BY <4>1
    <3>2. PICK u \in Entries(res.warnings) :
             SameKey(u, allWarnings'[n]) /\ allWarnings'[n].code = u.code
      BY <1>1, <3>1, EmitFiles
    <3>3. QED
      BY <2>1, <3>2 DEF CodedAs
  <2>3. QED
    BY <1>1, <2>1, <2>2, EmitFiles DEF OwnInv, OwnCoded
<1>2. CASE ReconcileKnown \/ ReconcileNew
  <2>1. /\ pc = "reconcile" /\ k <= Len(res.carriers) /\ UNCHANGED <<i, res>> /\ k' = k + 1
    BY <1>2 DEF ReconcileKnown, ReconcileNew
  <2>2. KeepsWarnings(allWarnings, allWarnings')
    BY WarningsStep
  <2>3. Messages(allWarnings) \subseteq Messages(allWarnings')
    <3>1. DOMAIN allWarnings' = 1..Len(allWarnings') /\ Len(allWarnings') \in Nat
      BY SeqIsFunction DEF TypeOK
    <3>2. QED
      BY <1>0, <2>2, <3>1 DEF KeepsWarnings, SameWarning, Messages
  <2>6. ASSUME NEW n \in DOMAIN allWarnings, allWarnings'[n] = Stamped(allWarnings)[n],
               allWarnings'[n].own, allWarnings'[n].batch = i
        PROVE  \E u \in Entries(res.warnings) : CodedAs(allWarnings'[n], u, res.carriers, k + 1)
    <3>1. IsOwn(Stamped(allWarnings)[n])
      BY <1>0, <2>6 DEF IsOwn
    <3>2. PICK u \in Entries(res.warnings) : CodedAs(Stamped(allWarnings)[n], u, res.carriers, k + 1)
      BY <2>1, <3>1, StampKeepsOwn
    <3>3. QED
      BY <2>6, <3>2
  <2>7. ASSUME NEW n \in DOMAIN allWarnings, allWarnings'[n] = allWarnings[n],
               allWarnings'[n].own, allWarnings'[n].batch = i
        PROVE  \E u \in Entries(res.warnings) : CodedAs(allWarnings'[n], u, res.carriers, k + 1)
    <3>1. PICK u \in Entries(res.warnings) : CodedAs(allWarnings[n], u, res.carriers, k)
      BY <2>1, <2>7 DEF OwnInv, OwnCoded
    <3>2. \A j \in DOMAIN res.carriers : j < k => j < k + 1
      <4>1. res.carriers \in Seq(Carrier)
        BY DEF TypeOK, Result
      <4>2. \A j \in DOMAIN res.carriers : j \in Nat
        BY <4>1
      <4>3. QED
        BY <1>0, <4>2
    <3>3. CodedAs(allWarnings[n], u, res.carriers, k + 1)
      BY <3>1, <3>2 DEF CodedAs
    <3>4. QED
      BY <2>7, <3>3
  <2>8. ASSUME NEW n \in DOMAIN allWarnings', allWarnings'[n].own, allWarnings'[n].batch = i
        PROVE  \E u \in Entries(res.warnings) : CodedAs(allWarnings'[n], u, res.carriers, k + 1)
    <3>1. CASE ReconcileKnown
      <4>1. allWarnings' = allWarnings \/ allWarnings' = Stamped(allWarnings)
        BY <3>1 DEF ReconcileKnown
      <4>2. n \in DOMAIN allWarnings
        BY <2>8, <4>1 DEF Stamped
      <4>3. QED
        BY <2>6, <2>7, <2>8, <4>1, <4>2
    <3>2. CASE ReconcileNew
      <4>1. CASE n \in DOMAIN allWarnings
        <5>1. allWarnings'[n] = Stamped(allWarnings)[n]
          BY <3>2, <4>1, NewReconciles
        <5>2. QED
          BY <2>6, <2>8, <4>1, <5>1
      <4>2. CASE n \notin DOMAIN allWarnings
        <5>1. allWarnings'[n] = Synthesized
          BY <2>8, <3>2, <4>2, NewReconciles
        <5>2. QED
          BY <2>8, <5>1 DEF Synthesized
      <4>3. QED
        BY <4>1, <4>2
    <3>3. QED
      BY <1>2, <3>1, <3>2
  <2>9. QED
    BY <2>1, <2>3, <2>8 DEF OwnInv, OwnCoded
<1>3. CASE pc' # "reconcile"
  BY <1>3 DEF OwnInv
<1>4. CASE UNCHANGED vars
  BY <1>4 DEF vars, reportVars, OwnInv
<1>5. QED
  BY <1>1, <1>2, <1>3, <1>4
  DEF Next, SkipBatch, StartBatch, RouteComment, RoutePipeline, GateReject, GateDiverge,
      GatePass, TxOpen, TxClose, TxDegrade, TxNone, ReconcileEnd, RegisterUnsupported,
      RegisterEnd, FallbackCodes, Return, Finished

(* A filed warning was raised as it is, up to a code it lacked, or is one  *)
(* the loop wrote.                                                         *)
HasKey(w) ==
  \/ w.feature = "lossy_conversion"
  \/ \E v \in RaisedWarnings : SameKey(v, w) /\ (v.code # NoCode => w.code = v.code)
KeyInv == \A n \in DOMAIN allWarnings : HasKey(allWarnings[n])

(* Every step files warnings of the pipelines or of the loop.              *)
LEMMA KeyNext ==
  ASSUME TypeOK, TypeOK', ResultInv, KeyInv, [Next]_vars
  PROVE  KeyInv'
<1>1. KeepsWarnings(allWarnings, allWarnings') /\ NewWarnings
  BY WarningsStep
<1>2. /\ DOMAIN allWarnings = 1..Len(allWarnings) /\ Len(allWarnings) \in Nat
      /\ DOMAIN allWarnings' = 1..Len(allWarnings') /\ Len(allWarnings') \in Nat
  BY SeqIsFunction DEF TypeOK
<1>3. ASSUME NEW n \in DOMAIN allWarnings PROVE HasKey(allWarnings'[n])
  <2>1. HasKey(allWarnings[n]) /\ SameWarning(allWarnings[n], allWarnings'[n])
    BY <1>1, <1>2 DEF KeyInv, KeepsWarnings
  <2>2. QED
    BY <2>1 DEF HasKey, SameWarning, SameKey
<1>4. ASSUME NEW n \in DOMAIN allWarnings', n \notin DOMAIN allWarnings
      PROVE  HasKey(allWarnings'[n])
  <2>1. n \in 1..Len(allWarnings') /\ n > Len(allWarnings)
    BY <1>2, <1>4
  <2>2. pc = "emit" \/ allWarnings'[n].feature = "lossy_conversion"
    BY <1>1, <2>1 DEF NewWarnings
  <2>3. CASE pc = "emit"
    <3>1. EmitPart
      <4>1. ~(UNCHANGED allWarnings)
        BY <1>4
      <4>2. QED
        BY <2>3, <4>1
        DEF Next, vars, reportVars, SkipBatch, StartBatch, RouteComment, RoutePipeline,
            GateReject, GateDiverge, GatePass, TxOpen, TxClose, TxDegrade, TxNone,
            ReconcileKnown, ReconcileNew, ReconcileEnd, RegisterUnsupported, RegisterEnd,
            FallbackCodes, Return, Finished
    <3>2. PICK u \in Entries(res.warnings) :
             SameKey(u, allWarnings'[n]) /\ allWarnings'[n].code = u.code
      BY <1>4, <3>1, EmitFiles
    <3>3. u \in RaisedWarnings \/ u.feature = "lossy_conversion"
      BY <2>3 DEF ResultInv, Told
    <3>4. QED
      BY <3>2, <3>3 DEF HasKey, SameKey
  <2>4. QED
    BY <2>2, <2>3 DEF HasKey
<1>5. QED
  BY <1>3, <1>4 DEF KeyInv

(* A reconciled fragment is covered by a warning, or was reported under a  *)
(* code that a warning of the pipelines came with.                         *)
Claimed(f, ws, ps) ==
  \/ WarningCovers(f, Messages(ws))
  \/ \E v \in RaisedWarnings, n \in DOMAIN ws, p \in DOMAIN ps :
       \E c \in Entries(ps[p].carriers) :
         SameKey(v, ws[n]) /\ v.code # NoCode /\ c.frag = f /\ c.code = v.code
ClaimInv == \A f \in reconciled : Claimed(f, allWarnings, parts)

(* A claim stays: warnings are only added, parts only appended.            *)
LEMMA ClaimKept ==
  ASSUME TypeOK, TypeOK', [Next]_vars, PartsExtend, NEW f, Claimed(f, allWarnings, parts)
  PROVE  Claimed(f, allWarnings', parts')
<1>1. KeepsWarnings(allWarnings, allWarnings')
  BY WarningsStep
<1>2. /\ DOMAIN allWarnings = 1..Len(allWarnings) /\ Len(allWarnings) \in Nat
      /\ DOMAIN allWarnings' = 1..Len(allWarnings') /\ Len(allWarnings') \in Nat
      /\ DOMAIN parts = 1..Len(parts) /\ Len(parts) \in Nat
      /\ DOMAIN parts' = 1..Len(parts') /\ Len(parts') \in Nat
  BY SeqIsFunction DEF TypeOK
<1>3. \A n \in DOMAIN allWarnings :
        /\ n \in DOMAIN allWarnings'
        /\ allWarnings'[n].msg = allWarnings[n].msg
        /\ allWarnings'[n].feature = allWarnings[n].feature
  BY <1>1, <1>2 DEF KeepsWarnings, SameWarning
<1>4. \A p \in DOMAIN parts : p \in DOMAIN parts' /\ parts'[p] = parts[p]
  BY <1>2 DEF PartsExtend
<1>5. CASE WarningCovers(f, Messages(allWarnings))
  <2>1. Messages(allWarnings) \subseteq Messages(allWarnings')
    BY <1>3 DEF Messages
  <2>2. QED
    BY <1>5, <2>1 DEF Claimed, WarningCovers
<1>6. ASSUME NEW v \in RaisedWarnings, NEW n \in DOMAIN allWarnings, NEW p \in DOMAIN parts,
             NEW c \in Entries(parts[p].carriers),
             SameKey(v, allWarnings[n]), v.code # NoCode, c.frag = f, c.code = v.code
      PROVE  Claimed(f, allWarnings', parts')
  <2>1. SameKey(v, allWarnings'[n]) /\ c \in Entries(parts'[p].carriers)
    BY <1>3, <1>4, <1>6 DEF SameKey
  <2>2. QED
    BY <1>3, <1>4, <1>6, <2>1 DEF Claimed
<1>7. QED
  BY <1>5, <1>6 DEF Claimed

(* The fragment that is being reconciled: a code stamped in this batch     *)
(* comes with a warning that covers the carrier it was stamped from, and   *)
(* so this one.                                                            *)
LEMMA NewIsClaimed ==
  ASSUME CodesTell, TypeOK, TypeOK', CurrentPart, ResultInv, OwnInv, OwnInv', [Next]_vars,
         ReconcileNew
  PROVE  Claimed(C.frag, allWarnings', parts)
<1>1. C \in Carrier /\ C.frag \in Texts /\ C \in Entries(res.carriers)
  <2>1. k \in DOMAIN res.carriers
    BY DEF ReconcileNew, TypeOK, Result
  <2>2. QED
    BY <2>1, CurrentCarrier DEF ReconcileNew, C, Entries
<1>2. /\ pc = "reconcile" /\ pc' = "reconcile" /\ UNCHANGED <<i, res, parts>> /\ k' = k + 1
  BY DEF ReconcileNew
<1>3. Told(res) /\ OwnCoded(allWarnings', res, i, k + 1)
  BY <1>2 DEF ResultInv, OwnInv
<1>4. CASE ~IsReported(Stamped(allWarnings))
  <2>1. Synthesized \in Entries(allWarnings')
    BY <1>4, NewReconciles
  <2>2. C.frag \in Messages(allWarnings')
    BY <2>1 DEF Messages, Entries, Synthesized
  <2>3. QED
    BY <1>1, <2>2, CoversItself DEF Claimed
<1>5. CASE WarningCovers(C.frag, Messages(Stamped(allWarnings)))
  <2>1. Messages(Stamped(allWarnings)) \subseteq Messages(allWarnings')
    <3>1. DOMAIN Stamped(allWarnings) = DOMAIN allWarnings
      BY DEF Stamped
    <3>2. QED
      BY <3>1, NewReconciles DEF Messages
  <2>2. QED
    BY <1>5, <2>1 DEF Claimed, WarningCovers
<1>6. CASE AlreadyCoded(Stamped(allWarnings))
  <2>1. PICK n \in DOMAIN allWarnings :
           /\ allWarnings'[n].own /\ allWarnings'[n].batch = i
           /\ allWarnings'[n].code = C.code /\ C.code # NoCode
           /\ n \in DOMAIN allWarnings'
    <3>1. DOMAIN Stamped(allWarnings) = DOMAIN allWarnings
      BY DEF Stamped
    <3>2. QED
      BY <1>6, <3>1, NewReconciles DEF AlreadyCoded, IsOwn
  <2>2. PICK u \in Entries(res.warnings) : CodedAs(allWarnings'[n], u, res.carriers, k + 1)
    BY <1>3, <2>1 DEF OwnCoded
  <2>3. Messages(res.warnings) \subseteq Messages(allWarnings')
    BY <1>3 DEF OwnCoded
  <2>4. CASE WarningCovers(C.frag, Messages(res.warnings))
    BY <2>3, <2>4 DEF Claimed, WarningCovers
  <2>5. CASE Reported(res)
    BY <1>1, <2>4, <2>5 DEF Reported
  <2>6. CASE CoveredAlike(res) /\ Entries(res.warnings) \subseteq RaisedWarnings
    <3>1. CASE allWarnings'[n].code = u.code
      <4>1. u \in RaisedWarnings /\ SameKey(u, allWarnings'[n])
            /\ u.code # NoCode /\ C.code = u.code
        BY <2>1, <2>2, <2>6, <3>1 DEF CodedAs
      <4>2. Len(parts) \in DOMAIN parts /\ C \in Entries(parts[Len(parts)].carriers)
        BY <1>1, <1>2 DEF CurrentPart, TypeOK
      <4>3. QED
        BY <2>1, <4>1, <4>2 DEF Claimed
    <3>2. ASSUME NEW j \in DOMAIN res.carriers, res.carriers[j].code = allWarnings'[n].code,
                 WarningCovers(res.carriers[j].frag, {allWarnings'[n].msg})
          PROVE  Claimed(C.frag, allWarnings', parts)
      <4>1. allWarnings'[n].msg = u.msg /\ u.msg \in Messages(res.warnings)
        BY <2>2 DEF CodedAs, SameKey, Messages, Entries
      <4>2. WarningCovers(res.carriers[j].frag, Messages(res.warnings))
        BY <3>2, <4>1 DEF WarningCovers
      <4>3. res.carriers[j] \in Entries(res.carriers) /\ res.carriers[j].code = C.code
        BY <2>1, <3>2 DEF Entries
      <4>4. WarningCovers(C.frag, Messages(res.warnings))
        BY <1>1, <2>1, <2>6, <4>2, <4>3 DEF CoveredAlike
      <4>5. QED
        BY <2>4, <4>4
    <3>3. QED
      BY <2>2, <3>1, <3>2 DEF CodedAs
  <2>7. QED
    BY <1>3, <2>5, <2>6 DEF Told
<1>7. QED
  BY <1>4, <1>5, <1>6 DEF IsReported

(* Every step keeps the reconciled fragments claimed.                      *)
LEMMA ClaimNext ==
  ASSUME CodesTell, TypeOK, TypeOK', CurrentPart, ResultInv, OwnInv, OwnInv', ClaimInv,
         [Next]_vars
  PROVE  ClaimInv'
<1>1. PartsExtend
  <2>1. parts \in Seq(Part) /\ DOMAIN parts = 1..Len(parts) /\ Len(parts) \in Nat
    BY SeqIsFunction DEF TypeOK
  <2>2. CASE UNCHANGED parts
    BY <2>1, <2>2 DEF PartsExtend
  <2>3. CASE EmitPart
    <3> PICK part : parts' = Append(parts, part)
      BY <2>3 DEF EmitPart
    <3>1. QED
      BY <2>1 DEF PartsExtend
  <2>4. QED
    BY <2>2, <2>3
    DEF Next, vars, SkipBatch, StartBatch, RouteComment, RoutePipeline, GateReject,
        GateDiverge, GatePass, TxOpen, TxClose, TxDegrade, TxNone, ReconcileKnown,
        ReconcileNew, ReconcileEnd, RegisterUnsupported, RegisterEnd, FallbackCodes,
        Return, Finished
<1>2. ASSUME NEW f \in reconciled PROVE Claimed(f, allWarnings', parts')
  BY <1>1, <1>2, ClaimKept DEF ClaimInv
<1>3. CASE ReconcileNew
  <2>1. reconciled' = reconciled \cup {C.frag} /\ parts' = parts
    BY <1>3 DEF ReconcileNew
  <2>2. Claimed(C.frag, allWarnings', parts)
    BY <1>3, NewIsClaimed
  <2>3. QED
    BY <1>2, <2>1, <2>2 DEF ClaimInv
<1>4. CASE UNCHANGED reconciled
  BY <1>2, <1>4 DEF ClaimInv
<1>5. QED
  BY <1>3, <1>4
  DEF Next, vars, reportVars, SkipBatch, StartBatch, RouteComment, RoutePipeline, GateReject,
      GateDiverge, GatePass, TxOpen, TxClose, TxDegrade, TxNone, EmitPart, ReconcileKnown,
      ReconcileEnd, RegisterUnsupported, RegisterEnd, FallbackCodes, Return, Finished

(* What a reconciled fragment is claimed by survives the aggregation: the  *)
(* first warning with the same text has the same words, and the code that  *)
(* all warnings with this text come with.                                  *)
LEMMA ClaimsSurvive ==
  ASSUME CodesTell, TypeOK, KeyInv, NEW f, Claimed(f, allWarnings, parts)
  PROVE  IsMirrored(f, AggregateWarnings(allWarnings))
<1> DEFINE out == AggregateWarnings(allWarnings)
<1>1. DOMAIN allWarnings = 1..Len(allWarnings) /\ Len(allWarnings) \in Nat
  BY SeqIsFunction DEF TypeOK
<1>2. \A n \in DOMAIN allWarnings : Represented(out, allWarnings, n)
  BY <1>1, AllRepresented
<1> HIDE DEF out
<1>3. CASE WarningCovers(f, Messages(allWarnings))
  <2>1. Messages(allWarnings) \subseteq Messages(out)
    BY <1>2 DEF Represented, SameKey, Messages
  <2>2. WarningCovers(f, Messages(out))
    BY <1>3, <2>1 DEF WarningCovers
  <2>3. QED
    BY <2>2 DEF IsMirrored, out
<1>4. ASSUME NEW v \in RaisedWarnings, NEW n \in DOMAIN allWarnings, NEW p \in DOMAIN parts,
             NEW c \in Entries(parts[p].carriers),
             SameKey(v, allWarnings[n]), v.code # NoCode, c.frag = f, c.code = v.code
      PROVE  IsMirrored(f, out)
  <2>1. PICK m \in DOMAIN allWarnings, q \in DOMAIN out :
           /\ SameKey(allWarnings[m], allWarnings[n])
           /\ out[q].code = allWarnings[m].code
    BY <1>1, <1>2 DEF Represented
  <2>2. allWarnings[m].feature = v.feature /\ v.feature # "lossy_conversion"
    BY <1>4, <2>1 DEF SameKey, CodesTell
  <2>3. PICK w \in RaisedWarnings : /\ SameKey(w, allWarnings[m])
                                    /\ w.code # NoCode => allWarnings[m].code = w.code
    BY <2>2 DEF KeyInv, HasKey
  <2>4. SameKey(v, w)
    BY <1>4, <2>1, <2>3 DEF SameKey
  <2>5. v.code = w.code
    BY <2>4 DEF CodesTell, SameKey
  <2>6. out[q].code = c.code /\ c.code # NoCode
    BY <1>4, <2>1, <2>3, <2>5
  <2>7. QED
    BY <1>4, <2>6 DEF IsMirrored
<1>5. QED
  BY <1>3, <1>4 DEF Claimed, out

(* What is returned mirrors what was shipped, although aggregation keeps   *)
(* one warning of those with the same text and its code alone, for scripts *)
(* of any length over pipelines whose codes tell.                          *)
THEOREM ResultMirrorsLosses ==
  ASSUME CodesTell
  PROVE  Spec => []ResultMirrors
<1> DEFINE FinalInv == pc = "done" => final = AggregateWarnings(allWarnings)
           Inv == /\ LossInv /\ CodedInv /\ ResultInv /\ OwnInv /\ KeyInv /\ ClaimInv
                  /\ FinalInv
<1>1. Init => Inv
  <2> SUFFICES ASSUME Init PROVE Inv
    OBVIOUS
  <2>1. /\ parts = <<>> /\ allWarnings = <<>> /\ reconciled = {} /\ pc = "next"
    BY DEF Init
  <2>2. DOMAIN parts = {} /\ DOMAIN allWarnings = {}
    BY <2>1
  <2>3. LossInv
    BY <2>1, <2>2 DEF LossInv, CurrentPart, FragmentsReconciled, ReconciledMirrored,
                      SettledCarriers
  <2>4. CodedInv /\ ResultInv /\ OwnInv /\ KeyInv /\ ClaimInv /\ FinalInv
    BY <2>1, <2>2 DEF CodedInv, ResultInv, OwnInv, KeyInv, ClaimInv
  <2>5. QED
    BY <2>3, <2>4
<1>2. TypeOK /\ TypeOK' /\ Inv /\ [Next]_vars => Inv'
  <2> SUFFICES ASSUME TypeOK, TypeOK', Inv, [Next]_vars PROVE Inv'
    OBVIOUS
  <2>1. LossInv' /\ CodedInv' /\ KeyInv'
    BY LossNext, CodedNext, KeyNext
  <2>2. ResultInv' /\ OwnInv'
    BY ResultNext, OwnNext
  <2>3. ClaimInv'
    BY <2>2, ClaimNext DEF LossInv
  <2>4. FinalInv'
    <3>1. CASE pc' # "done"
      BY <3>1
    <3>2. CASE Return
      BY <3>2 DEF Return, reportVars
    <3>3. CASE UNCHANGED vars
      BY <3>3 DEF vars, reportVars
    <3>4. QED
      BY <3>1, <3>2, <3>3
      DEF Next, SkipBatch, StartBatch, RouteComment, RoutePipeline, GateReject, GateDiverge,
          GatePass, TxOpen, TxClose, TxDegrade, TxNone, EmitPart, ReconcileKnown,
          ReconcileNew, ReconcileEnd, RegisterUnsupported, RegisterEnd, FallbackCodes, Finished
  <2>5. QED
    BY <2>1, <2>2, <2>3, <2>4
<1>3. TypeOK /\ Inv => ResultMirrors
  <2> SUFFICES ASSUME TypeOK, Inv, pc = "done", NEW c \in SettledCarriers
               PROVE  IsMirrored(c.frag, final)
    BY DEF ResultMirrors
  <2>1. c.frag \in reconciled
    BY DEF LossInv, FragmentsReconciled
  <2>2. IsMirrored(c.frag, AggregateWarnings(allWarnings))
    BY <2>1, ClaimsSurvive DEF ClaimInv
  <2>3. QED
    BY <2>2
<1>4. QED
  BY <1>1, <1>2, <1>3, TypeCorrect, PTL DEF Spec

-----------------------------------------------------------------------------
(* What the pipelines answer (module BatchPipelines), for any batch and    *)
(* any dialect pair: an answer that is not the translated statement has a  *)
(* carrier or a warning, through every rewrite, guard and join; and so has *)
(* every part of the output of the loop that runs on them.                 *)
(* Answers made of lists, with a trace where they are not the statement.   *)
IsAnswer(r) ==
  /\ r = Returned(r.form, r.carriers, r.warnings, r.unsupported)
  /\ IsList(r.carriers) /\ IsList(r.warnings)
IsTraced(r) == IsAnswer(r) /\ LeavesTrace(r)

-----------------------------------------------------------------------------
(* Lists that are not empty stay so.                                       *)
LEMMA SequenceIsList ==
  ASSUME NEW S, NEW s \in Seq(S)
  PROVE  IsList(s)
<1>1. Len(s) \in Nat /\ DOMAIN s = 1..Len(s) /\ s = [n \in 1..Len(s) |-> s[n]]
  OBVIOUS
<1>2. s \in [1..Len(s) -> Entries(s)]
  BY <1>1 DEF Entries
<1>3. QED
  BY <1>1, <1>2, FunctionIsSeq DEF IsList

LEMMA ListIsFunction ==
  ASSUME NEW s, IsList(s)
  PROVE  /\ Len(s) \in Nat /\ DOMAIN s = 1..Len(s) /\ s = [n \in 1..Len(s) |-> s[n]]
         /\ s = <<>> <=> Len(s) = 0
<1> DEFINE S == Entries(s)
<1>1. s \in Seq(S)
  BY DEF IsList
<1> HIDE DEF S
<1>2. QED
  BY <1>1

LEMMA FunctionIsList ==
  ASSUME NEW n \in Nat, NEW s, s = [m \in 1..n |-> s[m]]
  PROVE  IsList(s) /\ Len(s) = n /\ (s = <<>> <=> n = 0)
<1> DEFINE S == {s[m] : m \in 1..n}
<1>1. s \in [1..n -> S]
  OBVIOUS
<1> HIDE DEF S
<1>2. s \in Seq(S) /\ Len(s) = n
  BY <1>1, FunctionIsSeq
<1>3. s = <<>> <=> n = 0
  BY <1>2
<1>4. QED
  BY <1>2, <1>3, SequenceIsList

LEMMA ConcatLists ==
  ASSUME NEW s, NEW t, IsList(s), IsList(t)
  PROVE  IsList(s \o t) /\ (s \o t = <<>> <=> s = <<>> /\ t = <<>>)
<1> DEFINE S == Entries(s)
           T == Entries(t)
<1>1. s \in Seq(S) /\ t \in Seq(T)
  BY DEF IsList
<1> HIDE DEF S, T
<1>2. s \in Seq(S \cup T) /\ t \in Seq(S \cup T)
  BY <1>1
<1>3. s \o t \in Seq(S \cup T) /\ Len(s \o t) = Len(s) + Len(t) /\ Len(s) \in Nat /\ Len(t) \in Nat
  BY <1>2
<1>4. (s = <<>> <=> Len(s) = 0) /\ (t = <<>> <=> Len(t) = 0) /\ (s \o t = <<>> <=> Len(s \o t) = 0)
  BY <1>2, <1>3
<1>5. IsList(s \o t)
  <2> DEFINE U == S \cup T
  <2>1. s \o t \in Seq(U)
    BY <1>3
  <2> HIDE DEF U
  <2>2. QED
    BY <2>1, SequenceIsList
<1>6. QED
  BY <1>3, <1>4, <1>5

LEMMA AppendList ==
  ASSUME NEW s, NEW x, IsList(s)
  PROVE  IsList(Append(s, x)) /\ Append(s, x) # <<>>
<1> DEFINE S == Entries(s)
<1>1. s \in Seq(S)
  BY DEF IsList
<1> HIDE DEF S
<1>2. s \in Seq(S \cup {x}) /\ x \in S \cup {x}
  BY <1>1
<1>3. Append(s, x) \in Seq(S \cup {x}) /\ Len(Append(s, x)) = Len(s) + 1 /\ Len(s) \in Nat
  BY <1>2
<1>4. Append(s, x) # <<>>
  BY <1>3
<1>5. QED
  BY <1>3, <1>4, SequenceIsList

LEMMA ListOf == IsList(<<>>) /\ \A x : IsList(<<x>>) /\ <<x>> # <<>>
<1>1. <<>> \in Seq({}) /\ \A x : <<x>> \in Seq({x}) /\ <<x>> # <<>>
  OBVIOUS
<1>2. QED
  BY <1>1, SequenceIsList

(* The ways an answer is put together.                                     *)
LEMMA ReturnedTraced ==
  ASSUME NEW form, NEW cs, NEW ws, NEW us, IsList(cs), IsList(ws),
         form = "sql" \/ cs # <<>> \/ ws # <<>>
  PROVE  IsTraced(Returned(form, cs, ws, us))
BY DEF Returned, IsTraced, IsAnswer, LeavesTrace

LEMMA CleanTraced == IsTraced(Clean("sql"))
BY ListOf, ReturnedTraced DEF Clean

LEMMA CarriedTraced ==
  \A form, c, ws, us : IsList(ws) => IsTraced(Returned(form, <<c>>, ws, us))
BY ListOf, ReturnedTraced

LEMMA NotedTraced ==
  \A form, cs, w, us : IsList(cs) => IsTraced(Returned(form, cs, <<w>>, us))
BY ListOf, ReturnedTraced

LEMMA AddWarningTraced ==
  ASSUME NEW r, NEW w, IsAnswer(r)
  PROVE  IsTraced(AddWarning(r, w))
<1>1. AddWarning(r, w) = Returned(r.form, r.carriers, Append(r.warnings, w), r.unsupported)
  BY DEF AddWarning, IsAnswer, Returned
<1>2. IsList(Append(r.warnings, w)) /\ Append(r.warnings, w) # <<>> /\ IsList(r.carriers)
  BY AppendList DEF IsAnswer
<1>3. QED
  BY <1>1, <1>2, ReturnedTraced

LEMMA AddWarningsTraced ==
  ASSUME NEW r, NEW ws, IsTraced(r), IsList(ws)
  PROVE  IsTraced(AddWarnings(r, ws))
<1> DEFINE more == ws \o r.warnings
<1>0. IsAnswer(r)
  BY DEF IsTraced
<1>1. AddWarnings(r, ws) = Returned(r.form, r.carriers, more, r.unsupported)
  <2>1. AddWarnings(r, ws) = [r EXCEPT !.warnings = more]
    BY DEF AddWarnings
  <2> HIDE DEF more
  <2>2. QED
    BY <1>0, <2>1 DEF IsAnswer, Returned
<1>2. IsList(r.carriers) /\ IsList(r.warnings) /\ LeavesTrace(r)
  BY DEF IsTraced, IsAnswer
<1>3. IsList(ws \o r.warnings) /\ (r.warnings # <<>> => ws \o r.warnings # <<>>)
  BY <1>2, ConcatLists
<1>4. QED
  BY <1>1, <1>2, <1>3, ReturnedTraced DEF LeavesTrace

LEMMA AddCarrierTraced ==
  ASSUME NEW r, NEW c, IsAnswer(r)
  PROVE  IsTraced([r EXCEPT !.carriers = Append(@, c)])
<1> DEFINE more == Append(r.carriers, c)
           answer == Returned(r.form, more, r.warnings, r.unsupported)
<1>1. [r EXCEPT !.carriers = Append(@, c)] = answer
  <2>1. [r EXCEPT !.carriers = Append(@, c)] = [r EXCEPT !.carriers = more]
    OBVIOUS
  <2> HIDE DEF more
  <2>2. QED
    BY <2>1 DEF IsAnswer, Returned
<1>2. IsList(more) /\ more # <<>> /\ IsList(r.warnings)
  BY AppendList DEF IsAnswer
<1>3. IsTraced(answer)
  <2> HIDE DEF more
  <2>1. QED
    BY <1>2, ReturnedTraced
<1>4. QED
  <2> HIDE DEF answer
  <2>1. QED
    BY <1>1, <1>3

(* Joined outputs: a trace of either is one of both, and what is not       *)
(* executable in either leaves one.                                        *)
LEMMA JoinedTraced ==
  ASSUME NEW r, NEW s, IsTraced(r), IsTraced(s)
  PROVE  IsTraced(Joined(r, s))
<1>1. /\ IsList(r.carriers) /\ IsList(r.warnings) /\ LeavesTrace(r)
      /\ IsList(s.carriers) /\ IsList(s.warnings) /\ LeavesTrace(s)
  BY DEF IsTraced, IsAnswer
<1>2. JoinedForm(r.form, s.form) # "sql" => r.form # "sql" \/ s.form # "sql"
  BY DEF JoinedForm
<1>3. /\ IsList(r.carriers \o s.carriers) /\ IsList(r.warnings \o s.warnings)
      /\ r.carriers \o s.carriers = <<>> <=> r.carriers = <<>> /\ s.carriers = <<>>
      /\ r.warnings \o s.warnings = <<>> <=> r.warnings = <<>> /\ s.warnings = <<>>
  BY <1>1, ConcatLists
<1>4. \/ JoinedForm(r.form, s.form) = "sql"
      \/ r.carriers \o s.carriers # <<>> \/ r.warnings \o s.warnings # <<>>
  BY <1>1, <1>2, <1>3 DEF LeavesTrace
<1>5. QED
  BY <1>3, <1>4, ReturnedTraced DEF Joined

(* Outputs joined one after the other.                                     *)
JoinsAs(h, rs) ==
  h = [n \in 1..Len(rs) |-> IF n = 1 THEN rs[1] ELSE Joined(h[n - 1], rs[n])]

LEMMA JoinExists ==
  ASSUME NEW rs, IsList(rs)
  PROVE  \E h : JoinsAs(h, rs)
<1> DEFINE Upto(m, h) ==
      h = [n \in 1..m |-> IF n = 1 THEN rs[1] ELSE Joined(h[n - 1], rs[n])]
           Bad == {m \in 0..Len(rs) : ~\E h : Upto(m, h)}
<1>0. Len(rs) \in Nat
  BY ListIsFunction
<1>1. ASSUME Bad # {} PROVE FALSE
  <2>0. Bad \subseteq Nat
    OBVIOUS
  <2>1. PICK m \in Bad : \A j \in Bad : m <= j
    <3> HIDE DEF Bad
    <3>1. QED
      BY <1>1, <2>0, SomeLeast
  <2>2. CASE m = 0
    <3>1. Upto(0, [n \in 1..0 |-> rs[n]])
      OBVIOUS
    <3>2. QED
      BY <2>1, <2>2, <3>1
  <2>3. CASE m # 0
    <3>1. m \in 1..Len(rs) /\ m - 1 \in 0..Len(rs) /\ ~(m <= m - 1) /\ m \in Nat
      BY <1>0, <2>1, <2>3
    <3>2. PICK h : Upto(m - 1, h)
      BY <2>1, <3>1
    <3> DEFINE last == IF m = 1 THEN rs[1] ELSE Joined(h[m - 1], rs[m])
               g == [n \in 1..m |-> IF n = m THEN last ELSE h[n]]
    <3>4. \A n \in 1..m : n = m \/ n \in 1..(m - 1)
      BY <3>1
    <3>5. \A n \in 1..(m - 1) : /\ g[n] = h[n]
                                /\ h[n] = IF n = 1 THEN rs[1] ELSE Joined(h[n - 1], rs[n])
      BY <3>1, <3>2
    <3>6. g[m] = last
      BY <3>1
    <3>8. m # 1 => g[m - 1] = h[m - 1]
      BY <3>1, <3>5
    <3>9. \A n \in 1..(m - 1) : n # 1 => g[n - 1] = h[n - 1]
      BY <3>1, <3>5
    <3>10. g = [n \in 1..m |-> g[n]]
      OBVIOUS
    <3>11. \A n \in 1..m : g[n] = IF n = 1 THEN rs[1] ELSE Joined(g[n - 1], rs[n])
      <4> HIDE DEF g
      <4>1. QED
        BY <3>4, <3>5, <3>6, <3>8, <3>9
    <3>12. Upto(m, g)
      <4> HIDE DEF g
      <4>1. QED
        BY <3>10, <3>11
    <3>13. QED
      BY <2>1, <3>12
  <2>4. QED
    BY <2>2, <2>3
<1>2. QED
  BY <1>0, <1>1 DEF JoinsAs

LEMMA JoinAllTraced ==
  ASSUME NEW rs, IsList(rs), rs # <<>>, \A n \in DOMAIN rs : IsTraced(rs[n])
  PROVE  IsTraced(JoinAll(rs))
<1> DEFINE h == CHOOSE h : JoinsAs(h, rs)
<1>0. Len(rs) \in Nat /\ Len(rs) >= 1 /\ DOMAIN rs = 1..Len(rs)
  BY ListIsFunction
<1>1. JoinAll(rs) = h[Len(rs)]
  BY Zenon DEF JoinAll, JoinsAs
<1>2. JoinsAs(h, rs)
  BY JoinExists, Zenon
<1> HIDE DEF h
<1> DEFINE Bad == {n \in 1..Len(rs) : ~IsTraced(h[n])}
<1>3. ASSUME Bad # {} PROVE FALSE
  <2>0. Bad \subseteq Nat
    OBVIOUS
  <2>1. PICK m \in Bad : \A j \in Bad : m <= j
    <3> HIDE DEF Bad
    <3>1. QED
      BY <1>3, <2>0, SomeLeast
  <2>2. h[m] = IF m = 1 THEN rs[1] ELSE Joined(h[m - 1], rs[m])
    BY <1>0, <1>2, <2>1 DEF JoinsAs
  <2>3. m # 1 => m - 1 \in 1..Len(rs) /\ ~(m <= m - 1)
    BY <1>0, <2>1
  <2>4. m # 1 => IsTraced(h[m - 1])
    BY <2>1, <2>3
  <2>5. IsTraced(rs[1]) /\ IsTraced(rs[m])
    BY <1>0, <2>1
  <2>6. IsTraced(h[m])
    BY <2>2, <2>4, <2>5, JoinedTraced
  <2>7. QED
    BY <2>1, <2>6
<1>4. QED
  BY <1>0, <1>1, <1>3

LEMMA ListedPerItem ==
  ASSUME NEW s, IsList(s), NEW t, t = [n \in DOMAIN s |-> t[n]]
  PROVE  IsList(t) /\ (t = <<>> <=> s = <<>>) /\ DOMAIN t = DOMAIN s
<1>1. Len(s) \in Nat /\ DOMAIN s = 1..Len(s) /\ (s = <<>> <=> Len(s) = 0)
  BY ListIsFunction
<1>2. t = [n \in 1..Len(s) |-> t[n]]
  BY <1>1
<1>3. QED
  BY <1>1, <1>2, FunctionIsList

-----------------------------------------------------------------------------
(* The sqlglot pipeline, one lemma a recognizer.                           *)
LEMMA EngineTraced ==
  ASSUME NEW st, Honest(st)
  PROVE  IsTraced(Engine(st))
<1> DEFINE unread == [n \in DOMAIN st.run.unread |->
                        Warn(st.run.unread[n], "unread_args", "1228")]
           transformed == Source # Target
                          /\ st.run.ends \notin {"parser_raises", "transformer_raises"}
           kept == IF transformed THEN st.run.notes ELSE <<>>
           noted == unread \o kept
           entries == IF transformed THEN st.run.unsupported ELSE <<>>
           failed == Append(noted, Warn("dml failed", "dml", "1229"))
<1>1. IsList(unread)
  <2>1. unread = [n \in DOMAIN st.run.unread |-> unread[n]]
    OBVIOUS
  <2> HIDE DEF unread
  <2>2. QED
    BY <2>1, ListedPerItem DEF Honest
<1>2. IsList(kept)
  BY ListOf DEF Honest
<1>3. IsList(noted)
  <2> HIDE DEF unread, kept
  <2>1. QED
    BY <1>1, <1>2, ConcatLists
<1>4. IsList(failed) /\ failed # <<>>
  <2> HIDE DEF noted
  <2>1. QED
    BY <1>3, AppendList
<1>5. Engine(st) = IF st.run.ends = "emitted"
                   THEN Returned(st.run.form, st.run.carriers, noted, entries)
                   ELSE Returned("raw", <<>>, failed, entries)
  BY DEF Engine
<1> HIDE DEF noted, failed, entries
<1>6. CASE st.run.ends = "emitted"
  <2>1. IsTraced(Returned(st.run.form, st.run.carriers, noted, entries))
    BY <1>3, <1>6, ReturnedTraced DEF Honest
  <2>2. QED
    BY <1>5, <1>6, <2>1
<1>7. CASE st.run.ends # "emitted"
  <2>1. IsTraced(Returned("raw", <<>>, failed, entries))
    BY <1>4, ListOf, ReturnedTraced
  <2>2. QED
    BY <1>5, <1>7, <2>1
<1>8. QED
  BY <1>6, <1>7

LEMMA OrganizationTraced ==
  ASSUME NEW st, Honest(st)
  PROVE  IsTraced(Organization(st))
<1> DEFINE r == Engine(st)
           w == Warn("organization dropped", "physical_clause", NoCode)
           s == [r EXCEPT !.carriers = Append(@, Carry("c-organization", "1209"))]
<1>1. IsTraced(r) /\ IsAnswer(r)
  BY EngineTraced DEF IsTraced
<1>2. Organization(st) = AddWarnings(r, <<w>>) \/ Organization(st) = AddWarnings(s, <<w>>)
  BY DEF Organization
<1>3. IsTraced(s)
  <2> HIDE DEF r
  <2>1. QED
    BY <1>1, AddCarrierTraced
<1>4. IsList(<<w>>)
  BY ListOf
<1> HIDE DEF r, s, w
<1>5. QED
  BY <1>1, <1>2, <1>3, <1>4, AddWarningsTraced

LEMMA AlterColumnTraced == ASSUME NEW st PROVE IsTraced(AlterColumn(st))
<1> DEFINE ws == IF Target = "oracle" /\ st.kind = "alter_column_null"
                 THEN <<Warn("redundant null", "alter_column_null", "1227")>> ELSE <<>>
<1>1. IsList(ws)
  BY ListOf
<1>2. AlterColumn(st) = Returned("sql", <<>>, ws, <<>>)
  BY DEF AlterColumn
<1> HIDE DEF ws
<1>3. QED
  BY <1>1, <1>2, ListOf, ReturnedTraced

LEMMA CreateSchemaTraced == ASSUME NEW st PROVE IsTraced(CreateSchema(st))
<1>1. CASE Target = "oracle"
  <2>1. CreateSchema(st)
          = Returned("lines", <<Carry("c-schema", "1208")>>,
                     <<Warn("schema is a user", "create_schema", NoCode)>>, <<"u-schema">>)
    BY <1>1 DEF CreateSchema
  <2>2. QED
    BY <2>1, ListOf, CarriedTraced
<1>2. CASE Target # "oracle"
  <2> DEFINE ws == IF st.kind = "create_schema_owner"
                   THEN <<Warn("schema owner", "create_schema", NoCode)>> ELSE <<>>
  <2>1. IsList(ws)
    BY ListOf
  <2>2. CreateSchema(st) = Returned("sql", <<>>, ws, <<>>)
    BY <1>2 DEF CreateSchema
  <2> HIDE DEF ws
  <2>3. QED
    BY <2>1, <2>2, ListOf, ReturnedTraced
<1>3. QED
  BY <1>1, <1>2

LEMMA CheckStateTraced == ASSUME NEW st PROVE IsTraced(CheckState(st))
<1>1. \/ CheckState(st) = Clean("sql")
      \/ CheckState(st) = Returned("block", <<Carry("c-check-state", "1210")>>,
                            <<Warn("check state", "constraint_state", NoCode)>>, <<>>)
  BY DEF CheckState
<1>2. QED
  BY <1>1, ListOf, CleanTraced, CarriedTraced

LEMMA SystemProcTraced == IsTraced(SystemProc)
BY ListOf, CarriedTraced DEF SystemProc

LEMMA OutputClauseTraced ==
  ASSUME NEW st, Honest(st)
  PROVE  IsTraced(OutputClause(st))
<1> DEFINE base == Engine(st)
<1>1. IsTraced(base) /\ IsAnswer(base)
  BY EngineTraced DEF IsTraced
<1>2. \/ OutputClause(st) = base
      \/ OutputClause(st) = [base EXCEPT !.carriers = Append(@, Carry("c-output", "1212"))]
  BY DEF OutputClause
<1> HIDE DEF base
<1>3. QED
  BY <1>1, <1>2, AddCarrierTraced

LEMMA DefaultConstraintTraced ==
  ASSUME NEW st, Honest(st)
  PROVE  IsTraced(DefaultConstraint(st))
<1>1. \/ DefaultConstraint(st) = Engine(st)
      \/ DefaultConstraint(st)
           = Returned("lines", <<Carry("c-default", "1213")>>,
                      <<Warn("default value", "ddl_default", NoCode)>>,
                      Engine(st).unsupported)
  BY DEF DefaultConstraint
<1>2. QED
  BY <1>1, ListOf, EngineTraced, CarriedTraced

LEMMA TranspileDmlTraced ==
  ASSUME NEW st, Honest(st)
  PROVE  IsTraced(TranspileDml(st))
<1>1. IsList(StrippedClause(st))
  BY ListOf DEF StrippedClause
<1>2. IsTraced(AddWarnings(Engine(st), StrippedClause(st)))
  BY <1>1, EngineTraced, AddWarningsTraced
<1>3. \/ TranspileDml(st) = Clean("sql")
      \/ TranspileDml(st) = Organization(st)
      \/ TranspileDml(st) = AlterColumn(st)
      \/ TranspileDml(st) = CreateSchema(st)
      \/ TranspileDml(st) = CheckState(st)
      \/ TranspileDml(st) = SystemProc
      \/ TranspileDml(st) = OutputClause(st)
      \/ TranspileDml(st) = DefaultConstraint(st)
      \/ TranspileDml(st) = AddWarnings(Engine(st), StrippedClause(st))
  BY DEF TranspileDml
<1>4. QED
  BY <1>2, <1>3, CleanTraced, OrganizationTraced, AlterColumnTraced, CreateSchemaTraced,
     CheckStateTraced, SystemProcTraced, OutputClauseTraced, DefaultConstraintTraced

LEMMA TranspileStatementsTraced ==
  ASSUME NEW sts, IsList(sts), sts # <<>>, \A n \in DOMAIN sts : Honest(sts[n])
  PROVE  IsTraced(TranspileStatements(sts))
<1> DEFINE rs == [n \in DOMAIN sts |-> TranspileDml(sts[n])]
<1>1. 1 \in DOMAIN sts
  BY ListIsFunction
<1>2. \A n \in DOMAIN sts : IsTraced(TranspileDml(sts[n]))
  BY TranspileDmlTraced
<1>3. IsTraced(JoinAll(rs))
  <2>1. rs = [n \in DOMAIN sts |-> rs[n]] /\ \A n \in DOMAIN sts : IsTraced(rs[n])
    BY <1>2
  <2> HIDE DEF rs
  <2>2. IsList(rs) /\ rs # <<>> /\ DOMAIN rs = DOMAIN sts
    BY <2>1, ListedPerItem
  <2>3. QED
    BY <2>1, <2>2, JoinAllTraced
<1>4. TranspileStatements(sts) = JoinAll(rs) \/ TranspileStatements(sts) = TranspileDml(sts[1])
  BY DEF TranspileStatements
<1> HIDE DEF rs
<1>5. QED
  BY <1>1, <1>2, <1>3, <1>4

-----------------------------------------------------------------------------
(* SET options and catalog guards.                                         *)
LEMMA SetOptionTraced == ASSUME NEW st PROVE IsTraced(SetOption(st))
<1> DEFINE notes == {n \in SetNotes : n.kind = st.kind /\ Source \in n.from /\ Target \in n.to}
           note == CHOOSE n \in notes : TRUE
<1>1. \/ SetOption(st) = Returned("lines", <<note.carrier>>, <<note.warning>>, <<>>)
      \/ SetOption(st) = CommentedOut(Warn("set option", "set_option", "1223"), <<>>)
      \/ SetOption(st) = CommentedOut(Warn("unrecognized guard", "unhandled_batch", "1224"),
                                      <<"unrecognized guard">>)
      \/ SetOption(st) = CommentedOut(Warn("sqlplus directive", "set_option", "1223"), <<>>)
      \/ SetOption(st) = Clean("sql")
  BY Zenon DEF SetOption
<1> HIDE DEF note
<1>2. IsTraced(Returned("lines", <<note.carrier>>, <<note.warning>>, <<>>))
  BY ListOf, CarriedTraced
<1>3. \A w, us : IsTraced(CommentedOut(w, us))
  BY ListOf, NotedTraced DEF CommentedOut
<1>4. QED
  BY <1>1, <1>2, <1>3, CleanTraced

LEMMA TranspileSetBatchTraced ==
  ASSUME NEW sts, IsList(sts), sts # <<>>, \A n \in DOMAIN sts : Honest(sts[n])
  PROVE  IsTraced(TranspileSetBatch(sts))
<1> DEFINE rs == [n \in DOMAIN sts |-> IF IsSet(sts[n]) THEN SetOption(sts[n])
                                       ELSE TranspileDml(sts[n])]
<1>1. IsTraced(JoinAll(rs))
  <2>1. rs = [n \in DOMAIN sts |-> rs[n]] /\ \A n \in DOMAIN sts : IsTraced(rs[n])
    BY SetOptionTraced, TranspileDmlTraced
  <2> HIDE DEF rs
  <2>2. IsList(rs) /\ rs # <<>> /\ DOMAIN rs = DOMAIN sts
    BY <2>1, ListedPerItem
  <2>3. QED
    BY <2>1, <2>2, JoinAllTraced
<1>2. TranspileSetBatch(sts) = JoinAll(rs) \/ TranspileSetBatch(sts) = SetOption(sts[1])
  BY DEF TranspileSetBatch
<1> HIDE DEF rs
<1>3. QED
  BY <1>1, <1>2, SetOptionTraced

LEMMA WarnElseDroppedTraced ==
  ASSUME NEW r, NEW g, IsTraced(r)
  PROVE  IsTraced(WarnElseDropped(r, g))
BY AddWarningTraced DEF WarnElseDropped, IsTraced

LEMMA WarnGuardDroppedTraced ==
  ASSUME NEW r, NEW g, IsTraced(r)
  PROVE  IsTraced(WarnGuardDropped(r, g))
<1>1. IsTraced(AddWarning(r, Warn("guard dropped", "guard_dropped", "1225")))
  BY AddWarningTraced DEF IsTraced
<1>2. QED
  BY <1>1, WarnElseDroppedTraced DEF WarnGuardDropped

LEMMA FaithfulGuardTraced ==
  ASSUME NEW r, NEW g, IsTraced(r)
  PROVE  IsTraced(FaithfulGuard(r, g))
<1> DEFINE wrapped == [r EXCEPT !.form = "sql"]
<1>1. wrapped = Returned("sql", r.carriers, r.warnings, r.unsupported)
  BY DEF IsTraced, IsAnswer, Returned
<1>2. IsTraced(Returned("sql", r.carriers, r.warnings, r.unsupported))
  BY ReturnedTraced DEF IsTraced, IsAnswer
<1>3. FaithfulGuard(r, g) = wrapped \/ FaithfulGuard(r, g) = WarnElseDropped(wrapped, g)
  BY DEF FaithfulGuard
<1> HIDE DEF wrapped
<1>4. QED
  BY <1>1, <1>2, <1>3, WarnElseDroppedTraced

LEMMA FaithfulOrDroppedTraced ==
  ASSUME NEW r, NEW g, IsTraced(r)
  PROVE  IsTraced(FaithfulOrDropped(r, g))
BY FaithfulGuardTraced, WarnGuardDroppedTraced DEF FaithfulOrDropped

LEMMA GuardIdempotentTraced ==
  ASSUME NEW r, NEW g, IsTraced(r)
  PROVE  IsTraced(GuardIdempotent(r, g))
<1> DEFINE noted == AddWarning(r, Warn("index guard dropped", "guard_dropped", "1225"))
<1>1. \/ GuardIdempotent(r, g) = FaithfulGuard(r, g)
      \/ GuardIdempotent(r, g) = WarnElseDropped(r, g)
      \/ GuardIdempotent(r, g) = WarnElseDropped(noted, g)
      \/ GuardIdempotent(r, g) = FaithfulOrDropped(r, g)
  BY DEF GuardIdempotent
<1>2. IsTraced(noted)
  BY AddWarningTraced DEF IsTraced
<1> HIDE DEF noted
<1>3. QED
  BY <1>1, <1>2, FaithfulGuardTraced, WarnElseDroppedTraced, FaithfulOrDroppedTraced

LEMMA DropGuardTraced == ASSUME NEW g PROVE IsTraced(DropGuard(g))
<1> DEFINE dropped ==
      CASE Target = "mysql" /\ g.drops = "index" ->
             WarnGuardDropped(Clean("sql"), [g EXCEPT !.else = "none"])
        [] Target = "mysql" /\ g.drops = "sequence" -> SetOption([kind |-> "guard"])
        [] OTHER -> Clean("sql")
<1>1. IsTraced(WarnGuardDropped(Clean("sql"), [g EXCEPT !.else = "none"]))
  BY CleanTraced, WarnGuardDroppedTraced
<1>2. IsTraced(SetOption([kind |-> "guard"]))
  BY SetOptionTraced
<1>3. IsTraced(dropped)
  BY <1>1, <1>2, CleanTraced
<1>4. DropGuard(g) = WarnElseDropped(dropped, g)
  BY DEF DropGuard
<1> HIDE DEF dropped
<1>5. QED
  BY <1>3, <1>4, WarnElseDroppedTraced

LEMMA TranspileGuardTraced ==
  ASSUME NEW g, Honest(g.body)
  PROVE  IsTraced(TranspileGuard(g))
<1>1. IsTraced(TranspileDml(g.body))
  BY TranspileDmlTraced
<1>2. \/ TranspileGuard(g) = DropGuard(g)
      \/ TranspileGuard(g) = GuardIdempotent(TranspileDml(g.body), g)
      \/ TranspileGuard(g) = FaithfulOrDropped(TranspileDml(g.body), g)
  BY DEF TranspileGuard
<1>3. QED
  BY <1>1, <1>2, DropGuardTraced, GuardIdempotentTraced, FaithfulOrDroppedTraced

-----------------------------------------------------------------------------
(* Routines, and the statements folded into their batch.                   *)
LEMMA NotesAreLists ==
  ASSUME NEW run, HonestRoutine(run)
  PROVE  /\ IsList(ParseNotes(run)) /\ IsList(TransformNotes(run))
         /\ run.errors # <<>> \/ run.parseWarnings # <<>> => ParseNotes(run) # <<>>
<1> DEFINE errors == [n \in DOMAIN run.errors |->
                        Warn(run.errors[n], "procedural_parse", NoCode)]
           doubts == [n \in DOMAIN run.parseWarnings |->
                        Warn(run.parseWarnings[n], "procedural_parse",
                             IF run.parseWarnings[n] = "parse fallback"
                             THEN "1170" ELSE NoCode)]
           notes == [n \in DOMAIN run.notes |->
                        Warn(run.notes[n], "procedural_transform", NoCode)]
<1>1. errors = [n \in DOMAIN run.errors |-> errors[n]]
  OBVIOUS
<1>2. doubts = [n \in DOMAIN run.parseWarnings |-> doubts[n]]
  OBVIOUS
<1>3. notes = [n \in DOMAIN run.notes |-> notes[n]]
  OBVIOUS
<1>4. ParseNotes(run) = errors \o doubts
  BY DEF ParseNotes
<1>5. TransformNotes(run) = notes \/ TransformNotes(run) = <<>>
  BY DEF TransformNotes
<1> HIDE DEF errors, doubts, notes
<1>6. IsList(errors) /\ (errors = <<>> <=> run.errors = <<>>)
  BY <1>1, ListedPerItem DEF HonestRoutine
<1>7. IsList(doubts) /\ (doubts = <<>> <=> run.parseWarnings = <<>>)
  BY <1>2, ListedPerItem DEF HonestRoutine
<1>8. IsList(notes)
  BY <1>3, ListedPerItem DEF HonestRoutine
<1>9. QED
  BY <1>4, <1>5, <1>6, <1>7, <1>8, ConcatLists, ListOf

LEMMA RoutineTraced ==
  ASSUME NEW run, HonestRoutine(run)
  PROVE  IsTraced(Routine(run))
<1> DEFINE w == Warn("routine failed", "procedural", "1232")
           said == ParseNotes(run)
           all == said \o TransformNotes(run)
<1>1. IsList(said) /\ IsList(all)
  BY NotesAreLists, ConcatLists
<1>2. CASE run.ends = "no_tree"
  <2>1. Routine(run) = Returned("raw", <<>>, said, <<>>)
    BY <1>2 DEF Routine
  <2>2. said # <<>>
    BY <1>2, NotesAreLists DEF HonestRoutine
  <2> HIDE DEF said
  <2>3. QED
    BY <1>1, <2>1, <2>2, ListOf, ReturnedTraced
<1>3. CASE run.ends = "parser_raises"
  <2>1. Routine(run) = Returned("raw", <<>>, <<w>>, <<>>)
    BY <1>3 DEF Routine
  <2>2. QED
    BY <2>1, ListOf, NotedTraced
<1>4. CASE run.ends = "transformer_raises"
  <2>1. Routine(run) = Returned("raw", <<>>, Append(said, w), <<>>)
    BY <1>4 DEF Routine
  <2> HIDE DEF said, w
  <2>2. QED
    BY <1>1, <2>1, ListOf, AppendList, ReturnedTraced
<1>5. CASE run.ends = "emitter_raises"
  <2>1. Routine(run) = Returned("raw", <<>>, Append(all, w), <<>>)
    BY <1>5 DEF Routine
  <2> HIDE DEF all, w
  <2>2. QED
    BY <1>1, <2>1, ListOf, AppendList, ReturnedTraced
<1>6. CASE run.ends = "emitted"
  <2>1. Routine(run) = Returned(run.form, run.carriers, all, <<>>)
    BY <1>6 DEF Routine
  <2> HIDE DEF all
  <2>2. QED
    BY <1>1, <1>6, <2>1, ReturnedTraced DEF HonestRoutine
<1>7. QED
  BY <1>2, <1>3, <1>4, <1>5, <1>6 DEF HonestRoutine

LEMMA GatedLeadTraced ==
  ASSUME NEW lead, Honest(lead)
  PROVE  IsTraced(GatedLead(lead))
<1> DEFINE r == TranspileDml(lead)
           ws == Append(r.warnings, Warn("gate", "validity_gate", NoCode))
<1>1. IsTraced(r)
  BY TranspileDmlTraced
<1>2. \/ GatedLead(lead) = r
      \/ GatedLead(lead)
           = Returned("lines", <<Carry("gate", "1151")>>, ws, Append(r.unsupported, "gate"))
  BY DEF GatedLead
<1>3. IsList(ws)
  <2> HIDE DEF r
  <2>1. QED
    BY <1>1, AppendList DEF IsTraced, IsAnswer
<1> HIDE DEF r, ws
<1>4. QED
  BY <1>1, <1>2, <1>3, CarriedTraced

LEMMA TranspileProceduralTraced ==
  ASSUME NEW b, EngineSaysSo(b)
  PROVE  IsTraced(TranspileProcedural(b))
<1> DEFINE leads == [n \in DOMAIN b.lead |-> GatedLead(b.lead[n])]
<1>1. IsTraced(Routine(b.routine))
  BY RoutineTraced DEF EngineSaysSo
<1>2. CASE b.lead = <<>>
  BY <1>1, <1>2 DEF TranspileProcedural
<1>3. CASE b.lead # <<>>
  <2>1. TranspileProcedural(b) = Joined(JoinAll(leads), Routine(b.routine))
    BY <1>3 DEF TranspileProcedural
  <2>2. leads = [n \in DOMAIN b.lead |-> leads[n]] /\ \A n \in DOMAIN b.lead : IsTraced(leads[n])
    BY GatedLeadTraced DEF EngineSaysSo
  <2> HIDE DEF leads
  <2>3. IsList(leads) /\ leads # <<>> /\ DOMAIN leads = DOMAIN b.lead
    BY <1>3, <2>2, ListedPerItem DEF EngineSaysSo
  <2>4. IsTraced(JoinAll(leads))
    BY <2>2, <2>3, JoinAllTraced
  <2>5. QED
    BY <1>1, <2>1, <2>4, JoinedTraced
<1>4. QED
  BY <1>2, <1>3

LEMMA PipelineResultTraced ==
  ASSUME NEW b, EngineSaysSo(b)
  PROVE  IsTraced(PipelineResult(b))
<1>1. b.guard # <<>> => Honest(b.guard[1].body)
  <2>1. b.guard # <<>> => 1 \in DOMAIN b.guard
    BY ListIsFunction DEF EngineSaysSo
  <2>2. QED
    BY <2>1 DEF EngineSaysSo
<1>2. \/ PipelineResult(b) = TranspileProcedural(b)
      \/ b.guard # <<>> /\ PipelineResult(b) = TranspileGuard(b.guard[1])
      \/ PipelineResult(b) = TranspileSetBatch(b.statements)
      \/ PipelineResult(b) = TranspileStatements(b.statements)
  BY DEF PipelineResult
<1>3. QED
  BY <1>1, <1>2, TranspileProceduralTraced, TranspileGuardTraced,
     TranspileSetBatchTraced, TranspileStatementsTraced DEF EngineSaysSo

-----------------------------------------------------------------------------
(* No part of the output of the loop that runs on the code's pipelines is  *)
(* a degraded one without a carrier, a warning or an unsupported entry     *)
(* that says so, as long as the engines below them say so themselves.      *)
THEOREM PipelinesDegradeAloud ==
  ASSUME \A b \in Batches : EngineSaysSo(b) /\ Pipeline(b) = {PipelineResult(b)}
  PROVE  Spec => []NoDegradeWithoutTrace
<1>1. PipelinesLeaveTraces
  BY PipelineResultTraced DEF PipelinesLeaveTraces, IsTraced
<1>2. QED
  BY <1>1, DegradesLeaveTraces
=============================================================================
