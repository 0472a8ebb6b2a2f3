------------------------- MODULE TranspilerPromise -------------------------
(***************************************************************************)
(* The batch loop implements the promise of LossPromise: a part counts as  *)
(* shipped when the loop body of its batch is over.                        *)
(***************************************************************************)
EXTENDS Transpiler

(* The part of the current batch is not shipped while it is reconciled.    *)
InBatch == pc \in {"reconcile", "unsupported", "fallback"}
ShippedCount == IF InBatch THEN Len(parts) - 1 ELSE Len(parts)

ShippedParts ==
  [p \in 1..ShippedCount |->
     [batch |-> parts[p].batch, executable |-> parts[p].type # "COMMENT",
      reduced |-> parts[p].isComment, carriers |-> parts[p].carriers]]

FiledCodes == {allWarnings[n].code : n \in DOMAIN allWarnings} \ {NoCode}

Promise == INSTANCE LossPromise WITH
  shipped <- ShippedParts,
  warned <- Messages(allWarnings),
  coded <- FiledCodes,
  unsupported <- Entries(allUnsupported),
  closed <- pc = "done"

(* The loop implements the promise: no part is shipped before its losses   *)
(* are reported, although emission, reconciliation and registration are    *)
(* separate steps over lists that earlier batches share.                   *)
PromiseKept == Promise!Spec

(* What is returned still mirrors what was shipped, although aggregation   *)
(* keeps only the first code of warnings with the same text.               *)
ResultMirrors ==
  pc = "done" => \A c \in SettledCarriers : IsMirrored(c.frag, final)

(* The pipelines this is about.  Warnings with the same text come with the *)
(* same code, the gate's included, and none under the feature of what the  *)
(* loop synthesizes; and carriers that share a code are covered by the     *)
(* warnings of their batch together or not at all, for a code that one of  *)
(* them stamps on a warning may be lost when the result is aggregated.     *)
(* The code and the words of a known divergence are the loop's alone.      *)
RaisedWarnings ==
  {Warn(GateText, "validity_gate", NoCode), Warn(DivergeText, "value_divergence", NoCode)}
    \cup UNION {UNION {Entries(r.warnings) : r \in Pipeline(b)} : b \in Batches}

CoveredAlike(r) ==
  \A c, d \in Entries(r.carriers) :
    c.code = d.code /\ c.code # NoCode /\ WarningCovers(d.frag, Messages(r.warnings)) =>
      WarningCovers(c.frag, Messages(r.warnings))

CodesTell ==
  /\ \A v, w \in RaisedWarnings : v.feature = w.feature /\ v.msg = w.msg => v.code = w.code
  /\ \A w \in RaisedWarnings : w.feature # "lossy_conversion"
  /\ \A b \in Batches : \A r \in Pipeline(b) :
       /\ CoveredAlike(r)
       /\ \A c \in Entries(r.carriers) :
            c.code # "1207" /\ ~WarningCovers(c.frag, {DivergeText})
=============================================================================
