----------------------------- MODULE Reporting -----------------------------
(***************************************************************************)
(* What the transpiler says about what it could not do.                    *)
(*                                                                         *)
(* A lossy conversion leaves a carrier comment (UNIQUE-NNNN: fragment) in  *)
(* the output, a TransformWarning in the result, or both.  A carrier and a *)
(* warning are about the same loss when their texts share a run of three   *)
(* words (_warning_covers).  A text is therefore modelled by the set of    *)
(* its three-word shingles, the only thing the code compares.              *)
(***************************************************************************)
EXTENDS Naturals, Sequences, FiniteSets

CONSTANTS
  Texts,        \* fragments of carriers and messages of warnings
  Shingles,     \* a text's three-word shingles
  Codes,        \* diagnostic codes UNIQUE-NNNN
  Features,     \* TransformWarning.feature values
  NoCode        \* a warning or a carrier without a code (None)

ASSUME ShinglesAssumption ==
  /\ Shingles \in [Texts -> SUBSET STRING]
  /\ \A t \in Texts : Shingles[t] # {}       \* a text covers itself

ASSUME CodesAssumption ==
  /\ NoCode \notin Codes
  /\ {"1230", "1231"} \subseteq Codes

Carrier == [frag : Texts, code : Codes \cup {NoCode}]

Warning == [msg : Texts, feature : Features, code : Codes \cup {NoCode}]

(* A warning once filed in all_warnings.  `batch' is the position of the   *)
(* batch that raised it and `own' whether that batch's pipeline did, not   *)
(* the reconciliation: result.warnings and all_warnings hold the same      *)
(* objects, so the code stamps the one through the other.                  *)
Filed   == [msg : Texts, feature : Features, code : Codes \cup {NoCode},
            batch : Nat, own : BOOLEAN]

Forms == {"sql", "lines", "block", "raw"}
  \* sql   - executable text, maybe with carriers inside it
  \* lines - nothing but `--' lines
  \* block - nothing but a /* ... */ comment
  \* raw   - an error comment followed by the source text

Result == [form : Forms, carriers : Seq(Carrier), warnings : Seq(Warning),
           unsupported : Seq(Texts)]

Warn(msg, feature, code) == [msg |-> msg, feature |-> feature, code |-> code]

WarningCovers(frag, messages) ==
  \E m \in messages : Shingles[frag] \cap Shingles[m] # {}

Messages(ws) == {ws[k].msg : k \in DOMAIN ws}
Entries(seq) == {seq[k] : k \in DOMAIN seq}

(* A carrier text repeated within one output counts once (the first).      *)
IsRepeated(carriers, k) ==
  \E j \in 1..(k - 1) : carriers[j].frag = carriers[k].frag

(* _is_comment_only: only `--' lines count, a block comment does not.      *)
IsCommentOnly(form) == form = "lines"

IsProcedural(feature) == feature \in {"procedural_parse", "procedural_transform"}

FallbackCode(feature) == IF feature = "procedural_parse" THEN "1230" ELSE "1231"

(* Duplicates (same feature and message) collapse into their first         *)
(* occurrence, which keeps its own code and gains a count.                 *)
SameKey_ByFeature(v, w) == v.feature = w.feature
SameKey(v, w) == v.feature = w.feature /\ v.msg = w.msg
IsFirst(ws, n) == \A j \in 1..(n - 1) : ~SameKey(ws[j], ws[n])

Counted(ws, n) ==
  [msg |-> ws[n].msg, feature |-> ws[n].feature, code |-> ws[n].code,
   count |-> Cardinality({j \in DOMAIN ws : SameKey(ws[j], ws[n])})]

AggregateWarnings(ws) ==
  LET upTo[n \in 0..Len(ws)] ==
        CASE n = 0 -> <<>>
          [] n > 0 /\ IsFirst(ws, n) -> Append(upTo[n - 1], Counted(ws, n))
          [] OTHER -> upTo[n - 1]
  IN upTo[Len(ws)]
=============================================================================
