---------------------------- MODULE LossPromise ----------------------------
(***************************************************************************)
(* What transpile promises about losses, whatever pipelines produce the    *)
(* output and however the report is put together: an output part is        *)
(* shipped together with the report of everything it lost, in script       *)
(* order, and nothing reported is taken back until the result is closed.   *)
(***************************************************************************)
EXTENDS Reporting

VARIABLES
  shipped,      \* parts of the output: batch, kind and carriers of each
  warned,       \* messages of the warnings
  coded,        \* codes of the warnings
  unsupported,  \* unsupported entries
  closed        \* whether the result was returned

promiseVars == <<shipped, warned, coded, unsupported, closed>>

Init ==
  /\ shipped = <<>>
  /\ warned = {}
  /\ coded = {}
  /\ unsupported = {}
  /\ closed = FALSE

(* A carrier is mirrored by a warning that covers its text, or by one with *)
(* the code of a carrier with its text.                                    *)
Mirrored(c) ==
  \/ WarningCovers(c.frag, warned)
  \/ \E p \in DOMAIN shipped : \E d \in Entries(shipped[p].carriers) :
       d.frag = c.frag /\ d.code # NoCode /\ d.code \in coded

(* A part of executable source is accounted for when its carriers are      *)
(* mirrored and, if nothing but comments is left of it, in `unsupported'.  *)
Accounted(part) ==
  part.executable =>
    \A c \in Entries(part.carriers) :
      /\ Mirrored(c)
      /\ part.reduced => WarningCovers(c.frag, unsupported)

Grown ==
  warned \subseteq warned' /\ coded \subseteq coded' /\ unsupported \subseteq unsupported'

Report == ~closed /\ Grown /\ UNCHANGED <<shipped, closed>>

Ship ==
  /\ ~closed
  /\ Grown
  /\ Len(shipped') = Len(shipped) + 1
  /\ \A p \in 1..Len(shipped) :
       /\ shipped'[p] = shipped[p]
       /\ shipped[p].batch < shipped'[Len(shipped')].batch
  /\ Accounted(shipped[Len(shipped)])'
  /\ UNCHANGED closed

Close == ~closed /\ closed' /\ UNCHANGED <<shipped, warned, coded, unsupported>>

Next == Report \/ Ship \/ Close

Spec == Init /\ [][Next]_promiseVars
=============================================================================
