------------------------------ MODULE CallForms ------------------------------
(***************************************************************************)
(* One function call, before and after translation.  An action of the      *)
(* modules that extend this one converts one call and evaluates both sides *)
(* on the same arguments: meant is the source engine's value, emitted the  *)
(* target's value of what the emitter (emit_functions.py) or a routine's   *)
(* text rules (procedural/transformer/_expr.py) wrote in its place.        *)
(***************************************************************************)
CONSTANTS Carrier,  \* NULL with a note: the value is announced as not computed
          Refused,  \* the engine refuses the text, or the call fails
          Null

Dialects == {"tsql", "mysql", "postgresql", "oracle"}
Places == {"script", "body", "generated"}

VARIABLES source, target,
          place,    \* which rules convert the call: a script's, a routine
                    \* body's, or those for text that sqlglot has generated
          call,     \* the call, with its arguments
          meant, emitted    \* a text, a number as a sequence of one, or a constant

vars == <<source, target, place, call, meant, emitted>>

NoCall == [fn |-> "none"]

Init ==
    /\ source \in Dialects /\ target \in Dialects \ {source}
    /\ place \in Places
    /\ place = "generated" => source \in {"tsql", "mysql"} /\ target = "oracle"
    /\ call = NoCall /\ meant = Null /\ emitted = Null

Convert(expression, value, form) ==
    /\ call' = expression /\ meant' = value /\ emitted' = form
    /\ UNCHANGED <<source, target, place>>

Number(v) == IF v \in {Carrier, Refused, Null} THEN v ELSE <<v>>

ConvertNumber(expression, value, form) == Convert(expression, Number(value), Number(form))

\* What the conversion promises: the value the source computes, or none.
Announced == emitted \in {meant, Carrier, Refused}
=============================================================================
