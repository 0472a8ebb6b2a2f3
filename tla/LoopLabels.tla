----------------------------- MODULE LoopLabels -----------------------------
(***************************************************************************)
(* Loops and the jumps out of them.  The emitter walks the body of a       *)
(* routine; each engine spells loops and jumps its own way, so a label is  *)
(* invented, kept or dropped where a loop opens, and where a jump is       *)
(* emitted it is resolved against the labels then open (MySQL), written as *)
(* it stands (Oracle, PostgreSQL) or left to the innermost loop (T-SQL).   *)
(*                                                                         *)
(* nest is the path from the routine to the statement being emitted.  What *)
(* a jump does is told by the construct it lands on, whether it is         *)
(* conditional, and whether a loop it continues takes its step (counts on, *)
(* fetches the next row).  What the engines make of a jump is external.    *)
(***************************************************************************)
EXTENDS Integers, Sequences

CONSTANTS Pairs,     \* the [source, target] runs
          Idioms,    \* the habits of the routines of each pair
          Names,     \* labels, and the variables of cursor loops
          None,
          MaxDepth,  \* the deepest nesting of a routine
          MaxLoops   \* how many generated labels a routine needs

Engines == {"oracle", "postgresql", "mysql", "tsql"}

\* What a jump, or a loop, may be that some target has no spelling for.
Habits == {"continue when",     \* CONTINUE WHEN
           "continue range",    \* CONTINUE a counting FOR
           "continue rows",     \* CONTINUE a cursor FOR
           "exit for",          \* EXIT either
           "jump in guard",     \* EXIT or CONTINUE a FOR over FROM DUAL
           "through try",       \* jump out of a handler's block to a WHILE
           "outer exit",        \* LEAVE a loop that is not the innermost
           "outer continue",    \* ITERATE one
           "while label",       \* name a WHILE
           "outer while",       \* name one that is not the innermost
           "block label",       \* LEAVE a labelled BEGIN ... END
           "same variable"}     \* nest cursor FORs over one variable

ASSUME PairsAssumption == Pairs \subseteq [source : Engines, target : Engines]
ASSUME IdiomsAssumption == Idioms \in [Pairs -> SUBSET Habits]
ASSUME NoneAssumption == None \notin Names
ASSUME BoundsAssumption == MaxDepth \in Nat /\ MaxLoops \in Nat

VARIABLES source, target,
          nest,     \* the open constructs, outermost first
          stack,    \* _loop_label_stack
          counter,  \* _loop_label_counter
          jump      \* the last jump: what the source wants, what the target does

vars == <<source, target, nest, stack, counter, jump>>

Pair == [source |-> source, target |-> target]

(***************************************************************************)
(* Constructs.  "guard" is a FOR over a FROM DUAL query, which runs once   *)
(* or not at all; a REPEAT is a loop that ends in a conditional EXIT.      *)
(***************************************************************************)
Loops == {"loop", "while", "range", "rows", "guard"}
Kinds == Loops \cup {"block", "if", "try"}

Parsed(engine) ==
    CASE engine = "tsql" -> {"while", "if", "try"}
      [] engine = "mysql" -> {"loop", "while", "block", "if", "try"}
      [] engine = "postgresql" -> {"loop", "while", "range", "rows", "if", "try"}
      [] engine = "oracle" -> {"loop", "while", "range", "rows", "guard", "if", "try"}

\* MySQL names loops and blocks; Oracle's and PostgreSQL's labels are not read.
NamesOf(kind) ==
    CASE kind = "rows" -> Names
      [] source = "mysql" /\ kind \in {"loop", "while", "block"} -> Names \cup {None}
      [] OTHER -> {None}

\* The greatest of a set of positions, 0 if there is none.
Greatest(S) == IF S = {} THEN 0 ELSE CHOOSE i \in S : \A j \in S : j <= i

SourceLoop == Greatest({i \in DOMAIN nest : nest[i].kind \in Loops})

\* On the engines whose IF takes a query's condition, a guard is an IF.
TargetLoops == IF target = "oracle" THEN Loops ELSE Loops \ {"guard"}
TargetLoop == Greatest({i \in DOMAIN nest : nest[i].kind \in TargetLoops})
Carrying(label) == Greatest({i \in DOMAIN nest : nest[i].label = label})

Between(i) == {nest[j].kind : j \in i + 1 .. Len(nest)}

(***************************************************************************)
(* Labels: the source's own, loop_lbl_<n>, <variable>_loop, and loop_lbl.  *)
(***************************************************************************)
Written(name) == [name |-> name, n |-> 0]
Numbered(n) == [name |-> None, n |-> n]
RowLabel(variable) == [name |-> variable, n |-> -1]
Fallback == Numbered(0)
NoLabel == Numbered(-1)

\* A WHILE is labelled when a jump shows through its IFs and blocks.
Labelled(kind, control) ==
    target = "mysql" /\ (kind = "loop" \/ (kind = "while" /\ control))

\* The transformer drops the label of a WHILE, keeps that of a LOOP, and makes
\* a T-SQL LOOP a WHILE.
SourceLabel(kind, name) == IF kind = "loop" THEN name ELSE None

Label_Constant(kind, name, control) ==
    CASE Labelled(kind, control) -> Numbered(1)
      [] target = "mysql" /\ kind = "rows" -> RowLabel(name)
      [] target \in {"oracle", "postgresql"} /\ SourceLabel(kind, name) # None -> Written(name)
      [] OTHER -> NoLabel
Label(kind, name, control) ==
    CASE Labelled(kind, control) ->
           IF SourceLabel(kind, name) # None THEN Written(name) ELSE Numbered(counter + 1)
      [] target = "mysql" /\ kind = "rows" -> RowLabel(name)
      [] target \in {"oracle", "postgresql"} /\ SourceLabel(kind, name) # None -> Written(name)
      [] OTHER -> NoLabel

CurrentLabel == IF stack = <<>> THEN Fallback ELSE stack[Len(stack)].label

Resolved(name) ==
    LET i == Greatest({j \in DOMAIN stack : stack[j].source = name})
    IN IF name = None \/ i = 0 THEN CurrentLabel ELSE stack[i].label

(***************************************************************************)
(* Jumps.                                                                  *)
(***************************************************************************)
NoJump == [lands |-> 0, when |-> FALSE, steps |-> FALSE]

Wanted(form, name, when) ==
    [lands |-> IF name = None THEN SourceLoop
               ELSE Greatest({i \in DOMAIN nest : nest[i].name = name}),
     when |-> when,
     steps |-> form = "continue"]

\* The FORs expanded for T-SQL and MySQL count at the end of their body, where
\* a CONTINUE does not come; T-SQL also fetches there, MySQL at the start.
Counts == target \in {"oracle", "postgresql"}
Fetches == target # "tsql"

Steps(kind) == (kind = "range" => Counts) /\ (kind = "rows" => Fetches)

EmittedExit(name, when) ==
    [lands |-> CASE target = "mysql" -> Carrying(Resolved(name))
                 [] target \in {"oracle", "postgresql"} /\ name # None -> Carrying(Written(name))
                 [] OTHER -> TargetLoop,
     when |-> when,
     steps |-> FALSE]

EmittedContinue(name, when) ==
    LET i == IF target = "mysql" THEN Carrying(Resolved(name)) ELSE TargetLoop
    IN [lands |-> i,
        when |-> when /\ target \in {"oracle", "postgresql"},
        steps |-> i # 0 /\ Steps(nest[i].kind)]

\* A LEAVE or ITERATE names an open construct; the other engines' jumps, and
\* the EXIT that ends a REPEAT, go by the innermost loop.
CanJump(form, name, when) ==
    LET i == Wanted(form, name, when).lands
    IN /\ i # 0
       /\ form = "continue" => nest[i].kind \in Loops
       /\ name # None => nest[i].kind \in {"loop", "while", "block"} /\ ~when
       /\ CASE source = "mysql" ->
                 name # None \/ (form = "exit" /\ when /\ i = Len(nest) /\ nest[i].kind = "loop")
            [] source = "tsql" -> name = None /\ ~when
            [] OTHER -> name = None

HabitsOf(form, name, when) ==
    LET i == Wanted(form, name, when).lands
        kind == nest[i].kind
        outer == kind \in Loops /\ i # SourceLoop
    IN {habit \in Habits :
          \/ habit = "continue when" /\ form = "continue" /\ when
          \/ habit = "continue range" /\ form = "continue" /\ kind = "range"
          \/ habit = "continue rows" /\ form = "continue" /\ kind = "rows"
          \/ habit = "exit for" /\ form = "exit" /\ kind \in {"range", "rows"}
          \/ habit = "jump in guard" /\ kind = "guard"
          \/ habit = "through try" /\ kind = "while" /\ "try" \in Between(i)
          \/ habit = "outer exit" /\ form = "exit" /\ outer
          \/ habit = "outer continue" /\ form = "continue" /\ outer
          \/ habit = "while label" /\ name # None /\ kind = "while"
          \/ habit = "outer while" /\ outer /\ kind = "while"
          \/ habit = "block label" /\ kind = "block"}

\* What the emitters keep right; what a pair leaves out, they get wrong.
KeptHabits(from, to) ==
    CASE to = "tsql" -> {"exit for", "through try", "same variable", "while label"}
      [] to = "mysql" ->
           IF from = "mysql" THEN {"outer exit", "outer continue", "while label"} ELSE {}
      [] OTHER -> {"continue when", "continue range", "continue rows", "exit for",
                   "through try", "outer exit", "same variable"}

(***************************************************************************)
(* The walk.                                                               *)
(***************************************************************************)
Init == /\ \E p \in Pairs : source = p.source /\ target = p.target
        /\ nest = <<>> /\ stack = <<>> /\ counter = 0
        /\ jump = [want |-> NoJump, got |-> NoJump]

\* control is what _has_loop_control finds in the body still to be emitted.
Open(kind, name, control) ==
    /\ Len(nest) < MaxDepth
    /\ name # None => \A i \in DOMAIN nest :
         nest[i].name = name => kind = "rows" /\ "same variable" \in Idioms[Pair]
    /\ control => kind = "while" /\ target = "mysql"
    /\ LET label == Label(kind, name, control)
           new == Labelled(kind, control) /\ SourceLabel(kind, name) = None
       IN /\ new => counter < MaxLoops
          /\ counter' = IF new THEN counter + 1 ELSE counter
          /\ stack' = IF Labelled(kind, control)
                      THEN Append(stack, [source |-> SourceLabel(kind, name), label |-> label])
                      ELSE stack
          /\ nest' = Append(nest, [kind |-> kind, name |-> name, label |-> label,
                                   control |-> control, shown |-> FALSE])
    /\ UNCHANGED <<source, target, jump>>

Popped == SubSeq(stack, 1, Len(stack) - 1)

Close ==
    /\ nest # <<>>
    /\ LET frame == nest[Len(nest)]
       IN /\ frame.control => frame.shown
          /\ stack' = IF Labelled(frame.kind, frame.control) THEN Popped ELSE stack
    /\ nest' = SubSeq(nest, 1, Len(nest) - 1)
    /\ UNCHANGED <<source, target, counter, jump>>

\* The loop a jump shows through to, as _has_loop_control looks for it.
ShowsIn_Directly(i) ==
    i # 0 /\ nest[i].kind = "while" /\ target = "mysql" /\ Between(i) = {}
ShowsIn(i) == /\ i # 0
              /\ nest[i].kind = "while"
              /\ target = "mysql"
              /\ Between(i) \subseteq {"if", "block"}

Emit(form, name, when) ==
    /\ CanJump(form, name, when)
    /\ HabitsOf(form, name, when) \subseteq Idioms[Pair]
    /\ LET i == SourceLoop
       IN IF ShowsIn(i)
          THEN nest[i].control /\ nest' = [nest EXCEPT ![i].shown = TRUE]
          ELSE UNCHANGED nest
    /\ jump' = [want |-> Wanted(form, name, when),
                got |-> IF form = "exit" THEN EmittedExit(name, when)
                        ELSE EmittedContinue(name, when)]
    /\ UNCHANGED <<source, target, stack, counter>>

Exit(name, when) == Emit("exit", name, when)
Continue(name, when) == Emit("continue", name, when)

Next ==
    \/ \E kind \in Parsed(source), control \in BOOLEAN :
         \E name \in NamesOf(kind) : Open(kind, name, control)
    \/ Close
    \/ \E name \in Names \cup {None}, when \in BOOLEAN :
         Exit(name, when) \/ Continue(name, when)

Spec == Init /\ [][Next]_vars

(***************************************************************************)
(* Properties.                                                             *)
(***************************************************************************)
\* The emitted jump does what the source's does: it leaves or continues the
\* same loop, under a condition if that had one, and a continued FOR counts or
\* fetches on.
JumpsAsWritten == jump.got = jump.want

\* No construct is labelled as one around it is: MySQL refuses that (1309),
\* and a jump could land on either.
LabelsDistinct ==
    \A i, j \in DOMAIN nest :
        i # j /\ nest[i].label # NoLabel => nest[i].label # nest[j].label

=============================================================================
