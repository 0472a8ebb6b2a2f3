---------------------------- MODULE HandlerScope ----------------------------
(***************************************************************************)
(* What an error does to a routine.  PL/SQL and PL/pgSQL protect a block    *)
(* with an EXCEPTION section of named handlers, T-SQL with TRY and CATCH,   *)
(* MySQL with a declared EXIT handler; the engine folds each form into the  *)
(* one the target has.  Transaction control is translated next to it, one   *)
(* statement at a time.                                                     *)
(*                                                                         *)
(* The source routine and the emitted one run in lockstep from a state with *)
(* no work done: fate is what the last error did to each, src and tgt are   *)
(* the work each has done.  What the engines do is external.               *)
(***************************************************************************)
EXTENDS Integers, Sequences

CONSTANTS Pairs,      \* the [source, target] runs
          Idioms,     \* the habits of the routines of each pair
          None,
          MaxDepth,   \* the deepest nesting of handlers
          MaxWrites   \* the writes of a routine

Engines == {"oracle", "postgresql", "mysql", "tsql"}

\* What a routine may do that some pair of engines sees differently.
Habits == {"many handlers",      \* run one of several handlers
           "passed handler",     \* pass an error by a handler that names others
           "empty lookup",       \* find no row
           "caught lookup",      \* ... in a block for just that
           "warning",            \* be warned
           "unguarded",          \* meet an error outside any block
           "work escapes",       \* ... or rethrow it, with work done
           "partial work",       \* handle an error of a block with work done
           "earlier work",       \* roll back, in a handler, work done before
           "implicit rollback",  \* roll back what no BEGIN TRAN covers
           "early commit",       \* meet an error after a COMMIT in its block
           "late begin",         \* begin a transaction with work done outside one
           "commit in block", "rollback in block",
           "bare commit",        \* end a transaction no BEGIN TRAN began
           "savepoint"}

ASSUME PairsAssumption == Pairs \subseteq [source : Engines, target : Engines]
ASSUME IdiomsAssumption == Idioms \in [Pairs -> SUBSET Habits]
ASSUME BoundsAssumption == MaxDepth \in Nat /\ MaxWrites \in Nat

VARIABLES source, target,
          blocks,   \* the open blocks with handlers, outermost first
          writes,   \* how many writes were made
          loose,    \* work was committed that the target may still hold open
          src, tgt, \* the work done
          fate      \* what the last error did, on each side

vars == <<source, target, blocks, writes, loose, src, tgt, fate>>

Pair == [source |-> source, target |-> target]
Allowed(habits) == habits \subseteq Idioms[Pair]

(***************************************************************************)
(* Errors.  "nodata" is a lookup without a row, "warning" a condition only  *)
(* MySQL hands to a handler, "txn" a transaction statement that fails.     *)
(***************************************************************************)
Errors == {"dup", "check", "raised", "nodata", "warning", "txn"}

\* What ends a statement with an error on an engine.
Exceptions(engine) ==
    {"dup", "check", "raised", "txn"} \cup IF engine = "oracle" THEN {"nodata"} ELSE {}

\* What a MySQL handler can be for.
Conditions(engine) ==
    Exceptions(engine) \cup IF engine = "mysql" THEN {"nodata", "warning"} ELSE {}

\* A T-SQL lookup is wrapped, on Oracle, in a block that drops NO_DATA_FOUND.
TargetExceptions ==
    IF source = "tsql" THEN Exceptions(target) \ {"nodata"} ELSE Exceptions(target)

\* The handlers of a block; a MySQL routine has one, others degrade the routine.
HandlersOf(engine) ==
    CASE engine = "tsql" -> {{"others"}}
      [] engine = "mysql" -> {{"others"}, {"warning"}}
      [] engine = "oracle" -> SUBSET {"dup", "nodata", "others"} \ {{}}
      [] engine = "postgresql" -> SUBSET {"dup", "check", "nodata", "others"} \ {{}}

\* The handler that runs on the source: by name, else OTHERS.
SourceRuns(error, block) ==
    IF error \in block.handlers \cap Conditions(source) THEN {error}
    ELSE IF error \in Exceptions(source) THEN block.handlers \cap {"others"}
    ELSE {}

(***************************************************************************)
(* The emitted handlers.  Only Oracle and PostgreSQL keep an EXCEPTION      *)
(* section; elsewhere all handlers become one CATCH, and a CATCH is a      *)
(* handler for everything.                                                 *)
(***************************************************************************)
Sections == {"oracle", "postgresql"}
KeepsSection == source \in Sections /\ target \in Sections

CatchKind_Others(handlers) == "others"
CatchKind(handlers) == IF handlers = {"nodata"} THEN "nodata" ELSE "others"

Caught(error, block) ==
    IF target = "mysql" /\ CatchKind(block.handlers) = "nodata"
    THEN error = "nodata"
    ELSE error \in TargetExceptions

TargetRuns(error, block) ==
    IF ~KeepsSection THEN IF Caught(error, block) THEN block.handlers ELSE {}
    ELSE IF error \notin TargetExceptions THEN {}
    ELSE IF error \in block.handlers THEN {error}
    ELSE block.handlers \cap {"others"}

\* Oracle has no name for a check violation: it is told by its code under a
\* WHEN OTHERS, and a section has one of those.
Compiles(handlers) == target = "oracle" => ~({"check", "others"} \subseteq handlers)

(***************************************************************************)
(* Fates: no error, or one that runs handlers, leaves the routine or, on   *)
(* T-SQL, is passed over.                                                  *)
(***************************************************************************)
Greatest(S) == IF S = {} THEN 0 ELSE CHOOSE i \in S : \A j \in S : j <= i

Goes(on, block, runs) == [goes |-> on, block |-> block, runs |-> runs]
On == Goes("on", 0, {})

\* runs says, of each open block, which of its handlers the error would run.
Fate(error, runs, exceptions, fatal) ==
    LET i == Greatest({j \in DOMAIN blocks : blocks[j].in = "body" /\ runs[j] # {}})
    IN CASE i # 0 -> Goes("handler", i, runs[i])
         [] i = 0 /\ error \notin exceptions -> On
         [] OTHER -> Goes(IF fatal THEN "out" ELSE "passed", 0, {})

\* Outside any TRY an error ends a T-SQL statement, not the routine; THROW ends it.
SourceFate(error, rethrown) ==
    Fate(error, [j \in DOMAIN blocks |-> SourceRuns(error, blocks[j])], Exceptions(source),
         rethrown \/ source # "tsql")
TargetFate(error, rethrown) ==
    Fate(error, [j \in DOMAIN blocks |-> TargetRuns(error, blocks[j])], TargetExceptions,
         rethrown \/ target # "tsql")

(***************************************************************************)
(* Work.  live is what the session sees, base what a ROLLBACK returns to,  *)
(* saved what the savepoint does, if there is one.  Oracle and PostgreSQL  *)
(* always have a transaction, T-SQL and MySQL once it is begun.            *)
(***************************************************************************)
Implicit(engine) == engine \in Sections
NoWork == [live |-> {}, base |-> {}, tran |-> FALSE, saved |-> {}]

Wrote(engine, w, n) ==
    [w EXCEPT !.live = @ \cup {n},
              !.base = IF Implicit(engine) \/ w.tran THEN @ ELSE @ \cup {n}]
Began(w) == [w EXCEPT !.base = w.live, !.tran = TRUE]
Committed(w) == [w EXCEPT !.base = w.live, !.tran = FALSE, !.saved = {}]
RolledBack(w) == [w EXCEPT !.live = w.base, !.tran = FALSE, !.saved = {}]

Marked(w) == [w EXCEPT !.saved = {w.live}]
Returned(w) == [w EXCEPT !.live = UNION w.saved]

\* Entering a handler, PL/pgSQL rolls its block back; a failed call of a
\* PL/SQL or PL/pgSQL routine is rolled back as a whole.
After(engine, w, f, mark) ==
    CASE f.goes = "handler" /\ engine = "postgresql" -> [w EXCEPT !.live = mark]
      [] f.goes = "out" /\ Implicit(engine) -> RolledBack(w)
      [] OTHER -> w

InBody == \E i \in DOMAIN blocks : blocks[i].in = "body"

\* A COMMIT or ROLLBACK fails without a BEGIN TRAN on T-SQL, and in a block
\* with handlers on PostgreSQL.
Fails(engine, w) ==
    (engine = "tsql" /\ ~w.tran) \/ (engine = "postgresql" /\ InBody)

(***************************************************************************)
(* The emitted transaction statements.                                     *)
(***************************************************************************)
TargetBegan_Never == tgt
TargetBegan == IF Implicit(target) THEN tgt ELSE Began(tgt)

\* COMMIT and ROLLBACK in a TRY are dropped on PostgreSQL; those in a kept
\* EXCEPTION section are not.
Dropped == target = "postgresql" /\ ~KeepsSection /\ blocks # <<>>

Saves == target # "postgresql"

(***************************************************************************)
(* What a pair gets wrong, alone or with another habit it gets wrong;      *)
(* every other habit is kept.                                              *)
(***************************************************************************)
Lost(from, to) ==
    LET folded == from \in Sections /\ to \notin Sections
        Either(engine) == engine \in {from, to}
    IN {habit \in Habits :
          \/ folded /\ habit \in {"many handlers", "passed handler", "savepoint"}
          \/ from = "mysql" /\ habit = "warning"
          \/ from = "mysql" /\ to \in Sections /\ habit = "passed handler"
          \/ from # "tsql" /\ (Either("oracle") \/ to = "mysql") /\ habit = "empty lookup"
          \/ from = "oracle" /\ to # "mysql" /\ habit = "caught lookup"
          \/ Either("tsql") /\ habit = "unguarded"
          \/ /\ (from \in Sections) # (to \in Sections)
             /\ habit \in {"work escapes", "implicit rollback"}
          \/ Either("postgresql") /\ habit = "partial work"
          \/ to = "tsql" /\ habit = "bare commit"
          \/ to = "postgresql" /\ habit \in {"savepoint", "rollback in block"}
          \/ from = "oracle" /\ to = "postgresql" /\ habit = "commit in block"
          \/ from = "tsql" /\ to \in Sections /\ habit = "late begin"
          \/ from = "tsql" /\ to = "postgresql" /\ habit = "earlier work"}

(***************************************************************************)
(* Steps.                                                                  *)
(***************************************************************************)
Init == /\ \E p \in Pairs : source = p.source /\ target = p.target
        /\ blocks = <<>> /\ writes = 0 /\ loose = FALSE
        /\ src = NoWork /\ tgt = NoWork
        /\ fate = [want |-> On, got |-> On]

Running == fate.want.goes # "out"
Calm == fate' = [want |-> On, got |-> On]

\* rolls: the handler starts with a ROLLBACK.  MySQL's handler is the routine's.
Open(handlers, rolls) ==
    /\ Running
    /\ Len(blocks) < MaxDepth
    /\ source = "mysql" => blocks = <<>> /\ writes = 0
    /\ Compiles(handlers)
    /\ blocks' = Append(blocks, [handlers |-> handlers, rolls |-> rolls, in |-> "body",
                                 cause |-> None, committed |-> FALSE,
                                 src |-> src.live, tgt |-> tgt.live])
    /\ Calm
    /\ UNCHANGED <<source, target, writes, loose, src, tgt>>

\* The end of a block or of its handler.
Close ==
    /\ Running
    /\ blocks # <<>>
    /\ blocks' = SubSeq(blocks, 1, Len(blocks) - 1)
    /\ Calm
    /\ UNCHANGED <<source, target, writes, loose, src, tgt>>

Write ==
    /\ Running
    /\ writes < MaxWrites
    /\ writes' = writes + 1
    /\ src' = Wrote(source, src, writes')
    /\ tgt' = Wrote(target, tgt, writes')
    /\ loose' = (loose \/ ~(Implicit(source) \/ src.tran))
    /\ Calm
    /\ UNCHANGED <<source, target, blocks>>

ErrorHabits(error, want) ==
    LET passed == {j \in DOMAIN blocks : /\ blocks[j].in = "body"
                                         /\ j > want.block
                                         /\ target # "mysql" \/ blocks[j].handlers # {"nodata"}}
        block == blocks[want.block]
        handled == want.goes = "handler"
        only == handled /\ block.handlers = {"nodata"} /\ passed = {}
    IN {habit \in Habits :
          \/ habit = "many handlers" /\ handled /\ \E g, h \in block.handlers : g # h
          \/ habit = "passed handler" /\ passed # {} /\ error # "nodata"
          \/ habit = "empty lookup" /\ error = "nodata" /\ ~only
          \/ habit = "caught lookup" /\ error = "nodata" /\ only
          \/ habit = "warning" /\ error = "warning" /\ blocks # <<>>
          \/ habit = "unguarded" /\ ~handled /\ error \in Exceptions(source)
          \/ habit = "work escapes" /\ want.goes = "out" /\ src.live # {}
          \/ habit = "partial work" /\ handled /\ ~block.rolls /\ src.live # block.src
          \/ habit = "earlier work" /\ handled /\ block.rolls /\ src.base # block.src
          \/ habit = "bare commit" /\ handled /\ block.rolls /\ ~src.tran
          \/ habit = "implicit rollback" /\ handled /\ block.rolls /\ ~src.tran /\ writes > 0
          \/ habit = "early commit" /\ handled /\ block.committed}

\* The handler of block i runs; what was open inside it is closed.
Entered(i, error) ==
    [SubSeq(blocks, 1, i) EXCEPT ![i].in = "handler", ![i].cause = error]

\* The error, with the ROLLBACK the handler it runs may start with.
Fail(error, rethrown) ==
    LET want == SourceFate(error, rethrown)
        got == TargetFate(error, rethrown)
        i == want.block
        rolls == want.goes = "handler" /\ blocks[i].rolls
        mark == [src |-> IF i = 0 THEN {} ELSE blocks[i].src,
                 tgt |-> IF i = 0 THEN {} ELSE blocks[i].tgt]
        s == After(source, src, want, mark.src)
        t == After(target, tgt, got, mark.tgt)
    IN /\ rolls /\ source = "tsql" => src.tran
       /\ rolls /\ source = "postgresql" => i = 1
       /\ rolls /\ i > 1 /\ KeepsSection => Allowed({"rollback in block"})
       /\ Allowed(ErrorHabits(error, want) \ IF rethrown THEN {"unguarded"} ELSE {})
       /\ fate' = [want |-> want, got |-> got]
       /\ blocks' = IF i = 0 THEN (IF want.goes = "out" THEN <<>> ELSE blocks)
                    ELSE Entered(i, error)
       /\ src' = IF rolls THEN RolledBack(s) ELSE s
       /\ tgt' = IF rolls /\ ~Dropped THEN RolledBack(t) ELSE t
       /\ UNCHANGED <<source, target, writes, loose>>

Raise(error) ==
    /\ Running
    /\ error # "txn"
    /\ error = "warning" => source = "mysql"
    /\ Fail(error, FALSE)

\* RAISE, THROW, RESIGNAL in a handler.
Rethrow ==
    /\ Running
    /\ blocks # <<>>
    /\ blocks[Len(blocks)].in = "handler"
    /\ blocks[Len(blocks)].cause \in Exceptions(source)
    /\ Fail(blocks[Len(blocks)].cause, TRUE)

\* Only T-SQL's is parsed as transaction control.
Begin ==
    /\ Running
    /\ source = "tsql"
    /\ ~src.tran
    /\ loose => Allowed({"late begin"})
    /\ src' = Began(src)
    /\ tgt' = TargetBegan
    /\ Calm
    /\ UNCHANGED <<source, target, blocks, writes, loose>>

\* A COMMIT or ROLLBACK that the source can make.
CanEnd ==
    /\ Running
    /\ ~Fails(source, src)
    /\ ~src.tran => Allowed({"bare commit"})

Ended(done) ==
    /\ tgt' = IF Dropped \/ Fails(target, tgt) THEN tgt ELSE done
    /\ fate' = [want |-> On,
                got |-> IF ~Dropped /\ Fails(target, tgt) THEN TargetFate("txn", FALSE) ELSE On]
    /\ UNCHANGED <<source, target, writes>>

Commit ==
    /\ CanEnd
    /\ blocks # <<>> => Allowed({"commit in block"})
    /\ src' = Committed(src)
    /\ Ended(Committed(tgt))
    /\ blocks' = [i \in DOMAIN blocks |-> [blocks[i] EXCEPT !.committed = TRUE]]
    /\ loose' = (blocks # <<>>)

Rollback ==
    /\ CanEnd
    /\ blocks # <<>> => Allowed({"rollback in block"})
    /\ (~src.tran /\ src.live # {}) => Allowed({"implicit rollback"})
    /\ src' = RolledBack(src)
    /\ Ended(RolledBack(tgt))
    /\ UNCHANGED <<blocks, loose>>

CanSave == /\ Running
           /\ source = "oracle" \/ (source = "tsql" /\ src.tran)
           /\ Allowed({"savepoint"})

Save ==
    /\ CanSave
    /\ src' = Marked(src)
    /\ tgt' = IF Saves THEN Marked(tgt) ELSE tgt
    /\ Calm
    /\ UNCHANGED <<source, target, blocks, writes, loose>>

RollbackToSave ==
    /\ CanSave
    /\ src.saved # {}
    /\ src' = Returned(src)
    /\ tgt' = IF Saves THEN Returned(tgt) ELSE tgt
    /\ Calm
    /\ UNCHANGED <<source, target, blocks, writes, loose>>

Next ==
    \/ \E handlers \in HandlersOf(source), rolls \in BOOLEAN : Open(handlers, rolls)
    \/ Close
    \/ Write
    \/ \E error \in Errors : Raise(error)
    \/ Rethrow
    \/ Begin \/ Commit \/ Rollback
    \/ Save \/ RollbackToSave

Spec == Init /\ [][Next]_vars

(***************************************************************************)
(* Properties.                                                             *)
(***************************************************************************)
\* An error runs, in the emitted routine, the handler the source runs, of the
\* same block, and nothing else; it leaves the routine where it leaves the
\* source's; and no statement fails that does not fail on the source.
HandlersAsWritten == fate.got = fate.want

\* The emitted routine has done the work the source has done: no error and no
\* rollback takes more of it, or less.
WorkKept == tgt.live = src.live

=============================================================================
