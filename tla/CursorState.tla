----------------------------- MODULE CursorState -----------------------------
(***************************************************************************)
(* What a routine learns about its cursors, before and after translation.  *)
(* Oracle asks each cursor (%FOUND, %NOTFOUND, %ROWCOUNT, %ISOPEN), T-SQL   *)
(* asks one global, @@FETCH_STATUS.  The procedural transformer rewrites    *)
(* the questions: Oracle's become per-cursor variables, declared and        *)
(* maintained beside the cursor operations (_emulate_cursor_state); T-SQL's *)
(* become MySQL's NOT FOUND handler flag, PL/pgSQL's FOUND or the %FOUND of *)
(* one Oracle cursor (_fetch_status_forms); and Oracle's EXIT WHEN becomes  *)
(* FOUND on PL/pgSQL (_translate_cursor_attrs).                             *)
(*                                                                         *)
(* The source routine and the emitted one run in lockstep: an action is    *)
(* one statement of the source with all that was emitted for it.  The      *)
(* engines themselves (src, status, and how signal is raised) are external.*)
(***************************************************************************)
EXTENDS Integers

CONSTANTS Cursors,
          MaxRows,   \* the most rows a cursor's query returns
          Pairs,     \* the [source, target] runs
          Idioms     \* what the routines of each pair do: see Does and Between

Sources == {"oracle", "tsql"}
Targets == {"tsql", "mysql", "oracle", "postgresql"}

\* Things a routine may do that the emission treats specially.
Habits == {"fetch unread",    \* FETCH a cursor whose %FOUND the body never reads
           "recount",         \* OPEN again a cursor whose %ROWCOUNT it reads
           "early test",      \* read %FOUND before the first FETCH
           "fetch on",        \* FETCH a row after some FETCH found none
           "empty lookup",    \* SELECT into a variable that finds no row
           "reopen variable", \* OPEN again a cursor variable bound once
           "drop open"}       \* DEALLOCATE a cursor, or bind it anew, while open

\* What may come between a FETCH and a test that is not emulated; "no fetch"
\* when none has yet run on both engines.
Kinds == {"no fetch", "other cursor", "close", "dml", "lookup"}

ASSUME RowsAssumption == MaxRows \in Nat
ASSUME PairsAssumption ==
    Pairs \subseteq {p \in [source : Sources, target : Targets] : p.source # p.target}
ASSUME IdiomsAssumption ==
    Idioms \in [Pairs -> [does : SUBSET Habits, between : SUBSET Kinds]]

\* What the emission keeps right between s and t; README.md says what each
\* habit and each kind left out does to the others.
KeptHabits(t) ==
    {h \in Habits : \/ h = "fetch unread" /\ t = "tsql"
                    \/ h = "empty lookup" /\ t = "postgresql"}
KeptKinds(s, t) ==
    {k \in Kinds \ {"no fetch"} :
       /\ s = "tsql"
       /\ \/ t = "mysql"
          \/ t = "oracle" /\ k \in {"dml", "lookup"}
          \/ t = "postgresql" /\ k \in {"other cursor", "close"}}

VARIABLES source, target,
          rows,       \* how many rows each cursor's query returns
          fs, rc, op, \* the cursors whose %FOUND, %ROWCOUNT, %ISOPEN are read
          bound,      \* the cursor variables: opened where they are bound
          held,       \* those bound to a query now
          checked,    \* the cursor a test names on the Oracle side
          src,        \* the cursors on the source engine
          status,     \* @@FETCH_STATUS of a T-SQL source: its FETCH found no row
          since,      \* what has happened since the FETCH last asked about
          tgt,        \* the cursors on the target engine
          signal,     \* the target's own flag: @@FETCH_STATUS, v_fetch_done, NOT FOUND
          missed,     \* @uq_<c>_fs, v_uq_<c>_done
          counter,    \* @uq_<c>_rc, uq_<c>_rc
          openFlag,   \* @uq_<c>_open, v_uq_<c>_open
          flagged,    \* the cursors with a FETCH left as a comment
          refused     \* the target raised an error the source did not

fixed == <<source, target, rows, fs, rc, op, bound, checked>>
emulation == <<missed, counter, openFlag>>
vars == <<fixed, held, src, status, since, tgt, signal, emulation, flagged, refused>>

Pair == [source |-> source, target |-> target]
Does(h) == h \in Idioms[Pair].does
Emulated == source = "oracle" /\ target \in {"tsql", "mysql"}

(***************************************************************************)
(* The engines' cursors.  A cursor variable also remembers being bound.    *)
(***************************************************************************)
Closed == [open |-> FALSE, fetched |-> FALSE, missed |-> FALSE, pos |-> 0]
Opened == [Closed EXCEPT !.open = TRUE]

Fetched(cursor, n) ==
    [open |-> TRUE, fetched |-> TRUE, missed |-> cursor.pos = n,
     pos |-> IF cursor.pos = n THEN n ELSE cursor.pos + 1]

Misses(c) == src[c].pos = rows[c]

\* The target opens and closes the same cursor; it raises when the cursor is
\* already in that state, and a FETCH needs an open one.
TargetOpens(c) ==
    /\ refused' = (refused \/ tgt[c].open)
    /\ tgt' = [tgt EXCEPT ![c] = Opened]

TargetCloses(c) ==
    /\ refused' = (refused \/ ~tgt[c].open)
    /\ tgt' = [tgt EXCEPT ![c] = Closed]

(***************************************************************************)
(* Maintenance: what _emulate_cursor_state adds right after an operation.  *)
(***************************************************************************)
\* A FETCH sets @@FETCH_STATUS and FOUND either way; the NOT FOUND handler
\* only ever sets v_fetch_done.
Signalled_Sticky(miss) == signal \/ miss
Signalled(miss) == IF target = "mysql" THEN signal \/ miss ELSE miss

FetchMaintenance_NoReset(c, raised) ==
    /\ counter' = IF c \in rc /\ ~raised THEN [counter EXCEPT ![c] = @ + 1] ELSE counter
    /\ missed' = IF c \in fs THEN [missed EXCEPT ![c] = raised] ELSE missed
    /\ signal' = raised

\* The counter first: on MySQL it reads the flag the transfer then resets.
\* %ROWCOUNT is counted unless the flag says the FETCH found nothing.
FetchMaintenance(c, raised) ==
    /\ counter' = IF c \in rc /\ ~raised THEN [counter EXCEPT ![c] = @ + 1] ELSE counter
    /\ missed' = IF c \in fs THEN [missed EXCEPT ![c] = raised] ELSE missed
    /\ signal' = (raised /\ ~(target = "mysql" /\ c \in fs))

OpenMaintenance(c, opened) ==
    openFlag' = IF c \in op THEN [openFlag EXCEPT ![c] = opened] ELSE openFlag

\* An emulated test may come after anything.
Then(kinds) == since' = IF Emulated THEN since ELSE kinds

(***************************************************************************)
(* The statements.                                                         *)
(***************************************************************************)
Init ==
    /\ \E p \in Pairs : source = p.source /\ target = p.target
    /\ rows \in [Cursors -> 0 .. MaxRows]
    /\ fs \in SUBSET Cursors /\ rc \in SUBSET Cursors /\ op \in SUBSET Cursors
    /\ ~Emulated => fs \cup rc \cup op = {}
    /\ bound \in SUBSET Cursors
    /\ source = "oracle" \/ target = "mysql" => bound = {}  \* MySQL declares it with its query
    /\ held = {}
    /\ checked \in Cursors
    /\ src = [c \in Cursors |-> Closed] /\ tgt = [c \in Cursors |-> Closed]
    /\ status = FALSE
    /\ since = {"no fetch"}
    /\ signal \in (IF target = "tsql" THEN BOOLEAN ELSE {FALSE})
    /\ missed = [c \in Cursors |-> FALSE]
    /\ counter = [c \in Cursors |-> 0]
    /\ openFlag = [c \in Cursors |-> FALSE]
    /\ flagged = {} /\ refused = FALSE

\* SET @c = CURSOR ... FOR q is rewritten to OPEN c FOR q: the target opens the
\* cursor where the source only binds the variable.
Bind(c) ==
    /\ c \in bound
    /\ src[c].open => Does("drop open")
    /\ ~src[c].open /\ tgt[c].open => Does("drop open")
    /\ held' = held \cup {c}
    /\ src' = [src EXCEPT ![c] = Closed]
    /\ tgt' = [tgt EXCEPT ![c] = Opened]
    /\ refused' = (refused \/ (target = "postgresql" /\ tgt[c].open))
    /\ Then(since \cup {"close"})
    /\ UNCHANGED <<fixed, status, signal, emulation, flagged>>

\* The OPEN of a bound variable is dropped: its binding opened it.
OpensHere_Always(c) == c \in Cursors
OpensHere(c) == c \notin bound

\* OPEN c.
Open(c) ==
    /\ ~src[c].open
    /\ c \in bound => c \in held
    /\ c \in rc /\ counter[c] # 0 => Does("recount")
    /\ c \in bound /\ ~tgt[c].open => Does("reopen variable")
    /\ src' = [src EXCEPT ![c] = Opened]
    /\ IF OpensHere(c) THEN TargetOpens(c) ELSE UNCHANGED <<tgt, refused>>
    /\ OpenMaintenance(c, TRUE)
    /\ Then(since \cup {"close"})
    /\ UNCHANGED <<fixed, held, status, signal, missed, counter, flagged>>

\* FETCH c INTO v.
Fetch(c) ==
    /\ src[c].open
    /\ Emulated /\ c \notin fs => Does("fetch unread")
    /\ ~Emulated /\ target = "mysql" /\ signal /\ ~Misses(c) => Does("fetch on")
    /\ src' = [src EXCEPT ![c] = Fetched(@, rows[c])]
    /\ status' = (source = "tsql" /\ Misses(c))
    /\ Then(IF c = checked THEN {} ELSE {"other cursor"})
    /\ IF tgt[c].open
       THEN /\ tgt' = [tgt EXCEPT ![c] = Fetched(@, rows[c])]
            /\ FetchMaintenance(c, Signalled(tgt[c].pos = rows[c]))
            /\ UNCHANGED refused
       ELSE /\ refused' = TRUE
            /\ UNCHANGED <<tgt, signal, missed, counter>>
    /\ UNCHANGED <<fixed, held, openFlag, flagged>>

\* FETCH NEXT FROM c, no INTO: a T-SQL form no target has, so a comment.
FetchNothing(c) ==
    /\ source = "tsql"
    /\ src[c].open
    /\ src' = [src EXCEPT ![c] = Fetched(@, rows[c])]
    /\ status' = Misses(c)
    /\ Then({"no fetch"})
    /\ flagged' = flagged \cup {c}
    /\ UNCHANGED <<fixed, held, tgt, signal, emulation, refused>>

Close(c) ==
    /\ src[c].open
    /\ src' = [src EXCEPT ![c] = Closed]
    /\ TargetCloses(c)
    /\ OpenMaintenance(c, FALSE)
    /\ Then(since \cup {"close"})
    /\ UNCHANGED <<fixed, held, status, signal, missed, counter, flagged>>

\* DEALLOCATE is a comment on every other target; on T-SQL it closes the cursor
\* and frees the variable.  (A cursor that is not a variable is declared again
\* before its next OPEN, which the targets' static declarations need not be.)
Deallocate(c) ==
    /\ source = "tsql"
    /\ src[c].open => Does("drop open")
    /\ held' = held \ {c}
    /\ src' = [src EXCEPT ![c] = Closed]
    /\ Then(since \cup {"close"})
    /\ UNCHANGED <<fixed, status, tgt, signal, emulation, flagged, refused>>

\* A SELECT into a variable.  No row: a T-SQL source runs on with the variable
\* unchanged, MySQL raises NOT FOUND and its handler runs; an Oracle source
\* raises NO_DATA_FOUND, which leaves the block.
Lookup(finds) ==
    /\ ~finds => source = "tsql" /\ Does("empty lookup")
    /\ signal' = CASE target = "mysql" -> Signalled(~finds)
                   [] target = "postgresql" -> ~finds
                   [] OTHER -> signal
    /\ refused' = (refused \/ (target = "oracle" /\ ~finds))
    /\ Then(since \cup {"lookup"})
    /\ UNCHANGED <<fixed, held, src, status, tgt, emulation, flagged>>

\* An INSERT, UPDATE or DELETE sets FOUND, and nothing else here.
Modify(finds) ==
    /\ signal' = IF target = "postgresql" THEN ~finds ELSE signal
    /\ Then(since \cup {"dml"})
    /\ UNCHANGED <<fixed, held, src, status, tgt, emulation, flagged, refused>>

Next ==
    \/ \E c \in Cursors : \/ Bind(c) \/ Open(c) \/ Fetch(c) \/ FetchNothing(c)
                          \/ Close(c) \/ Deallocate(c)
    \/ \E finds \in BOOLEAN : Lookup(finds) \/ Modify(finds)

Spec == Init /\ [][Next]_vars

(***************************************************************************)
(* What the emitted routine answers.                                       *)
(***************************************************************************)
\* c%NOTFOUND, emulated.
SaysNotFound(c) == missed[c]
\* The shared test: @@FETCH_STATUS <> 0, or an EXIT WHEN c%NOTFOUND.
SaysFailed == IF target = "oracle" THEN tgt[checked].missed ELSE signal
Failed == IF source = "oracle" THEN src[checked].missed ELSE status

Asked == since \subseteq Idioms[Pair].between

(***************************************************************************)
(* Properties.                                                             *)
(***************************************************************************)

\* What Oracle's cursor attributes say, the emulating variables say, whatever
\* the routine did since with other cursors and other statements: %FOUND of
\* the cursor's own last FETCH (NULL before its first), %ROWCOUNT of the rows
\* since its OPEN, %ISOPEN from OPEN to CLOSE.
AttributesAsOnSource ==
    /\ \A c \in fs : (src[c].open /\ (src[c].fetched \/ Does("early test")))
                    => (src[c].fetched /\ SaysNotFound(c) = src[c].missed)
    /\ \A c \in rc : src[c].open => counter[c] = src[c].pos
    /\ \A c \in op : openFlag[c] = src[c].open

\* A cursor loop stops at the same FETCH: the target's form of the test
\* answers what the source's does wherever the routine may ask, until a FETCH
\* has been left as a comment.
StatusAsOnSource == ~Emulated /\ Asked /\ flagged = {} => SaysFailed = Failed

\* Every FETCH of the emitted routine reads the row the source's did, and no
\* cursor operation raises on the target alone, until a FETCH has been left
\* as a comment.
RowsAsOnSource ==
    /\ ~refused
    /\ \A c \in Cursors \ flagged :
         src[c].open => tgt[c].open /\ tgt[c].pos = src[c].pos

=============================================================================
