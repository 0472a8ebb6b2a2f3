------------------------- MODULE CursorState_proofs -------------------------
(***************************************************************************)
(* The emitted routine learns about its cursors what the source's did, for *)
(* any number of cursors and rows, as long as the routines keep to the     *)
(* idioms of KeptHabits and KeptKinds.                                     *)
(***************************************************************************)
EXTENDS CursorState, TLAPS

\* Routines do what the emission keeps right, and no more.
KeepsIdioms ==
    \A p \in Pairs : /\ Idioms[p].does \subseteq KeptHabits(p.target)
                     /\ Idioms[p].between \subseteq KeptKinds(p.source, p.target)

CursorRecords == [open : BOOLEAN, fetched : BOOLEAN, missed : BOOLEAN, pos : Nat]

(***************************************************************************)
(* Types.                                                                  *)
(***************************************************************************)
TypeInv ==
    /\ Pair \in Pairs
    /\ rows \in [Cursors -> Nat]
    /\ fs \subseteq Cursors /\ rc \subseteq Cursors /\ op \subseteq Cursors
    /\ ~Emulated => fs = {} /\ rc = {} /\ op = {}
    /\ bound \subseteq Cursors
    /\ source = "oracle" \/ target = "mysql" => bound = {}
    /\ checked \in Cursors
    /\ src \in [Cursors -> CursorRecords] /\ tgt \in [Cursors -> CursorRecords]
    /\ status \in BOOLEAN /\ signal \in BOOLEAN
    /\ missed \in [Cursors -> BOOLEAN]
    /\ counter \in [Cursors -> Nat]
    /\ openFlag \in [Cursors -> BOOLEAN]
    /\ flagged \subseteq Cursors
    /\ source = "oracle" => flagged = {}

LEMMA ClosedIsTyped == Closed \in CursorRecords /\ Opened \in CursorRecords
BY DEF Closed, Opened, CursorRecords

LEMMA FetchedIsTyped ==
  ASSUME NEW cursor \in CursorRecords, NEW n \in Nat
  PROVE  /\ Fetched(cursor, n) \in CursorRecords
         /\ Fetched(cursor, n).open /\ Fetched(cursor, n).fetched
         /\ Fetched(cursor, n).missed = (cursor.pos = n)
         /\ Fetched(cursor, n).pos = (IF cursor.pos = n THEN n ELSE cursor.pos + 1)
BY DEF Fetched, CursorRecords

LEMMA PairsAreApart ==
  ASSUME Pair \in Pairs
  PROVE  /\ source \in Sources /\ target \in Targets /\ source # target
         /\ Pair.source = source /\ Pair.target = target
BY PairsAssumption DEF Pair

LEMMA InitIsTyped == Init => TypeInv
<1> SUFFICES ASSUME Init PROVE TypeInv
  OBVIOUS
<1>1. Pair \in Pairs
  <2>1. PICK p \in Pairs : source = p.source /\ target = p.target
    BY DEF Init
  <2>2. p = [source |-> p.source, target |-> p.target]
    BY <2>1, PairsAssumption
  <2>3. QED
    BY <2>1, <2>2 DEF Pair
<1>2. rows \in [Cursors -> Nat]
  <2>1. 0 .. MaxRows \subseteq Nat
    BY RowsAssumption
  <2>2. rows \in [Cursors -> 0 .. MaxRows]
    BY DEF Init
  <2>3. QED
    BY <2>1, <2>2
<1>3. signal \in BOOLEAN
  BY DEF Init
<1>4. QED
  BY <1>1, <1>2, <1>3, ClosedIsTyped DEF Init, TypeInv

LEMMA StepKeepsType == TypeInv /\ [Next]_vars => TypeInv'
<1> SUFFICES ASSUME TypeInv, [Next]_vars PROVE TypeInv'
  OBVIOUS
<1> USE DEF TypeInv, fixed, emulation, Emulated, Pair
<1>1. ASSUME NEW c \in Cursors, Bind(c) PROVE TypeInv'
  BY <1>1, ClosedIsTyped DEF Bind
<1>2. ASSUME NEW c \in Cursors, Open(c) PROVE TypeInv'
  BY <1>2, ClosedIsTyped DEF Open, TargetOpens, OpenMaintenance
<1>3. ASSUME NEW c \in Cursors, Fetch(c) PROVE TypeInv'
  <2>1. Fetched(src[c], rows[c]) \in CursorRecords /\ Fetched(tgt[c], rows[c]) \in CursorRecords
    BY FetchedIsTyped
  <2>2. src' \in [Cursors -> CursorRecords]
    BY <1>3, <2>1 DEF Fetch
  <2>3. status' \in BOOLEAN
    BY <1>3 DEF Fetch
  <2>4. /\ tgt' \in [Cursors -> CursorRecords] /\ signal' \in BOOLEAN
        /\ missed' \in [Cursors -> BOOLEAN] /\ counter' \in [Cursors -> Nat]
    <3>1. CASE ~tgt[c].open
      BY <1>3, <3>1 DEF Fetch
    <3>2. CASE tgt[c].open
      <4> DEFINE raised == Signalled(tgt[c].pos = rows[c])
      <4>1. raised \in BOOLEAN
        BY DEF Signalled
      <4>2. FetchMaintenance(c, raised) /\ tgt' = [tgt EXCEPT ![c] = Fetched(@, rows[c])]
        BY <1>3, <3>2 DEF Fetch
      <4>3. tgt' \in [Cursors -> CursorRecords]
        BY <2>1, <4>2
      <4>4. signal' \in BOOLEAN
        BY <4>2 DEF FetchMaintenance
      <4>5. missed' \in [Cursors -> BOOLEAN]
        BY <4>1, <4>2, Zenon DEF FetchMaintenance
      <4>6. counter' \in [Cursors -> Nat]
        BY <4>2 DEF FetchMaintenance
      <4>7. QED
        BY <4>3, <4>4, <4>5, <4>6
    <3>3. QED
      BY <3>1, <3>2
  <2>5. QED
    BY <1>3, <2>2, <2>3, <2>4 DEF Fetch
<1>4. ASSUME NEW c \in Cursors, FetchNothing(c) PROVE TypeInv'
  <2>1. Fetched(src[c], rows[c]) \in CursorRecords
    BY FetchedIsTyped
  <2>2. status' \in BOOLEAN
    BY <1>4 DEF FetchNothing, Misses
  <2>3. QED
    BY <1>4, <2>1, <2>2 DEF FetchNothing
<1>5. ASSUME NEW c \in Cursors, Close(c) PROVE TypeInv'
  BY <1>5, ClosedIsTyped DEF Close, TargetCloses, OpenMaintenance
<1>6. ASSUME NEW c \in Cursors, Deallocate(c) PROVE TypeInv'
  BY <1>6, ClosedIsTyped DEF Deallocate
<1>7. ASSUME NEW finds \in BOOLEAN, Lookup(finds) PROVE TypeInv'
  <2>1. signal' \in BOOLEAN
    BY <1>7 DEF Lookup, Signalled
  <2>2. QED
    BY <1>7, <2>1 DEF Lookup
<1>8. ASSUME NEW finds \in BOOLEAN, Modify(finds) PROVE TypeInv'
  <2>1. signal' \in BOOLEAN
    BY <1>8 DEF Modify
  <2>2. QED
    BY <1>8, <2>1 DEF Modify
<1>9. CASE UNCHANGED vars
  BY <1>9 DEF vars
<1>10. QED
  BY <1>1, <1>2, <1>3, <1>4, <1>5, <1>6, <1>7, <1>8, <1>9 DEF Next

(***************************************************************************)
(* What the routines do.                                                   *)
(***************************************************************************)
LEMMA HabitsAreKept ==
  ASSUME KeepsIdioms, TypeInv
  PROVE  /\ \A h \in {"recount", "early test", "fetch on", "reopen variable", "drop open"} : ~Does(h)
         /\ Does("fetch unread") => target = "tsql"
         /\ Does("empty lookup") => target = "postgresql"
         /\ Asked => since \subseteq KeptKinds(source, target)
<1>1. /\ Pair \in Pairs /\ Pair.source = source /\ Pair.target = target
      /\ target \in Targets
  BY PairsAreApart DEF TypeInv
<1>2. /\ Idioms[Pair].does \subseteq KeptHabits(target)
      /\ Idioms[Pair].between \subseteq KeptKinds(source, target)
  BY <1>1 DEF KeepsIdioms
<1>3. QED
  BY <1>2 DEF Does, Asked, KeptHabits

(***************************************************************************)
(* Rows.  A cursor that is open on the target alone is a bound variable    *)
(* the source has not opened yet, and it stands at its first row.          *)
(***************************************************************************)
RowsInv ==
    /\ ~refused
    /\ \A c \in Cursors :
         /\ c \notin bound /\ tgt[c].open => src[c].open
         /\ src[c].open => tgt[c].open
         /\ tgt[c].open /\ ~src[c].open => tgt[c] = Opened
         /\ c \notin flagged /\ src[c].open => tgt[c] = src[c]

LEMMA StepKeepsRows ==
  ASSUME KeepsIdioms, TypeInv, RowsInv, [Next]_vars
  PROVE  RowsInv'
<1>0. /\ \A h \in {"reopen variable", "drop open"} : ~Does(h)
      /\ Does("empty lookup") => target = "postgresql"
  BY HabitsAreKept
<1>a. src \in [Cursors -> CursorRecords] /\ tgt \in [Cursors -> CursorRecords] /\ rows \in [Cursors -> Nat]
  BY DEF TypeInv
<1>b. ~Closed.open /\ Opened.open /\ Opened # Closed
  BY DEF Closed, Opened
<1> USE DEF RowsInv, fixed
<1>1. ASSUME NEW c \in Cursors, Bind(c) PROVE RowsInv'
  <2>1. ~src[c].open /\ ~tgt[c].open
    BY <1>0, <1>1 DEF Bind
  <2>2. QED
    BY <1>1, <1>a, <1>b, <2>1 DEF Bind
<1>2. ASSUME NEW c \in Cursors, Open(c) PROVE RowsInv'
  <2>1. CASE c \in bound
    <3>1. tgt[c] = Opened /\ tgt' = tgt /\ refused' = refused
      BY <1>0, <1>2, <2>1 DEF Open, OpensHere
    <3>2. QED
      BY <1>2, <1>a, <1>b, <2>1, <3>1 DEF Open
  <2>2. CASE c \notin bound
    <3>1. ~tgt[c].open /\ tgt' = [tgt EXCEPT ![c] = Opened] /\ ~refused'
      BY <1>2, <2>2 DEF Open, OpensHere, TargetOpens
    <3>2. QED
      BY <1>2, <1>a, <1>b, <2>2, <3>1 DEF Open
  <2>3. QED
    BY <2>1, <2>2
<1>3. ASSUME NEW c \in Cursors, Fetch(c) PROVE RowsInv'
  <2>1. Fetched(src[c], rows[c]).open /\ Fetched(tgt[c], rows[c]).open
    BY <1>a, FetchedIsTyped
  <2>2. /\ tgt' = [tgt EXCEPT ![c] = Fetched(tgt[c], rows[c])]
        /\ src' = [src EXCEPT ![c] = Fetched(src[c], rows[c])]
        /\ refused' = refused /\ bound' = bound /\ flagged' = flagged /\ src[c].open
    BY <1>3 DEF Fetch
  <2>3. QED
    BY <1>a, <2>1, <2>2
<1>4. ASSUME NEW c \in Cursors, FetchNothing(c) PROVE RowsInv'
  <2>1. Fetched(src[c], rows[c]).open
    BY <1>a, FetchedIsTyped
  <2>2. QED
    BY <1>4, <1>a, <2>1 DEF FetchNothing
<1>5. ASSUME NEW c \in Cursors, Close(c) PROVE RowsInv'
  BY <1>5, <1>a, <1>b DEF Close, TargetCloses
<1>6. ASSUME NEW c \in Cursors, Deallocate(c) PROVE RowsInv'
  <2>1. ~src[c].open
    BY <1>0, <1>6 DEF Deallocate
  <2>2. QED
    BY <1>6, <1>a, <1>b, <2>1 DEF Deallocate
<1>7. ASSUME NEW finds \in BOOLEAN, Lookup(finds) PROVE RowsInv'
  BY <1>0, <1>7 DEF Lookup
<1>8. ASSUME NEW finds \in BOOLEAN, Modify(finds) PROVE RowsInv'
  BY <1>8 DEF Modify
<1>9. CASE UNCHANGED vars
  BY <1>9 DEF vars
<1>10. QED
  BY <1>1, <1>2, <1>3, <1>4, <1>5, <1>6, <1>7, <1>8, <1>9 DEF Next

\* Every FETCH of the emitted routine reads the source's row, and no cursor
\* operation raises on the target alone, in every routine over any number of
\* cursors that keeps to the idioms.
THEOREM FetchesReadAlike ==
  ASSUME KeepsIdioms
  PROVE  Spec => []RowsAsOnSource
<1>1. Init => RowsInv
  BY DEF Init, RowsInv, Closed
<1>2. TypeInv /\ RowsInv /\ [Next]_vars => RowsInv'
  BY StepKeepsRows
<1>3. TypeInv /\ RowsInv => RowsAsOnSource
  BY DEF RowsInv, RowsAsOnSource, TypeInv
<1>4. QED
  BY <1>1, <1>2, <1>3, InitIsTyped, StepKeepsType, PTL DEF Spec

(***************************************************************************)
(* Attributes.  On MySQL the handler's flag is down before every FETCH: a  *)
(* FETCH that raises it also takes it down, having counted and noted it.   *)
(***************************************************************************)
AttributesInv ==
    Emulated =>
      /\ target = "mysql" => ~signal
      /\ \A c \in fs : src[c].open /\ src[c].fetched => missed[c] = src[c].missed
      /\ \A c \in rc : src[c].open => counter[c] = src[c].pos
      /\ \A c \in op : openFlag[c] = src[c].open

LEMMA FetchKeepsAttributes ==
  ASSUME KeepsIdioms, TypeInv, RowsInv, AttributesInv, Emulated,
         NEW c \in Cursors, Fetch(c)
  PROVE  AttributesInv'
<1>1. /\ c \in flagged => FALSE
      /\ src[c].open /\ tgt[c].open /\ tgt[c] = src[c]
  BY DEF Fetch, RowsInv, TypeInv, Emulated
<1>2. target = "mysql" => ~signal /\ c \in fs
  BY HabitsAreKept DEF Fetch, AttributesInv
<1> DEFINE miss == src[c].pos = rows[c]
<1>3. Signalled(tgt[c].pos = rows[c]) = miss
  BY <1>1, <1>2 DEF Signalled
<1>4. FetchMaintenance(c, miss) /\ UNCHANGED <<fixed, openFlag>>
  BY <1>1, <1>3 DEF Fetch
<1>5. /\ src[c] \in CursorRecords /\ rows[c] \in Nat
      /\ src \in [Cursors -> CursorRecords] /\ counter \in [Cursors -> Nat]
      /\ missed \in [Cursors -> BOOLEAN] /\ fs \subseteq Cursors /\ rc \subseteq Cursors
      /\ op \subseteq Cursors
  BY DEF TypeInv
<1>6. src' = [src EXCEPT ![c] = Fetched(src[c], rows[c])]
  BY DEF Fetch
<1>7. /\ src'[c].open /\ src'[c].missed = miss
      /\ src'[c].pos = (IF miss THEN src[c].pos ELSE src[c].pos + 1)
  <2>1. src'[c] = Fetched(src[c], rows[c])
    BY <1>5, <1>6
  <2>2. src'[c].open
    BY <1>5, <2>1, FetchedIsTyped
  <2>3. src'[c].missed = miss
    BY <2>1 DEF Fetched
  <2>4. src'[c].pos = (IF miss THEN src[c].pos ELSE src[c].pos + 1)
    BY <2>1 DEF Fetched
  <2>5. QED
    BY <2>2, <2>3, <2>4
<1>8. \A d \in Cursors : d # c => src'[d] = src[d]
  BY <1>5, <1>6
<1>9. target = "mysql" => ~signal'
  BY <1>2, <1>4 DEF FetchMaintenance
<1>10. \A d \in fs : src'[d].open /\ src'[d].fetched => missed'[d] = src'[d].missed
  <2>1. missed' = IF c \in fs THEN [missed EXCEPT ![c] = miss] ELSE missed
    BY <1>4 DEF FetchMaintenance
  <2>2. c \in fs => missed'[c] = miss
    BY <1>5, <2>1
  <2>3. \A d \in fs : d # c => missed'[d] = missed[d]
    BY <1>5, <2>1
  <2>4. QED
    BY <1>5, <1>7, <1>8, <2>2, <2>3, Zenon DEF AttributesInv
<1>11. \A d \in rc : src'[d].open => counter'[d] = src'[d].pos
  <2>1. counter' = IF c \in rc /\ ~miss THEN [counter EXCEPT ![c] = @ + 1] ELSE counter
    BY <1>4 DEF FetchMaintenance
  <2>2. c \in rc => counter[c] = src[c].pos
    BY <1>1 DEF AttributesInv
  <2>3. c \in rc => counter'[c] = src'[c].pos
    BY <1>5, <1>7, <2>1, <2>2
  <2>4. \A d \in rc : d # c => counter'[d] = counter[d]
    BY <1>5, <2>1
  <2>5. QED
    BY <1>5, <1>8, <2>3, <2>4 DEF AttributesInv
<1>12. \A d \in op : openFlag'[d] = src'[d].open
  <2>1. src'[c].open = src[c].open
    BY <1>1, <1>5, <1>6, <1>7, FetchedIsTyped DEF CursorRecords
  <2>2. QED
    BY <1>4, <1>5, <1>8, <2>1 DEF AttributesInv
<1>13. QED
  BY <1>4, <1>9, <1>10, <1>11, <1>12 DEF AttributesInv, fixed

LEMMA StepKeepsAttributes ==
  ASSUME KeepsIdioms, TypeInv, RowsInv, AttributesInv, [Next]_vars
  PROVE  AttributesInv'
<1>1. CASE ~Emulated
  <2>1. source' = source /\ target' = target
    BY DEF Next, Bind, Open, Fetch, FetchNothing, Close, Deallocate, Lookup, Modify, vars, fixed
  <2>2. QED
    BY <1>1, <2>1 DEF AttributesInv, Emulated
<1>2. CASE Emulated
  <2>0. /\ source = "oracle" /\ bound = {}
        /\ src \in [Cursors -> CursorRecords] /\ openFlag \in [Cursors -> BOOLEAN]
        /\ fs \subseteq Cursors /\ rc \subseteq Cursors /\ op \subseteq Cursors
    BY <1>2 DEF TypeInv, Emulated
  <2>b. /\ Opened.open /\ ~Opened.fetched /\ Opened.pos = 0 /\ ~Closed.open
        /\ Opened.open \in BOOLEAN /\ Closed.open \in BOOLEAN
    BY DEF Opened, Closed
  <2>1. ASSUME NEW c \in Cursors, Bind(c) PROVE AttributesInv'
    BY <2>0, <2>1 DEF Bind
  <2>2. ASSUME NEW c \in Cursors, Open(c) PROVE AttributesInv'
    <3>1. c \in rc => counter[c] = 0
      BY <2>2, HabitsAreKept DEF Open
    <3>2. /\ src' = [src EXCEPT ![c] = Opened]
          /\ openFlag' = IF c \in op THEN [openFlag EXCEPT ![c] = TRUE] ELSE openFlag
          /\ UNCHANGED <<fixed, signal, missed, counter>>
      BY <2>2 DEF Open, OpenMaintenance
    <3>3. \A d \in op : openFlag'[d] = src'[d].open
      BY <1>2, <2>0, <2>b, <3>2 DEF AttributesInv
    <3>4. /\ \A d \in fs : src'[d].open /\ src'[d].fetched => missed'[d] = src'[d].missed
          /\ \A d \in rc : src'[d].open => counter'[d] = src'[d].pos
      BY <1>2, <2>0, <2>b, <3>1, <3>2 DEF AttributesInv
    <3>5. QED
      BY <1>2, <3>2, <3>3, <3>4 DEF AttributesInv, fixed
  <2>3. ASSUME NEW c \in Cursors, Fetch(c) PROVE AttributesInv'
    BY <1>2, <2>3, FetchKeepsAttributes
  <2>4. ASSUME NEW c \in Cursors, FetchNothing(c) PROVE AttributesInv'
    BY <2>0, <2>4 DEF FetchNothing
  <2>5. ASSUME NEW c \in Cursors, Close(c) PROVE AttributesInv'
    <3>1. /\ src' = [src EXCEPT ![c] = Closed]
          /\ openFlag' = IF c \in op THEN [openFlag EXCEPT ![c] = FALSE] ELSE openFlag
          /\ UNCHANGED <<fixed, signal, missed, counter>>
      BY <2>5 DEF Close, OpenMaintenance
    <3>2. \A d \in op : openFlag'[d] = src'[d].open
      BY <1>2, <2>0, <2>b, <3>1 DEF AttributesInv
    <3>3. QED
      BY <1>2, <2>0, <2>b, <3>1, <3>2 DEF AttributesInv, fixed
  <2>6. ASSUME NEW c \in Cursors, Deallocate(c) PROVE AttributesInv'
    BY <2>0, <2>6 DEF Deallocate
  <2>7. ASSUME NEW finds \in BOOLEAN, Lookup(finds) PROVE AttributesInv'
    <3>1. finds
      BY <2>0, <2>7 DEF Lookup
    <3>2. target = "mysql" => signal' = (signal \/ FALSE)
      BY <2>7, <3>1 DEF Lookup, Signalled
    <3>3. QED
      BY <1>2, <2>7, <3>2 DEF Lookup, AttributesInv, fixed, emulation
  <2>8. ASSUME NEW finds \in BOOLEAN, Modify(finds) PROVE AttributesInv'
    BY <1>2, <2>8 DEF Modify, AttributesInv, fixed, emulation
  <2>9. CASE UNCHANGED vars
    BY <1>2, <2>9 DEF vars, AttributesInv, fixed, emulation, Emulated
  <2>10. QED
    BY <2>1, <2>2, <2>3, <2>4, <2>5, <2>6, <2>7, <2>8, <2>9 DEF Next
<1>3. QED
  BY <1>1, <1>2

\* What %FOUND, %NOTFOUND, %ROWCOUNT and %ISOPEN say, the emulating variables
\* say, in every routine over any number of cursors that keeps to the idioms.
THEOREM AttributesAreEmulated ==
  ASSUME KeepsIdioms
  PROVE  Spec => []AttributesAsOnSource
<1>1. Init => AttributesInv
  <2> SUFFICES ASSUME Init PROVE AttributesInv
    OBVIOUS
  <2>1. target = "mysql" => ~signal
    BY DEF Init
  <2>2. /\ \A c \in Cursors : ~src[c].open /\ openFlag[c] = src[c].open
        /\ fs \subseteq Cursors /\ rc \subseteq Cursors /\ op \subseteq Cursors
    BY DEF Init, Closed
  <2>3. QED
    BY <2>1, <2>2, Zenon DEF AttributesInv
<1>2. Init => RowsInv
  BY DEF Init, RowsInv, Closed
<1>3. TypeInv /\ RowsInv /\ [Next]_vars => RowsInv'
  BY StepKeepsRows
<1>4. TypeInv /\ RowsInv /\ AttributesInv /\ [Next]_vars => AttributesInv'
  BY StepKeepsAttributes
<1>5. TypeInv /\ AttributesInv => AttributesAsOnSource
  BY HabitsAreKept DEF AttributesInv, AttributesAsOnSource, TypeInv, SaysNotFound
<1>6. QED
  BY <1>1, <1>2, <1>3, <1>4, <1>5, InitIsTyped, StepKeepsType, PTL DEF Spec

(***************************************************************************)
(* The shared status.  On each target, what may have come since the FETCH  *)
(* is what leaves the target's own answer alone.                           *)
(***************************************************************************)
StatusInv ==
    ~Emulated /\ flagged = {} =>
      /\ target = "mysql" /\ "no fetch" \notin since => signal = status
      /\ target = "oracle" /\ since \subseteq {"dml", "lookup"} => tgt[checked].missed = status
      /\ source = "tsql" /\ target = "postgresql" /\ since \subseteq {"other cursor", "close"} =>
             signal = status
      /\ source = "oracle" /\ target = "postgresql" /\ since = {} => signal = src[checked].missed

LEMMA FetchKeepsStatus ==
  ASSUME KeepsIdioms, TypeInv, RowsInv, StatusInv, ~Emulated,
         NEW c \in Cursors, Fetch(c)
  PROVE  StatusInv'
<1> SUFFICES ASSUME flagged = {} PROVE StatusInv'
  BY DEF Fetch, StatusInv, fixed, Emulated
<1> DEFINE miss == src[c].pos = rows[c]
<1>1. /\ tgt[c].open /\ tgt[c] = src[c]
      /\ UNCHANGED <<fixed, flagged>>
      /\ since' = IF c = checked THEN {} ELSE {"other cursor"}
  BY DEF Fetch, RowsInv, fixed, Then, Misses
<1>2. /\ fs = {} /\ signal \in BOOLEAN /\ checked \in Cursors
      /\ src \in [Cursors -> CursorRecords] /\ tgt \in [Cursors -> CursorRecords]
      /\ source \in Sources /\ target \in Targets /\ source # target
  BY PairsAreApart DEF TypeInv
<1>3. target = "mysql" => (signal => miss)
  BY HabitsAreKept DEF Fetch, Misses
<1>4. Signalled(tgt[c].pos = rows[c]) = miss
  BY <1>1, <1>2, <1>3 DEF Signalled
<1>5. FetchMaintenance(c, miss)
  BY <1>1, <1>4 DEF Fetch
<1>6. signal' = miss
  BY <1>2, <1>5 DEF FetchMaintenance
<1>7. source = "tsql" => status' = miss
  BY DEF Fetch, Misses
<1>8. src' = [src EXCEPT ![c] = Fetched(src[c], rows[c])] /\ tgt' = [tgt EXCEPT ![c] = Fetched(src[c], rows[c])]
  BY <1>1 DEF Fetch
<1>9. src'[c].missed = miss /\ tgt'[c].missed = miss
  BY <1>2, <1>8 DEF Fetched
<1>10. target = "mysql" \/ target = "oracle" => source = "tsql"
  BY <1>2 DEF Emulated, Sources
<1>11. c # checked => /\ ~(since' \subseteq {"dml", "lookup"})
                      /\ since' # {}
  BY <1>1
<1>12. QED
  <2>1. checked' = checked /\ source' = source /\ target' = target
    BY <1>1 DEF fixed
  <2>2. target = "mysql" => signal' = status'
    BY <1>6, <1>7, <1>10
  <2>3. target = "oracle" /\ since' \subseteq {"dml", "lookup"} => tgt'[checked].missed = status'
    BY <1>7, <1>9, <1>10, <1>11
  <2>4. source = "tsql" => signal' = status'
    BY <1>6, <1>7
  <2>5. since' = {} => signal' = src'[checked].missed
    BY <1>6, <1>9, <1>11
  <2>6. QED
    BY <2>1, <2>2, <2>3, <2>4, <2>5 DEF StatusInv

LEMMA StepKeepsStatus ==
  ASSUME KeepsIdioms, TypeInv, RowsInv, StatusInv, [Next]_vars
  PROVE  StatusInv'
<1>1. source' = source /\ target' = target /\ checked' = checked
  BY DEF Next, Bind, Open, Fetch, FetchNothing, Close, Deallocate, Lookup, Modify, vars, fixed
<1>2. CASE Emulated
  BY <1>1, <1>2 DEF StatusInv, Emulated
<1>3. CASE ~Emulated
  <2>0. source \in Sources /\ target \in Targets /\ source # target
    BY PairsAreApart DEF TypeInv
  <2>1. ASSUME NEW c \in Cursors, Bind(c) \/ Open(c) \/ Close(c) \/ Deallocate(c)
        PROVE  StatusInv'
    <3>1. since' = since \cup {"close"} /\ UNCHANGED <<status, signal, flagged>>
      BY <1>3, <2>1 DEF Bind, Open, Close, Deallocate, Then
    <3>2. QED
      BY <1>1, <1>3, <3>1 DEF StatusInv, Emulated
  <2>2. ASSUME NEW c \in Cursors, Fetch(c) PROVE StatusInv'
    BY <1>3, <2>2, FetchKeepsStatus
  <2>3. ASSUME NEW c \in Cursors, FetchNothing(c) PROVE StatusInv'
    BY <2>3 DEF FetchNothing, StatusInv
  <2>4. ASSUME NEW finds \in BOOLEAN, Lookup(finds) PROVE StatusInv'
    <3>1. since' = since \cup {"lookup"} /\ UNCHANGED <<status, flagged, tgt>>
      BY <1>3, <2>4 DEF Lookup, Then
    <3>2. target # "postgresql" => finds
      BY <2>4, HabitsAreKept DEF Lookup
    <3>3. target # "postgresql" => signal' = signal
      BY <2>0, <2>4, <3>2 DEF Lookup, Signalled, TypeInv
    <3>4. QED
      BY <1>1, <1>3, <3>1, <3>3 DEF StatusInv, Emulated
  <2>5. ASSUME NEW finds \in BOOLEAN, Modify(finds) PROVE StatusInv'
    <3>1. /\ since' = since \cup {"dml"} /\ UNCHANGED <<status, flagged, tgt>>
          /\ target # "postgresql" => signal' = signal
      BY <1>3, <2>5 DEF Modify, Then
    <3>2. QED
      BY <1>1, <1>3, <3>1 DEF StatusInv, Emulated
  <2>6. CASE UNCHANGED vars
    BY <1>3, <2>6 DEF vars, fixed, StatusInv, Emulated
  <2>7. QED
    BY <2>1, <2>2, <2>3, <2>4, <2>5, <2>6 DEF Next
<1>4. QED
  BY <1>2, <1>3

\* A cursor loop stops at the same FETCH: the shared test answers what the
\* source's does, in every routine over any number of cursors that asks it
\* where the idioms allow.
THEOREM TestsAnswerAlike ==
  ASSUME KeepsIdioms
  PROVE  Spec => []StatusAsOnSource
<1>1. Init => StatusInv /\ RowsInv
  BY DEF Init, StatusInv, RowsInv, Closed
<1>2. TypeInv /\ RowsInv /\ [Next]_vars => RowsInv'
  BY StepKeepsRows
<1>3. TypeInv /\ RowsInv /\ StatusInv /\ [Next]_vars => StatusInv'
  BY StepKeepsStatus
<1>4. TypeInv /\ StatusInv => StatusAsOnSource
  <2> SUFFICES ASSUME TypeInv, StatusInv, ~Emulated, Asked, flagged = {}
               PROVE  SaysFailed = Failed
    BY DEF StatusAsOnSource
  <2>1. source \in Sources /\ target \in Targets /\ source # target
    BY PairsAreApart DEF TypeInv
  <2>2. since \subseteq KeptKinds(source, target)
    BY HabitsAreKept
  <2>3. CASE source = "tsql"
    <3>1. target \in {"mysql", "oracle", "postgresql"}
      BY <2>1, <2>3 DEF Targets
    <3>2. QED
      BY <2>2, <2>3, <3>1 DEF KeptKinds, StatusInv, SaysFailed, Failed
  <2>4. CASE source = "oracle"
    <3>1. target = "postgresql" /\ since = {}
      BY <2>1, <2>2, <2>4 DEF KeptKinds, Emulated, Targets
    <3>2. QED
      BY <2>4, <3>1 DEF StatusInv, SaysFailed, Failed
  <2>5. QED
    BY <2>1, <2>3, <2>4 DEF Sources
<1>5. QED
  BY <1>1, <1>2, <1>3, <1>4, InitIsTyped, StepKeepsType, PTL DEF Spec
=============================================================================
