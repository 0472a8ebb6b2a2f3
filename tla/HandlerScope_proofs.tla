------------------------- MODULE HandlerScope_proofs -------------------------
(***************************************************************************)
(* An error runs in the emitted routine the handler it runs in the         *)
(* source's, for blocks nested to any depth, between any two engines, for  *)
(* routines with no habit of Lost; and the emitted routine has done the    *)
(* work the source's has.                                                  *)
(***************************************************************************)
EXTENDS HandlerScope, NaturalsInduction, WellFoundedInduction, TLAPS

\* Routines run between two engines and do nothing the pair gets wrong.
KeepsIdioms ==
    \A p \in Pairs : p.source # p.target /\ Idioms[p] \cap Lost(p.source, p.target) = {}

(***************************************************************************)
(* Types and the invariant: a block has the handlers its engine can give   *)
(* it, a MySQL routine has one block, and only T-SQL begins a transaction. *)
(***************************************************************************)
Handlers == {"dup", "check", "nodata", "others", "warning"}
Works == [live : SUBSET Nat, base : SUBSET Nat, tran : BOOLEAN, saved : SUBSET (SUBSET Nat)]
Blocks == [handlers : SUBSET Handlers, rolls : BOOLEAN, in : {"body", "handler"},
           cause : Errors \cup {None}, committed : BOOLEAN,
           src : SUBSET Nat, tgt : SUBSET Nat]

TypeInv ==
    /\ Pair \in Pairs
    /\ blocks \in Seq(Blocks)
    /\ writes \in Nat
    /\ src \in Works /\ tgt \in Works

BlocksInv ==
    /\ \A i \in DOMAIN blocks : blocks[i].handlers \in HandlersOf(source)
    /\ source = "mysql" => Len(blocks) <= 1
    /\ src.tran => source = "tsql"

(***************************************************************************)
(* The greatest of a set of positions.                                     *)
(***************************************************************************)
LEMMA SomeGreatest ==
  ASSUME NEW n \in Nat, NEW S \in SUBSET (1 .. n), S # {}
  PROVE  \E i \in S : \A j \in S : j <= i
<1> DEFINE R == {ss \in Nat \X Nat : ss[1] < ss[2]}
           T == {x \in Nat : n - x \in S}
<1>1. T \subseteq Nat /\ T # {}
  <2>1. PICK i \in S : TRUE
    OBVIOUS
  <2>2. i \in 1 .. n /\ n - i \in Nat /\ n - (n - i) = i
    BY <2>1
  <2>3. QED
    BY <2>2
<1>2. PICK x \in T : \A y \in T : ~(<<y, x>> \in R)
  <2> HIDE DEF T, R
  <2>1. IsWellFoundedOn(R, Nat)
    BY NatLessThanWellFounded DEF OpToRel, R
  <2>2. QED
    BY <1>1, <2>1, WFMin
<1>3. x \in Nat /\ \A y \in T : ~(y < x)
  BY <1>1, <1>2
<1>4. ASSUME NEW j \in S PROVE j <= n - x
  <2>1. j \in 1 .. n /\ n - j \in Nat /\ n - (n - j) = j
    BY <1>4
  <2>2. n - j \in T
    BY <2>1
  <2>3. ~(n - j < x)
    BY <1>3, <2>2
  <2>4. QED
    BY <1>3, <2>1, <2>3
<1>5. QED
  BY <1>4

LEMMA GreatestIsIn ==
  ASSUME NEW n \in Nat, NEW S \in SUBSET (1 .. n), Greatest(S) # 0
  PROVE  Greatest(S) \in S /\ \A j \in S : j <= Greatest(S)
<1>1. S # {}
  BY DEF Greatest
<1>2. \E i \in S : \A j \in S : j <= i
  BY <1>1, SomeGreatest
<1>3. QED
  BY <1>1, <1>2 DEF Greatest

LEMMA GreatestIs ==
  ASSUME NEW n \in Nat, NEW S \in SUBSET (1 .. n), NEW i \in S, \A j \in S : j <= i
  PROVE  Greatest(S) = i
<1>1. Greatest(S) \in S /\ \A j \in S : j <= Greatest(S)
  BY DEF Greatest
<1>2. i <= Greatest(S) /\ Greatest(S) <= i
  BY <1>1
<1>3. i \in 1 .. n /\ Greatest(S) \in 1 .. n
  BY <1>1
<1>4. QED
  BY <1>2, <1>3

(***************************************************************************)
(* Pairs and habits.                                                       *)
(***************************************************************************)
LEMMA PairIsKnown ==
  ASSUME Pair \in Pairs
  PROVE  source \in Engines /\ target \in Engines /\ Pair.source = source /\ Pair.target = target
BY PairsAssumption DEF Pair

LEMMA LostIsAvoided ==
  ASSUME KeepsIdioms, TypeInv, NEW habits, Allowed(habits)
  PROVE  source # target /\ \A habit \in habits : habit \notin Lost(source, target)
<1>1. Pair \in Pairs /\ Pair.source = source /\ Pair.target = target
  BY PairIsKnown DEF TypeInv
<1>2. Pair.source # Pair.target /\ Idioms[Pair] \cap Lost(Pair.source, Pair.target) = {}
  BY <1>1 DEF KeepsIdioms
<1>3. habits \subseteq Idioms[Pair]
  BY DEF Allowed
<1>4. QED
  BY <1>1, <1>2, <1>3

(***************************************************************************)
(* Fates.                                                                  *)
(***************************************************************************)
\* The innermost block whose handler an error would run.
LEMMA FateIs ==
  ASSUME blocks \in Seq(Blocks), NEW error, NEW runs, NEW exceptions, NEW fatal
  PROVE  LET f == Fate(error, runs, exceptions, fatal)
             i == f.block
         IN  /\ i \in {0} \cup DOMAIN blocks
             /\ i # 0 => /\ f = Goes("handler", i, runs[i])
                         /\ blocks[i].in = "body" /\ runs[i] # {}
                         /\ \A j \in DOMAIN blocks :
                              blocks[j].in = "body" /\ j > i => runs[j] = {}
             /\ i = 0 => /\ f = IF error \in exceptions
                                THEN Goes(IF fatal THEN "out" ELSE "passed", 0, {}) ELSE On
                         /\ \A j \in DOMAIN blocks : blocks[j].in = "body" => runs[j] = {}
<1> DEFINE S == {j \in DOMAIN blocks : blocks[j].in = "body" /\ runs[j] # {}}
           f == Fate(error, runs, exceptions, fatal)
           g == Greatest(S)
<1>1. S \in SUBSET (1 .. Len(blocks)) /\ Len(blocks) \in Nat /\ DOMAIN blocks = 1 .. Len(blocks)
  OBVIOUS
<1>2. f = CASE g # 0 -> Goes("handler", g, runs[g])
            [] g = 0 /\ error \notin exceptions -> On
            [] OTHER -> Goes(IF fatal THEN "out" ELSE "passed", 0, {})
  BY DEF Fate
<1> HIDE DEF S, f
<1>3. f.block = g
  BY <1>2 DEF Goes, On
<1>4. CASE g # 0
  <2>1. g \in S /\ \A j \in S : j <= g
    BY <1>1, <1>4, GreatestIsIn
  <2>2. ASSUME NEW j \in DOMAIN blocks, blocks[j].in = "body", j > g PROVE runs[j] = {}
    <3>1. j \notin S
      BY <1>1, <2>1, <2>2
    <3>2. QED
      BY <2>2, <3>1 DEF S
  <2>3. f = Goes("handler", g, runs[g])
    BY <1>2, <1>4
  <2>4. g \in DOMAIN blocks /\ blocks[g].in = "body" /\ runs[g] # {}
    BY <2>1 DEF S
  <2>5. QED
    BY <1>3, <1>4, <2>2, <2>3, <2>4 DEF f
<1>5. CASE g = 0
  <2>1. S = {}
    <3>1. S # {} => g \in S
      <4>1. S # {} => \E i \in S : \A j \in S : j <= i
        BY <1>1, SomeGreatest
      <4>2. QED
        BY <4>1 DEF Greatest
    <3>2. QED
      BY <1>1, <1>5, <3>1
  <2>2. \A j \in DOMAIN blocks : blocks[j].in = "body" => runs[j] = {}
    BY <2>1 DEF S
  <2>3. f = IF error \in exceptions
            THEN Goes(IF fatal THEN "out" ELSE "passed", 0, {}) ELSE On
    BY <1>2, <1>5
  <2>4. QED
    BY <1>3, <1>5, <2>2, <2>3 DEF f
<1>6. QED
  BY <1>4, <1>5

\* Two fates agree when the handlers of the block that runs do, and no block
\* inside it takes the error instead.
LEMMA FatesAgree ==
  ASSUME blocks \in Seq(Blocks), NEW error,
         NEW runs, NEW exceptions, NEW fatal, NEW runs2, NEW exceptions2, NEW fatal2,
         NEW i, i = Fate(error, runs, exceptions, fatal).block,
         i # 0 => /\ runs2[i] = runs[i]
                  /\ \A j \in DOMAIN blocks : blocks[j].in = "body" /\ j > i => runs2[j] = {},
         i = 0 => /\ \A j \in DOMAIN blocks : blocks[j].in = "body" => runs2[j] = {}
                  /\ error \in exceptions <=> error \in exceptions2
                  /\ error \in exceptions => (fatal <=> fatal2)
  PROVE  Fate(error, runs2, exceptions2, fatal2) = Fate(error, runs, exceptions, fatal)
<1> DEFINE f == Fate(error, runs, exceptions, fatal)
           g == Fate(error, runs2, exceptions2, fatal2)
           k == g.block
<1>1. /\ i \in {0} \cup DOMAIN blocks
      /\ i # 0 => f = Goes("handler", i, runs[i]) /\ blocks[i].in = "body" /\ runs[i] # {}
      /\ i = 0 => f = IF error \in exceptions
                      THEN Goes(IF fatal THEN "out" ELSE "passed", 0, {}) ELSE On
  BY FateIs
<1>2. /\ k \in {0} \cup DOMAIN blocks
      /\ k # 0 => /\ g = Goes("handler", k, runs2[k])
                  /\ blocks[k].in = "body" /\ runs2[k] # {}
                  /\ \A j \in DOMAIN blocks : blocks[j].in = "body" /\ j > k => runs2[j] = {}
      /\ k = 0 => /\ g = IF error \in exceptions2
                         THEN Goes(IF fatal2 THEN "out" ELSE "passed", 0, {}) ELSE On
                  /\ \A j \in DOMAIN blocks : blocks[j].in = "body" => runs2[j] = {}
  BY FateIs
<1>3. DOMAIN blocks = 1 .. Len(blocks) /\ Len(blocks) \in Nat
  OBVIOUS
<1> HIDE DEF f, g
<1>4. CASE i # 0
  <2>1. i \in DOMAIN blocks /\ runs2[i] # {} /\ blocks[i].in = "body"
    BY <1>1, <1>4
  <2>2. k # 0
    BY <1>2, <2>1
  <2>3. ~(k > i) /\ ~(i > k)
    BY <1>2, <1>4, <2>1, <2>2
  <2>4. k = i
    BY <1>2, <1>3, <2>1, <2>2, <2>3
  <2>5. QED
    BY <1>1, <1>2, <1>4, <2>2, <2>4 DEF f, g
<1>5. CASE i = 0
  <2>1. k = 0
    BY <1>2, <1>5
  <2>2. QED
    BY <1>1, <1>2, <1>5, <2>1 DEF f, g
<1>6. QED
  BY <1>4, <1>5

(***************************************************************************)
(* What an error does on either side.                                      *)
(***************************************************************************)
SourceRunning(error) == [j \in DOMAIN blocks |-> SourceRuns(error, blocks[j])]
TargetRunning(error) == [j \in DOMAIN blocks |-> TargetRuns(error, blocks[j])]

\* The block whose handler an error runs on the source.
LEMMA SourceBlockIs ==
  ASSUME TypeInv, NEW error, NEW rethrown
  PROVE  LET i == SourceFate(error, rethrown).block
             W == SourceRunning(error)
         IN  /\ i \in {0} \cup DOMAIN blocks
             /\ i # 0 => blocks[i].in = "body" /\ W[i] # {}
             /\ \A j \in DOMAIN blocks : blocks[j].in = "body" /\ j > i => W[j] = {}
<1> DEFINE W == SourceRunning(error)
           fatal == rethrown \/ source # "tsql"
<1>1. SourceFate(error, rethrown) = Fate(error, W, Exceptions(source), fatal)
  BY DEF SourceFate, SourceRunning
<1>2. blocks \in Seq(Blocks)
  BY DEF TypeInv
<1> HIDE DEF W, fatal
<1>3. QED
  BY <1>1, <1>2, FateIs DEF W

\* The two sides agree on an error when that block's handlers do.
LEMMA SidesAgree ==
  ASSUME TypeInv, NEW error, NEW rethrown,
         NEW i, i = SourceFate(error, rethrown).block,
         i # 0 => TargetRunning(error)[i] = SourceRunning(error)[i],
         \A j \in DOMAIN blocks : blocks[j].in = "body" /\ j > i => TargetRunning(error)[j] = {},
         i = 0 => /\ error \in Exceptions(source) <=> error \in TargetExceptions
                  /\ error \in Exceptions(source) =>
                       (rethrown \/ source # "tsql" <=> rethrown \/ target # "tsql")
  PROVE  TargetFate(error, rethrown) = SourceFate(error, rethrown)
<1> DEFINE W == SourceRunning(error)
           T == TargetRunning(error)
           fatal == rethrown \/ source # "tsql"
           fatal2 == rethrown \/ target # "tsql"
<1>1. /\ SourceFate(error, rethrown) = Fate(error, W, Exceptions(source), fatal)
      /\ TargetFate(error, rethrown) = Fate(error, T, TargetExceptions, fatal2)
  BY DEF SourceFate, SourceRunning, TargetFate, TargetRunning
<1>2. blocks \in Seq(Blocks) /\ \A j \in DOMAIN blocks : j > 0
  BY DEF TypeInv
<1>3. /\ i # 0 => /\ T[i] = W[i]
                  /\ \A j \in DOMAIN blocks : blocks[j].in = "body" /\ j > i => T[j] = {}
      /\ i = 0 => /\ \A j \in DOMAIN blocks : blocks[j].in = "body" => T[j] = {}
                  /\ error \in Exceptions(source) <=> error \in TargetExceptions
                  /\ error \in Exceptions(source) => (fatal <=> fatal2)
  BY <1>2
<1> HIDE DEF W, T, fatal, fatal2
<1>4. QED
  BY <1>1, <1>2, <1>3, FatesAgree

\* What an error that is raised does not do, where the pair would get it wrong.
LEMMA ErrorHabitsAreKept ==
  ASSUME TypeInv, KeepsIdioms, NEW error, NEW rethrown \in BOOLEAN,
         Allowed(ErrorHabits(error, SourceFate(error, rethrown))
                   \ IF rethrown THEN {"unguarded"} ELSE {})
  PROVE  LET i == SourceFate(error, rethrown).block
             Passed(j) == /\ j \in DOMAIN blocks /\ blocks[j].in = "body" /\ j > i
                          /\ target # "mysql" \/ blocks[j].handlers # {"nodata"}
             only == i # 0 /\ blocks[i].handlers = {"nodata"} /\ \A j : ~Passed(j)
             Kept(habit) == habit \notin Lost(source, target)
         IN  /\ i # 0 /\ (\E g, h \in blocks[i].handlers : g # h) => Kept("many handlers")
             /\ (\E j : Passed(j)) /\ error # "nodata" => Kept("passed handler")
             /\ error = "nodata" /\ ~only => Kept("empty lookup")
             /\ error = "nodata" /\ only => Kept("caught lookup")
             /\ error = "warning" /\ blocks # <<>> => Kept("warning")
             /\ i = 0 /\ error \in Exceptions(source) /\ ~rethrown => Kept("unguarded")
<1> DEFINE want == SourceFate(error, rethrown)
           i == want.block
           passed == {j \in DOMAIN blocks : /\ blocks[j].in = "body"
                                            /\ j > i
                                            /\ target # "mysql" \/ blocks[j].handlers # {"nodata"}}
<1>1. \A habit \in ErrorHabits(error, want) :
        habit \notin Lost(source, target) \/ (rethrown /\ habit = "unguarded")
  <2>1. \A habit \in ErrorHabits(error, want) \ IF rethrown THEN {"unguarded"} ELSE {} :
          habit \notin Lost(source, target)
    BY LostIsAvoided
  <2>2. QED
    BY <2>1
<1>2. (want.goes = "handler") <=> (i # 0)
  <2>1. blocks \in Seq(Blocks)
    BY DEF TypeInv
  <2>2. QED
    BY <2>1, FateIs DEF SourceFate, Goes, On
<1> HIDE DEF want
<1>3. ErrorHabits(error, want) = {habit \in Habits :
          \/ habit = "many handlers" /\ i # 0 /\ \E g, h \in blocks[i].handlers : g # h
          \/ habit = "passed handler" /\ passed # {} /\ error # "nodata"
          \/ habit = "empty lookup" /\ error = "nodata"
               /\ ~(i # 0 /\ blocks[i].handlers = {"nodata"} /\ passed = {})
          \/ habit = "caught lookup" /\ error = "nodata"
               /\ i # 0 /\ blocks[i].handlers = {"nodata"} /\ passed = {}
          \/ habit = "warning" /\ error = "warning" /\ blocks # <<>>
          \/ habit = "unguarded" /\ i = 0 /\ error \in Exceptions(source)
          \/ habit = "work escapes" /\ want.goes = "out" /\ src.live # {}
          \/ habit = "partial work" /\ i # 0 /\ ~blocks[i].rolls /\ src.live # blocks[i].src
          \/ habit = "earlier work" /\ i # 0 /\ blocks[i].rolls /\ src.base # blocks[i].src
          \/ habit = "bare commit" /\ i # 0 /\ blocks[i].rolls /\ ~src.tran
          \/ habit = "implicit rollback" /\ i # 0 /\ blocks[i].rolls /\ ~src.tran /\ writes > 0
          \/ habit = "early commit" /\ i # 0 /\ blocks[i].committed}
  BY <1>2 DEF ErrorHabits
<1> HIDE DEF passed
<1>4. /\ i # 0 /\ (\E g, h \in blocks[i].handlers : g # h) =>
           "many handlers" \notin Lost(source, target)
      /\ passed # {} /\ error # "nodata" => "passed handler" \notin Lost(source, target)
      /\ error = "nodata" /\ ~(i # 0 /\ blocks[i].handlers = {"nodata"} /\ passed = {}) =>
           "empty lookup" \notin Lost(source, target)
      /\ error = "nodata" /\ i # 0 /\ blocks[i].handlers = {"nodata"} /\ passed = {} =>
           "caught lookup" \notin Lost(source, target)
      /\ error = "warning" /\ blocks # <<>> => "warning" \notin Lost(source, target)
      /\ i = 0 /\ error \in Exceptions(source) /\ ~rethrown =>
           "unguarded" \notin Lost(source, target)
  BY <1>1, <1>3 DEF Habits
<1>5. QED
  BY <1>4 DEF want, passed

\* Between Oracle and PostgreSQL a section keeps its handlers.
LEMMA SectionsAgree ==
  ASSUME TypeInv, BlocksInv, KeepsSection, source # target, NEW error \in Errors,
         error \notin {"nodata", "warning"}
  PROVE  TargetRunning(error) = SourceRunning(error)
<1>1. error \in Exceptions(source) /\ error \in Conditions(source) /\ error \in TargetExceptions
  BY DEF Exceptions, Conditions, TargetExceptions, KeepsSection, Sections, Errors
<1>2. \A j \in DOMAIN blocks : TargetRuns(error, blocks[j]) = SourceRuns(error, blocks[j])
  BY <1>1 DEF TargetRuns, SourceRuns
<1>3. QED
  BY <1>2 DEF TargetRunning, SourceRunning

\* T-SQL's one CATCH, and MySQL's handler for all errors, take what they took.
LEMMA OthersAgree ==
  ASSUME TypeInv, source # target, source \notin Sections, NEW error \in Errors,
         error \notin {"nodata", "warning"}, NEW j \in DOMAIN blocks,
         blocks[j].handlers = {"others"}
  PROVE  TargetRuns(error, blocks[j]) = SourceRuns(error, blocks[j])
<1>1. error \in Exceptions(source) /\ error \in TargetExceptions /\ error # "others"
  BY DEF Exceptions, TargetExceptions, Errors
<1>2. ~KeepsSection /\ CatchKind(blocks[j].handlers) = "others"
  BY DEF KeepsSection, CatchKind
<1>3. Caught(error, blocks[j])
  BY <1>1, <1>2 DEF Caught
<1>4. TargetRuns(error, blocks[j]) = {"others"}
  BY <1>2, <1>3 DEF TargetRuns
<1>5. SourceRuns(error, blocks[j]) = {"others"}
  BY <1>1 DEF SourceRuns
<1>6. QED
  BY <1>4, <1>5

\* A section folded into one CATCH runs it for the only handler it has.
LEMMA FoldedAgree ==
  ASSUME TypeInv, source \in Sections, target \notin Sections, target \in Engines,
         NEW error \in Errors, error \notin {"nodata", "warning"}, NEW j \in DOMAIN blocks
  PROVE  /\ SourceRuns(error, blocks[j]) # {} /\ (\A g, h \in blocks[j].handlers : g = h) =>
              TargetRuns(error, blocks[j]) = SourceRuns(error, blocks[j])
         /\ target = "mysql" /\ blocks[j].handlers = {"nodata"} =>
              TargetRuns(error, blocks[j]) = {}
<1>1. error \in Exceptions(source) /\ error \in TargetExceptions
  BY DEF Exceptions, TargetExceptions, Errors, Sections
<1>2. ~KeepsSection
  BY DEF KeepsSection
<1>3. ASSUME SourceRuns(error, blocks[j]) # {}, \A g, h \in blocks[j].handlers : g = h
      PROVE  TargetRuns(error, blocks[j]) = SourceRuns(error, blocks[j])
  <2>1. PICK h \in blocks[j].handlers : /\ SourceRuns(error, blocks[j]) = {h}
                                       /\ h \in {error, "others"}
    BY <1>1, <1>3 DEF SourceRuns
  <2>2. blocks[j].handlers = {h}
    BY <1>3, <2>1
  <2>3. CatchKind(blocks[j].handlers) = "others"
    BY <2>1, <2>2 DEF CatchKind
  <2>4. Caught(error, blocks[j])
    BY <1>1, <2>3 DEF Caught
  <2>5. QED
    BY <1>2, <2>1, <2>2, <2>4 DEF TargetRuns
<1>4. ASSUME target = "mysql", blocks[j].handlers = {"nodata"}
      PROVE  TargetRuns(error, blocks[j]) = {}
  BY <1>2, <1>4 DEF TargetRuns, Caught, CatchKind
<1>5. QED
  BY <1>3, <1>4

LEMMA ErrorsAgree ==
  ASSUME TypeInv, BlocksInv, KeepsIdioms, NEW error \in Errors, NEW rethrown \in BOOLEAN,
         error \notin {"nodata", "warning"},
         rethrown => blocks # <<>> /\ blocks[Len(blocks)].in = "handler",
         Allowed(ErrorHabits(error, SourceFate(error, rethrown))
                   \ IF rethrown THEN {"unguarded"} ELSE {})
  PROVE  TargetFate(error, rethrown) = SourceFate(error, rethrown)
<1> DEFINE i == SourceFate(error, rethrown).block
           W == SourceRunning(error)
           T == TargetRunning(error)
           Inside(j) == j \in DOMAIN blocks /\ blocks[j].in = "body" /\ j > i
<1>1. source \in Engines /\ target \in Engines /\ source # target
  BY PairIsKnown, LostIsAvoided DEF TypeInv
<1>2. blocks \in Seq(Blocks) /\ DOMAIN blocks = 1 .. Len(blocks) /\ Len(blocks) \in Nat
  BY DEF TypeInv
<1>3. /\ i \in {0} \cup DOMAIN blocks
      /\ i # 0 => blocks[i].in = "body" /\ W[i] # {}
      /\ \A j : Inside(j) => W[j] = {}
  BY SourceBlockIs
<1>4. /\ i # 0 /\ (\E g, h \in blocks[i].handlers : g # h) =>
           "many handlers" \notin Lost(source, target)
      /\ (\E j : Inside(j) /\ (target # "mysql" \/ blocks[j].handlers # {"nodata"})) =>
           "passed handler" \notin Lost(source, target)
      /\ i = 0 /\ error \in Exceptions(source) /\ ~rethrown =>
           "unguarded" \notin Lost(source, target)
  BY ErrorHabitsAreKept
<1>5. error \in Exceptions(source) /\ error \in TargetExceptions
  BY DEF Exceptions, TargetExceptions, Errors
<1> HIDE DEF i
<1>6. i = 0 => (rethrown \/ source # "tsql" <=> rethrown \/ target # "tsql")
  BY <1>4, <1>5 DEF Lost, Habits
<1>7. (i # 0 => T[i] = W[i]) /\ \A j : Inside(j) => T[j] = {}
  <2>1. CASE KeepsSection
    BY <1>1, <1>3, <2>1, SectionsAgree
  <2>2. CASE source = "tsql"
    <3>1. \A j \in DOMAIN blocks : blocks[j].handlers = {"others"}
      BY <2>2 DEF BlocksInv, HandlersOf
    <3>2. \A j \in DOMAIN blocks : TargetRuns(error, blocks[j]) = SourceRuns(error, blocks[j])
      BY <1>1, <2>2, <3>1, OthersAgree DEF Sections
    <3>3. T = W
      BY <3>2 DEF TargetRunning, SourceRunning
    <3>4. QED
      BY <1>3, <3>3
  <2>3. CASE source = "mysql"
    <3>1. /\ Len(blocks) <= 1
          /\ \A j \in DOMAIN blocks : blocks[j].handlers \in {{"others"}, {"warning"}}
      BY <2>3 DEF BlocksInv, HandlersOf
    <3>2. ASSUME NEW j \in DOMAIN blocks, blocks[j].handlers = {"others"}
          PROVE  T[j] = W[j]
      BY <1>1, <2>3, <3>2, OthersAgree DEF Sections, TargetRunning, SourceRunning
    <3>3. ASSUME NEW j \in DOMAIN blocks, blocks[j].handlers = {"warning"}
          PROVE  W[j] = {}
      BY <3>3 DEF SourceRunning, SourceRuns, Errors
    <3>4. i # 0 => T[i] = W[i]
      BY <1>3, <3>1, <3>2, <3>3
    <3>5. ASSUME NEW j, Inside(j) PROVE T[j] = {}
      <4>1. CASE target \in Sections
        <5>1. "passed handler" \in Lost(source, target)
          BY <2>3, <4>1 DEF Lost, Habits
        <5>2. target # "mysql"
          BY <4>1 DEF Sections
        <5>3. QED
          BY <1>4, <3>5, <5>1, <5>2
      <4>2. CASE target = "tsql"
        <5>1. i = 0 /\ j = Len(blocks)
          BY <1>2, <1>3, <3>1, <3>5
        <5>2. ~rethrown
          BY <3>5, <5>1
        <5>3. "unguarded" \in Lost(source, target)
          BY <4>2 DEF Lost, Habits
        <5>4. QED
          BY <1>4, <1>5, <5>1, <5>2, <5>3
      <4>3. QED
        BY <1>1, <2>3, <4>1, <4>2 DEF Engines, Sections
    <3>6. QED
      BY <3>4, <3>5
  <2>4. CASE source \in Sections /\ target \notin Sections
    <3>1. "many handlers" \in Lost(source, target) /\ "passed handler" \in Lost(source, target)
      BY <2>4 DEF Lost, Habits
    <3>2. i # 0 => T[i] = W[i]
      <4>1. SUFFICES ASSUME i # 0 PROVE T[i] = W[i]
        OBVIOUS
      <4>2. i \in DOMAIN blocks /\ SourceRuns(error, blocks[i]) # {}
        BY <1>3, <4>1 DEF SourceRunning
      <4>3. \A g, h \in blocks[i].handlers : g = h
        BY <1>4, <3>1, <4>1
      <4>4. QED
        BY <1>1, <2>4, <4>2, <4>3, FoldedAgree DEF SourceRunning, TargetRunning
    <3>3. ASSUME NEW j, Inside(j) PROVE T[j] = {}
      <4>1. target = "mysql" /\ blocks[j].handlers = {"nodata"}
        BY <1>4, <3>1, <3>3
      <4>2. QED
        BY <1>1, <2>4, <3>3, <4>1, FoldedAgree DEF TargetRunning
    <3>4. QED
      BY <3>2, <3>3
  <2>5. QED
    BY <1>1, <2>1, <2>2, <2>3, <2>4 DEF Engines, Sections, KeepsSection
<1>8. QED
  BY <1>5, <1>6, <1>7, SidesAgree DEF i

\* A lookup without a row is an exception on Oracle, a condition on MySQL, and
\* nothing elsewhere.
LEMMA LookupsAgree ==
  ASSUME TypeInv, BlocksInv, KeepsIdioms, NEW rethrown \in BOOLEAN,
         Allowed(ErrorHabits("nodata", SourceFate("nodata", rethrown))
                   \ IF rethrown THEN {"unguarded"} ELSE {})
  PROVE  TargetFate("nodata", rethrown) = SourceFate("nodata", rethrown)
<1> DEFINE i == SourceFate("nodata", rethrown).block
           W == SourceRunning("nodata")
           T == TargetRunning("nodata")
           Inside(j) == j \in DOMAIN blocks /\ blocks[j].in = "body" /\ j > i
           Passed(j) == Inside(j) /\ (target # "mysql" \/ blocks[j].handlers # {"nodata"})
           only == i # 0 /\ blocks[i].handlers = {"nodata"} /\ \A j : ~Passed(j)
<1>1. source \in Engines /\ target \in Engines /\ source # target
  BY PairIsKnown, LostIsAvoided DEF TypeInv
<1>2. /\ i \in {0} \cup DOMAIN blocks
      /\ i # 0 => W[i] # {}
      /\ \A j : Inside(j) => W[j] = {}
  BY SourceBlockIs
<1>3. /\ ~only => "empty lookup" \notin Lost(source, target)
      /\ only => "caught lookup" \notin Lost(source, target)
  BY ErrorHabitsAreKept
<1> HIDE DEF i
<1>4. \A j \in DOMAIN blocks : blocks[j].handlers \in HandlersOf(source)
  BY DEF BlocksInv
<1>5. CASE source = "oracle"
  <2>1. "empty lookup" \in Lost(source, target) /\ only /\ target = "mysql"
    BY <1>1, <1>3, <1>5 DEF Lost, Habits, Engines
  <2>2. ASSUME NEW j, Inside(j) PROVE FALSE
    <3>1. blocks[j].handlers = {"nodata"}
      BY <2>1, <2>2
    <3>2. W[j] = {"nodata"}
      BY <1>5, <2>2, <3>1 DEF SourceRunning, SourceRuns, Conditions, Exceptions
    <3>3. QED
      BY <1>2, <2>2, <3>2
  <2>3. i \in DOMAIN blocks /\ blocks[i].handlers = {"nodata"}
    BY <1>2, <2>1
  <2>4. W[i] = {"nodata"}
    BY <1>5, <2>3 DEF SourceRunning, SourceRuns, Conditions, Exceptions
  <2>5. T[i] = {"nodata"}
    BY <1>5, <2>1, <2>3 DEF TargetRunning, TargetRuns, KeepsSection, Sections, Caught, CatchKind
  <2>6. QED
    BY <2>1, <2>2, <2>4, <2>5, SidesAgree DEF i
<1>6. CASE source # "oracle"
  <2>1. \A j \in DOMAIN blocks : W[j] = {}
    <3>1. \A j \in DOMAIN blocks : "nodata" \in blocks[j].handlers => source = "postgresql"
      BY <1>1, <1>4, <1>6 DEF HandlersOf, Engines
    <3>2. "nodata" \notin Exceptions(source)
      BY <1>6 DEF Exceptions
    <3>3. source = "postgresql" => "nodata" \notin Conditions(source)
      BY <3>2 DEF Conditions
    <3>4. QED
      BY <3>1, <3>2, <3>3 DEF SourceRunning, SourceRuns
  <2>2. i = 0
    BY <1>2, <2>1
  <2>3. source = "tsql" \/ (target # "oracle" /\ target # "mysql")
    BY <1>1, <1>3, <2>2 DEF Lost, Habits, Engines
  <2>4. "nodata" \notin TargetExceptions /\ "nodata" \notin Exceptions(source)
    BY <1>6, <2>3 DEF TargetExceptions, Exceptions
  <2>5. \A j \in DOMAIN blocks : T[j] = {}
    <3>1. ASSUME NEW j \in DOMAIN blocks, ~KeepsSection PROVE ~Caught("nodata", blocks[j])
      <4>1. source = "tsql" => blocks[j].handlers = {"others"}
        BY <1>4 DEF HandlersOf
      <4>2. target = "mysql" => CatchKind(blocks[j].handlers) = "others"
        BY <2>3, <4>1 DEF CatchKind
      <4>3. QED
        BY <2>4, <4>2 DEF Caught
    <3>2. QED
      BY <2>4, <3>1 DEF TargetRunning, TargetRuns
  <2>6. QED
    BY <2>2, <2>4, <2>5, SidesAgree DEF i
<1>7. QED
  BY <1>5, <1>6

\* A warning outside any handler is nothing.
LEMMA WarningsAgree ==
  ASSUME TypeInv, KeepsIdioms, source = "mysql", NEW rethrown \in BOOLEAN,
         Allowed(ErrorHabits("warning", SourceFate("warning", rethrown))
                   \ IF rethrown THEN {"unguarded"} ELSE {})
  PROVE  TargetFate("warning", rethrown) = SourceFate("warning", rethrown)
<1> DEFINE i == SourceFate("warning", rethrown).block
<1>1. blocks = <<>>
  BY ErrorHabitsAreKept DEF Lost, Habits
<1>2. DOMAIN blocks = {} /\ i \in {0} \cup DOMAIN blocks
  BY <1>1, SourceBlockIs
<1>3. "warning" \notin Exceptions(source) /\ "warning" \notin TargetExceptions
  BY DEF Exceptions, TargetExceptions
<1> HIDE DEF i
<1>4. QED
  BY <1>2, <1>3, SidesAgree DEF i

\* Whatever error a routine raises, it does the same on both sides.
LEMMA FateAsWritten ==
  ASSUME TypeInv, BlocksInv, KeepsIdioms, NEW error \in Errors, NEW rethrown \in BOOLEAN,
         error = "warning" => source = "mysql",
         rethrown => blocks # <<>> /\ blocks[Len(blocks)].in = "handler",
         Fail(error, rethrown)
  PROVE  fate'.got = fate'.want
<1>1. Allowed(ErrorHabits(error, SourceFate(error, rethrown))
                \ IF rethrown THEN {"unguarded"} ELSE {})
  BY DEF Fail
<1>2. TargetFate(error, rethrown) = SourceFate(error, rethrown)
  BY <1>1, ErrorsAgree, LookupsAgree, WarningsAgree
<1>3. fate' = [want |-> SourceFate(error, rethrown), got |-> TargetFate(error, rethrown)]
  BY DEF Fail
<1>4. QED
  BY <1>2, <1>3

\* No COMMIT or ROLLBACK fails on the target that the source can make.
LEMMA EndsWithoutError ==
  ASSUME TypeInv, BlocksInv, KeepsIdioms, CanEnd,
         blocks # <<>> => Allowed({"commit in block"}) \/ Allowed({"rollback in block"})
  PROVE  Dropped \/ ~Fails(target, tgt)
<1>1. source \in Engines /\ target \in Engines
  BY PairIsKnown DEF TypeInv
<1>2. target = "tsql" => source # "tsql"
  BY PairIsKnown DEF TypeInv, KeepsIdioms
<1>3. target # "tsql"
  <2>1. SUFFICES ASSUME target = "tsql" PROVE FALSE
    OBVIOUS
  <2>2. ~src.tran
    BY <1>2, <2>1 DEF BlocksInv
  <2>3. Allowed({"bare commit"})
    BY <2>2 DEF CanEnd
  <2>4. "bare commit" \in Lost(source, target)
    BY <2>1 DEF Lost, Habits
  <2>5. QED
    BY <2>3, <2>4, LostIsAvoided
<1>4. CASE target = "postgresql" /\ InBody
  <2>0. blocks = <<>> => DOMAIN blocks = {}
    OBVIOUS
  <2>1. blocks # <<>>
    BY <1>4, <2>0 DEF InBody
  <2>2. ~KeepsSection
    <3>1. SUFFICES ASSUME KeepsSection PROVE FALSE
      OBVIOUS
    <3>2. source = "oracle"
      BY <1>4, <3>1, PairIsKnown DEF TypeInv, KeepsIdioms, KeepsSection, Sections
    <3>3. "commit in block" \in Lost(source, target) /\ "rollback in block" \in Lost(source, target)
      BY <1>4, <3>2 DEF Lost, Habits
    <3>4. QED
      BY <2>1, <3>3, LostIsAvoided
  <2>3. QED
    BY <1>4, <2>1, <2>2 DEF Dropped
<1>5. CASE ~(target = "postgresql" /\ InBody)
  BY <1>3, <1>5 DEF Fails
<1>6. QED
  BY <1>4, <1>5

(***************************************************************************)
(* Steps.                                                                  *)
(***************************************************************************)
LEMMA InitHolds == Init => TypeInv /\ BlocksInv
<1> SUFFICES ASSUME Init PROVE TypeInv /\ BlocksInv
  OBVIOUS
<1>1. PICK p \in Pairs : source = p.source /\ target = p.target
  BY DEF Init
<1>2. p = [source |-> p.source, target |-> p.target]
  BY <1>1, PairsAssumption
<1>3. blocks = <<>> /\ writes = 0 /\ src = NoWork /\ tgt = NoWork
  BY DEF Init
<1>4. NoWork \in Works /\ NoWork.tran = FALSE
  BY DEF NoWork, Works
<1>5. QED
  BY <1>1, <1>2, <1>3, <1>4 DEF TypeInv, BlocksInv, Pair

LEMMA WorksAreTyped ==
  ASSUME NEW w \in Works, NEW n \in Nat, NEW engine
  PROVE  /\ Wrote(engine, w, n) \in Works /\ Wrote(engine, w, n).tran = w.tran
         /\ Began(w) \in Works
         /\ Committed(w) \in Works /\ Committed(w).tran = FALSE
         /\ RolledBack(w) \in Works /\ RolledBack(w).tran = FALSE
         /\ Marked(w) \in Works /\ Marked(w).tran = w.tran
         /\ Returned(w) \in Works /\ Returned(w).tran = w.tran
         /\ \A work \in SUBSET Nat :
              [w EXCEPT !.live = work] \in Works /\ [w EXCEPT !.live = work].tran = w.tran
<1>1. w.live \in SUBSET Nat /\ w.base \in SUBSET Nat /\ w.tran \in BOOLEAN
  BY DEF Works
<1>2. w.live \cup {n} \in SUBSET Nat /\ w.base \cup {n} \in SUBSET Nat
  BY <1>1
<1>3. Wrote(engine, w, n) \in Works /\ Wrote(engine, w, n).tran = w.tran
  BY <1>1, <1>2 DEF Wrote, Works
<1>4. Began(w) \in Works
  BY <1>1 DEF Began, Works
<1>5. /\ Committed(w) \in Works /\ Committed(w).tran = FALSE
      /\ RolledBack(w) \in Works /\ RolledBack(w).tran = FALSE
  BY <1>1 DEF Committed, RolledBack, Works
<1>6. Marked(w) \in Works /\ Marked(w).tran = w.tran
  BY <1>1 DEF Marked, Works
<1>7. Returned(w) \in Works /\ Returned(w).tran = w.tran
  <2>1. w.saved \in SUBSET (SUBSET Nat)
    BY DEF Works
  <2>2. UNION w.saved \in SUBSET Nat
    BY <2>1
  <2>3. QED
    BY <1>1, <2>2 DEF Returned, Works
<1>8. \A work \in SUBSET Nat :
        [w EXCEPT !.live = work] \in Works /\ [w EXCEPT !.live = work].tran = w.tran
  BY DEF Works
<1>9. QED
  BY <1>3, <1>4, <1>5, <1>6, <1>7, <1>8

\* After an error a transaction is still open only if it was.
LEMMA AfterIsTyped ==
  ASSUME NEW w \in Works, NEW engine, NEW f, NEW mark \in SUBSET Nat
  PROVE  After(engine, w, f, mark) \in Works /\ (After(engine, w, f, mark).tran => w.tran)
<1>1. /\ RolledBack(w) \in Works /\ RolledBack(w).tran = FALSE
      /\ [w EXCEPT !.live = mark] \in Works /\ [w EXCEPT !.live = mark].tran = w.tran
  BY WorksAreTyped
<1>2. After(engine, w, f, mark) \in {w, RolledBack(w), [w EXCEPT !.live = mark]}
  BY DEF After
<1>3. QED
  BY <1>1, <1>2

LEMMA OpenKeeps ==
  ASSUME TypeInv, BlocksInv, NEW handlers \in HandlersOf(source), NEW rolls \in BOOLEAN,
         Open(handlers, rolls)
  PROVE  TypeInv' /\ BlocksInv'
<1> DEFINE b == [handlers |-> handlers, rolls |-> rolls, in |-> "body", cause |-> None,
                 committed |-> FALSE, src |-> src.live, tgt |-> tgt.live]
<1>1. blocks' = Append(blocks, b) /\ UNCHANGED <<source, target, writes, src, tgt>>
  BY DEF Open
<1>2. source = "mysql" => blocks = <<>>
  BY DEF Open
<1>3. source \in Engines
  BY PairIsKnown DEF TypeInv
<1>4. handlers \in SUBSET Handlers
  BY <1>3 DEF HandlersOf, Handlers, Engines
<1>5. b \in Blocks
  BY <1>4 DEF Blocks, TypeInv, Works
<1>6. b.handlers = handlers
  OBVIOUS
<1> HIDE DEF b
<1>7. /\ blocks' \in Seq(Blocks) /\ DOMAIN blocks' = 1 .. Len(blocks) + 1
      /\ Len(blocks') = Len(blocks) + 1
      /\ \A i \in DOMAIN blocks : blocks'[i] = blocks[i]
      /\ blocks'[Len(blocks) + 1] = b
      /\ DOMAIN blocks = 1 .. Len(blocks) /\ Len(blocks) \in Nat
  BY <1>1, <1>5 DEF TypeInv
<1>8. \A i \in DOMAIN blocks' : blocks'[i].handlers \in HandlersOf(source)
  <2> SUFFICES ASSUME NEW i \in DOMAIN blocks' PROVE blocks'[i].handlers \in HandlersOf(source)
    OBVIOUS
  <2>1. CASE i \in DOMAIN blocks
    BY <1>7, <2>1 DEF BlocksInv
  <2>2. CASE i = Len(blocks) + 1
    BY <1>6, <1>7, <2>2
  <2>3. QED
    BY <1>7, <2>1, <2>2
<1>9. source = "mysql" => Len(blocks') <= 1
  BY <1>2, <1>7
<1>10. TypeInv'
  BY <1>1, <1>7 DEF TypeInv, Pair
<1>11. QED
  BY <1>1, <1>8, <1>9, <1>10 DEF BlocksInv, HandlersOf

LEMMA CloseKeeps ==
  ASSUME TypeInv, BlocksInv, Close
  PROVE  TypeInv' /\ BlocksInv'
<1>1. /\ blocks' = SubSeq(blocks, 1, Len(blocks) - 1) /\ blocks # <<>>
      /\ UNCHANGED <<source, target, writes, src, tgt>>
  BY DEF Close
<1>2. /\ blocks' \in Seq(Blocks) /\ Len(blocks') <= Len(blocks)
      /\ \A i \in DOMAIN blocks' : i \in DOMAIN blocks /\ blocks'[i] = blocks[i]
      /\ source = "mysql" => Len(blocks') <= 1
  BY <1>1 DEF TypeInv, BlocksInv
<1>3. TypeInv'
  BY <1>1, <1>2 DEF TypeInv, Pair
<1>4. QED
  BY <1>1, <1>2, <1>3 DEF BlocksInv, HandlersOf

\* A block entered by its handler keeps what it is.
LEMMA EnteredIsTyped ==
  ASSUME TypeInv, BlocksInv, NEW i \in DOMAIN blocks, NEW error \in Errors
  PROVE  /\ Entered(i, error) \in Seq(Blocks) /\ Len(Entered(i, error)) <= Len(blocks)
         /\ \A j \in DOMAIN Entered(i, error) :
              /\ j \in DOMAIN blocks /\ Entered(i, error)[j].handlers = blocks[j].handlers
              /\ Entered(i, error)[j].src = blocks[j].src
              /\ Entered(i, error)[j].tgt = blocks[j].tgt
<1> DEFINE s == SubSeq(blocks, 1, i)
           b == [blocks[i] EXCEPT !.in = "handler", !.cause = error]
           r == Entered(i, error)
<1>1. /\ s \in Seq(Blocks) /\ Len(s) = i /\ DOMAIN s = 1 .. i /\ i <= Len(blocks)
      /\ \A j \in 1 .. i : j \in DOMAIN blocks /\ s[j] = blocks[j]
      /\ i \in 1 .. i /\ blocks[i] \in Blocks
  BY DEF TypeInv
<1>2. /\ b \in Blocks /\ b.handlers = blocks[i].handlers
      /\ b.src = blocks[i].src /\ b.tgt = blocks[i].tgt
  BY <1>1 DEF Blocks
<1>3. r = [s EXCEPT ![i] = b]
  BY <1>1 DEF Entered, Blocks
<1> HIDE DEF s, b, r
<1>4. /\ r \in Seq(Blocks) /\ Len(r) = i /\ DOMAIN r = 1 .. i
      /\ \A j \in 1 .. i : r[j] = IF j = i THEN b ELSE s[j]
  BY <1>1, <1>2, <1>3
<1>5. QED
  BY <1>1, <1>2, <1>4 DEF r

LEMMA FailKeeps ==
  ASSUME TypeInv, BlocksInv, NEW error \in Errors, NEW rethrown \in BOOLEAN,
         Fail(error, rethrown)
  PROVE  TypeInv' /\ BlocksInv'
<1> DEFINE want == SourceFate(error, rethrown)
           got == TargetFate(error, rethrown)
           i == want.block
           marks == IF i = 0 THEN {} ELSE blocks[i].src
           markt == IF i = 0 THEN {} ELSE blocks[i].tgt
           s == After(source, src, want, marks)
           t == After(target, tgt, got, markt)
<1>1. /\ blocks' = IF i = 0 THEN (IF want.goes = "out" THEN <<>> ELSE blocks)
                   ELSE Entered(i, error)
      /\ src' \in {s, RolledBack(s)} /\ tgt' \in {t, RolledBack(t)}
      /\ UNCHANGED <<source, target, writes>>
  BY DEF Fail
<1>2. i \in {0} \cup DOMAIN blocks
  BY SourceBlockIs
<1>3. blocks \in Seq(Blocks) /\ src \in Works /\ tgt \in Works
  BY DEF TypeInv
<1>4. marks \in SUBSET Nat /\ markt \in SUBSET Nat
  <2>1. i # 0 => blocks[i] \in Blocks
    BY <1>2, <1>3
  <2>2. QED
    BY <2>1 DEF Blocks
<1> HIDE DEF want, got, marks, markt
<1>5. s \in Works /\ t \in Works /\ (s.tran => src.tran)
  BY <1>3, <1>4, AfterIsTyped
<1> HIDE DEF s, t
<1>6. src' \in Works /\ tgt' \in Works /\ (src'.tran => src.tran)
  <2>1. RolledBack(s) \in Works /\ RolledBack(t) \in Works /\ RolledBack(s).tran = FALSE
    BY <1>5, WorksAreTyped
  <2>2. QED
    BY <1>1, <1>5, <2>1
<1>7. /\ blocks' \in Seq(Blocks) /\ Len(blocks') <= Len(blocks)
      /\ \A j \in DOMAIN blocks' : j \in DOMAIN blocks /\ blocks'[j].handlers = blocks[j].handlers
  <2>1. CASE i = 0
    BY <1>1, <1>3, <2>1
  <2>2. CASE i # 0
    BY <1>1, <1>2, <2>2, EnteredIsTyped
  <2>3. QED
    BY <2>1, <2>2
<1>8. TypeInv'
  BY <1>1, <1>6, <1>7 DEF TypeInv, Pair
<1>9. source = "mysql" => Len(blocks') <= 1
  BY <1>3, <1>7 DEF BlocksInv
<1>10. QED
  BY <1>1, <1>6, <1>7, <1>8, <1>9 DEF BlocksInv, HandlersOf

LEMMA CommitKeeps ==
  ASSUME TypeInv, BlocksInv, Commit
  PROVE  TypeInv' /\ BlocksInv'
<1>1. /\ blocks' = [i \in DOMAIN blocks |-> [blocks[i] EXCEPT !.committed = TRUE]]
      /\ src' = Committed(src) /\ tgt' \in {tgt, Committed(tgt)}
      /\ UNCHANGED <<source, target, writes>>
  BY DEF Commit, Ended
<1>2. blocks \in Seq(Blocks) /\ src \in Works /\ tgt \in Works
  BY DEF TypeInv
<1>3. \A i \in DOMAIN blocks : /\ [blocks[i] EXCEPT !.committed = TRUE] \in Blocks
                              /\ [blocks[i] EXCEPT !.committed = TRUE].handlers = blocks[i].handlers
  <2>1. \A b \in Blocks : /\ [b EXCEPT !.committed = TRUE] \in Blocks
                         /\ [b EXCEPT !.committed = TRUE].handlers = b.handlers
    BY DEF Blocks
  <2>2. \A i \in DOMAIN blocks : blocks[i] \in Blocks
    BY <1>2
  <2>3. QED
    BY <2>1, <2>2
<1>4. /\ blocks' \in Seq(Blocks) /\ Len(blocks') = Len(blocks) /\ DOMAIN blocks' = DOMAIN blocks
      /\ \A i \in DOMAIN blocks : blocks'[i].handlers = blocks[i].handlers
  <2> DEFINE Ending(b) == [b EXCEPT !.committed = TRUE]
  <2>1. blocks \in [1 .. Len(blocks) -> Blocks] /\ Len(blocks) \in Nat
    BY <1>2
  <2>2. blocks' = [i \in 1 .. Len(blocks) |-> Ending(blocks[i])]
    BY <1>1, <2>1
  <2>3. \A i \in 1 .. Len(blocks) : /\ Ending(blocks[i]) \in Blocks
                                    /\ Ending(blocks[i]).handlers = blocks[i].handlers
    BY <1>3, <2>1
  <2> HIDE DEF Ending
  <2>4. blocks' \in [1 .. Len(blocks) -> Blocks]
    BY <2>2, <2>3
  <2>5. QED
    BY <2>1, <2>2, <2>3, <2>4
<1>5. src' \in Works /\ tgt' \in Works /\ src'.tran = FALSE
  BY <1>1, <1>2, WorksAreTyped
<1>6. TypeInv'
  BY <1>1, <1>4, <1>5 DEF TypeInv, Pair
<1>7. QED
  BY <1>1, <1>4, <1>5, <1>6 DEF BlocksInv, HandlersOf

\* The steps that leave the blocks as they are.
LEMMA WorkKeeps ==
  ASSUME TypeInv, BlocksInv, UNCHANGED <<source, target, blocks>>,
         writes' \in Nat, src' \in Works, tgt' \in Works,
         src'.tran => src.tran \/ source = "tsql"
  PROVE  TypeInv' /\ BlocksInv'
<1>1. TypeInv'
  BY DEF TypeInv, Pair
<1>2. QED
  BY <1>1 DEF BlocksInv, HandlersOf

LEMMA StepKeeps == TypeInv /\ BlocksInv /\ [Next]_vars => TypeInv' /\ BlocksInv'
<1> SUFFICES ASSUME TypeInv, BlocksInv, [Next]_vars PROVE TypeInv' /\ BlocksInv'
  OBVIOUS
<1>0. src \in Works /\ tgt \in Works /\ writes \in Nat /\ writes + 1 \in Nat
  BY DEF TypeInv
<1>1. ASSUME NEW handlers \in HandlersOf(source), NEW rolls \in BOOLEAN, Open(handlers, rolls)
      PROVE  TypeInv' /\ BlocksInv'
  BY <1>1, OpenKeeps
<1>2. CASE Close
  BY <1>2, CloseKeeps
<1>3. CASE Write
  <2>1. /\ src' = Wrote(source, src, writes + 1) /\ tgt' = Wrote(target, tgt, writes + 1)
        /\ writes' = writes + 1 /\ UNCHANGED <<source, target, blocks>>
    BY <1>3 DEF Write
  <2>2. src' \in Works /\ tgt' \in Works /\ src'.tran = src.tran
    BY <1>0, <2>1, WorksAreTyped
  <2>3. QED
    BY <1>0, <2>1, <2>2, WorkKeeps
<1>4. ASSUME NEW error \in Errors, Raise(error)
      PROVE  TypeInv' /\ BlocksInv'
  BY <1>4, FailKeeps DEF Raise
<1>5. CASE Rethrow
  BY <1>5, FailKeeps DEF Rethrow, Exceptions, Errors
<1>6. CASE Begin
  <2>1. /\ source = "tsql" /\ src' = Began(src) /\ tgt' \in {tgt, Began(tgt)}
        /\ UNCHANGED <<source, target, blocks, writes>>
    BY <1>6 DEF Begin, TargetBegan
  <2>2. src' \in Works /\ tgt' \in Works
    BY <1>0, <2>1, WorksAreTyped
  <2>3. QED
    BY <1>0, <2>1, <2>2, WorkKeeps
<1>7. CASE Commit
  BY <1>7, CommitKeeps
<1>8. CASE Rollback
  <2>1. /\ src' = RolledBack(src) /\ tgt' \in {tgt, RolledBack(tgt)}
        /\ UNCHANGED <<source, target, blocks, writes>>
    BY <1>8 DEF Rollback, Ended
  <2>2. src' \in Works /\ tgt' \in Works /\ src'.tran = FALSE
    BY <1>0, <2>1, WorksAreTyped
  <2>3. QED
    BY <1>0, <2>1, <2>2, WorkKeeps
<1>9. CASE Save
  <2>1. /\ src' = Marked(src) /\ tgt' \in {tgt, Marked(tgt)}
        /\ UNCHANGED <<source, target, blocks, writes>>
    BY <1>9 DEF Save
  <2>2. src' \in Works /\ tgt' \in Works /\ src'.tran = src.tran
    BY <1>0, <2>1, WorksAreTyped
  <2>3. QED
    BY <1>0, <2>1, <2>2, WorkKeeps
<1>10. CASE RollbackToSave
  <2>1. /\ src' = Returned(src) /\ tgt' \in {tgt, Returned(tgt)}
        /\ UNCHANGED <<source, target, blocks, writes>>
    BY <1>10 DEF RollbackToSave
  <2>2. src' \in Works /\ tgt' \in Works /\ src'.tran = src.tran
    BY <1>0, <2>1, WorksAreTyped
  <2>3. QED
    BY <1>0, <2>1, <2>2, WorkKeeps
<1>11. CASE UNCHANGED vars
  BY <1>0, <1>11, WorkKeeps DEF vars
<1>12. QED
  BY <1>1, <1>2, <1>3, <1>4, <1>5, <1>6, <1>7, <1>8, <1>9, <1>10, <1>11 DEF Next

LEMMA StepRunsAsWritten ==
  ASSUME KeepsIdioms
  PROVE  TypeInv /\ BlocksInv /\ HandlersAsWritten /\ [Next]_vars => HandlersAsWritten'
<1> SUFFICES ASSUME TypeInv, BlocksInv, HandlersAsWritten, [Next]_vars
             PROVE  HandlersAsWritten'
  OBVIOUS
<1>1. ASSUME Calm PROVE HandlersAsWritten'
  BY <1>1 DEF Calm, HandlersAsWritten
<1>2. ASSUME NEW error \in Errors, Raise(error) PROVE HandlersAsWritten'
  BY <1>2, FateAsWritten DEF Raise, HandlersAsWritten
<1>3. CASE Rethrow
  <2> DEFINE error == blocks[Len(blocks)].cause
  <2>1. error \in Errors /\ error # "warning"
    BY <1>3 DEF Rethrow, Exceptions, Errors
  <2>2. blocks # <<>> /\ blocks[Len(blocks)].in = "handler" /\ Fail(error, TRUE)
    BY <1>3 DEF Rethrow
  <2>3. QED
    BY <2>1, <2>2, FateAsWritten DEF HandlersAsWritten
<1>4. ASSUME CanEnd, NEW done, Ended(done),
             blocks # <<>> => Allowed({"commit in block"}) \/ Allowed({"rollback in block"})
      PROVE  HandlersAsWritten'
  <2>1. Dropped \/ ~Fails(target, tgt)
    BY <1>4, EndsWithoutError
  <2>2. fate' = [want |-> On, got |-> On]
    BY <1>4, <2>1 DEF Ended
  <2>3. QED
    BY <2>2 DEF HandlersAsWritten
<1>5. CASE Commit
  BY <1>4, <1>5 DEF Commit
<1>6. CASE Rollback
  BY <1>4, <1>6 DEF Rollback
<1>7. CASE UNCHANGED vars
  BY <1>7 DEF vars, HandlersAsWritten
<1>8. QED
  BY <1>1, <1>2, <1>3, <1>5, <1>6, <1>7
     DEF Next, Open, Close, Write, Begin, Save, RollbackToSave

\* Whatever error a routine meets or rethrows, in blocks nested to any depth,
\* the emitted routine runs the handler of the same block or leaves where the
\* source's does, and its own transaction statements raise none.
THEOREM ErrorsRunAlike ==
  ASSUME KeepsIdioms
  PROVE  Spec => []HandlersAsWritten
<1>1. Init => HandlersAsWritten
  BY DEF Init, HandlersAsWritten
<1>2. TypeInv /\ BlocksInv /\ HandlersAsWritten /\ [Next]_vars => HandlersAsWritten'
  BY StepRunsAsWritten
<1>3. QED
  BY <1>1, <1>2, InitHolds, StepKeeps, PTL DEF Spec

(***************************************************************************)
(* Work.  The two routines have done the same; what a ROLLBACK returns to  *)
(* may differ, but only between an engine that always has a transaction    *)
(* and one that begins it, outside a transaction of the source.            *)
(***************************************************************************)
\* p is the source's work, q the target's, n the writes made.
Agree(s, t, p, q, n) ==
    /\ p.live = q.live
    /\ p.base \subseteq p.live /\ q.base \subseteq q.live
    /\ n = 0 => p.live = {} /\ \A work \in p.saved : work = {}
    /\ Implicit(s) /\ Implicit(t) => p.base = q.base
    /\ ~Implicit(s) /\ ~p.tran => p.base = p.live
    /\ ~Implicit(t) /\ ~q.tran => q.base = q.live
    /\ p.tran => p.base = q.base
    /\ ~Implicit(t) => (q.tran <=> p.tran)
    /\ t = "postgresql" => p.saved = {} /\ q.saved = {}
    /\ ~p.tran => p.saved = {}
    /\ \A work \in p.saved : p.base \subseteq work

MarksAgree ==
    \A i \in DOMAIN blocks : /\ blocks[i].src = blocks[i].tgt
                             /\ writes = 0 => blocks[i].src = {}

WorkInv ==
    /\ Agree(source, target, src, tgt, writes)
    /\ source = "tsql" /\ ~src.tran /\ ~loose => tgt.base = tgt.live
    /\ Running => src.saved = tgt.saved
    /\ MarksAgree

Known(s, t, p, q) ==
    /\ s \in Engines /\ t \in Engines /\ s # t
    /\ p \in Works /\ q \in Works
    /\ p.tran => s = "tsql"

\* Exactly one of two engines always has a transaction.
Apart(s, t) == Implicit(s) # Implicit(t)

(***************************************************************************)
(* The steps of work, on both sides.                                       *)
(***************************************************************************)
\* The fields of w.
Fields(w, live, base, tran, saved) ==
    w.live = live /\ w.base = base /\ (w.tran <=> tran) /\ w.saved = saved

LEMMA WorkIs ==
  ASSUME NEW w \in Works, NEW engine, NEW n, NEW mark
  PROVE  /\ Fields(Wrote(engine, w, n), w.live \cup {n},
                   IF Implicit(engine) \/ w.tran THEN w.base ELSE w.base \cup {n},
                   w.tran, w.saved)
         /\ Fields(Began(w), w.live, w.live, TRUE, w.saved)
         /\ Fields(Committed(w), w.live, w.live, FALSE, {})
         /\ Fields(RolledBack(w), w.base, w.base, FALSE, {})
         /\ Fields(Marked(w), w.live, w.base, w.tran, {w.live})
         /\ Fields(Returned(w), UNION w.saved, w.base, w.tran, w.saved)
         /\ Fields([w EXCEPT !.live = mark], mark, w.base, w.tran, w.saved)
<1>1. Fields(Wrote(engine, w, n), w.live \cup {n},
             IF Implicit(engine) \/ w.tran THEN w.base ELSE w.base \cup {n},
             w.tran, w.saved)
  BY DEF Wrote, Works, Fields
<1>2. Fields(Began(w), w.live, w.live, TRUE, w.saved)
  BY DEF Began, Works, Fields
<1>3. Fields(Committed(w), w.live, w.live, FALSE, {})
  BY DEF Committed, Works, Fields
<1>4. Fields(RolledBack(w), w.base, w.base, FALSE, {})
  BY DEF RolledBack, Works, Fields
<1>5. Fields(Marked(w), w.live, w.base, w.tran, {w.live})
  BY DEF Marked, Works, Fields
<1>6. Fields(Returned(w), UNION w.saved, w.base, w.tran, w.saved)
  BY DEF Returned, Works, Fields
<1>7. Fields([w EXCEPT !.live = mark], mark, w.base, w.tran, w.saved)
  BY DEF Works, Fields
<1>8. QED
  BY <1>1, <1>2, <1>3, <1>4, <1>5, <1>6, <1>7

LEMMA WritesAgree ==
  ASSUME NEW s, NEW t, NEW p, NEW q, NEW n \in Nat, Known(s, t, p, q), Agree(s, t, p, q, n)
  PROVE  Agree(s, t, Wrote(s, p, n + 1), Wrote(t, q, n + 1), n + 1)
<1> DEFINE m == n + 1
           P == Wrote(s, p, m)
           Q == Wrote(t, q, m)
<1>1. /\ Fields(P, p.live \cup {m},
                IF Implicit(s) \/ p.tran THEN p.base ELSE p.base \cup {m}, p.tran, p.saved)
      /\ Fields(Q, q.live \cup {m},
                IF Implicit(t) \/ q.tran THEN q.base ELSE q.base \cup {m}, q.tran, q.saved)
  BY WorkIs DEF Known
<1>2. m # 0 /\ (p.tran => ~Implicit(s))
  BY DEF Known, Implicit, Sections
<1> HIDE DEF m, P, Q
<1>3. /\ P.live = Q.live /\ P.base \subseteq P.live /\ Q.base \subseteq Q.live
      /\ P.saved = p.saved /\ Q.saved = q.saved /\ (P.tran <=> p.tran) /\ (Q.tran <=> q.tran)
  BY <1>1 DEF Agree, Fields
<1>4. ~Implicit(t) => (Q.tran <=> P.tran)
  BY <1>3 DEF Agree
<1>5. Implicit(s) /\ Implicit(t) => P.base = Q.base
  BY <1>1 DEF Agree, Fields
<1>6. /\ ~Implicit(s) /\ ~P.tran => P.base = P.live
      /\ ~Implicit(t) /\ ~Q.tran => Q.base = Q.live
  BY <1>1 DEF Agree, Fields
<1>7. ASSUME P.tran PROVE P.base = Q.base /\ P.base = p.base
  <2>1. P.base = p.base /\ Q.base = q.base
    BY <1>1, <1>3, <1>7 DEF Agree, Fields
  <2>2. QED
    BY <1>3, <1>7, <2>1 DEF Agree
<1>8. /\ t = "postgresql" => P.saved = {} /\ Q.saved = {}
      /\ ~P.tran => P.saved = {}
      /\ \A work \in P.saved : P.base \subseteq work
  BY <1>3, <1>7 DEF Agree
<1>9. QED
  BY <1>2, <1>3, <1>4, <1>5, <1>6, <1>7, <1>8 DEF Agree, m, P, Q

LEMMA BeginsAgree ==
  ASSUME NEW s, NEW t, NEW p, NEW q, NEW n \in Nat, Known(s, t, p, q), Agree(s, t, p, q, n),
         s = "tsql", ~p.tran, Implicit(t) => q.base = q.live
  PROVE  Agree(s, t, Began(p), IF Implicit(t) THEN q ELSE Began(q), n)
<1>1. /\ Fields(Began(p), p.live, p.live, TRUE, p.saved)
      /\ Fields(Began(q), q.live, q.live, TRUE, q.saved)
  BY WorkIs DEF Known
<1>2. ~Implicit(s) /\ p.saved = {}
  BY DEF Implicit, Sections, Agree
<1>3. QED
  BY <1>1, <1>2 DEF Agree, Fields

\* PostgreSQL keeps what it had where the target's COMMIT is dropped.
LEMMA CommitsAgree ==
  ASSUME NEW s, NEW t, NEW p, NEW q, NEW n \in Nat, Known(s, t, p, q), Agree(s, t, p, q, n)
  PROVE  /\ Agree(s, t, Committed(p), Committed(q), n)
         /\ t = "postgresql" /\ ~Implicit(s) => Agree(s, t, Committed(p), q, n)
<1>1. /\ Fields(Committed(p), p.live, p.live, FALSE, {})
      /\ Fields(Committed(q), q.live, q.live, FALSE, {})
  BY WorkIs DEF Known
<1>2. t = "postgresql" => Implicit(t)
  BY DEF Implicit, Sections
<1>3. QED
  BY <1>1, <1>2 DEF Agree, Fields

\* A ROLLBACK outside a transaction has nothing to return from between engines
\* that differ.
LEMMA RollbacksAgree ==
  ASSUME NEW s, NEW t, NEW p, NEW q, NEW n \in Nat, Known(s, t, p, q), Agree(s, t, p, q, n),
         ~p.tran /\ p.live # {} => ~Apart(s, t)
  PROVE  Agree(s, t, RolledBack(p), RolledBack(q), n)
<1>1. /\ Fields(RolledBack(p), p.base, p.base, FALSE, {})
      /\ Fields(RolledBack(q), q.base, q.base, FALSE, {})
  BY WorkIs DEF Known
<1>2. p.base = q.base
  <2>1. CASE p.tran
    BY <2>1 DEF Agree
  <2>2. CASE ~p.tran /\ p.live = {}
    BY <2>2 DEF Agree, Fields
  <2>3. CASE ~p.tran /\ Implicit(s) /\ Implicit(t)
    BY <2>3 DEF Agree, Fields
  <2>4. CASE ~p.tran /\ ~Implicit(s) /\ ~Implicit(t)
    BY <2>4 DEF Agree, Fields
  <2>5. QED
    BY <2>1, <2>2, <2>3, <2>4 DEF Apart, Implicit
<1>3. QED
  BY <1>1, <1>2 DEF Agree, Fields

\* A handler that drops its ROLLBACK on PostgreSQL, whose block is undone anyway.
LEMMA DroppedAgree ==
  ASSUME NEW s, NEW t, NEW p, NEW q, NEW n \in Nat, Known(s, t, p, q), Agree(s, t, p, q, n),
         t = "postgresql", ~Implicit(s), NEW mark, p.base = mark, q.base \subseteq mark
  PROVE  Agree(s, t, RolledBack(p), [q EXCEPT !.live = mark], n)
<1>1. /\ Fields(RolledBack(p), p.base, p.base, FALSE, {})
      /\ Fields([q EXCEPT !.live = mark], mark, q.base, q.tran, q.saved)
  BY WorkIs DEF Known
<1>2. Implicit(t)
  BY DEF Implicit, Sections
<1>3. QED
  BY <1>1, <1>2 DEF Agree, Fields

\* An error that leaves the routine rolls back what each side can.
LEMMA EscapesAgree ==
  ASSUME NEW s, NEW t, NEW p, NEW q, NEW n \in Nat, Known(s, t, p, q), Agree(s, t, p, q, n),
         p.live # {} => ~Apart(s, t)
  PROVE  Agree(s, t, IF Implicit(s) THEN RolledBack(p) ELSE p,
                     IF Implicit(t) THEN RolledBack(q) ELSE q, n)
<1>1. /\ Fields(RolledBack(p), p.base, p.base, FALSE, {})
      /\ Fields(RolledBack(q), q.base, q.base, FALSE, {})
  BY WorkIs DEF Known
<1>2. p.tran => ~Implicit(s)
  BY DEF Known, Implicit, Sections
<1>3. CASE Implicit(s) /\ Implicit(t)
  BY <1>1, <1>2, <1>3 DEF Agree, Fields
<1>4. CASE ~Implicit(s) /\ ~Implicit(t)
  BY <1>4
<1>5. CASE p.live = {} /\ Implicit(s) /\ ~Implicit(t)
  BY <1>1, <1>2, <1>5 DEF Agree, Fields
<1>6. CASE p.live = {} /\ ~Implicit(s) /\ Implicit(t)
  BY <1>1, <1>2, <1>6 DEF Agree, Fields
<1>7. QED
  BY <1>3, <1>4, <1>5, <1>6 DEF Apart, Implicit

\* A savepoint and the return to it.
LEMMA SavepointsAgree ==
  ASSUME NEW s, NEW t, NEW p, NEW q, NEW n \in Nat, Known(s, t, p, q), Agree(s, t, p, q, n),
         p.tran, p.saved = q.saved, t # "postgresql"
  PROVE  /\ Agree(s, t, Marked(p), Marked(q), n)
         /\ p.saved # {} => Agree(s, t, Returned(p), Returned(q), n)
<1>1. /\ Fields(Marked(p), p.live, p.base, p.tran, {p.live})
      /\ Fields(Marked(q), q.live, q.base, q.tran, {q.live})
      /\ Fields(Returned(p), UNION p.saved, p.base, p.tran, p.saved)
      /\ Fields(Returned(q), UNION q.saved, q.base, q.tran, q.saved)
  BY WorkIs DEF Known
<1>2. ~Implicit(s) /\ ~Implicit(t) => q.tran
  BY DEF Agree, Fields
<1>3. Agree(s, t, Marked(p), Marked(q), n)
  BY <1>1 DEF Agree, Fields
<1>4. ASSUME p.saved # {} PROVE Agree(s, t, Returned(p), Returned(q), n)
  <2>1. p.base \subseteq UNION p.saved
    BY <1>4 DEF Agree, Fields
  <2>2. n = 0 => UNION p.saved = {}
    BY DEF Agree, Fields
  <2>3. p.tran /\ p.base = q.base /\ (~Implicit(t) => q.tran)
    BY DEF Agree, Fields
  <2>4. QED
    BY <1>1, <2>1, <2>2, <2>3 DEF Agree, Fields
<1>5. QED
  BY <1>3, <1>4

(***************************************************************************)
(* What an error does to the work.                                         *)
(***************************************************************************)
LEMMA SidesAreKnown ==
  ASSUME TypeInv, BlocksInv, KeepsIdioms
  PROVE  Known(source, target, src, tgt)
<1>1. source \in Engines /\ target \in Engines /\ source # target
  BY PairIsKnown DEF TypeInv, KeepsIdioms
<1>2. QED
  BY <1>1 DEF Known, TypeInv, BlocksInv

\* What a handler, or leaving the routine, takes with it where the pair would
\* get it wrong.
LEMMA WorkHabitsAreKept ==
  ASSUME TypeInv, KeepsIdioms, NEW error, NEW rethrown \in BOOLEAN,
         Allowed(ErrorHabits(error, SourceFate(error, rethrown))
                   \ IF rethrown THEN {"unguarded"} ELSE {})
  PROVE  LET want == SourceFate(error, rethrown)
             i == want.block
             Kept(habit) == habit \notin Lost(source, target)
         IN  /\ want.goes = "out" /\ src.live # {} => Kept("work escapes")
             /\ want.goes = "handler" =>
                  /\ ~blocks[i].rolls /\ src.live # blocks[i].src => Kept("partial work")
                  /\ blocks[i].rolls /\ src.base # blocks[i].src => Kept("earlier work")
                  /\ blocks[i].rolls /\ ~src.tran /\ writes > 0 => Kept("implicit rollback")
<1> DEFINE want == SourceFate(error, rethrown)
           i == want.block
<1>1. \A habit \in ErrorHabits(error, want) \ IF rethrown THEN {"unguarded"} ELSE {} :
        habit \notin Lost(source, target)
  BY LostIsAvoided
<1> HIDE DEF want
<1>2. /\ want.goes = "out" /\ src.live # {} => "work escapes" \in ErrorHabits(error, want)
      /\ want.goes = "handler" =>
           /\ ~blocks[i].rolls /\ src.live # blocks[i].src =>
                "partial work" \in ErrorHabits(error, want)
           /\ blocks[i].rolls /\ src.base # blocks[i].src =>
                "earlier work" \in ErrorHabits(error, want)
           /\ blocks[i].rolls /\ ~src.tran /\ writes > 0 =>
                "implicit rollback" \in ErrorHabits(error, want)
  BY DEF ErrorHabits, Habits
<1>3. QED
  BY <1>1, <1>2 DEF want

\* A ROLLBACK after a handler was entered returns to where it would have.
LEMMA RollbackForgets ==
  ASSUME NEW w \in Works, NEW engine, NEW f, f.goes = "handler", NEW mark
  PROVE  RolledBack(After(engine, w, f, mark)) = RolledBack(w)
<1>1. After(engine, w, f, mark) \in {w, [w EXCEPT !.live = mark]}
  BY DEF After
<1>2. RolledBack([w EXCEPT !.live = mark]) = RolledBack(w)
  BY DEF RolledBack, Works
<1>3. QED
  BY <1>1, <1>2

\* An error that runs no handler.
LEMMA UncaughtKeepsWork ==
  ASSUME TypeInv, BlocksInv, KeepsIdioms, WorkInv, Running,
         NEW error \in Errors, NEW rethrown \in BOOLEAN, Fail(error, rethrown),
         fate'.got = fate'.want, SourceFate(error, rethrown).block = 0
  PROVE  WorkInv'
<1> DEFINE want == SourceFate(error, rethrown)
           i == want.block
<1>1. fate'.want = want /\ fate'.got = want /\ TargetFate(error, rethrown) = want
  BY DEF Fail
<1>2. want.goes # "handler"
  <2>1. blocks \in Seq(Blocks)
    BY DEF TypeInv
  <2>2. QED
    BY <2>1, FateIs DEF SourceFate, Goes, On
<1>3. /\ src' = After(source, src, want, {}) /\ tgt' = After(target, tgt, want, {})
      /\ blocks' = (IF want.goes = "out" THEN <<>> ELSE blocks)
      /\ UNCHANGED <<source, target, writes, loose>>
  BY <1>1, <1>2 DEF Fail
<1>4. want.goes = "out" /\ src.live # {} => "work escapes" \notin Lost(source, target)
  BY WorkHabitsAreKept DEF Fail
<1> HIDE DEF want
<1>5. CASE want.goes # "out"
  <2>1. UNCHANGED <<source, target, writes, loose, src, tgt, blocks>>
    BY <1>2, <1>3, <1>5 DEF After
  <2>2. QED
    BY <1>1, <1>5, <2>1 DEF WorkInv, MarksAgree, Running
<1>6. CASE want.goes = "out"
  <2>1. /\ src' = IF Implicit(source) THEN RolledBack(src) ELSE src
        /\ tgt' = IF Implicit(target) THEN RolledBack(tgt) ELSE tgt
        /\ blocks' = <<>>
    BY <1>2, <1>3, <1>6 DEF After
  <2>2. src.live # {} => ~Apart(source, target)
    BY <1>4, <1>6 DEF Lost, Habits, Apart, Implicit
  <2>3. Known(source, target, src, tgt) /\ writes \in Nat
    BY SidesAreKnown DEF TypeInv
  <2>4. Agree(source, target, src', tgt', writes)
    BY <2>1, <2>2, <2>3, EscapesAgree DEF WorkInv
  <2>5. ASSUME source = "tsql", ~src'.tran, ~loose PROVE tgt'.base = tgt'.live
    <3>1. CASE Implicit(target)
      <4>1. Fields(RolledBack(tgt), tgt.base, tgt.base, FALSE, {})
        BY <2>3, WorkIs DEF Known
      <4>2. QED
        BY <2>1, <3>1, <4>1 DEF Fields
    <3>2. CASE ~Implicit(target)
      BY <2>1, <2>5, <3>2 DEF WorkInv, Implicit, Sections
    <3>3. QED
      BY <3>1, <3>2
  <2>6. ~Running'
    BY <1>1, <1>6 DEF Running
  <2>7. MarksAgree'
    BY <2>1 DEF MarksAgree
  <2>8. QED
    BY <1>3, <2>4, <2>5, <2>6, <2>7 DEF WorkInv
<1>7. QED
  BY <1>5, <1>6

\* An error that runs a handler, in both routines that of the same block.
LEMMA CaughtKeepsWork ==
  ASSUME TypeInv, BlocksInv, KeepsIdioms, WorkInv, Running,
         NEW error \in Errors, NEW rethrown \in BOOLEAN, Fail(error, rethrown),
         fate'.got = fate'.want, SourceFate(error, rethrown).block # 0
  PROVE  WorkInv'
<1> DEFINE want == SourceFate(error, rethrown)
           i == want.block
           mark == blocks[i].src
           s == After(source, src, want, mark)
           t == After(target, tgt, want, mark)
<1>1. fate'.want = want /\ fate'.got = want /\ TargetFate(error, rethrown) = want
  BY DEF Fail
<1>2. i \in DOMAIN blocks /\ want.goes = "handler" /\ blocks \in Seq(Blocks)
  <2>1. blocks \in Seq(Blocks)
    BY DEF TypeInv
  <2>2. QED
    BY <2>1, FateIs DEF SourceFate, Goes
<1>3. blocks[i].tgt = mark /\ (writes = 0 => mark = {}) /\ blocks[i].rolls \in BOOLEAN
  <2>1. blocks[i] \in Blocks
    BY <1>2
  <2>2. blocks[i].tgt = mark /\ (writes = 0 => mark = {})
    BY <1>2 DEF WorkInv, MarksAgree
  <2>3. QED
    BY <2>1, <2>2 DEF Blocks
<1>4. /\ blocks[i].rolls => src' = RolledBack(s) /\ (source = "tsql" => src.tran)
      /\ ~blocks[i].rolls => src' = s /\ tgt' = t
      /\ blocks[i].rolls => tgt' = IF Dropped THEN t ELSE RolledBack(t)
      /\ blocks' = Entered(i, error)
      /\ UNCHANGED <<source, target, writes, loose>>
  BY <1>1, <1>2, <1>3 DEF Fail
<1>5. /\ ~blocks[i].rolls /\ src.live # mark => "partial work" \notin Lost(source, target)
      /\ blocks[i].rolls /\ src.base # mark => "earlier work" \notin Lost(source, target)
      /\ blocks[i].rolls /\ ~src.tran /\ writes > 0 =>
           "implicit rollback" \notin Lost(source, target)
  BY <1>2, WorkHabitsAreKept DEF Fail
<1>6. Known(source, target, src, tgt) /\ writes \in Nat
  BY SidesAreKnown DEF TypeInv
<1>7. Agree(source, target, src, tgt, writes) /\ src.saved = tgt.saved
  BY DEF WorkInv
<1>8. MarksAgree'
  <2>1. \A j \in DOMAIN blocks' : /\ j \in DOMAIN blocks
                                  /\ blocks'[j].src = blocks[j].src
                                  /\ blocks'[j].tgt = blocks[j].tgt
    BY <1>2, <1>4, EnteredIsTyped
  <2>2. QED
    BY <1>4, <2>1 DEF MarksAgree, WorkInv
<1> HIDE DEF want, mark
<1>9. CASE ~blocks[i].rolls
  <2>1. source = "postgresql" \/ target = "postgresql" => src.live = mark
    BY <1>5, <1>9 DEF Lost, Habits
  <2>2. [src EXCEPT !.live = src.live] = src /\ [tgt EXCEPT !.live = tgt.live] = tgt
    BY <1>6 DEF Known, Works
  <2>3. src.live = tgt.live
    BY <1>7 DEF Agree
  <2>4. s = src /\ t = tgt
    BY <1>2, <2>1, <2>2, <2>3 DEF After
  <2>5. QED
    BY <1>4, <1>7, <1>8, <1>9, <2>4 DEF WorkInv
<1>10. CASE blocks[i].rolls
  <2>1. RolledBack(s) = RolledBack(src) /\ RolledBack(t) = RolledBack(tgt)
    BY <1>2, <1>6, RollbackForgets DEF Known
  <2>2. ~src.tran /\ writes > 0 => ~Apart(source, target)
    BY <1>5, <1>10 DEF Lost, Habits, Apart, Implicit
  <2>3. ~src.tran /\ src.live # {} => ~Apart(source, target)
    BY <1>6, <1>7, <2>2 DEF Agree
  <2>4. /\ Fields(RolledBack(src), src.base, src.base, FALSE, {})
        /\ Fields(RolledBack(tgt), tgt.base, tgt.base, FALSE, {})
    BY <1>6, WorkIs DEF Known
  <2>5. src' = RolledBack(src)
    BY <1>4, <1>10, <2>1
  <2>6. CASE ~Dropped
    <3>1. tgt' = RolledBack(tgt)
      BY <1>4, <1>10, <2>1, <2>6
    <3>2. Agree(source, target, src', tgt', writes)
      BY <1>6, <1>7, <2>3, <2>5, <3>1, RollbacksAgree
    <3>3. tgt'.base = tgt'.live /\ src'.saved = tgt'.saved
      BY <2>4, <2>5, <3>1 DEF Fields
    <3>4. QED
      BY <1>4, <1>8, <3>2, <3>3 DEF WorkInv
  <2>7. CASE Dropped
    <3>1. target = "postgresql" /\ ~Implicit(source) /\ Implicit(target)
      BY <2>7 DEF Dropped, KeepsSection, Sections, Implicit
    <3>2. tgt' = [tgt EXCEPT !.live = mark]
      BY <1>2, <1>4, <1>10, <2>7, <3>1 DEF After
    <3>3. src.base = mark /\ tgt.base \subseteq mark /\ (src.tran => tgt.base = mark)
      <4>1. CASE src.tran
        <5>1. source = "tsql"
          BY <1>6, <4>1 DEF Known
        <5>2. "earlier work" \in Lost(source, target)
          BY <3>1, <5>1 DEF Lost, Habits
        <5>3. QED
          BY <1>5, <1>7, <1>10, <4>1, <5>2 DEF Agree
      <4>2. CASE ~src.tran
        <5>1. ~(writes > 0)
          BY <2>2, <3>1, <4>2 DEF Apart
        <5>2. writes = 0
          BY <1>6, <5>1
        <5>3. QED
          BY <1>3, <1>7, <4>2, <5>2 DEF Agree
      <4>3. QED
        BY <4>1, <4>2
    <3>4. Agree(source, target, src', tgt', writes)
      BY <1>6, <1>7, <2>5, <3>1, <3>2, <3>3, DroppedAgree
    <3>5. Fields(tgt', mark, tgt.base, tgt.tran, tgt.saved)
      BY <1>6, <3>2, WorkIs DEF Known
    <3>6. src'.saved = tgt'.saved
      BY <1>7, <2>4, <2>5, <3>1, <3>5 DEF Agree, Fields
    <3>7. source = "tsql" => tgt'.base = tgt'.live
      BY <1>4, <1>10, <3>3, <3>5 DEF Fields
    <3>8. QED
      BY <1>4, <1>8, <3>4, <3>6, <3>7 DEF WorkInv
  <2>8. QED
    BY <2>6, <2>7
<1>11. QED
  BY <1>3, <1>9, <1>10

(***************************************************************************)
(* The other steps.                                                        *)
(***************************************************************************)
LEMMA OpenKeepsWork ==
  ASSUME TypeInv, WorkInv, NEW handlers, NEW rolls, Open(handlers, rolls)
  PROVE  WorkInv'
<1> DEFINE b == [handlers |-> handlers, rolls |-> rolls, in |-> "body", cause |-> None,
                 committed |-> FALSE, src |-> src.live, tgt |-> tgt.live]
<1>1. /\ blocks' = Append(blocks, b) /\ Running
      /\ UNCHANGED <<source, target, writes, loose, src, tgt>>
  BY DEF Open
<1>2. b.src = b.tgt /\ (writes = 0 => b.src = {})
  BY DEF WorkInv, Agree
<1> HIDE DEF b
<1>3. MarksAgree'
  <2>1. blocks \in Seq(Blocks)
    BY DEF TypeInv
  <2>2. \A i \in DOMAIN blocks' : blocks'[i] = b \/ (i \in DOMAIN blocks /\ blocks'[i] = blocks[i])
    BY <1>1, <2>1
  <2>3. QED
    BY <1>1, <1>2, <2>2 DEF MarksAgree, WorkInv
<1>4. QED
  BY <1>1, <1>3 DEF WorkInv

LEMMA CloseKeepsWork ==
  ASSUME TypeInv, WorkInv, Close
  PROVE  WorkInv'
<1>1. /\ blocks' = SubSeq(blocks, 1, Len(blocks) - 1) /\ blocks # <<>> /\ Running
      /\ UNCHANGED <<source, target, writes, loose, src, tgt>>
  BY DEF Close
<1>2. \A i \in DOMAIN blocks' : i \in DOMAIN blocks /\ blocks'[i] = blocks[i]
  BY <1>1 DEF TypeInv
<1>3. QED
  BY <1>1, <1>2 DEF WorkInv, MarksAgree

LEMMA WriteKeepsWork ==
  ASSUME TypeInv, BlocksInv, KeepsIdioms, WorkInv, Write
  PROVE  WorkInv'
<1>1. /\ writes' = writes + 1 /\ writes \in Nat /\ Running
      /\ src' = Wrote(source, src, writes + 1) /\ tgt' = Wrote(target, tgt, writes + 1)
      /\ loose' = (loose \/ ~(Implicit(source) \/ src.tran))
      /\ UNCHANGED <<source, target, blocks>>
  BY DEF Write, TypeInv
<1>2. Known(source, target, src, tgt)
  BY SidesAreKnown
<1>3. Agree(source, target, src', tgt', writes')
  BY <1>1, <1>2, WritesAgree DEF WorkInv
<1>4. (src'.tran <=> src.tran) /\ src'.saved = src.saved /\ tgt'.saved = tgt.saved
  <2> DEFINE Based(engine, w) ==
               IF Implicit(engine) \/ w.tran THEN w.base ELSE w.base \cup {writes + 1}
  <2>1. /\ Fields(src', src.live \cup {writes + 1}, Based(source, src), src.tran, src.saved)
        /\ Fields(tgt', tgt.live \cup {writes + 1}, Based(target, tgt), tgt.tran, tgt.saved)
    BY <1>1, <1>2, WorkIs DEF Known
  <2> HIDE DEF Based
  <2>2. QED
    BY <2>1 DEF Fields
<1>5. source = "tsql" /\ ~src'.tran => loose'
  BY <1>1, <1>4 DEF Implicit, Sections
<1>6. MarksAgree'
  BY <1>1 DEF MarksAgree, WorkInv
<1>7. QED
  BY <1>1, <1>3, <1>4, <1>5, <1>6 DEF WorkInv

\* T-SQL begins a transaction where the target's began, for a routine that left
\* no work before it.
LEMMA BeginKeepsWork ==
  ASSUME TypeInv, BlocksInv, KeepsIdioms, WorkInv, Begin
  PROVE  WorkInv'
<1>1. /\ source = "tsql" /\ ~src.tran /\ Running /\ (loose => Allowed({"late begin"}))
      /\ src' = Began(src) /\ tgt' = IF Implicit(target) THEN tgt ELSE Began(tgt)
      /\ UNCHANGED <<source, target, blocks, writes, loose>>
  BY DEF Begin, TargetBegan
<1>2. Known(source, target, src, tgt) /\ writes \in Nat
  BY SidesAreKnown DEF TypeInv
<1>3. Implicit(target) => tgt.base = tgt.live
  <2>1. Implicit(target) => "late begin" \in Lost(source, target)
    BY <1>1 DEF Lost, Habits, Implicit
  <2>2. Implicit(target) => ~loose
    BY <1>1, <2>1, LostIsAvoided
  <2>3. QED
    BY <1>1, <2>2 DEF WorkInv
<1>4. Agree(source, target, src', tgt', writes)
  <2>1. Agree(source, target, Began(src), IF Implicit(target) THEN tgt ELSE Began(tgt), writes)
    BY <1>1, <1>2, <1>3, BeginsAgree DEF WorkInv
  <2>2. QED
    BY <1>1, <2>1
<1>5. src'.tran /\ src'.saved = src.saved /\ tgt'.saved = tgt.saved
  <2>1. /\ Fields(Began(src), src.live, src.live, TRUE, src.saved)
        /\ Fields(Began(tgt), tgt.live, tgt.live, TRUE, tgt.saved)
    BY <1>2, WorkIs DEF Known
  <2>2. QED
    BY <1>1, <2>1 DEF Fields
<1>6. MarksAgree'
  BY <1>1 DEF MarksAgree, WorkInv
<1>7. QED
  BY <1>1, <1>4, <1>5, <1>6 DEF WorkInv

LEMMA CommitKeepsWork ==
  ASSUME TypeInv, BlocksInv, KeepsIdioms, WorkInv, Commit
  PROVE  WorkInv'
<1>1. /\ blocks' = [i \in DOMAIN blocks |-> [blocks[i] EXCEPT !.committed = TRUE]]
      /\ CanEnd /\ (blocks # <<>> => Allowed({"commit in block"}))
      /\ src' = Committed(src) /\ loose' = (blocks # <<>>)
      /\ tgt' = IF Dropped \/ Fails(target, tgt) THEN tgt ELSE Committed(tgt)
      /\ UNCHANGED <<source, target, writes>>
  BY DEF Commit, Ended
<1>2. Known(source, target, src, tgt) /\ writes \in Nat
  BY SidesAreKnown DEF TypeInv
<1>3. tgt' = IF Dropped THEN tgt ELSE Committed(tgt)
  BY <1>1, EndsWithoutError
<1>4. Dropped => target = "postgresql" /\ ~Implicit(source) /\ blocks # <<>>
  BY DEF Dropped, KeepsSection, Sections, Implicit
<1>5. Agree(source, target, src', tgt', writes)
  BY <1>1, <1>2, <1>3, <1>4, CommitsAgree DEF WorkInv
<1>6. /\ Fields(src', src.live, src.live, FALSE, {})
      /\ ~Dropped => Fields(tgt', tgt.live, tgt.live, FALSE, {})
  BY <1>1, <1>2, <1>3, WorkIs DEF Known
<1>7. src'.saved = tgt'.saved
  BY <1>3, <1>4, <1>6 DEF Fields, WorkInv, Agree
<1>8. ~loose' => tgt'.base = tgt'.live
  BY <1>1, <1>4, <1>6 DEF Fields
<1>9. MarksAgree'
  <2>1. \A b \in Blocks : /\ [b EXCEPT !.committed = TRUE].src = b.src
                          /\ [b EXCEPT !.committed = TRUE].tgt = b.tgt
    BY DEF Blocks
  <2>2. \A i \in DOMAIN blocks : blocks[i] \in Blocks
    BY DEF TypeInv
  <2>3. \A i \in DOMAIN blocks' : /\ i \in DOMAIN blocks
                                  /\ blocks'[i].src = blocks[i].src
                                  /\ blocks'[i].tgt = blocks[i].tgt
    BY <1>1, <2>1, <2>2
  <2>4. QED
    BY <1>1, <2>3 DEF MarksAgree, WorkInv
<1>10. QED
  BY <1>1, <1>5, <1>7, <1>8, <1>9 DEF WorkInv

LEMMA RollbackKeepsWork ==
  ASSUME TypeInv, BlocksInv, KeepsIdioms, WorkInv, Rollback
  PROVE  WorkInv'
<1>1. /\ CanEnd /\ (blocks # <<>> => Allowed({"rollback in block"}))
      /\ ~src.tran /\ src.live # {} => Allowed({"implicit rollback"})
      /\ src' = RolledBack(src)
      /\ tgt' = IF Dropped \/ Fails(target, tgt) THEN tgt ELSE RolledBack(tgt)
      /\ UNCHANGED <<source, target, blocks, writes, loose>>
  BY DEF Rollback, Ended
<1>2. Known(source, target, src, tgt) /\ writes \in Nat
  BY SidesAreKnown DEF TypeInv
<1>3. ~Dropped
  <2>1. SUFFICES ASSUME Dropped PROVE FALSE
    OBVIOUS
  <2>2. "rollback in block" \in Lost(source, target)
    BY <2>1 DEF Dropped, Lost, Habits
  <2>3. QED
    BY <1>1, <2>1, <2>2, LostIsAvoided DEF Dropped
<1>4. tgt' = RolledBack(tgt)
  BY <1>1, <1>3, EndsWithoutError
<1>5. ~src.tran /\ src.live # {} => ~Apart(source, target)
  <2>1. Apart(source, target) => "implicit rollback" \in Lost(source, target)
    BY DEF Apart, Implicit, Lost, Habits
  <2>2. QED
    BY <1>1, <2>1, LostIsAvoided
<1>6. Agree(source, target, src', tgt', writes)
  BY <1>1, <1>2, <1>4, <1>5, RollbacksAgree DEF WorkInv
<1>7. tgt'.base = tgt'.live /\ src'.saved = tgt'.saved
  <2>1. /\ Fields(src', src.base, src.base, FALSE, {})
        /\ Fields(tgt', tgt.base, tgt.base, FALSE, {})
    BY <1>1, <1>2, <1>4, WorkIs DEF Known
  <2>2. QED
    BY <2>1 DEF Fields
<1>8. MarksAgree'
  BY <1>1 DEF MarksAgree, WorkInv
<1>9. QED
  BY <1>1, <1>6, <1>7, <1>8 DEF WorkInv

\* Savepoints are kept from T-SQL, in a transaction, elsewhere than on PostgreSQL.
LEMMA SavepointKeepsWork ==
  ASSUME TypeInv, BlocksInv, KeepsIdioms, WorkInv, Save \/ RollbackToSave
  PROVE  WorkInv'
<1>1. /\ Running /\ (source = "oracle" \/ (source = "tsql" /\ src.tran))
      /\ Allowed({"savepoint"})
      /\ UNCHANGED <<source, target, blocks, writes, loose>>
  BY DEF Save, RollbackToSave, CanSave
<1>2. Known(source, target, src, tgt) /\ writes \in Nat
  BY SidesAreKnown DEF TypeInv
<1>3. src.tran /\ target # "postgresql"
  <2>1. "savepoint" \notin Lost(source, target)
    BY <1>1, LostIsAvoided
  <2>2. target # "postgresql" /\ ~(source \in Sections /\ target \notin Sections)
    BY <2>1 DEF Lost, Habits
  <2>3. source # "oracle"
    BY <1>2, <2>2 DEF Sections, Known, Engines
  <2>4. QED
    BY <1>1, <2>2, <2>3
<1>4. src.saved = tgt.saved /\ Agree(source, target, src, tgt, writes)
  BY <1>1 DEF WorkInv
<1>5. /\ Fields(Marked(src), src.live, src.base, src.tran, {src.live})
      /\ Fields(Marked(tgt), tgt.live, tgt.base, tgt.tran, {tgt.live})
      /\ Fields(Returned(src), UNION src.saved, src.base, src.tran, src.saved)
      /\ Fields(Returned(tgt), UNION tgt.saved, tgt.base, tgt.tran, tgt.saved)
  BY <1>2, WorkIs DEF Known
<1>6. \/ src' = Marked(src) /\ tgt' = Marked(tgt)
      \/ src' = Returned(src) /\ tgt' = Returned(tgt) /\ src.saved # {}
  BY <1>3 DEF Save, RollbackToSave, Saves
<1>7. Agree(source, target, src', tgt', writes)
  BY <1>2, <1>3, <1>4, <1>6, SavepointsAgree
<1>8. src'.tran /\ src'.saved = tgt'.saved
  BY <1>3, <1>4, <1>5, <1>6 DEF Fields, Agree
<1>9. MarksAgree'
  BY <1>1 DEF MarksAgree, WorkInv
<1>10. QED
  BY <1>1, <1>7, <1>8, <1>9 DEF WorkInv

LEMMA StepKeepsWork ==
  ASSUME KeepsIdioms
  PROVE  TypeInv /\ BlocksInv /\ WorkInv /\ [Next]_vars => WorkInv'
<1> SUFFICES ASSUME TypeInv, BlocksInv, WorkInv, [Next]_vars PROVE WorkInv'
  OBVIOUS
<1>1. ASSUME NEW error \in Errors, NEW rethrown \in BOOLEAN, Running, Fail(error, rethrown),
             error = "warning" => source = "mysql",
             rethrown => blocks # <<>> /\ blocks[Len(blocks)].in = "handler"
      PROVE  WorkInv'
  <2>1. fate'.got = fate'.want
    BY <1>1, FateAsWritten
  <2>2. QED
    BY <1>1, <2>1, UncaughtKeepsWork, CaughtKeepsWork
<1>2. ASSUME NEW handlers \in HandlersOf(source), NEW rolls \in BOOLEAN, Open(handlers, rolls)
      PROVE  WorkInv'
  BY <1>2, OpenKeepsWork
<1>3. CASE Close
  BY <1>3, CloseKeepsWork
<1>4. CASE Write
  BY <1>4, WriteKeepsWork
<1>5. ASSUME NEW error \in Errors, Raise(error) PROVE WorkInv'
  BY <1>1, <1>5 DEF Raise
<1>6. CASE Rethrow
  <2>1. /\ Running /\ blocks # <<>> /\ blocks[Len(blocks)].in = "handler"
        /\ blocks[Len(blocks)].cause \in Errors /\ blocks[Len(blocks)].cause # "warning"
        /\ Fail(blocks[Len(blocks)].cause, TRUE)
    BY <1>6 DEF Rethrow, Exceptions, Errors
  <2>2. QED
    BY <1>1, <2>1
<1>7. CASE Begin
  BY <1>7, BeginKeepsWork
<1>8. CASE Commit
  BY <1>8, CommitKeepsWork
<1>9. CASE Rollback
  BY <1>9, RollbackKeepsWork
<1>10. CASE Save \/ RollbackToSave
  BY <1>10, SavepointKeepsWork
<1>11. CASE UNCHANGED vars
  BY <1>11 DEF vars, WorkInv, MarksAgree, Running
<1>12. QED
  BY <1>2, <1>3, <1>4, <1>5, <1>6, <1>7, <1>8, <1>9, <1>10, <1>11 DEF Next

LEMMA InitHoldsWork == Init => WorkInv
<1> SUFFICES ASSUME Init PROVE WorkInv
  OBVIOUS
<1>1. blocks = <<>> /\ writes = 0 /\ src = NoWork /\ tgt = NoWork
  BY DEF Init
<1>2. NoWork.live = {} /\ NoWork.base = {} /\ NoWork.tran = FALSE /\ NoWork.saved = {}
  BY DEF NoWork
<1>3. MarksAgree
  <2>1. blocks = <<>> => DOMAIN blocks = {}
    OBVIOUS
  <2>2. QED
    BY <1>1, <2>1 DEF MarksAgree
<1>4. Agree(source, target, src, tgt, writes)
  BY <1>1, <1>2 DEF Agree
<1>5. QED
  BY <1>1, <1>2, <1>3, <1>4 DEF WorkInv

\* Whatever a routine writes, commits, rolls back or loses to an error, in
\* blocks nested to any depth, the emitted routine has done the same work.
THEOREM WorkIsKept ==
  ASSUME KeepsIdioms
  PROVE  Spec => []WorkKept
<1>1. TypeInv /\ BlocksInv /\ WorkInv /\ [Next]_vars => WorkInv'
  BY StepKeepsWork
<1>2. WorkInv => WorkKept
  BY DEF WorkInv, Agree, WorkKept
<1>3. QED
  BY <1>1, <1>2, InitHolds, InitHoldsWork, StepKeeps, PTL DEF Spec
=============================================================================
