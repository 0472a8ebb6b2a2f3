-------------------------- MODULE LoopLabels_proofs --------------------------
(***************************************************************************)
(* Jumps do in the emitted routine what they do in the source's, for       *)
(* routines nested to any depth, with any number of loops and labels, as   *)
(* long as they keep to the habits of KeptHabits.                          *)
(***************************************************************************)
EXTENDS LoopLabels, NaturalsInduction, WellFoundedInduction, TLAPS

\* Routines do what the emission keeps right, and no more.
KeepsIdioms == \A p \in Pairs : Idioms[p] \subseteq KeptHabits(p.source, p.target)

(***************************************************************************)
(* Types.                                                                  *)
(***************************************************************************)
Named == Names \cup {None}
Labels == [name : Named, n : Int]
Frames == [kind : Kinds, name : Named, label : Labels, control : BOOLEAN, shown : BOOLEAN]
Entries == [source : Named, label : Labels]

TypeInv ==
    /\ Pair \in Pairs
    /\ nest \in Seq(Frames)
    /\ stack \in Seq(Entries)
    /\ counter \in Nat

(***************************************************************************)
(* The invariants.  A frame has the label its kind asks for; no two frames *)
(* have one name, except a cursor loop where its variable labels nothing,  *)
(* and made-up labels count up; the stack holds the labelled frames.       *)
(***************************************************************************)
FrameInv(f, c, t) ==
    /\ f.control => f.kind = "while" /\ t = "mysql"
    /\ f.kind = "rows" => f.name # None
    /\ f.kind = "loop" /\ f.name # None /\ t # "tsql" => f.label = Written(f.name)
    /\ \/ f.label = NoLabel /\ ~(t = "mysql" /\ f.kind = "loop") /\ ~f.control
       \/ f.label = Written(f.name) /\ f.name # None /\ f.kind = "loop"
       \/ f.label = RowLabel(f.name) /\ f.name # None /\ f.kind = "rows" /\ t = "mysql"
       \/ f.label.name = None /\ f.label.n \in 1 .. c

ApartInv(f, g, t) ==
    /\ f.name = g.name /\ g.name # None => g.kind = "rows" /\ t # "mysql"
    /\ f.label.name = None /\ g.label.name = None /\ f.label.n > 0 /\ g.label.n > 0 =>
         f.label.n < g.label.n

FramesInv(frames, c, t) ==
    /\ \A i \in DOMAIN frames : FrameInv(frames[i], c, t)
    /\ \A i, j \in DOMAIN frames : i < j => ApartInv(frames[i], frames[j], t)

NestInv == FramesInv(nest, counter, target)

\* A frame an entry of the stack is kept for.
Bears(f, t) == t = "mysql" /\ (f.kind = "loop" \/ (f.kind = "while" /\ f.control))

\* at says which frame an entry of the stack belongs to.
Holds(at, frames, entries, t) ==
    /\ \A k, l \in DOMAIN entries : k < l => at[k] < at[l]
    /\ \A i \in DOMAIN frames : Bears(frames[i], t) => \E k \in DOMAIN entries : at[k] = i
    /\ \A k \in DOMAIN entries :
         /\ Bears(frames[at[k]], t)
         /\ entries[k].label = frames[at[k]].label
         /\ entries[k].source = SourceLabel(frames[at[k]].kind, frames[at[k]].name)

EntriesInv(frames, entries, t) ==
    \E at \in [DOMAIN entries -> DOMAIN frames] : Holds(at, frames, entries, t)

StackInv == EntriesInv(nest, stack, target)

(***************************************************************************)
(* The greatest of a set of positions.                                     *)
(***************************************************************************)
LEMMA SomeGreatest ==
  ASSUME NEW n \in Nat, NEW S \in SUBSET (1 .. n), S # {}
  PROVE  \E i \in S : \A j \in S : j <= i
<1> DEFINE R == {ss \in Nat \X Nat : ss[1] < ss[2]}
           T == {x \in Nat : n - x \in S}
<1>1. T \subseteq Nat /\ T # {}
  <2>1. PICK i \in S : TRUE
    OBVIOUS
  <2>2. i \in 1 .. n /\ n - i \in Nat /\ n - (n - i) = i
    BY <2>1
  <2>3. QED
    BY <2>2
<1>2. PICK x \in T : \A y \in T : ~(<<y, x>> \in R)
  <2> HIDE DEF T, R
  <2>1. IsWellFoundedOn(R, Nat)
    BY NatLessThanWellFounded DEF OpToRel, R
  <2>2. QED
    BY <1>1, <2>1, WFMin
<1>3. x \in Nat /\ \A y \in T : ~(y < x)
  BY <1>1, <1>2
<1>4. ASSUME NEW j \in S PROVE j <= n - x
  <2>1. j \in 1 .. n /\ n - j \in Nat /\ n - (n - j) = j
    BY <1>4
  <2>2. n - j \in T
    BY <2>1
  <2>3. ~(n - j < x)
    BY <1>3, <2>2
  <2>4. QED
    BY <1>3, <2>1, <2>3
<1>5. QED
  BY <1>4

LEMMA GreatestIsIn ==
  ASSUME NEW n \in Nat, NEW S \in SUBSET (1 .. n), Greatest(S) # 0
  PROVE  Greatest(S) \in S /\ \A j \in S : j <= Greatest(S)
<1>1. S # {}
  BY DEF Greatest
<1>2. \E i \in S : \A j \in S : j <= i
  BY <1>1, SomeGreatest
<1>3. QED
  BY <1>1, <1>2 DEF Greatest

LEMMA GreatestIs ==
  ASSUME NEW n \in Nat, NEW S \in SUBSET (1 .. n), NEW i \in S, \A j \in S : j <= i
  PROVE  Greatest(S) = i
<1>1. Greatest(S) \in S /\ \A j \in S : j <= Greatest(S)
  BY DEF Greatest
<1>2. i <= Greatest(S) /\ Greatest(S) <= i
  BY <1>1
<1>3. i \in 1 .. n /\ Greatest(S) \in 1 .. n
  BY <1>1
<1>4. QED
  BY <1>2, <1>3

(***************************************************************************)
(* Types.                                                                  *)
(***************************************************************************)
LEMMA PairIsKnown ==
  ASSUME Pair \in Pairs
  PROVE  source \in Engines /\ target \in Engines /\ Pair.source = source /\ Pair.target = target
BY PairsAssumption DEF Pair

LEMMA InitIsTyped == Init => TypeInv
<1> SUFFICES ASSUME Init PROVE TypeInv
  OBVIOUS
<1>1. PICK p \in Pairs : source = p.source /\ target = p.target
  BY DEF Init
<1>2. p = [source |-> p.source, target |-> p.target]
  BY <1>1, PairsAssumption
<1>3. QED
  BY <1>1, <1>2 DEF Init, TypeInv, Pair

LEMMA LabelsAreTyped ==
  ASSUME TypeInv, NEW kind \in Kinds, NEW name \in Named, NEW control
  PROVE  Label(kind, name, control) \in Labels /\ SourceLabel(kind, name) \in Named
BY DEF Label, SourceLabel, Labels, Named, TypeInv, Written, Numbered, RowLabel, NoLabel

\* A jump shows in a frame, and changes nothing else of the nest.
LEMMA JumpKeepsFrames ==
  ASSUME TypeInv, NEW form, NEW name, NEW when, Emit(form, name, when)
  PROVE  /\ nest' \in Seq(Frames) /\ Len(nest') = Len(nest)
         /\ \A i \in DOMAIN nest : /\ nest'[i].kind = nest[i].kind
                                  /\ nest'[i].name = nest[i].name
                                  /\ nest'[i].label = nest[i].label
                                  /\ nest'[i].control = nest[i].control
<1>1. nest \in Seq(Frames)
  BY DEF TypeInv
<1>2. CASE nest' = nest
  BY <1>1, <1>2
<1>3. CASE nest' = [nest EXCEPT ![SourceLoop].shown = TRUE]
  <2> DEFINE s == SourceLoop
  <2>0. nest' = [nest EXCEPT ![s].shown = TRUE]
    BY <1>3
  <2> HIDE DEF s
  <2>1. nest \in [1 .. Len(nest) -> Frames] /\ Len(nest) \in Nat
    BY <1>1
  <2>2. s \in 1 .. Len(nest) => [nest[s] EXCEPT !.shown = TRUE] \in Frames
    BY <2>1 DEF Frames
  <2>3. nest' \in [1 .. Len(nest) -> Frames]
    BY <2>0, <2>1, <2>2
  <2>4. nest' \in Seq(Frames) /\ Len(nest') = Len(nest)
    BY <2>1, <2>3
  <2>5. ASSUME NEW i \in DOMAIN nest
        PROVE  nest'[i] = IF i = s THEN [nest[i] EXCEPT !.shown = TRUE] ELSE nest[i]
    BY <2>0
  <2>6. QED
    BY <2>1, <2>4, <2>5 DEF Frames
<1>4. QED
  BY <1>2, <1>3 DEF Emit

LEMMA StepKeepsType == TypeInv /\ [Next]_vars => TypeInv'
<1> SUFFICES ASSUME TypeInv, [Next]_vars PROVE TypeInv'
  OBVIOUS
<1> USE DEF TypeInv, Pair
<1>1. ASSUME NEW kind \in Parsed(source), NEW control \in BOOLEAN, NEW name \in NamesOf(kind),
             Open(kind, name, control)
      PROVE  TypeInv'
  <2>1. kind \in Kinds /\ name \in Named
    BY <1>1, PairIsKnown DEF Parsed, Kinds, Loops, NamesOf, Named, Engines
  <2> DEFINE label == Label(kind, name, control)
             entry == [source |-> SourceLabel(kind, name), label |-> label]
             frame == [kind |-> kind, name |-> name, label |-> label,
                       control |-> control, shown |-> FALSE]
  <2>2. label \in Labels /\ SourceLabel(kind, name) \in Named
    BY <2>1, LabelsAreTyped
  <2>3. entry \in Entries /\ frame \in Frames
    BY <2>1, <2>2 DEF Entries, Frames
  <2>4. /\ nest' = Append(nest, frame)
        /\ stack' = IF Labelled(kind, control) THEN Append(stack, entry) ELSE stack
        /\ counter' \in {counter, counter + 1}
        /\ UNCHANGED <<source, target>>
    BY <1>1 DEF Open
  <2>5. QED
    BY <2>3, <2>4
<1>2. CASE Close
  <2>1. nest' \in Seq(Frames)
    BY <1>2 DEF Close
  <2>2. stack' \in Seq(Entries)
    BY <1>2 DEF Close, Popped
  <2>3. QED
    BY <1>2, <2>1, <2>2 DEF Close
<1>3. ASSUME NEW form, NEW name, NEW when, Emit(form, name, when)
      PROVE  TypeInv'
  BY <1>3, JumpKeepsFrames DEF Emit
<1>4. CASE UNCHANGED vars
  BY <1>4 DEF vars
<1>5. QED
  BY <1>1, <1>2, <1>3, <1>4 DEF Next, Exit, Continue

(***************************************************************************)
(* Labels.                                                                 *)
(***************************************************************************)
LEMMA HabitsOfPair ==
  ASSUME KeepsIdioms, TypeInv
  PROVE  Idioms[Pair] \subseteq KeptHabits(source, target)
BY PairIsKnown DEF KeepsIdioms, TypeInv

\* What holds of every frame holds of a part of them.
LEMMA FewerFramesKeep ==
  ASSUME NEW s \in Seq(Frames), NEW r \in Seq(Frames), NEW c, NEW t,
         FramesInv(s, c, t), Len(r) <= Len(s),
         \A i \in DOMAIN r : /\ r[i].kind = s[i].kind
                            /\ r[i].name = s[i].name
                            /\ r[i].label = s[i].label
                            /\ r[i].control = s[i].control
  PROVE  FramesInv(r, c, t)
<1>1. DOMAIN r \subseteq DOMAIN s
  OBVIOUS
<1>2. ASSUME NEW i \in DOMAIN r PROVE FrameInv(r[i], c, t)
  <2>1. FrameInv(s[i], c, t)
    BY <1>1 DEF FramesInv
  <2>2. QED
    BY <2>1 DEF FrameInv
<1>3. ASSUME NEW i \in DOMAIN r, NEW j \in DOMAIN r, i < j
      PROVE  ApartInv(r[i], r[j], t)
  <2>1. ApartInv(s[i], s[j], t)
    BY <1>1, <1>3 DEF FramesInv
  <2>2. QED
    BY <2>1 DEF ApartInv
<1>4. QED
  BY <1>2, <1>3 DEF FramesInv

\* One more frame, apart from those around it, keeps what held of them.
LEMMA OneMoreFrameKeeps ==
  ASSUME NEW s \in Seq(Frames), NEW f \in Frames, NEW c \in Nat, NEW d \in Nat, NEW t,
         FramesInv(s, c, t), c <= d, FrameInv(f, d, t),
         \A i \in DOMAIN s : ApartInv(s[i], f, t)
  PROVE  FramesInv(Append(s, f), d, t)
<1> DEFINE r == Append(s, f)
<1>1. /\ DOMAIN r = 1 .. Len(s) + 1 /\ Len(s) \in Nat
      /\ \A i \in DOMAIN s : r[i] = s[i]
      /\ r[Len(s) + 1] = f
      /\ DOMAIN s = 1 .. Len(s)
  OBVIOUS
<1> HIDE DEF r
<1>2. ASSUME NEW i \in DOMAIN r PROVE FrameInv(r[i], d, t)
  <2>1. CASE i \in DOMAIN s
    <3>1. FrameInv(s[i], c, t) /\ s[i] \in Frames
      BY <2>1 DEF FramesInv
    <3>2. s[i].label.n \in Int
      BY <3>1 DEF Frames, Labels
    <3>3. QED
      BY <1>1, <2>1, <3>1, <3>2 DEF FrameInv
  <2>2. CASE i = Len(s) + 1
    BY <1>1, <2>2
  <2>3. QED
    BY <1>1, <2>1, <2>2
<1>3. ASSUME NEW i \in DOMAIN r, NEW j \in DOMAIN r, i < j
      PROVE  ApartInv(r[i], r[j], t)
  <2>1. i \in DOMAIN s
    BY <1>1, <1>3
  <2>2. CASE j \in DOMAIN s
    BY <1>1, <1>3, <2>1, <2>2 DEF FramesInv
  <2>3. CASE j = Len(s) + 1
    BY <1>1, <2>1, <2>3
  <2>4. QED
    BY <1>1, <2>2, <2>3
<1>4. QED
  BY <1>2, <1>3 DEF FramesInv, r

\* The frame a construct opens with has the label its kind asks for.
LEMMA OpenedFrameHolds ==
  ASSUME TypeInv, NEW kind \in Kinds, NEW name \in Named, NEW control \in BOOLEAN,
         NEW c \in Nat, NEW f \in Frames,
         kind = "rows" => name # None, control => kind = "while" /\ target = "mysql",
         f.kind = kind, f.name = name, f.control = control,
         f.label = Label(kind, name, control),
         Labelled(kind, control) /\ SourceLabel(kind, name) = None => c = counter + 1
  PROVE  FrameInv(f, c, target)
<1>1. target \in Engines
  BY PairIsKnown DEF TypeInv
<1>2. CASE Labelled(kind, control)
  <2>1. target = "mysql" /\ (kind = "loop" \/ (kind = "while" /\ control))
    BY <1>2 DEF Labelled
  <2>2. CASE SourceLabel(kind, name) # None
    <3>1. kind = "loop" /\ name # None /\ f.label = Written(name)
      BY <1>2, <2>2 DEF SourceLabel, Label
    <3>2. QED
      BY <3>1 DEF FrameInv
  <2>3. CASE SourceLabel(kind, name) = None
    <3>1. f.label = Numbered(counter + 1) /\ c = counter + 1
      BY <1>2, <2>1, <2>3 DEF Label, Labelled
    <3>2. f.label.name = None /\ f.label.n \in 1 .. c
      BY <3>1 DEF Numbered, TypeInv
    <3>3. ~(kind = "loop" /\ name # None)
      BY <2>3 DEF SourceLabel
    <3>4. QED
      BY <3>2, <3>3 DEF FrameInv
  <2>4. QED
    BY <2>2, <2>3
<1>3. CASE ~Labelled(kind, control) /\ target = "mysql" /\ kind = "rows"
  <2>1. f.label = RowLabel(name)
    BY <1>3 DEF Label
  <2>2. QED
    BY <1>3, <2>1 DEF FrameInv
<1>4. CASE /\ ~Labelled(kind, control) /\ ~(target = "mysql" /\ kind = "rows")
           /\ target \in {"oracle", "postgresql"} /\ SourceLabel(kind, name) # None
  <2>1. f.label = Written(name) /\ kind = "loop" /\ name # None
    BY <1>4 DEF Label, SourceLabel
  <2>2. QED
    BY <2>1 DEF FrameInv
<1>5. CASE /\ ~Labelled(kind, control) /\ ~(target = "mysql" /\ kind = "rows")
           /\ ~(target \in {"oracle", "postgresql"} /\ SourceLabel(kind, name) # None)
  <2>1. f.label = NoLabel
    BY <1>5 DEF Label
  <2>2. kind = "loop" /\ name # None => target = "tsql"
    BY <1>1, <1>5 DEF SourceLabel, Labelled, Engines
  <2>3. ~(target = "mysql" /\ kind = "loop") /\ ~control
    BY <1>5 DEF Labelled
  <2>4. QED
    BY <2>1, <2>2, <2>3 DEF FrameInv
<1>6. QED
  BY <1>2, <1>3, <1>4, <1>5

LEMMA OpenKeepsNest ==
  ASSUME KeepsIdioms, TypeInv, NestInv,
         NEW kind \in Parsed(source), NEW control \in BOOLEAN, NEW name \in NamesOf(kind),
         Open(kind, name, control)
  PROVE  NestInv'
<1>1. kind \in Kinds /\ name \in Named /\ (kind = "rows" => name # None)
  BY PairIsKnown, NoneAssumption DEF TypeInv, Parsed, Kinds, Loops, NamesOf, Named, Engines
<1>2. PICK f \in Frames : /\ nest' = Append(nest, f)
                         /\ f.kind = kind /\ f.name = name /\ f.control = control
                         /\ f.label = Label(kind, name, control)
  <2> DEFINE frame == [kind |-> kind, name |-> name, label |-> Label(kind, name, control),
                       control |-> control, shown |-> FALSE]
  <2>1. nest' = Append(nest, frame)
    BY DEF Open
  <2>2. frame \in Frames
    BY <1>1, LabelsAreTyped DEF Frames
  <2>3. QED
    BY <2>1, <2>2
<1>3. PICK c \in Nat : /\ counter' = c /\ counter <= c
                      /\ c = IF Labelled(kind, control) /\ SourceLabel(kind, name) = None
                             THEN counter + 1 ELSE counter
  <2>1. counter' = IF Labelled(kind, control) /\ SourceLabel(kind, name) = None
                   THEN counter + 1 ELSE counter
    BY DEF Open
  <2>2. counter' \in Nat /\ counter <= counter'
    BY <2>1 DEF TypeInv
  <2>3. QED
    BY <2>1, <2>2
<1>4. /\ target' = target
      /\ control => kind = "while" /\ target = "mysql"
      /\ name # None => \A i \in DOMAIN nest :
           nest[i].name = name => kind = "rows" /\ "same variable" \in Idioms[Pair]
  BY DEF Open
<1>5. nest \in Seq(Frames) /\ counter \in Nat
  BY DEF TypeInv
<1>6. FrameInv(f, c, target)
  BY <1>1, <1>2, <1>3, <1>4, OpenedFrameHolds
<1>7. ASSUME NEW i \in DOMAIN nest PROVE ApartInv(nest[i], f, target)
  <2>0. FrameInv(nest[i], counter, target) /\ nest[i] \in Frames
    BY <1>5 DEF NestInv, FramesInv
  <2>1. nest[i].name = name /\ name # None => kind = "rows" /\ target # "mysql"
    BY <1>4, HabitsOfPair DEF KeptHabits
  <2>2. ASSUME nest[i].label.name = None, f.label.name = None, nest[i].label.n > 0, f.label.n > 0
        PROVE  nest[i].label.n < f.label.n
    <3>1. nest[i].label.n <= counter
      BY <1>5, <2>0, <2>2 DEF FrameInv, NoLabel, Numbered, Written, RowLabel
    <3>2. f.label = Numbered(counter + 1)
      BY <1>1, <1>2, <2>2, NoneAssumption
         DEF Label, SourceLabel, Numbered, Written, RowLabel, NoLabel
    <3>3. nest[i].label.n \in Int
      BY <2>0 DEF Frames, Labels
    <3>4. QED
      BY <1>5, <3>1, <3>2, <3>3 DEF Numbered
  <2>3. QED
    BY <1>2, <2>1, <2>2 DEF ApartInv
<1>8. FramesInv(Append(nest, f), c, target)
  BY <1>3, <1>5, <1>6, <1>7, OneMoreFrameKeeps DEF NestInv
<1>9. QED
  BY <1>2, <1>3, <1>4, <1>8 DEF NestInv

LEMMA StepKeepsNest ==
  ASSUME KeepsIdioms
  PROVE  TypeInv /\ NestInv /\ [Next]_vars => NestInv'
<1> SUFFICES ASSUME TypeInv, NestInv, [Next]_vars PROVE NestInv'
  OBVIOUS
<1>0. nest \in Seq(Frames) /\ counter \in Nat
  BY DEF TypeInv
<1>1. ASSUME NEW kind \in Parsed(source), NEW control \in BOOLEAN, NEW name \in NamesOf(kind),
             Open(kind, name, control)
      PROVE  NestInv'
  BY <1>1, OpenKeepsNest
<1>2. CASE Close
  <2>1. nest' = SubSeq(nest, 1, Len(nest) - 1) /\ counter' = counter /\ target' = target
        /\ nest # <<>>
    BY <1>2 DEF Close
  <2>2. /\ nest' \in Seq(Frames) /\ Len(nest') <= Len(nest)
        /\ \A i \in DOMAIN nest' : nest'[i] = nest[i]
    BY <1>0, <2>1
  <2>3. FramesInv(nest', counter, target)
    BY <1>0, <2>2, FewerFramesKeep DEF NestInv
  <2>4. QED
    BY <2>1, <2>3 DEF NestInv
<1>3. ASSUME NEW form, NEW name, NEW when, Emit(form, name, when)
      PROVE  NestInv'
  <2>1. counter' = counter /\ target' = target
    BY <1>3 DEF Emit
  <2>2. /\ nest' \in Seq(Frames) /\ Len(nest') = Len(nest)
        /\ \A i \in DOMAIN nest : /\ nest'[i].kind = nest[i].kind
                                 /\ nest'[i].name = nest[i].name
                                 /\ nest'[i].label = nest[i].label
                                 /\ nest'[i].control = nest[i].control
    BY <1>3, JumpKeepsFrames
  <2>3. DOMAIN nest' = DOMAIN nest /\ Len(nest') <= Len(nest)
    BY <1>0, <2>2
  <2>4. FramesInv(nest', counter, target)
    BY <1>0, <2>2, <2>3, FewerFramesKeep DEF NestInv
  <2>5. QED
    BY <2>1, <2>4 DEF NestInv
<1>4. CASE UNCHANGED vars
  BY <1>4 DEF vars, NestInv
<1>5. QED
  BY <1>1, <1>2, <1>3, <1>4 DEF Next, Exit, Continue

LEMMA NestIsApart ==
  ASSUME TypeInv, NestInv
  PROVE  LabelsDistinct
<1> SUFFICES ASSUME NEW i \in DOMAIN nest, NEW j \in DOMAIN nest, i < j,
                    nest[i].label = nest[j].label, nest[i].label # NoLabel
             PROVE  FALSE
  BY DEF LabelsDistinct, TypeInv
<1>1. /\ FrameInv(nest[i], counter, target) /\ FrameInv(nest[j], counter, target)
      /\ ApartInv(nest[i], nest[j], target)
  BY DEF NestInv, FramesInv
<1>2. nest[i] \in Frames /\ nest[j] \in Frames /\ counter \in Nat
  BY DEF TypeInv
<1>3. CASE nest[j].label = Written(nest[j].name) /\ nest[j].name # None /\ nest[j].kind = "loop"
  BY <1>1, <1>3 DEF FrameInv, ApartInv, Written, RowLabel, NoLabel, Numbered
<1>4. CASE /\ nest[j].label = RowLabel(nest[j].name) /\ nest[j].name # None
           /\ nest[j].kind = "rows" /\ target = "mysql"
  BY <1>1, <1>4 DEF FrameInv, ApartInv, Written, RowLabel, NoLabel, Numbered
<1>5. CASE nest[j].label.name = None /\ nest[j].label.n \in 1 .. counter
  BY <1>1, <1>2, <1>5 DEF ApartInv
<1>6. QED
  BY <1>1, <1>3, <1>4, <1>5 DEF FrameInv

\* No loop of a routine is labelled as one around it is, however many it has
\* and however deep they nest: made-up labels count up, and a label of the source
\* or a cursor loop's names one open loop.
THEOREM LabelsStayDistinct ==
  ASSUME KeepsIdioms
  PROVE  Spec => []LabelsDistinct
<1>1. Init => NestInv
  BY DEF Init, NestInv, FramesInv
<1>2. TypeInv /\ NestInv /\ [Next]_vars => NestInv'
  BY StepKeepsNest
<1>3. TypeInv /\ NestInv => LabelsDistinct
  BY NestIsApart
<1>4. QED
  BY <1>1, <1>2, <1>3, InitIsTyped, StepKeepsType, PTL DEF Spec

(***************************************************************************)
(* The stack of labels.                                                    *)
(***************************************************************************)
LEMMA PushKeepsEntries ==
  ASSUME NEW s \in Seq(Frames), NEW r \in Seq(Entries), NEW t,
         NEW f \in Frames, NEW e \in Entries,
         EntriesInv(s, r, t), Bears(f, t),
         e.label = f.label, e.source = SourceLabel(f.kind, f.name)
  PROVE  EntriesInv(Append(s, f), Append(r, e), t)
<1>1. PICK at \in [DOMAIN r -> DOMAIN s] : Holds(at, s, r, t)
  BY DEF EntriesInv
<1> DEFINE m == Len(s) + 1
           n == Len(r) + 1
           s2 == Append(s, f)
           r2 == Append(r, e)
           at2 == [k \in 1 .. n |-> IF k = n THEN m ELSE at[k]]
<1>2. /\ Len(s) \in Nat /\ Len(r) \in Nat
      /\ DOMAIN s = 1 .. Len(s) /\ DOMAIN r = 1 .. Len(r)
      /\ DOMAIN s2 = 1 .. m /\ DOMAIN r2 = 1 .. n
      /\ s2[m] = f /\ r2[n] = e
      /\ \A i \in DOMAIN s : s2[i] = s[i]
      /\ \A k \in DOMAIN r : r2[k] = r[k]
  OBVIOUS
<1> HIDE DEF s2, r2
<1>3. \A k \in DOMAIN r : at[k] \in 1 .. Len(s) /\ at2[k] = at[k]
  BY <1>2
<1>4. at2[n] = m
  BY <1>2
<1>5. at2 \in [DOMAIN r2 -> DOMAIN s2]
  BY <1>2, <1>3, <1>4
<1> HIDE DEF at2
<1>6. ASSUME NEW k \in DOMAIN r2, NEW l \in DOMAIN r2, k < l PROVE at2[k] < at2[l]
  <2>1. k \in DOMAIN r
    BY <1>2, <1>6
  <2>2. CASE l = n
    BY <1>2, <1>3, <1>4, <2>1, <2>2
  <2>3. CASE l \in DOMAIN r
    BY <1>1, <1>3, <1>6, <2>1, <2>3 DEF Holds
  <2>4. QED
    BY <1>2, <2>2, <2>3
<1>7. ASSUME NEW i \in DOMAIN s2, Bears(s2[i], t) PROVE \E k \in DOMAIN r2 : at2[k] = i
  <2>1. CASE i = m
    BY <1>2, <1>4, <2>1
  <2>2. CASE i \in DOMAIN s
    <3>1. PICK k \in DOMAIN r : at[k] = i
      BY <1>1, <1>2, <1>7, <2>2 DEF Holds
    <3>2. k \in DOMAIN r2 /\ at2[k] = i
      BY <1>2, <1>3, <3>1
    <3>3. QED
      BY <3>2
  <2>3. QED
    BY <1>2, <2>1, <2>2
<1>8. ASSUME NEW k \in DOMAIN r2
      PROVE  /\ Bears(s2[at2[k]], t)
             /\ r2[k].label = s2[at2[k]].label
             /\ r2[k].source = SourceLabel(s2[at2[k]].kind, s2[at2[k]].name)
  <2>1. CASE k = n
    BY <1>2, <1>4, <2>1
  <2>2. CASE k \in DOMAIN r
    <3>1. r2[k] = r[k] /\ at2[k] = at[k] /\ s2[at[k]] = s[at[k]]
      BY <1>2, <1>3, <2>2
    <3>2. QED
      BY <1>1, <2>2, <3>1 DEF Holds
  <2>3. QED
    BY <1>2, <2>1, <2>2
<1>9. QED
  BY <1>5, <1>6, <1>7, <1>8 DEF EntriesInv, Holds, s2, r2

\* A frame without an entry comes or goes.
LEMMA OtherFrameKeepsEntries ==
  ASSUME NEW s \in Seq(Frames), NEW r \in Seq(Entries), NEW t, NEW f \in Frames, ~Bears(f, t)
  PROVE  EntriesInv(s, r, t) <=> EntriesInv(Append(s, f), r, t)
<1> DEFINE m == Len(s) + 1
           s2 == Append(s, f)
<1>1. /\ Len(s) \in Nat
      /\ DOMAIN s = 1 .. Len(s) /\ DOMAIN s2 = 1 .. m
      /\ s2[m] = f
      /\ \A i \in DOMAIN s : s2[i] = s[i]
  OBVIOUS
<1> HIDE DEF s2
<1>2. ASSUME NEW at \in [DOMAIN r -> DOMAIN s]
      PROVE  Holds(at, s, r, t) <=> Holds(at, s2, r, t)
  <2>1. \A k \in DOMAIN r : at[k] \in DOMAIN s /\ at[k] # m /\ s2[at[k]] = s[at[k]]
    BY <1>1
  <2>2. (\A i \in DOMAIN s : Bears(s[i], t) => \E k \in DOMAIN r : at[k] = i)
          <=> (\A i \in DOMAIN s2 : Bears(s2[i], t) => \E k \in DOMAIN r : at[k] = i)
    <3>1. \A i \in DOMAIN s2 : i = m \/ i \in DOMAIN s
      BY <1>1
    <3>2. DOMAIN s \subseteq DOMAIN s2 /\ ~Bears(s2[m], t)
      BY <1>1
    <3>3. QED
      BY <1>1, <3>1, <3>2
  <2>3. QED
    BY <2>1, <2>2 DEF Holds
<1>3. ASSUME EntriesInv(s, r, t) PROVE EntriesInv(s2, r, t)
  <2>1. PICK at \in [DOMAIN r -> DOMAIN s] : Holds(at, s, r, t)
    BY <1>3 DEF EntriesInv
  <2>2. at \in [DOMAIN r -> DOMAIN s2]
    BY <1>1
  <2>3. QED
    BY <1>2, <2>1, <2>2 DEF EntriesInv
<1>4. ASSUME EntriesInv(s2, r, t) PROVE EntriesInv(s, r, t)
  <2>1. PICK at \in [DOMAIN r -> DOMAIN s2] : Holds(at, s2, r, t)
    BY <1>4 DEF EntriesInv
  <2>2. \A k \in DOMAIN r : at[k] # m
    BY <1>1, <2>1 DEF Holds
  <2>3. at \in [DOMAIN r -> DOMAIN s]
    BY <1>1, <2>2
  <2>4. QED
    BY <1>2, <2>1, <2>3 DEF EntriesInv
<1>5. QED
  BY <1>3, <1>4 DEF s2

LEMMA PopKeepsEntries ==
  ASSUME NEW s \in Seq(Frames), NEW r \in Seq(Entries), NEW t, s # <<>>,
         EntriesInv(s, r, t), Bears(s[Len(s)], t)
  PROVE  EntriesInv(SubSeq(s, 1, Len(s) - 1), SubSeq(r, 1, Len(r) - 1), t)
<1>1. PICK at \in [DOMAIN r -> DOMAIN s] : Holds(at, s, r, t)
  BY DEF EntriesInv
<1> DEFINE m == Len(s)
           n == Len(r)
           s2 == SubSeq(s, 1, m - 1)
           r2 == SubSeq(r, 1, n - 1)
           at2 == [k \in 1 .. n - 1 |-> at[k]]
<1>2. m \in Nat \ {0} /\ n \in Nat /\ DOMAIN s = 1 .. m /\ DOMAIN r = 1 .. n
  OBVIOUS
<1>3. PICK k \in DOMAIN r : at[k] = m
  BY <1>1, <1>2 DEF Holds
<1>4. n \in DOMAIN r /\ at[n] = m
  <2>1. n \in DOMAIN r /\ (k < n \/ k = n)
    BY <1>2, <1>3
  <2>2. at[n] \in 1 .. m
    BY <1>2, <2>1
  <2>3. ~(k < n)
    BY <1>1, <1>2, <1>3, <2>1, <2>2 DEF Holds
  <2>4. QED
    BY <1>3, <2>1, <2>3
<1>5. /\ DOMAIN s2 = 1 .. m - 1 /\ DOMAIN r2 = 1 .. n - 1
      /\ \A i \in 1 .. m - 1 : s2[i] = s[i]
      /\ \A l \in 1 .. n - 1 : r2[l] = r[l]
  BY <1>2, <1>4
<1> HIDE DEF s2, r2
<1>6. \A l \in 1 .. n - 1 : l \in DOMAIN r /\ at2[l] = at[l] /\ at[l] \in 1 .. m - 1
  <2> SUFFICES ASSUME NEW l \in 1 .. n - 1 PROVE l \in DOMAIN r /\ at[l] \in 1 .. m - 1
    OBVIOUS
  <2>1. l \in DOMAIN r /\ l < n
    BY <1>2
  <2>2. at[l] < at[n] /\ at[l] \in 1 .. m
    BY <1>1, <1>2, <1>4, <2>1 DEF Holds
  <2>3. QED
    BY <1>2, <1>4, <2>1, <2>2
<1>7. at2 \in [DOMAIN r2 -> DOMAIN s2]
  BY <1>5, <1>6
<1> HIDE DEF at2
<1>8. ASSUME NEW l \in DOMAIN r2, NEW h \in DOMAIN r2, l < h PROVE at2[l] < at2[h]
  BY <1>1, <1>5, <1>6, <1>8 DEF Holds
<1>9. ASSUME NEW i \in DOMAIN s2, Bears(s2[i], t) PROVE \E l \in DOMAIN r2 : at2[l] = i
  <2>1. i \in DOMAIN s /\ i # m /\ Bears(s[i], t)
    BY <1>2, <1>5, <1>9
  <2>2. PICK l \in DOMAIN r : at[l] = i
    BY <1>1, <2>1 DEF Holds
  <2>3. l # n
    BY <1>4, <2>1, <2>2
  <2>4. l \in DOMAIN r2
    BY <1>2, <1>5, <2>3
  <2>5. QED
    BY <1>5, <1>6, <2>2, <2>4
<1>10. ASSUME NEW l \in DOMAIN r2
       PROVE  /\ Bears(s2[at2[l]], t)
              /\ r2[l].label = s2[at2[l]].label
              /\ r2[l].source = SourceLabel(s2[at2[l]].kind, s2[at2[l]].name)
  <2>1. l \in DOMAIN r /\ r2[l] = r[l] /\ at2[l] = at[l] /\ s2[at[l]] = s[at[l]]
    BY <1>5, <1>6
  <2>2. QED
    BY <1>1, <2>1 DEF Holds
<1>11. QED
  BY <1>7, <1>8, <1>9, <1>10 DEF EntriesInv, Holds, s2, r2

LEMMA AlikeFramesKeepEntries ==
  ASSUME NEW s \in Seq(Frames), NEW q \in Seq(Frames), NEW r, NEW t, DOMAIN q = DOMAIN s,
         \A i \in DOMAIN s : /\ q[i].kind = s[i].kind
                            /\ q[i].name = s[i].name
                            /\ q[i].label = s[i].label
                            /\ q[i].control = s[i].control,
         EntriesInv(s, r, t)
  PROVE  EntriesInv(q, r, t)
<1>1. PICK at \in [DOMAIN r -> DOMAIN s] : Holds(at, s, r, t)
  BY DEF EntriesInv
<1>2. \A i \in DOMAIN s : Bears(q[i], t) <=> Bears(s[i], t)
  BY DEF Bears
<1>3. \A k \in DOMAIN r : at[k] \in DOMAIN s
  BY <1>1
<1>4. Holds(at, q, r, t)
  BY <1>1, <1>2, <1>3 DEF Holds
<1>5. QED
  BY <1>1, <1>4 DEF EntriesInv

LEMMA StepKeepsStack == TypeInv /\ StackInv /\ [Next]_vars => StackInv'
<1> SUFFICES ASSUME TypeInv, StackInv, [Next]_vars PROVE StackInv'
  OBVIOUS
<1>0. nest \in Seq(Frames) /\ stack \in Seq(Entries)
  BY DEF TypeInv
<1>1. ASSUME NEW kind \in Parsed(source), NEW control \in BOOLEAN, NEW name \in NamesOf(kind),
             Open(kind, name, control)
      PROVE  StackInv'
  <2>1. kind \in Kinds /\ name \in Named
    BY PairIsKnown DEF TypeInv, Parsed, Kinds, Loops, NamesOf, Named, Engines
  <2>2. PICK f \in Frames : /\ nest' = Append(nest, f)
                           /\ f.kind = kind /\ f.name = name /\ f.control = control
                           /\ f.label = Label(kind, name, control)
    <3> DEFINE frame == [kind |-> kind, name |-> name, label |-> Label(kind, name, control),
                         control |-> control, shown |-> FALSE]
    <3>1. nest' = Append(nest, frame)
      BY <1>1 DEF Open
    <3>2. frame \in Frames
      BY <2>1, LabelsAreTyped DEF Frames
    <3>3. QED
      BY <3>1, <3>2
  <2>3. target' = target /\ (Bears(f, target) <=> Labelled(kind, control))
    BY <1>1, <2>2 DEF Open, Bears, Labelled
  <2>4. CASE Labelled(kind, control)
    <3>1. PICK e \in Entries : /\ stack' = Append(stack, e)
                              /\ e.label = f.label /\ e.source = SourceLabel(f.kind, f.name)
      <4> DEFINE entry == [source |-> SourceLabel(kind, name), label |-> Label(kind, name, control)]
      <4>1. stack' = Append(stack, entry)
        BY <1>1, <2>4 DEF Open
      <4>2. entry \in Entries
        BY <2>1, LabelsAreTyped DEF Entries
      <4>3. QED
        BY <2>2, <4>1, <4>2
    <3>2. EntriesInv(Append(nest, f), Append(stack, e), target)
      BY <1>0, <2>3, <2>4, <3>1, PushKeepsEntries DEF StackInv
    <3>3. QED
      BY <2>2, <2>3, <3>1, <3>2 DEF StackInv
  <2>5. CASE ~Labelled(kind, control)
    <3>1. stack' = stack
      BY <1>1, <2>5 DEF Open
    <3>2. EntriesInv(Append(nest, f), stack, target)
      BY <1>0, <2>3, <2>5, OtherFrameKeepsEntries DEF StackInv
    <3>3. QED
      BY <2>2, <2>3, <3>1, <3>2 DEF StackInv
  <2>6. QED
    BY <2>4, <2>5
<1>2. CASE Close
  <2> DEFINE f == nest[Len(nest)]
             s == SubSeq(nest, 1, Len(nest) - 1)
  <2>1. nest # <<>> /\ nest' = s /\ target' = target
    BY <1>2 DEF Close
  <2>2. f \in Frames /\ s \in Seq(Frames) /\ nest = Append(s, f)
    BY <1>0, <2>1
  <2>3. Bears(f, target) <=> Labelled(f.kind, f.control)
    BY DEF Bears, Labelled
  <2>4. CASE Bears(f, target)
    <3>1. stack' = SubSeq(stack, 1, Len(stack) - 1)
      BY <1>2, <2>3, <2>4 DEF Close, Popped
    <3>2. EntriesInv(s, SubSeq(stack, 1, Len(stack) - 1), target)
      BY <1>0, <2>1, <2>4, PopKeepsEntries DEF StackInv
    <3>3. QED
      BY <2>1, <3>1, <3>2 DEF StackInv
  <2>5. CASE ~Bears(f, target)
    <3>1. stack' = stack
      BY <1>2, <2>3, <2>5 DEF Close
    <3>2. EntriesInv(s, stack, target)
      <4> HIDE DEF f, s
      <4>1. EntriesInv(Append(s, f), stack, target)
        BY <2>2 DEF StackInv
      <4>2. QED
        BY <1>0, <2>2, <2>5, <4>1, OtherFrameKeepsEntries
    <3>3. QED
      BY <2>1, <3>1, <3>2 DEF StackInv
  <2>6. QED
    BY <2>4, <2>5
<1>3. ASSUME NEW form, NEW name, NEW when, Emit(form, name, when)
      PROVE  StackInv'
  <2>1. stack' = stack /\ target' = target
    BY <1>3 DEF Emit
  <2>2. /\ nest' \in Seq(Frames) /\ Len(nest') = Len(nest)
        /\ \A i \in DOMAIN nest : /\ nest'[i].kind = nest[i].kind
                                 /\ nest'[i].name = nest[i].name
                                 /\ nest'[i].label = nest[i].label
                                 /\ nest'[i].control = nest[i].control
    BY <1>3, JumpKeepsFrames
  <2>3. DOMAIN nest' = DOMAIN nest
    BY <1>0, <2>2
  <2>4. EntriesInv(nest', stack, target)
    BY <1>0, <2>2, <2>3, AlikeFramesKeepEntries DEF StackInv
  <2>5. QED
    BY <2>1, <2>4 DEF StackInv
<1>4. CASE UNCHANGED vars
  BY <1>4 DEF vars, StackInv
<1>5. QED
  BY <1>1, <1>2, <1>3, <1>4 DEF Next, Exit, Continue

(***************************************************************************)
(* Jumps.                                                                  *)
(***************************************************************************)
\* What a jump does that is not kept, it does not do.
LEMMA HabitsAreKept ==
  ASSUME KeepsIdioms, TypeInv, NEW form, NEW name, NEW when, Emit(form, name, when)
  PROVE  LET i == Wanted(form, name, when).lands
             kind == nest[i].kind
             Kept(habit) == habit \in KeptHabits(source, target)
         IN  /\ form = "continue" /\ when => Kept("continue when")
             /\ form = "continue" /\ kind = "range" => Kept("continue range")
             /\ form = "continue" /\ kind = "rows" => Kept("continue rows")
             /\ form = "exit" /\ kind \in {"range", "rows"} => Kept("exit for")
             /\ kind = "guard" => Kept("jump in guard")
             /\ kind = "while" /\ "try" \in Between(i) => Kept("through try")
             /\ form = "exit" /\ kind \in Loops /\ i # SourceLoop => Kept("outer exit")
             /\ form = "continue" /\ kind \in Loops /\ i # SourceLoop => Kept("outer continue")
             /\ name # None /\ kind = "while" => Kept("while label")
             /\ kind = "while" /\ i # SourceLoop => Kept("outer while")
             /\ kind = "block" => Kept("block label")
<1>1. HabitsOf(form, name, when) \subseteq KeptHabits(source, target)
  BY HabitsOfPair DEF Emit
<1> DEFINE i == Wanted(form, name, when).lands
           kind == nest[i].kind
<1>2. kind = "while" => kind \in Loops
  BY DEF Loops
<1>3. QED
  BY <1>1, <1>2 DEF HabitsOf, i, Habits

LEMMA PositionsAreKnown ==
  ASSUME TypeInv
  PROVE  /\ nest \in Seq(Frames) /\ Len(nest) \in Nat /\ DOMAIN nest = 1 .. Len(nest)
         /\ stack \in Seq(Entries) /\ Len(stack) \in Nat /\ DOMAIN stack = 1 .. Len(stack)
         /\ \A i \in DOMAIN nest : nest[i] \in Frames
BY DEF TypeInv

\* A jump lands on an open construct: the innermost loop, or the one it names.
LEMMA WantedIsOpen ==
  ASSUME TypeInv, NEW form, NEW name, NEW when,
         Wanted(form, name, when).lands # 0
  PROVE  LET i == Wanted(form, name, when).lands
         IN  /\ i \in DOMAIN nest
             /\ name = None => i = SourceLoop /\ nest[i].kind \in Loops
             /\ name # None => /\ nest[i].name = name
                               /\ \A j \in DOMAIN nest : nest[j].name = name => j <= i
<1>1. CASE name = None
  <2> DEFINE S == {i \in DOMAIN nest : nest[i].kind \in Loops}
  <2>1. Wanted(form, name, when).lands = Greatest(S)
    BY <1>1 DEF Wanted, SourceLoop
  <2>2. S \in SUBSET (1 .. Len(nest)) /\ Len(nest) \in Nat
    BY PositionsAreKnown
  <2> HIDE DEF S
  <2>3. Greatest(S) \in S
    BY <2>1, <2>2, GreatestIsIn
  <2>4. QED
    BY <1>1, <2>1, <2>3 DEF S, SourceLoop
<1>2. CASE name # None
  <2> DEFINE S == {i \in DOMAIN nest : nest[i].name = name}
  <2>1. Wanted(form, name, when).lands = Greatest(S)
    BY <1>2 DEF Wanted
  <2>2. S \in SUBSET (1 .. Len(nest)) /\ Len(nest) \in Nat
    BY PositionsAreKnown
  <2> HIDE DEF S
  <2>3. Greatest(S) \in S /\ \A j \in S : j <= Greatest(S)
    BY <2>1, <2>2, GreatestIsIn
  <2>4. QED
    BY <1>2, <2>1, <2>3 DEF S
<1>3. QED
  BY <1>1, <1>2

LEMMA SourceLoopIs ==
  ASSUME TypeInv, SourceLoop # 0
  PROVE  /\ SourceLoop \in DOMAIN nest /\ nest[SourceLoop].kind \in Loops
         /\ \A j \in DOMAIN nest : nest[j].kind \in Loops => j <= SourceLoop
<1> DEFINE S == {i \in DOMAIN nest : nest[i].kind \in Loops}
<1>1. S \in SUBSET (1 .. Len(nest)) /\ Len(nest) \in Nat
  BY PositionsAreKnown
<1>2. SourceLoop = Greatest(S)
  BY DEF SourceLoop
<1> HIDE DEF S
<1>3. Greatest(S) \in S /\ \A j \in S : j <= Greatest(S)
  BY <1>1, <1>2, GreatestIsIn
<1>4. QED
  BY <1>2, <1>3 DEF S

\* Where the innermost loop is one in the target, a jump that names none lands
\* on it.
LEMMA TargetLoopIs ==
  ASSUME TypeInv, SourceLoop # 0, nest[SourceLoop].kind # "guard"
  PROVE  TargetLoop = SourceLoop
<1> DEFINE S == {i \in DOMAIN nest : nest[i].kind \in TargetLoops}
<1>1. S \in SUBSET (1 .. Len(nest)) /\ Len(nest) \in Nat
  BY PositionsAreKnown
<1>2. SourceLoop \in S /\ \A j \in S : j <= SourceLoop
  BY SourceLoopIs DEF TargetLoops
<1> HIDE DEF S
<1>3. Greatest(S) = SourceLoop
  BY <1>1, <1>2, GreatestIs
<1>4. QED
  BY <1>3 DEF S, TargetLoop

\* A label names the one frame that has it.
LEMMA CarryingIs ==
  ASSUME TypeInv, NestInv, NEW i \in DOMAIN nest, nest[i].label # NoLabel
  PROVE  Carrying(nest[i].label) = i
<1> DEFINE S == {j \in DOMAIN nest : nest[j].label = nest[i].label}
<1>1. S \in SUBSET (1 .. Len(nest)) /\ Len(nest) \in Nat
  BY PositionsAreKnown
<1>2. i \in S /\ \A j \in S : j = i
  BY NestIsApart DEF LabelsDistinct
<1> HIDE DEF S
<1>3. \A j \in S : j <= i
  BY <1>1, <1>2
<1>4. Greatest(S) = i
  BY <1>1, <1>2, <1>3, GreatestIs
<1>5. QED
  BY <1>4 DEF S, Carrying

\* Oracle and PostgreSQL find a LOOP by its source label.
LEMMA WrittenIsFound ==
  ASSUME TypeInv, NestInv, target # "tsql", NEW name \in Named, name # None,
         NEW i \in DOMAIN nest, nest[i].kind = "loop", nest[i].name = name
  PROVE  Carrying(Written(name)) = i
<1>1. nest[i].label = Written(name)
  BY DEF NestInv, FramesInv, FrameInv
<1>2. Written(name) # NoLabel
  BY DEF Written, NoLabel, Numbered
<1>3. QED
  BY <1>1, <1>2, CarryingIs

(***************************************************************************)
(* The labels MySQL's jumps go by.                                         *)
(***************************************************************************)
LEMMA BearerIsLabelled ==
  ASSUME TypeInv, NestInv, NEW i \in DOMAIN nest, Bears(nest[i], target)
  PROVE  nest[i].label # NoLabel
<1>1. FrameInv(nest[i], counter, target)
  BY DEF NestInv, FramesInv
<1>2. counter \in Nat
  BY DEF TypeInv
<1>3. QED
  BY <1>1, <1>2 DEF FrameInv, Bears, NoLabel, Written, RowLabel, Numbered

\* The innermost loop's label is the last of the stack, if it has one.
LEMMA CurrentLabelIs ==
  ASSUME TypeInv, NestInv, StackInv, SourceLoop # 0, Bears(nest[SourceLoop], target)
  PROVE  CurrentLabel = nest[SourceLoop].label
<1> DEFINE i == SourceLoop
<1>1. PICK at \in [DOMAIN stack -> DOMAIN nest] : Holds(at, nest, stack, target)
  BY DEF StackInv, EntriesInv
<1>2. i \in DOMAIN nest /\ \A j \in DOMAIN nest : nest[j].kind \in Loops => j <= i
  BY SourceLoopIs
<1>3. PICK k \in DOMAIN stack : at[k] = i
  BY <1>1, <1>2 DEF Holds
<1> DEFINE n == Len(stack)
<1>4. n \in DOMAIN stack /\ (k < n \/ k = n) /\ stack # <<>>
  BY <1>3, PositionsAreKnown
<1>5. at[n] <= i /\ at[n] \in 1 .. Len(nest) /\ i \in 1 .. Len(nest)
  <2>1. Bears(nest[at[n]], target) /\ at[n] \in DOMAIN nest
    BY <1>1, <1>4 DEF Holds
  <2>2. nest[at[n]].kind \in Loops
    BY <2>1 DEF Bears, Loops
  <2>3. QED
    BY <1>2, <2>1, <2>2, PositionsAreKnown
<1>6. k < n => i < at[n]
  BY <1>1, <1>3, <1>4 DEF Holds
<1>7. at[n] = i
  <2>1. ~(k < n)
    BY <1>5, <1>6, PositionsAreKnown
  <2>2. QED
    BY <1>3, <1>4, <2>1
<1>8. QED
  BY <1>1, <1>4, <1>7 DEF Holds, CurrentLabel

\* A LOOP's source label is resolved to its own.
LEMMA ResolvedToLoop ==
  ASSUME TypeInv, NestInv, StackInv, target = "mysql", NEW name \in Named, name # None,
         NEW i \in DOMAIN nest, nest[i].kind = "loop", nest[i].name = name,
         \A j \in DOMAIN nest : nest[j].name = name => j <= i
  PROVE  Resolved(name) = nest[i].label
<1>1. PICK at \in [DOMAIN stack -> DOMAIN nest] : Holds(at, nest, stack, target)
  BY DEF StackInv, EntriesInv
<1>2. PICK k \in DOMAIN stack : at[k] = i
  BY <1>1 DEF Holds, Bears
<1> DEFINE S == {j \in DOMAIN stack : stack[j].source = name}
<1>3. stack[k].source = name /\ stack[k].label = nest[i].label
  BY <1>1, <1>2 DEF Holds, SourceLabel
<1>4. ASSUME NEW j \in S PROVE j <= k
  <2>1. j \in DOMAIN stack /\ at[j] \in DOMAIN nest /\ nest[at[j]].name = name
    BY <1>1, <1>4 DEF Holds, SourceLabel
  <2>2. at[j] <= at[k]
    BY <1>2, <2>1
  <2>3. k < j => at[k] < at[j]
    BY <1>1, <2>1 DEF Holds
  <2>4. ~(k < j)
    BY <1>2, <2>1, <2>2, <2>3, PositionsAreKnown
  <2>5. QED
    BY <2>1, <2>4, PositionsAreKnown
<1>5. S \in SUBSET (1 .. Len(stack)) /\ Len(stack) \in Nat /\ k \in S
  BY <1>2, <1>3, PositionsAreKnown
<1> HIDE DEF S
<1>6. Greatest(S) = k
  BY <1>4, <1>5, GreatestIs
<1>7. k # 0
  BY PositionsAreKnown
<1>8. QED
  BY <1>3, <1>6, <1>7 DEF S, Resolved

\* A WHILE's is dropped; no loop around it has it, so it is taken for the
\* innermost.
LEMMA ResolvedToWhile ==
  ASSUME TypeInv, NestInv, StackInv, target = "mysql", NEW name \in Named, name # None,
         NEW i \in DOMAIN nest, nest[i].kind = "while", nest[i].name = name
  PROVE  Resolved(name) = CurrentLabel
<1>1. PICK at \in [DOMAIN stack -> DOMAIN nest] : Holds(at, nest, stack, target)
  BY DEF StackInv, EntriesInv
<1>2. ASSUME NEW j \in DOMAIN stack, stack[j].source = name PROVE FALSE
  <2>1. at[j] \in DOMAIN nest /\ nest[at[j]].name = name /\ nest[at[j]].kind = "loop"
    BY <1>1, <1>2 DEF Holds, SourceLabel
  <2>2. at[j] # i
    BY <2>1
  <2>3. at[j] < i \/ i < at[j]
    BY <2>1, <2>2, PositionsAreKnown
  <2>4. ApartInv(nest[at[j]], nest[i], target) \/ ApartInv(nest[i], nest[at[j]], target)
    BY <2>1, <2>3 DEF NestInv, FramesInv
  <2>5. QED
    BY <2>1, <2>4 DEF ApartInv
<1>3. {j \in DOMAIN stack : stack[j].source = name} = {}
  BY <1>2
<1>4. QED
  BY <1>3 DEF Resolved, Greatest

(***************************************************************************)
(* What the target's jump does, engine by engine.                          *)
(***************************************************************************)
Emitted(form, name, when) ==
    IF form = "exit" THEN EmittedExit(name, when) ELSE EmittedContinue(name, when)

\* T-SQL's jumps take no label: what is kept jumps from the innermost loop.
LEMMA TsqlJumpIs ==
  ASSUME KeepsIdioms, TypeInv, NEW form \in {"exit", "continue"}, NEW name \in Named,
         NEW when \in BOOLEAN, Emit(form, name, when), target = "tsql"
  PROVE  Emitted(form, name, when) = Wanted(form, name, when)
<1> DEFINE i == Wanted(form, name, when).lands
           kind == nest[i].kind
<1>1. CanJump(form, name, when)
  BY DEF Emit
<1>2. i # 0 /\ (name # None => kind \in {"loop", "while", "block"})
  BY <1>1 DEF CanJump
<1>3. name = None => i = SourceLoop /\ kind \in Loops
  BY <1>2, WantedIsOpen
<1>4. /\ form = "continue" => ~when /\ kind # "range" /\ kind # "rows"
      /\ kind # "guard" /\ kind # "block" /\ (kind \in Loops => i = SourceLoop)
  BY HabitsAreKept DEF KeptHabits
<1>5. i = SourceLoop
  BY <1>2, <1>3, <1>4 DEF Loops
<1>6. TargetLoop = i
  BY <1>2, <1>4, <1>5, TargetLoopIs
<1>7. Wanted(form, name, when) = [lands |-> i, when |-> when, steps |-> form = "continue"]
  BY DEF Wanted
<1> HIDE DEF i
<1>8. CASE form = "exit"
  <2>1. Emitted(form, name, when) = [lands |-> TargetLoop, when |-> when, steps |-> FALSE]
    BY <1>8 DEF Emitted, EmittedExit
  <2>2. QED
    BY <1>6, <1>7, <1>8, <2>1
<1>9. CASE form = "continue"
  <2>1. Emitted(form, name, when) = [lands |-> i, when |-> FALSE, steps |-> TRUE]
    BY <1>2, <1>4, <1>6, <1>9 DEF Emitted, EmittedContinue, Steps
  <2>2. when = FALSE
    BY <1>4, <1>9
  <2>3. QED
    BY <1>7, <1>9, <2>1, <2>2
<1>10. QED
  BY <1>8, <1>9

\* Oracle's and PostgreSQL's EXIT finds a LOOP by name; what is kept continues
\* the innermost loop.
LEMMA NamedJumpIs ==
  ASSUME KeepsIdioms, TypeInv, NestInv, NEW form \in {"exit", "continue"}, NEW name \in Named,
         NEW when \in BOOLEAN, Emit(form, name, when), target \in {"oracle", "postgresql"}
  PROVE  Emitted(form, name, when) = Wanted(form, name, when)
<1> DEFINE i == Wanted(form, name, when).lands
           kind == nest[i].kind
<1>1. CanJump(form, name, when)
  BY DEF Emit
<1>2. i # 0 /\ (name # None => kind \in {"loop", "while", "block"})
  BY <1>1 DEF CanJump
<1>3. /\ i \in DOMAIN nest
      /\ name = None => i = SourceLoop /\ kind \in Loops
      /\ name # None => nest[i].name = name
  BY <1>2, WantedIsOpen
<1>4. /\ form = "continue" /\ kind \in Loops => i = SourceLoop
      /\ kind # "guard" /\ (name # None => kind = "loop")
  BY <1>2, HabitsAreKept DEF KeptHabits
<1>5. name # None => Carrying(Written(name)) = i
  BY <1>3, <1>4, WrittenIsFound
<1>6. name = None \/ form = "continue" => TargetLoop = i
  <2>1. name = None \/ form = "continue" => i = SourceLoop
    BY <1>3, <1>4 DEF Loops
  <2>2. QED
    BY <1>2, <1>4, <2>1, TargetLoopIs
<1>7. Wanted(form, name, when) = [lands |-> i, when |-> when, steps |-> form = "continue"]
  BY DEF Wanted
<1> HIDE DEF i
<1>8. CASE form = "exit"
  <2>1. Emitted(form, name, when) = [lands |-> IF name # None THEN Carrying(Written(name))
                                               ELSE TargetLoop,
                                     when |-> when, steps |-> FALSE]
    BY <1>8 DEF Emitted, EmittedExit
  <2>2. QED
    BY <1>5, <1>6, <1>7, <1>8, <2>1
<1>9. CASE form = "continue"
  <2>1. Emitted(form, name, when) = [lands |-> i, when |-> when, steps |-> TRUE]
    BY <1>2, <1>6, <1>9 DEF Emitted, EmittedContinue, Steps, Counts, Fetches
  <2>2. QED
    BY <1>7, <1>9, <2>1
<1>10. QED
  BY <1>8, <1>9

\* MySQL's LEAVE and ITERATE name the label of the loop the jump is for.
LEMMA MysqlLabelIs ==
  ASSUME KeepsIdioms, TypeInv, NestInv, StackInv, NEW form \in {"exit", "continue"},
         NEW name \in Named, NEW when \in BOOLEAN, Emit(form, name, when), target = "mysql"
  PROVE  Carrying(Resolved(name)) = Wanted(form, name, when).lands
<1> DEFINE i == Wanted(form, name, when).lands
           kind == nest[i].kind
<1>1. CanJump(form, name, when)
  BY DEF Emit
<1>2. i # 0 /\ (name # None => kind \in {"loop", "while", "block"})
  BY <1>1 DEF CanJump
<1>3. /\ i \in DOMAIN nest
      /\ name = None => i = SourceLoop /\ kind \in Loops
      /\ name # None => /\ nest[i].name = name
                        /\ \A j \in DOMAIN nest : nest[j].name = name => j <= i
  BY <1>2, WantedIsOpen
<1>4. /\ kind # "range" /\ kind # "rows" /\ kind # "guard" /\ kind # "block"
      /\ kind = "while" => "try" \notin Between(i) /\ i = SourceLoop
  BY HabitsAreKept DEF KeptHabits
<1>5. kind \in {"loop", "while"}
  BY <1>2, <1>3, <1>4 DEF Loops
<1> HIDE DEF i
<1>6. ASSUME kind = "while" PROVE nest[i].control
  <2>1. i = SourceLoop /\ "try" \notin Between(i)
    BY <1>4, <1>6
  <2>2. ASSUME NEW j \in i + 1 .. Len(nest) PROVE nest[j].kind \in {"if", "block"}
    <3>1. i \in 1 .. Len(nest) /\ Len(nest) \in Nat
      BY <1>3, PositionsAreKnown
    <3>2. j \in DOMAIN nest /\ ~(j <= i)
      BY <3>1, PositionsAreKnown
    <3>3. nest[j].kind \notin Loops
      BY <1>2, <2>1, <3>2, SourceLoopIs
    <3>4. nest[j].kind \in Kinds /\ nest[j].kind # "try"
      BY <2>1, <3>2, PositionsAreKnown DEF Between, Frames
    <3>5. QED
      BY <3>3, <3>4 DEF Kinds
  <2>3. ShowsIn(SourceLoop)
    BY <1>2, <1>6, <2>1, <2>2 DEF ShowsIn, Between
  <2>4. QED
    BY <2>1, <2>3 DEF Emit
<1>7. Bears(nest[i], target)
  BY <1>5, <1>6 DEF Bears
<1>8. Resolved(name) = nest[i].label
  <2>1. i = SourceLoop => CurrentLabel = nest[i].label
    BY <1>2, <1>7, CurrentLabelIs
  <2>2. CASE name = None
    BY <1>3, <2>1, <2>2 DEF Resolved
  <2>3. CASE name # None /\ kind = "loop"
    BY <1>3, <2>3, ResolvedToLoop
  <2>4. CASE name # None /\ kind = "while"
    BY <1>3, <1>4, <2>1, <2>4, ResolvedToWhile
  <2>5. QED
    BY <1>5, <2>2, <2>3, <2>4
<1>9. Carrying(nest[i].label) = i
  BY <1>3, <1>7, BearerIsLabelled, CarryingIs
<1>10. QED
  BY <1>8, <1>9 DEF i

LEMMA MysqlJumpIs ==
  ASSUME KeepsIdioms, TypeInv, NestInv, StackInv, NEW form \in {"exit", "continue"},
         NEW name \in Named, NEW when \in BOOLEAN, Emit(form, name, when), target = "mysql"
  PROVE  Emitted(form, name, when) = Wanted(form, name, when)
<1> DEFINE i == Wanted(form, name, when).lands
<1>1. Carrying(Resolved(name)) = i
  BY MysqlLabelIs
<1>2. i # 0
  BY DEF Emit, CanJump
<1>3. form = "continue" => ~when /\ nest[i].kind # "range"
  BY HabitsAreKept DEF KeptHabits
<1>4. Wanted(form, name, when) = [lands |-> i, when |-> when, steps |-> form = "continue"]
  BY DEF Wanted
<1> HIDE DEF i
<1>5. CASE form = "exit"
  <2>1. Emitted(form, name, when) = [lands |-> Carrying(Resolved(name)),
                                     when |-> when, steps |-> FALSE]
    BY <1>5 DEF Emitted, EmittedExit
  <2>2. QED
    BY <1>1, <1>4, <1>5, <2>1
<1>6. CASE form = "continue"
  <2>1. Emitted(form, name, when) = [lands |-> i, when |-> FALSE, steps |-> TRUE]
    BY <1>1, <1>2, <1>3, <1>6 DEF Emitted, EmittedContinue, Steps, Fetches
  <2>2. when = FALSE
    BY <1>3, <1>6
  <2>3. QED
    BY <1>4, <1>6, <2>1, <2>2
<1>7. QED
  BY <1>5, <1>6

LEMMA StepJumpsAsWritten ==
  ASSUME KeepsIdioms
  PROVE  TypeInv /\ NestInv /\ StackInv /\ JumpsAsWritten /\ [Next]_vars => JumpsAsWritten'
<1> SUFFICES ASSUME TypeInv, NestInv, StackInv, JumpsAsWritten, [Next]_vars
             PROVE  JumpsAsWritten'
  OBVIOUS
<1>1. ASSUME NEW kind, NEW control, NEW name, Open(kind, name, control)
      PROVE  JumpsAsWritten'
  BY <1>1 DEF Open, JumpsAsWritten
<1>2. CASE Close
  BY <1>2 DEF Close, JumpsAsWritten
<1>3. ASSUME NEW form \in {"exit", "continue"}, NEW name \in Named, NEW when \in BOOLEAN,
             Emit(form, name, when)
      PROVE  JumpsAsWritten'
  <2>1. jump' = [want |-> Wanted(form, name, when), got |-> Emitted(form, name, when)]
    BY <1>3 DEF Emit, Emitted
  <2>2. target \in Engines
    BY PairIsKnown DEF TypeInv
  <2>3. Emitted(form, name, when) = Wanted(form, name, when)
    BY <1>3, <2>2, TsqlJumpIs, NamedJumpIs, MysqlJumpIs DEF Engines
  <2>4. QED
    BY <2>1, <2>3 DEF JumpsAsWritten
<1>4. CASE UNCHANGED vars
  BY <1>4 DEF vars, JumpsAsWritten
<1>5. QED
  BY <1>1, <1>2, <1>3, <1>4 DEF Next, Exit, Continue, Named

\* The jump a routine is emitted with leaves or continues the loop its source
\* does, on every engine: a label invented where a loop opens is the one a jump
\* to that loop is given, through whatever lies between.
THEOREM JumpsAreKept ==
  ASSUME KeepsIdioms
  PROVE  Spec => []JumpsAsWritten
<1>1. Init => NestInv /\ StackInv /\ JumpsAsWritten
  <2> SUFFICES ASSUME Init PROVE NestInv /\ StackInv /\ JumpsAsWritten
    OBVIOUS
  <2>1. NestInv /\ JumpsAsWritten
    BY DEF Init, NestInv, FramesInv, JumpsAsWritten
  <2>2. <<>> \in [DOMAIN stack -> DOMAIN nest] /\ Holds(<<>>, nest, stack, target)
    BY DEF Init, Holds
  <2>3. QED
    BY <2>1, <2>2 DEF StackInv, EntriesInv
<1>2. TypeInv /\ NestInv /\ [Next]_vars => NestInv'
  BY StepKeepsNest
<1>3. TypeInv /\ NestInv /\ StackInv /\ JumpsAsWritten /\ [Next]_vars => JumpsAsWritten'
  BY StepJumpsAsWritten
<1>4. QED
  BY <1>1, <1>2, <1>3, InitIsTyped, StepKeepsType, StepKeepsStack, PTL DEF Spec
=============================================================================
