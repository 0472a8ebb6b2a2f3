------------------------ MODULE StatementSplit_proofs ------------------------
(***************************************************************************)
(* split_statements against the client, on scripts of any length.  First   *)
(* the scan keeps in step: ScanInv is the inductive form of                *)
(* InStepWithClient.  Then what is sent: SplitInv, with ScanInv, is the    *)
(* inductive form of SplitsAsClient.  Its steps are the scan's; its start  *)
(* is that the chunks of each dialect, sent one after another, send what   *)
(* the client sends.                                                       *)
(***************************************************************************)
EXTENDS StatementSplit, NaturalsInduction, WellFoundedInduction, SequenceTheorems, TLAPS

(* A non-empty set of numbers has a least one.                             *)
LEMMA SomeLeast ==
  ASSUME NEW T \in SUBSET Nat, T # {}
  PROVE  \E m \in T : \A j \in T : m <= j
<1> DEFINE R == {ss \in Nat \X Nat : ss[1] < ss[2]}
<1>1. PICK x \in T : \A y \in T : ~(<<y, x>> \in R)
  <2> HIDE DEF R
  <2>1. IsWellFoundedOn(R, Nat)
    BY NatLessThanWellFounded DEF OpToRel, R
  <2>2. QED
    BY <2>1, WFMin
<1>2. ASSUME NEW y \in T PROVE x <= y
  <2>1. x \in Nat /\ y \in Nat /\ ~(<<y, x>> \in R)
    BY <1>1
  <2>2. ~(y < x)
    BY <2>1
  <2>3. QED
    BY <2>1, <2>2
<1>3. QED
  BY <1>2

(* A non-empty set of numbers up to n has a greatest one.                  *)
LEMMA SomeGreatest ==
  ASSUME NEW n \in Nat, NEW S \in SUBSET (1..n), S # {}
  PROVE  \E m \in S : \A j \in S : m >= j
<1> DEFINE T == {x \in Nat : n - x \in S}
<1>1. T \subseteq Nat /\ T # {}
  <2>1. PICK m \in S : TRUE
    OBVIOUS
  <2>2. m \in 1..n /\ n - m \in Nat /\ n - (n - m) = m
    BY <2>1
  <2>3. QED
    BY <2>2
<1>2. PICK x \in T : \A y \in T : x <= y
  <2> HIDE DEF T
  <2>1. QED
    BY <1>1, SomeLeast
<1>3. ASSUME NEW j \in S PROVE n - x >= j
  <2>1. j \in 1..n /\ n - j \in Nat /\ n - (n - j) = j
    OBVIOUS
  <2>2. x <= n - j
    BY <1>2, <2>1
  <2>3. QED
    BY <1>2, <2>1, <2>2
<1>4. QED
  BY <1>2, <1>3

LEMMA MinIsLeast ==
  ASSUME NEW S \in SUBSET Nat, S # {}
  PROVE  Min(S) \in S /\ \A j \in S : Min(S) <= j
BY SomeLeast DEF Min

LEMMA MaxIsGreatest ==
  ASSUME NEW n \in Nat, NEW S \in SUBSET (1..n), S # {}
  PROVE  Max(S) \in S /\ \A j \in S : Max(S) >= j
BY SomeGreatest DEF Max

(* A function on 1..n is a sequence of length n, and conversely.           *)
LEMMA FunctionIsSeq ==
  ASSUME NEW S, NEW n \in Nat, NEW f \in [1..n -> S]
  PROVE  f \in Seq(S) /\ Len(f) = n
OBVIOUS

LEMMA SeqIsFunction ==
  ASSUME NEW S, NEW s \in Seq(S)
  PROVE  Len(s) \in Nat /\ DOMAIN s = 1..Len(s) /\ \A n \in DOMAIN s : s[n] \in S
OBVIOUS

-----------------------------------------------------------------------------
(* Parts of a text hold marks of the text.                                 *)
Within(part, t) == part \in Seq(ToSet(t))

LEMMA SliceWithin ==
  ASSUME NEW t \in Seq(Marks), NEW a \in 1..(Len(t) + 1), NEW b \in 0..Len(t)
  PROVE  Within(SubSeq(t, a, b), t)
<1>1. \A n \in 1..Len(t) : t[n] \in ToSet(t)
  BY DEF ToSet
<1>2. t \in Seq(ToSet(t))
  <2>1. t \in [1..Len(t) -> ToSet(t)]
    BY <1>1
  <2>2. QED
    BY <2>1, FunctionIsSeq
<1>3. QED
  BY <1>2 DEF Within

LEMMA StripWithin ==
  ASSUME NEW t \in Seq(Marks)
  PROVE  Within(Strip(t), t)
<1> DEFINE code == {n \in DOMAIN t : t[n] # "newline"}
<1>1. code \subseteq 1..Len(t) /\ Len(t) \in Nat
  OBVIOUS
<1>2. Strip(t) = IF code = {} THEN <<>> ELSE SubSeq(t, Min(code), Max(code))
  BY DEF Strip
<1>3. CASE code = {}
  BY <1>2, <1>3 DEF Within
<1>4. CASE code # {}
  <2> HIDE DEF code
  <2>0. code \in SUBSET Nat /\ code \in SUBSET (1..Len(t))
    BY <1>1
  <2>1. Min(code) \in code /\ Max(code) \in code
    <3>1. Min(code) \in code
      BY <1>4, <2>0, MinIsLeast
    <3>2. Max(code) \in code
      BY <1>1, <1>4, <2>0, MaxIsGreatest
    <3>3. QED
      BY <3>1, <3>2
  <2>2. Min(code) \in 1..Len(t) /\ Max(code) \in 1..Len(t)
    BY <1>1, <2>1
  <2>4. Min(code) \in 1..(Len(t) + 1) /\ Max(code) \in 0..Len(t)
    BY <1>1, <2>2
  <2>5. QED
    BY <1>2, <1>4, <2>4, SliceWithin
<1>5. QED
  BY <1>3, <1>4

LEMMA WithinMarks ==
  ASSUME NEW t \in Seq(Marks), NEW part, Within(part, t)
  PROVE  part \in Seq(Marks) /\ ToSet(part) \subseteq ToSet(t)
<1>1. ToSet(t) \subseteq Marks
  BY DEF ToSet
<1>2. part \in Seq(ToSet(t))
  BY DEF Within
<1>3. \A n \in DOMAIN part : part[n] \in ToSet(t)
  BY <1>2
<1>4. part \in Seq(Marks)
  <2> DEFINE S == ToSet(t)
  <2>1. part \in [1..Len(part) -> S] /\ Len(part) \in Nat
    BY <1>2
  <2> HIDE DEF S
  <2>2. part \in [1..Len(part) -> Marks]
    BY <1>1, <2>1 DEF S
  <2>3. QED
    BY <2>1, <2>2, FunctionIsSeq
<1>5. QED
  BY <1>3, <1>4 DEF ToSet

(* The positions of a set, in order; and a text in pieces.                 *)
OrderAs(h, t, P) ==
  h = [n \in 0..Len(t) |->
        CASE n = 0 -> <<>>
          [] n > 0 /\ n \in P -> Append(h[n - 1], n)
          [] OTHER -> h[n - 1]]

LEMMA OrderExists ==
  ASSUME NEW t, NEW P, Len(t) \in Nat
  PROVE  \E h : OrderAs(h, t, P)
<1> DEFINE Upto(m, h) ==
      h = [n \in 0..m |-> CASE n = 0 -> <<>>
                            [] n > 0 /\ n \in P -> Append(h[n - 1], n)
                            [] OTHER -> h[n - 1]]
           Bad == {m \in 0..Len(t) : ~\E h : Upto(m, h)}
<1>1. ASSUME Bad # {} PROVE FALSE
  <2>0. Bad \in SUBSET Nat
    OBVIOUS
  <2>1. PICK m \in Bad : \A j \in Bad : m <= j
    <3> HIDE DEF Bad
    <3>1. QED
      BY <1>1, <2>0, SomeLeast
  <2>2. CASE m = 0
    <3>1. Upto(0, [n \in 0..0 |-> <<>>])
      OBVIOUS
    <3>2. QED
      BY <2>1, <2>2, <3>1
  <2>3. CASE m # 0
    <3>1. m \in 1..Len(t) /\ m - 1 \in 0..Len(t) /\ ~(m <= m - 1) /\ m \in Nat
      BY <2>1, <2>3
    <3>2. PICK h : Upto(m - 1, h)
      BY <2>1, <3>1
    <3> DEFINE last == IF m \in P THEN Append(h[m - 1], m) ELSE h[m - 1]
               g == [n \in 0..m |-> IF n = m THEN last ELSE h[n]]
               body(f, n) == CASE n = 0 -> <<>>
                               [] n > 0 /\ n \in P -> Append(f[n - 1], n)
                               [] OTHER -> f[n - 1]
    <3>3. \A n \in 0..m : n = m \/ n \in 0..(m - 1)
      BY <3>1
    <3>4. \A n \in 0..(m - 1) : g[n] = h[n] /\ n # m
      BY <3>1
    <3>5. \A n \in 0..(m - 1) : n # 0 => n - 1 \in 0..(m - 1)
      BY <3>1
    <3>6. \A n \in 0..(m - 1) : n # 0 => g[n - 1] = h[n - 1]
      BY <3>4, <3>5
    <3>7. \A n \in 0..(m - 1) : h[n] = body(h, n)
      BY <3>2
    <3>8. g[m] = last /\ g[m - 1] = h[m - 1]
      BY <3>1, <3>4
    <3>9. g = [n \in 0..m |-> g[n]]
      OBVIOUS
    <3>10. \A n \in 0..(m - 1) : g[n] = body(g, n)
      <4> HIDE DEF g
      <4>1. TAKE n \in 0..(m - 1)
      <4>2. CASE n = 0
        BY <3>4, <3>7, <4>2
      <4>3. CASE n # 0
        <5>1. g[n - 1] = h[n - 1] /\ n > 0
          BY <3>6, <4>3
        <5>2. QED
          BY <3>4, <3>7, <4>3, <5>1
      <4>4. QED
        BY <4>2, <4>3
    <3>11. g[m] = body(g, m)
      <4> HIDE DEF g
      <4>1. QED
        BY <3>1, <3>8
    <3>12. Upto(m, g)
      <4> HIDE DEF g
      <4>1. QED
        BY <3>3, <3>9, <3>10, <3>11
    <3>13. QED
      BY <2>1, <3>12
  <2>4. QED
    BY <2>2, <2>3
<1>2. QED
  BY <1>1 DEF OrderAs

LEMMA InOrderWithin ==
  ASSUME NEW t \in Seq(Marks), NEW P
  PROVE  InOrder(t, P) \in Seq(1..Len(t))
<1> DEFINE h == CHOOSE h : OrderAs(h, t, P)
           S == 1..Len(t)
<1>0. Len(t) \in Nat
  OBVIOUS
<1>1. InOrder(t, P) = h[Len(t)]
  BY Zenon DEF InOrder, OrderAs
<1>2. OrderAs(h, t, P)
  BY <1>0, OrderExists, Zenon
<1> HIDE DEF h
<1> DEFINE Bad == {n \in 0..Len(t) : h[n] \notin Seq(S)}
<1>3. ASSUME Bad # {} PROVE FALSE
  <2>0. Bad \in SUBSET Nat
    OBVIOUS
  <2>1. PICK m \in Bad : \A j \in Bad : m <= j
    <3> HIDE DEF Bad
    <3>1. QED
      BY <1>3, <2>0, SomeLeast
  <2>2. m \in 0..Len(t) /\ m \in Nat
    BY <2>1
  <2>3. h[m] = CASE m = 0 -> <<>>
                 [] m > 0 /\ m \in P -> Append(h[m - 1], m)
                 [] OTHER -> h[m - 1]
    BY <1>2, <2>2 DEF OrderAs
  <2>4. m # 0
    <3>1. m = 0 => h[m] = <<>>
      BY <2>3
    <3>2. <<>> \in Seq(S)
      OBVIOUS
    <3> HIDE DEF S
    <3>3. QED
      BY <2>1, <3>1, <3>2
  <2>5. m \in S /\ m - 1 \in 0..Len(t) /\ ~(m <= m - 1)
    BY <1>0, <2>2, <2>4
  <2>6. h[m - 1] \in Seq(S)
    BY <2>1, <2>5
  <2>7. h[m] = Append(h[m - 1], m) \/ h[m] = h[m - 1]
    BY <2>3, <2>4, <2>5
  <2>8. h[m] \in Seq(S)
    <3>1. \A s \in Seq(S) : \A x \in S : Append(s, x) \in Seq(S)
      <4> HIDE DEF S
      <4>1. QED
        OBVIOUS
    <3> HIDE DEF S
    <3>2. Append(h[m - 1], m) \in Seq(S)
      BY <2>5, <2>6, <3>1
    <3>3. QED
      BY <2>6, <2>7, <3>2
  <2>9. QED
    BY <2>1, <2>8
<1>4. QED
  BY <1>0, <1>1, <1>3

LEMMA PiecesWithin ==
  ASSUME NEW t \in Seq(Marks), NEW marks
  PROVE  /\ Len(Pieces(t, marks)) \in Nat \ {0} /\ DOMAIN Pieces(t, marks) = 1..Len(Pieces(t, marks))
         /\ \A n \in DOMAIN Pieces(t, marks) : Within(Pieces(t, marks)[n], t)
<1> DEFINE cuts == InOrder(t, {n \in DOMAIN t : t[n] \in marks})
           ends == <<0>> \o cuts \o <<Len(t) + 1>>
           pieces == [n \in 1..(Len(ends) - 1) |-> SubSeq(t, ends[n] + 1, ends[n + 1] - 1)]
<1>0. Len(t) \in Nat
  OBVIOUS
<1>1. cuts \in Seq(1..Len(t))
  BY InOrderWithin
<1>2. Pieces(t, marks) = pieces
  BY DEF Pieces
<1> HIDE DEF cuts
<1>3. PICK c \in Nat : Len(cuts) = c /\ \A n \in 1..c : cuts[n] \in 1..Len(t)
  BY <1>1
<1>4. Len(ends) = c + 2 /\ ends[1] = 0 /\ ends[c + 2] = Len(t) + 1
  BY <1>0, <1>1, <1>3
<1>5. \A n \in 1..c : ends[n + 1] = cuts[n]
  BY <1>0, <1>1, <1>3
<1> HIDE DEF ends
<1>6. \A n \in 2..(c + 1) : ends[n] \in 1..Len(t)
  <2>1. TAKE n \in 2..(c + 1)
  <2>2. n - 1 \in 1..c /\ (n - 1) + 1 = n
    BY <1>3
  <2>3. QED
    BY <1>3, <1>5, <2>2
<1>7. \A n \in 1..(c + 1) : ends[n] \in 0..Len(t)
  <2>1. TAKE n \in 1..(c + 1)
  <2>2. n = 1 \/ n \in 2..(c + 1)
    OBVIOUS
  <2>3. QED
    BY <1>0, <1>4, <1>6, <2>2
<1>8. \A n \in 1..(c + 1) : ends[n + 1] \in 1..(Len(t) + 1)
  <2>1. TAKE n \in 1..(c + 1)
  <2>2. n + 1 = c + 2 \/ n + 1 \in 2..(c + 1)
    BY <1>3
  <2>3. QED
    BY <1>0, <1>4, <1>6, <2>2
<1>9. pieces = [n \in 1..(c + 1) |-> SubSeq(t, ends[n] + 1, ends[n + 1] - 1)]
  BY <1>3, <1>4
<1>10. \A n \in 1..(c + 1) : Within(SubSeq(t, ends[n] + 1, ends[n + 1] - 1), t)
  <2>1. TAKE n \in 1..(c + 1)
  <2>2. ends[n] + 1 \in 1..(Len(t) + 1) /\ ends[n + 1] - 1 \in 0..Len(t)
    BY <1>0, <1>7, <1>8
  <2>3. QED
    BY <2>2, SliceWithin
<1>11. pieces \in [1..(c + 1) -> Seq(ToSet(t))]
  BY <1>9, <1>10 DEF Within
<1> HIDE DEF pieces
<1>12. Len(pieces) = c + 1 /\ DOMAIN pieces = 1..(c + 1)
  BY <1>3, <1>11, FunctionIsSeq
<1>13. QED
  BY <1>2, <1>3, <1>11, <1>12 DEF Within

(* Lists of lists, flattened.                                              *)
Glue(s, t) == s \o t
FlattensAs(h, ss, k) == h = [n \in 1..k |-> IF n = 1 THEN ss[n] ELSE Glue(h[n - 1], ss[n])]

LEMMA FlattenExists ==
  ASSUME NEW ss, NEW k \in Nat
  PROVE  \E h : FlattensAs(h, ss, k)
<1> DEFINE Upto(m, h) == h = [n \in 1..m |-> IF n = 1 THEN ss[n] ELSE Glue(h[n - 1], ss[n])]
           Bad == {m \in 0..k : ~\E h : Upto(m, h)}
<1>1. ASSUME Bad # {} PROVE FALSE
  <2>0. Bad \in SUBSET Nat
    OBVIOUS
  <2>1. PICK m \in Bad : \A j \in Bad : m <= j
    <3> HIDE DEF Bad
    <3>1. QED
      BY <1>1, <2>0, SomeLeast
  <2>2. CASE m = 0
    <3>1. Upto(0, [n \in 1..0 |-> <<>>])
      OBVIOUS
    <3>2. QED
      BY <2>1, <2>2, <3>1
  <2>3. CASE m # 0
    <3>1. m \in 1..k /\ m - 1 \in 0..k /\ ~(m <= m - 1) /\ m \in Nat
      BY <2>1, <2>3
    <3>2. PICK h : Upto(m - 1, h)
      BY <2>1, <3>1
    <3> DEFINE last == IF m = 1 THEN ss[m] ELSE Glue(h[m - 1], ss[m])
               g == [n \in 1..m |-> IF n = m THEN last ELSE h[n]]
    <3>3. \A n \in 1..m : n = m \/ n \in 1..(m - 1)
      BY <3>1
    <3>4. \A n \in 1..(m - 1) : /\ g[n] = h[n]
                                /\ h[n] = IF n = 1 THEN ss[n] ELSE Glue(h[n - 1], ss[n])
      BY <3>1, <3>2
    <3>5. g[m] = last
      BY <3>1
    <3>6. m # 1 => g[m - 1] = h[m - 1]
      BY <3>1, <3>4
    <3>7. \A n \in 1..(m - 1) : n # 1 => g[n - 1] = h[n - 1]
      BY <3>1, <3>4
    <3>8. g = [n \in 1..m |-> g[n]]
      OBVIOUS
    <3>9. \A n \in 1..m : g[n] = IF n = 1 THEN ss[n] ELSE Glue(g[n - 1], ss[n])
      <4> HIDE DEF g
      <4>1. QED
        BY <3>3, <3>4, <3>5, <3>6, <3>7
    <3>10. Upto(m, g)
      <4> HIDE DEF g
      <4>1. QED
        BY <3>8, <3>9
    <3>11. QED
      BY <2>1, <3>10
  <2>4. QED
    BY <2>2, <2>3
<1>2. QED
  BY <1>1, SMTT(60) DEF FlattensAs

LEMMA FlattenTyped ==
  ASSUME NEW S, NEW ss, Len(ss) \in Nat \ {0}, \A n \in 1..Len(ss) : ss[n] \in Seq(S)
  PROVE  FlattenSeq(ss) \in Seq(S)
<1> DEFINE h == CHOOSE h : FlattensAs(h, ss, Len(ss))
<1>1. FlattenSeq(ss) = h[Len(ss)]
  <2>1. Len(ss) # 0
    OBVIOUS
  <2>2. QED
    BY <2>1, Zenon DEF FlattenSeq, FlattensAs, Glue
<1>2. FlattensAs(h, ss, Len(ss))
  <2>1. Len(ss) \in Nat
    OBVIOUS
  <2>2. QED
    BY <2>1, FlattenExists, Zenon
<1> HIDE DEF h
<1> DEFINE Bad == {n \in 1..Len(ss) : h[n] \notin Seq(S)}
<1>3. ASSUME Bad # {} PROVE FALSE
  <2>0. Bad \in SUBSET Nat
    OBVIOUS
  <2>1. PICK m \in Bad : \A j \in Bad : m <= j
    <3> HIDE DEF Bad
    <3>1. QED
      BY <1>3, <2>0, SomeLeast
  <2>2. m \in 1..Len(ss) /\ m \in Nat
    BY <2>1
  <2>3. h[m] = IF m = 1 THEN ss[m] ELSE Glue(h[m - 1], ss[m])
    BY <1>2, <2>2 DEF FlattensAs
  <2>4. m # 1 => m - 1 \in 1..Len(ss) /\ ~(m <= m - 1)
    BY <2>2
  <2>5. m # 1 => h[m - 1] \in Seq(S)
    BY <2>1, <2>4
  <2>6. ss[m] \in Seq(S)
    BY <2>2
  <2>7. h[m] \in Seq(S)
    BY <2>3, <2>5, <2>6 DEF Glue
  <2>8. QED
    BY <2>1, <2>7
<1>4. QED
  BY <1>1, <1>3

-----------------------------------------------------------------------------
(* The chunks of a script that can be read can be read.                    *)
Chunk(d) == {c \in [text : Seq(Marks), scan : BOOLEAN] : c.scan => Readable(d, c.text)}

LEMMA ChunkOf ==
  ASSUME NEW d, NEW t \in Seq(Marks)
  PROVE  Whole(t) \in Chunk(d) /\ (Readable(d, t) => Scanned(t) \in Chunk(d))
BY DEF Whole, Scanned, Chunk

LEMMA PartReadable ==
  ASSUME NEW d, d # "postgresql", NEW t \in Seq(Marks), Readable(d, t),
         NEW part, Within(part, t)
  PROVE  part \in Seq(Marks) /\ Readable(d, part)
<1>1. part \in Seq(Marks) /\ ToSet(part) \subseteq ToSet(t)
  BY WithinMarks
<1>2. QED
  BY <1>1 DEF Readable

LEMMA MysqlChunksTyped ==
  ASSUME NEW t \in Seq(Marks), Readable("mysql", t)
  PROVE  MysqlChunks(t) \in Seq(Chunk("mysql"))
<1> DEFINE directives == InOrder(t, {n \in DOMAIN t : t[n] \in {"delimiter_dollar", "delimiter_semi"}})
           active == <<"delimiter_semi">> \o [n \in DOMAIN directives |-> t[directives[n]]]
           regions == Pieces(t, {"delimiter_dollar", "delimiter_semi"})
           cut(r) == LET bodies == Pieces(r, {"dollar"})
                     IN [m \in DOMAIN bodies |-> Whole(bodies[m])]
           all == [n \in DOMAIN regions |->
                     IF active[n] = "delimiter_semi" THEN <<Scanned(regions[n])>>
                     ELSE cut(regions[n])]
<1>1. MysqlChunks(t) = FlattenSeq(all)
  BY DEF MysqlChunks
<1> HIDE DEF active
<1>2. PICK k \in Nat \ {0} : DOMAIN regions = 1..k
  BY PiecesWithin
<1>3. ASSUME NEW n \in 1..k
      PROVE  /\ <<Scanned(regions[n])>> \in Seq(Chunk("mysql"))
             /\ cut(regions[n]) \in Seq(Chunk("mysql"))
  <2> DEFINE r == regions[n]
  <2>1. r \in Seq(Marks) /\ Readable("mysql", r)
    <3>1. Within(r, t)
      BY <1>2, PiecesWithin
    <3> HIDE DEF r
    <3>2. QED
      BY <3>1, PartReadable
  <2> HIDE DEF r
  <2>2. Scanned(r) \in Chunk("mysql")
    BY <2>1, ChunkOf
  <2>3. cut(r) \in Seq(Chunk("mysql"))
    <3> DEFINE bodies == Pieces(r, {"dollar"})
    <3>1. /\ Len(bodies) \in Nat /\ DOMAIN bodies = 1..Len(bodies)
          /\ \A m \in DOMAIN bodies : Within(bodies[m], r)
      BY <2>1, PiecesWithin
    <3>2. \A m \in DOMAIN bodies : bodies[m] \in Seq(Marks)
      BY <2>1, <3>1, WithinMarks
    <3>3. \A m \in DOMAIN bodies : Whole(bodies[m]) \in Chunk("mysql")
      BY <3>2, ChunkOf
    <3> HIDE DEF bodies
    <3>4. [m \in DOMAIN bodies |-> Whole(bodies[m])] \in [1..Len(bodies) -> Chunk("mysql")]
      BY <3>1, <3>3
    <3>5. QED
      BY <3>1, <3>4, FunctionIsSeq DEF bodies
  <2>4. QED
    BY <2>2, <2>3 DEF r
<1>4. all \in [1..k -> Seq(Chunk("mysql"))]
  <2> HIDE DEF regions, cut
  <2>1. QED
    BY <1>2, <1>3
<1> HIDE DEF all
<1>5. Len(all) = k /\ \A n \in 1..k : all[n] \in Seq(Chunk("mysql"))
  BY <1>4, FunctionIsSeq
<1>6. QED
  BY <1>1, <1>5, FlattenTyped

LEMMA OracleBlockTyped ==
  ASSUME NEW t \in Seq(Marks), Readable("oracle", t)
  PROVE  OracleBlock(t) \in Seq(Chunk("oracle"))
<1> DEFINE head == FirstHead(t)
           ddl == SubSeq(t, 1, head - 1)
           plsql == SubSeq(t, head, Len(t))
<1>0. Len(t) \in Nat /\ DOMAIN t = 1..Len(t)
  OBVIOUS
<1>1. head \in 1..(Len(t) + 1)
  <2>1. PICK heads : /\ heads \subseteq DOMAIN t
                     /\ head = IF heads = {} THEN Len(t) + 1 ELSE Min(heads)
    BY DEF FirstHead
  <2>2. CASE heads = {}
    BY <1>0, <2>1, <2>2
  <2>3. CASE heads # {}
    <3>1. heads \in SUBSET Nat
      BY <1>0, <2>1
    <3>2. Min(heads) \in heads
      BY <2>3, <3>1, MinIsLeast
    <3>3. QED
      BY <1>0, <2>1, <2>3, <3>2
  <2>4. QED
    BY <2>2, <2>3
<1>2. OracleBlock(t) = <<Whole(t)>> \/ OracleBlock(t) = <<Scanned(ddl), Whole(plsql)>>
  BY DEF OracleBlock
<1> HIDE DEF head
<1>3. Within(ddl, t) /\ Within(plsql, t)
  <2>1. head - 1 \in 0..Len(t) /\ 1 \in 1..(Len(t) + 1) /\ Len(t) \in 0..Len(t)
    BY <1>0, <1>1
  <2>2. QED
    BY <1>1, <2>1, SliceWithin
<1>4. Whole(t) \in Chunk("oracle")
  BY ChunkOf
<1> HIDE DEF ddl, plsql
<1>5. Scanned(ddl) \in Chunk("oracle") /\ Whole(plsql) \in Chunk("oracle")
  <2>1. /\ ddl \in Seq(Marks) /\ Readable("oracle", ddl)
        /\ plsql \in Seq(Marks)
    BY <1>3, PartReadable
  <2>2. QED
    BY <2>1, ChunkOf
<1>6. \A S : \A x \in S, y \in S : <<x>> \in Seq(S) /\ <<x, y>> \in Seq(S)
  OBVIOUS
<1>7. <<Whole(t)>> \in Seq(Chunk("oracle"))
  BY <1>4, <1>6
<1>8. <<Scanned(ddl), Whole(plsql)>> \in Seq(Chunk("oracle"))
  BY <1>5, <1>6
<1>9. QED
  BY <1>2, <1>7, <1>8

LEMMA ChunksTyped ==
  ASSUME NEW d \in Dialects, NEW t \in Seq(Marks), Readable(d, t)
  PROVE  Chunks(d, t) \in Seq(Chunk(d))
<1>1. CASE d = "tsql"
  <2> DEFINE batches == Pieces(t, {"go"})
             chunked == [n \in DOMAIN batches |-> Whole(batches[n])]
  <2>1. /\ Len(batches) \in Nat /\ DOMAIN batches = 1..Len(batches)
        /\ \A n \in DOMAIN batches : Within(batches[n], t)
    BY PiecesWithin
  <2>2. \A n \in DOMAIN batches : Whole(batches[n]) \in Chunk(d)
    BY <2>1, WithinMarks, ChunkOf
  <2>3. Chunks(d, t) = chunked
    BY <1>1 DEF Chunks
  <2>4. chunked \in [1..Len(batches) -> Chunk(d)]
    <3> HIDE DEF batches
    <3>1. QED
      BY <2>1, <2>2
  <2> HIDE DEF chunked
  <2>5. QED
    BY <2>1, <2>3, <2>4, FunctionIsSeq
<1>2. CASE d = "oracle"
  <2> DEFINE blocks == Pieces(t, {"slash"})
             all == [n \in DOMAIN blocks |-> OracleBlock(Strip(blocks[n]))]
  <2>1. /\ Len(blocks) \in Nat \ {0} /\ DOMAIN blocks = 1..Len(blocks)
        /\ \A n \in DOMAIN blocks : Within(blocks[n], t)
    BY PiecesWithin
  <2>2. \A n \in DOMAIN blocks : OracleBlock(Strip(blocks[n])) \in Seq(Chunk(d))
    <3>1. TAKE n \in DOMAIN blocks
    <3>2. blocks[n] \in Seq(Marks) /\ Readable("oracle", blocks[n])
      BY <1>2, <2>1, PartReadable
    <3>3. Strip(blocks[n]) \in Seq(Marks) /\ Readable("oracle", Strip(blocks[n]))
      BY <3>2, StripWithin, PartReadable
    <3>4. QED
      BY <1>2, <3>3, OracleBlockTyped
  <2>3. Chunks(d, t) = FlattenSeq(all)
    BY <1>2 DEF Chunks
  <2>4. all \in [1..Len(blocks) -> Seq(Chunk(d))]
    <3> HIDE DEF blocks
    <3>1. QED
      BY <2>1, <2>2
  <2> HIDE DEF all
  <2>5. Len(all) \in Nat \ {0} /\ \A n \in 1..Len(all) : all[n] \in Seq(Chunk(d))
    BY <2>1, <2>4, FunctionIsSeq
  <2>6. QED
    BY <2>3, <2>5, FlattenTyped
<1>3. CASE d = "mysql"
  BY <1>3, MysqlChunksTyped DEF Chunks
<1>4. CASE d = "postgresql"
  <2>1. Scanned(t) \in Chunk(d)
    BY ChunkOf
  <2>2. Chunks(d, t) = <<Scanned(t)>>
    BY <1>4 DEF Chunks
  <2>3. QED
    BY <2>1, <2>2
<1>5. QED
  BY <1>1, <1>2, <1>3, <1>4 DEF Dialects

-----------------------------------------------------------------------------
(* The regions of a text, mark by mark.                                    *)
RegionsAs(h, d, t) ==
  h = [n \in 1..(Len(t) + 1) |-> IF n = 1 THEN "code" ELSE After(d, h[n - 1], t[n - 1])]

LEMMA RegionsExist ==
  ASSUME NEW d, NEW t \in Seq(Marks)
  PROVE  \E h : RegionsAs(h, d, t)
<1> DEFINE Upto(m, h) ==
      h = [n \in 1..m |-> IF n = 1 THEN "code" ELSE After(d, h[n - 1], t[n - 1])]
<1>0. PICK k \in Nat : k = Len(t) + 1
  OBVIOUS
<1> DEFINE Bad == {m \in 0..k : ~\E h : Upto(m, h)}
<1>1. ASSUME Bad # {} PROVE FALSE
  <2>0. Bad \in SUBSET Nat
    OBVIOUS
  <2>1. PICK m \in Bad : \A j \in Bad : m <= j
    <3> HIDE DEF Bad
    <3>1. QED
      BY <1>1, <2>0, SomeLeast
  <2>2. CASE m = 0
    <3>1. Upto(0, [n \in 1..0 |-> <<>>])
      OBVIOUS
    <3>2. QED
      BY <2>1, <2>2, <3>1
  <2>3. CASE m # 0
    <3>1. m \in 1..k /\ m - 1 \in 0..k /\ ~(m <= m - 1) /\ m \in Nat
      BY <2>1, <2>3
    <3>2. PICK h : Upto(m - 1, h)
      BY <2>1, <3>1
    <3> DEFINE last == IF m = 1 THEN "code" ELSE After(d, h[m - 1], t[m - 1])
               g == [n \in 1..m |-> IF n = m THEN last ELSE h[n]]
    <3>3. \A n \in 1..m : n = m \/ n \in 1..(m - 1)
      BY <3>1
    <3>4. \A n \in 1..(m - 1) :
            /\ g[n] = h[n]
            /\ h[n] = IF n = 1 THEN "code" ELSE After(d, h[n - 1], t[n - 1])
      BY <3>1, <3>2
    <3>5. g[m] = last
      BY <3>1
    <3>6. m # 1 => g[m - 1] = h[m - 1]
      BY <3>1, <3>4
    <3>7. \A n \in 1..(m - 1) : n # 1 => g[n - 1] = h[n - 1]
      BY <3>1, <3>4
    <3>8. g = [n \in 1..m |-> g[n]]
      OBVIOUS
    <3>9. \A n \in 1..m : g[n] = IF n = 1 THEN "code" ELSE After(d, g[n - 1], t[n - 1])
      <4> HIDE DEF g
      <4>1. QED
        BY <3>3, <3>4, <3>5, <3>6, <3>7
    <3>10. Upto(m, g)
      <4> HIDE DEF g
      <4>1. QED
        BY <3>8, <3>9
    <3>11. QED
      BY <2>1, <3>10
  <2>4. QED
    BY <2>2, <2>3
<1>2. \E h : Upto(k, h)
  BY <1>1, SMTT(60)
<1>3. QED
  BY <1>0, <1>2 DEF RegionsAs

LEMMA RegionsStep ==
  ASSUME NEW d, NEW t \in Seq(Marks)
  PROVE  /\ Regions(d, t)[1] = "code"
         /\ \A n \in 1..Len(t) : Regions(d, t)[n + 1] = After(d, Regions(d, t)[n], t[n])
<1> DEFINE h == CHOOSE h : RegionsAs(h, d, t)
<1>1. Regions(d, t) = h
  BY Zenon DEF Regions, RegionsAs
<1>2. RegionsAs(h, d, t)
  BY RegionsExist, Zenon
<1> HIDE DEF h
<1>3. h[1] = "code"
  BY <1>2 DEF RegionsAs
<1>4. ASSUME NEW n \in 1..Len(t) PROVE h[n + 1] = After(d, h[n], t[n])
  <2>1. n + 1 \in 1..(Len(t) + 1) /\ n + 1 # 1 /\ (n + 1) - 1 = n
    OBVIOUS
  <2>2. h[n + 1] = After(d, h[(n + 1) - 1], t[(n + 1) - 1])
    BY <1>2, <2>1 DEF RegionsAs
  <2>3. QED
    BY <2>1, <2>2
<1>5. QED
  BY <1>1, <1>3, <1>4

(* Where a mark is found: at its first place, or beyond the text.          *)
LEMMA FindIs ==
  ASSUME NEW t \in Seq(Marks), NEW mark, NEW a \in 1..(Len(t) + 1)
  PROVE  /\ Find(t, mark, a) \in a..(Len(t) + 1)
         /\ Find(t, mark, a) <= Len(t) => t[Find(t, mark, a)] = mark
         /\ \A n \in a..(Find(t, mark, a) - 1) : n \in 1..Len(t) /\ t[n] # mark
<1> DEFINE found == {n \in a..Len(t) : t[n] = mark}
<1>0. Len(t) \in Nat
  OBVIOUS
<1>1. Find(t, mark, a) = IF found = {} THEN Len(t) + 1 ELSE Min(found)
  BY DEF Find
<1>2. CASE found = {}
  <2>1. \A n \in a..Len(t) : t[n] # mark
    BY <1>2
  <2>2. QED
    BY <1>0, <1>1, <1>2, <2>1
<1>3. CASE found # {}
  <2>1. found \in SUBSET Nat
    OBVIOUS
  <2>2. Min(found) \in found /\ \A j \in found : Min(found) <= j
    <3> HIDE DEF found
    <3>1. QED
      BY <1>3, <2>1, MinIsLeast
  <2>3. PICK f \in found : Find(t, mark, a) = f /\ \A j \in found : f <= j
    BY <1>1, <1>3, <2>2
  <2>4. f \in a..Len(t) /\ t[f] = mark
    BY <2>3
  <2>5. \A n \in a..(f - 1) : n \in 1..Len(t) /\ n \in a..Len(t) /\ ~(f <= n)
    BY <1>0, <2>4
  <2>6. \A n \in a..(f - 1) : t[n] # mark
    BY <2>3, <2>5
  <2>7. QED
    BY <1>0, <2>3, <2>4, <2>5, <2>6
<1>4. QED
  BY <1>2, <1>3

(* A region lasts until the mark that closes it.                           *)
LEMMA RegionLasts ==
  ASSUME NEW d, NEW t \in Seq(Marks), NEW region \in {"line", "block"},
         NEW a \in 1..Len(t), Regions(d, t)[a] = "code", Opened(d, t[a]) = region
  PROVE  \A n \in (a + 1)..Find(t, Closing(region), a) : Regions(d, t)[n] = region
<1> DEFINE f == Find(t, Closing(region), a)
           Bad == {n \in (a + 1)..f : Regions(d, t)[n] # region}
<1>0. Len(t) \in Nat /\ a \in 1..(Len(t) + 1)
  OBVIOUS
<1>1. f \in a..(Len(t) + 1) /\ \A n \in a..(f - 1) : n \in 1..Len(t) /\ t[n] # Closing(region)
  BY <1>0, FindIs
<1> HIDE DEF f
<1>2. ASSUME Bad # {} PROVE FALSE
  <2>0. Bad \in SUBSET Nat
    BY <1>1
  <2>1. PICK m \in Bad : \A j \in Bad : m <= j
    <3> HIDE DEF Bad
    <3>1. QED
      BY <1>2, <2>0, SomeLeast
  <2>2. m \in (a + 1)..f /\ m \in Nat /\ m - 1 \in a..(f - 1) /\ (m - 1) + 1 = m /\ ~(m <= m - 1)
    BY <1>1, <2>1
  <2>3. Regions(d, t)[m] = After(d, Regions(d, t)[m - 1], t[m - 1])
    BY <1>1, <2>2, RegionsStep
  <2>4. CASE m - 1 = a
    <3>1. After(d, "code", t[a]) = Opened(d, t[a])
      BY DEF After, Escaping
    <3>2. Regions(d, t)[m] = region
      BY <2>3, <2>4, <3>1
    <3>3. QED
      BY <2>1, <3>2
  <2>5. CASE m - 1 # a
    <3>1. m - 1 \in (a + 1)..f
      BY <1>1, <2>2, <2>5
    <3>2. Regions(d, t)[m - 1] = region
      BY <2>1, <2>2, <3>1
    <3>3. t[m - 1] # Closing(region)
      BY <1>1, <2>2
    <3>4. After(d, region, t[m - 1]) = region
      BY <3>3 DEF After, Escaping
    <3>5. QED
      BY <2>1, <2>3, <3>2, <3>4
  <2>6. QED
    BY <2>4, <2>5
<1>3. QED
  BY <1>2 DEF f

(* The marks that change nothing, in code, in a literal and in a body.     *)
LEMMA StepInCode ==
  ASSUME NEW d, NEW m
  PROVE  After(d, "code", m) = Opened(d, m) /\ After(d, "line", "newline") = "code"
BY DEF After, Closing, Escaping

LEMMA StepInBlock ==
  ASSUME NEW d
  PROVE  After(d, "block", "close") = "code"
BY DEF After, Closing, Escaping

LEMMA StepInString ==
  ASSUME NEW d, NEW m
  PROVE  /\ After(d, "string", "quote") = "code"
         /\ After(d, "string_escape", m) = "string"
         /\ After("mysql", "string", "backslash") = "string_escape"
         /\ m # "quote" /\ ~(d = "mysql" /\ m = "backslash") => After(d, "string", m) = "string"
BY DEF After, Closing, Escaping

LEMMA StepInBody ==
  ASSUME NEW d, NEW m
  PROVE  /\ After(d, "body", "dollar") = "code"
         /\ m # "dollar" => After(d, "body", m) = "body"
BY DEF After, Closing, Escaping

-----------------------------------------------------------------------------
(* The scanner stands in code, at the newline after a line comment, in a   *)
(* literal or in a body, and knows which.                                  *)
InStepAt(d, t, p) ==
  LET region == Regions(d, t)[p]
  IN \/ ~inString /\ ~inDollar
        /\ (region = "code" \/ (region = "line" /\ t[p] = "newline"))
     \/ inString /\ ~inDollar /\ region = "string"
     \/ ~inString /\ inDollar /\ region = "body" /\ d = "postgresql"

ScanInv ==
  /\ input \in Inputs
  /\ chunks \in Seq(Chunk(input.dialect))
  /\ pc = "scan" => /\ text \in Seq(Marks) /\ Readable(input.dialect, text)
                    /\ pos \in 1..(Len(text) + 1)
                    /\ pos <= Len(text) => InStepAt(input.dialect, text, pos)

AllReadable == \A i \in Inputs : Readable(i.dialect, i.script)

LEMMA ScanInit == AllReadable /\ Init => ScanInv
<1> SUFFICES ASSUME AllReadable, Init PROVE ScanInv
  OBVIOUS
<1>1. input \in [dialect : Dialects, script : Seq(Marks)]
  BY InputsAssumption DEF Init
<1>2. input.dialect \in Dialects /\ input.script \in Seq(Marks)
  BY <1>1
<1>3. Readable(input.dialect, input.script)
  BY DEF Init, AllReadable
<1>4. QED
  BY <1>2, <1>3, ChunksTyped DEF Init, ScanInv

(* A step of the scan that stays within the text.                          *)
LEMMA ScanGoesOn ==
  ASSUME ScanInv, pc = "scan", pc' = "scan", UNCHANGED <<input, chunks, text>>,
         pos' \in 1..(Len(text) + 1),
         pos' <= Len(text) => InStepAt(input.dialect, text, pos)'
  PROVE  ScanInv'
<1>1. text' = text /\ input' = input /\ chunks' = chunks
  OBVIOUS
<1>2. Chunk(input.dialect)' = Chunk(input.dialect)
  BY <1>1
<1>3. QED
  BY <1>1, <1>2 DEF ScanInv

LEMMA AtMark ==
  ASSUME ScanInv, NEW mark, At(mark)
  PROVE  /\ text \in Seq(Marks) /\ Len(text) \in Nat /\ pos \in 1..Len(text)
         /\ text[pos] = mark /\ InStepAt(input.dialect, text, pos)
         /\ Readable(input.dialect, text) /\ pc = "scan"
         /\ Regions(input.dialect, text)[pos + 1]
              = After(input.dialect, Regions(input.dialect, text)[pos], mark)
<1>1. text \in Seq(Marks) /\ pos \in 1..(Len(text) + 1) /\ pos <= Len(text)
  BY DEF ScanInv, At
<1>2. Len(text) \in Nat
  BY <1>1
<1>3. pos \in 1..Len(text) /\ text[pos] = mark
  BY <1>1, <1>2 DEF At
<1>4. QED
  BY <1>1, <1>2, <1>3, RegionsStep DEF ScanInv, At

LEMMA LineCommentStep == ScanInv /\ LineComment => ScanInv'
<1> SUFFICES ASSUME ScanInv, LineComment PROVE ScanInv'
  OBVIOUS
<1> DEFINE d == input.dialect
           f == Find(text, "newline", pos)
<1>1. At("dashes") /\ ~inDollar /\ ~inString /\ UNCHANGED <<inDollar, inString>>
      /\ UNCHANGED <<input, chunks, text>> /\ pc' = pc
  BY DEF LineComment, InCode, Take
<1>2. /\ text \in Seq(Marks) /\ Len(text) \in Nat /\ pos \in 1..Len(text)
      /\ text[pos] = "dashes" /\ InStepAt(d, text, pos) /\ pc = "scan"
  BY <1>1, AtMark
<1>3. Regions(d, text)[pos] = "code"
  BY <1>1, <1>2 DEF InStepAt
<1>4. Opened(d, text[pos]) = "line" /\ Closing("line") = "newline"
  BY <1>2 DEF Opened, Closing
<1>5. /\ f \in pos..(Len(text) + 1)
      /\ f <= Len(text) => text[f] = "newline"
      /\ f <= Len(text) => f # pos
  BY <1>2, FindIs
<1>6. pos' = f
  <2>1. pos' = (f - 1) + 1 /\ f \in Int
    BY <1>2, <1>5 DEF LineComment, Take
  <2> HIDE DEF f
  <2>2. QED
    BY <2>1
<1>7. \A n \in (pos + 1)..f : Regions(d, text)[n] = "line"
  BY <1>2, <1>3, <1>4, RegionLasts
<1> HIDE DEF f
<1>8. f <= Len(text) => Regions(d, text)[f] = "line" /\ text[f] = "newline"
  BY <1>2, <1>5, <1>7
<1>9. f <= Len(text) => InStepAt(d, text, pos)'
  BY <1>1, <1>6, <1>8 DEF InStepAt
<1>10. QED
  BY <1>1, <1>2, <1>5, <1>6, <1>9, ScanGoesOn

LEMMA BlockCommentStep == ScanInv /\ BlockComment => ScanInv'
<1> SUFFICES ASSUME ScanInv, BlockComment PROVE ScanInv'
  OBVIOUS
<1> DEFINE d == input.dialect
           f == Find(text, "close", pos)
<1>1. At("open") /\ ~inDollar /\ ~inString /\ UNCHANGED <<inDollar, inString>>
      /\ UNCHANGED <<input, chunks, text>> /\ pc' = pc
      /\ Take(IF f <= Len(text) THEN f ELSE Len(text))
  BY DEF BlockComment, InCode, Take
<1>2. /\ text \in Seq(Marks) /\ Len(text) \in Nat /\ pos \in 1..Len(text)
      /\ text[pos] = "open" /\ InStepAt(d, text, pos) /\ pc = "scan"
  BY <1>1, AtMark
<1>3. Regions(d, text)[pos] = "code"
  BY <1>1, <1>2 DEF InStepAt
<1>4. Opened(d, text[pos]) = "block" /\ Closing("block") = "close"
  BY <1>2 DEF Opened, Closing
<1>5. /\ f \in pos..(Len(text) + 1)
      /\ f <= Len(text) => text[f] = "close"
      /\ f <= Len(text) => f # pos
  BY <1>2, FindIs
<1>6. \A n \in (pos + 1)..f : Regions(d, text)[n] = "block"
  BY <1>2, <1>3, <1>4, RegionLasts
<1>7. \A n \in 1..Len(text) : Regions(d, text)[n + 1] = After(d, Regions(d, text)[n], text[n])
  BY <1>2, RegionsStep
<1>8. pos' = IF f <= Len(text) THEN f + 1 ELSE Len(text) + 1
  BY <1>1 DEF Take
<1> HIDE DEF f
<1>9. CASE f <= Len(text)
  <2>1. Regions(d, text)[f] = "block" /\ text[f] = "close" /\ f \in 1..Len(text)
    BY <1>2, <1>5, <1>6, <1>9
  <2>2. Regions(d, text)[f + 1] = "code"
    BY <1>7, <2>1, StepInBlock
  <2>3. pos' = f + 1 /\ pos' \in 1..(Len(text) + 1)
    BY <1>2, <1>8, <1>9, <2>1
  <2>4. InStepAt(d, text, pos)'
    BY <1>1, <2>2, <2>3 DEF InStepAt
  <2>5. QED
    BY <1>1, <1>2, <2>3, <2>4, ScanGoesOn
<1>10. CASE ~(f <= Len(text))
  <2>1. pos' = Len(text) + 1 /\ pos' \in 1..(Len(text) + 1) /\ ~(pos' <= Len(text))
    BY <1>2, <1>8, <1>10
  <2>2. QED
    BY <1>1, <1>2, <2>1, ScanGoesOn
<1>11. QED
  BY <1>9, <1>10

(* One mark on, into a region that the flags tell.                         *)
LEMMA OneMarkOn ==
  ASSUME ScanInv, NEW mark, At(mark), UNCHANGED <<input, chunks, text, pc>>, pos' = pos + 1,
         LET next == After(input.dialect, Regions(input.dialect, text)[pos], mark)
         IN \/ ~inString' /\ ~inDollar' /\ next = "code"
            \/ inString' /\ ~inDollar' /\ next = "string"
            \/ ~inString' /\ inDollar' /\ next = "body" /\ input.dialect = "postgresql"
  PROVE  ScanInv'
<1> DEFINE d == input.dialect
<1>1. /\ Len(text) \in Nat /\ pos \in 1..Len(text) /\ pc = "scan"
      /\ Regions(d, text)[pos + 1] = After(d, Regions(d, text)[pos], mark)
  BY AtMark
<1>2. pos' \in 1..(Len(text) + 1)
  BY <1>1
<1>3. InStepAt(d, text, pos)'
  BY <1>1 DEF InStepAt
<1>4. QED
  BY <1>1, <1>2, <1>3, ScanGoesOn

LEMMA DollarStep == ScanInv /\ Dollar => ScanInv'
<1> SUFFICES ASSUME ScanInv, Dollar PROVE ScanInv'
  OBVIOUS
<1> DEFINE d == input.dialect
           r == Regions(d, text)[pos]
<1>1. At("dollar") /\ d = "postgresql" /\ inDollar' = ~inDollar /\ inString' = inString
      /\ UNCHANGED <<input, chunks, text, pc>> /\ pos' = pos + 1
  BY DEF Dollar, DollarQuote, Take
<1>2. /\ text \in Seq(Marks) /\ pos \in 1..Len(text) /\ text[pos] = "dollar"
      /\ InStepAt(d, text, pos) /\ Readable(d, text)
  BY <1>1, AtMark
<1>3. r # "string"
  BY <1>1, <1>2 DEF Readable
<1>4. \/ ~inString /\ ~inDollar /\ r = "code"
      \/ ~inString /\ inDollar /\ r = "body"
  BY <1>2, <1>3 DEF InStepAt
<1>5. After(d, "code", "dollar") = "body"
  BY <1>1, StepInCode DEF Opened
<1>6. After(d, "body", "dollar") = "code"
  BY StepInBody
<1>7. QED
  BY <1>1, <1>4, <1>5, <1>6, OneMarkOn

LEMMA QuoteStep == ScanInv /\ Quote => ScanInv'
<1> SUFFICES ASSUME ScanInv, Quote PROVE ScanInv'
  OBVIOUS
<1> DEFINE d == input.dialect
           r == Regions(d, text)[pos]
<1>1. At("quote") /\ ~inDollar /\ inString' = ~inString /\ inDollar' = inDollar
      /\ UNCHANGED <<input, chunks, text, pc>> /\ pos' = pos + 1
  BY DEF Quote, Take
<1>2. text[pos] = "quote" /\ InStepAt(d, text, pos)
  BY <1>1, AtMark
<1>3. \/ ~inString /\ r = "code"
      \/ inString /\ r = "string"
  BY <1>1, <1>2 DEF InStepAt
<1>4. After(d, "code", "quote") = "string"
  BY StepInCode DEF Opened
<1>5. After(d, "string", "quote") = "code"
  BY StepInString
<1>6. QED
  BY <1>1, <1>3, <1>4, <1>5, OneMarkOn

LEMMA EscapeStep == ScanInv /\ Escape => ScanInv'
<1> SUFFICES ASSUME ScanInv, Escape PROVE ScanInv'
  OBVIOUS
<1> DEFINE d == input.dialect
<1>1. At("backslash") /\ inString /\ d = "mysql" /\ UNCHANGED <<inDollar, inString>>
      /\ UNCHANGED <<input, chunks, text>> /\ pc' = pc
      /\ pos' = (IF pos < Len(text) THEN pos + 1 ELSE pos) + 1
  BY DEF Escape, BackslashEscapes, Take
<1>2. /\ text \in Seq(Marks) /\ Len(text) \in Nat /\ pos \in 1..Len(text)
      /\ InStepAt(d, text, pos) /\ pc = "scan"
      /\ Regions(d, text)[pos + 1] = After(d, Regions(d, text)[pos], "backslash")
  BY <1>1, AtMark
<1>3. ~inDollar /\ Regions(d, text)[pos] = "string"
  BY <1>1, <1>2 DEF InStepAt
<1>4. Regions(d, text)[pos + 1] = "string_escape"
  BY <1>1, <1>2, <1>3, StepInString
<1>5. CASE pos < Len(text)
  <2>1. pos' = pos + 2 /\ pos + 1 \in 1..Len(text) /\ pos' \in 1..(Len(text) + 1)
        /\ (pos + 1) + 1 = pos + 2
    BY <1>1, <1>2, <1>5
  <2>2. Regions(d, text)[pos + 2] = After(d, Regions(d, text)[pos + 1], text[pos + 1])
    BY <1>2, <2>1, RegionsStep
  <2>3. Regions(d, text)[pos + 2] = "string"
    <3>1. After(d, "string_escape", text[pos + 1]) = "string"
      BY StepInString
    <3>2. QED
      BY <1>4, <2>2, <3>1
  <2>4. InStepAt(d, text, pos)'
    BY <1>1, <1>3, <2>1, <2>3 DEF InStepAt
  <2>5. QED
    BY <1>1, <1>2, <2>1, <2>4, ScanGoesOn
<1>6. CASE ~(pos < Len(text))
  <2>1. pos' = Len(text) + 1 /\ pos' \in 1..(Len(text) + 1) /\ ~(pos' <= Len(text))
    BY <1>1, <1>2, <1>6
  <2>2. QED
    BY <1>1, <1>2, <2>1, ScanGoesOn
<1>7. QED
  BY <1>5, <1>6

(* BEGIN, END and a separating semicolon are read in code, and leave it so. *)
LEMMA CodeMarkStep ==
  ASSUME ScanInv, NEW mark \in {"begin", "end", "semi"}, At(mark), InCode,
         UNCHANGED <<input, chunks, text, pc>>, UNCHANGED <<inDollar, inString>>,
         pos' = pos + 1
  PROVE  ScanInv'
<1> DEFINE d == input.dialect
<1>1. ~inDollar /\ ~inString /\ text[pos] = mark /\ InStepAt(d, text, pos)
  BY AtMark DEF InCode
<1>2. Regions(d, text)[pos] = "code"
  BY <1>1 DEF InStepAt
<1>3. After(d, "code", mark) = "code"
  <2>1. After(d, "code", mark) = Opened(d, mark)
    BY StepInCode
  <2>2. Opened(d, mark) = "code"
    BY DEF Opened
  <2>3. QED
    BY <2>1, <2>2
<1>4. QED
  BY <1>1, <1>2, <1>3, OneMarkOn

LEMMA CopyStep == ScanInv /\ Copy => ScanInv'
<1> SUFFICES ASSUME ScanInv, Copy PROVE ScanInv'
  OBVIOUS
<1> DEFINE d == input.dialect
           r == Regions(d, text)[pos]
           m == text[pos]
<1>1. At(m) /\ UNCHANGED <<inDollar, inString>>
      /\ UNCHANGED <<input, chunks, text, pc>> /\ pos' = pos + 1
  BY DEF Copy, At, Take
<1>2. /\ m \in {"dashes", "open", "begin", "end"} => ~InCode
      /\ m = "dollar" => d # "postgresql"
      /\ m = "backslash" => ~(inString /\ d = "mysql")
      /\ m = "quote" => inDollar
  BY DEF Copy, DollarQuote, BackslashEscapes
<1>3. /\ text \in Seq(Marks) /\ pos \in 1..Len(text)
      /\ InStepAt(d, text, pos) /\ Readable(d, text)
  BY <1>1, AtMark
<1>4. m \in ToSet(text)
  BY <1>3 DEF ToSet
<1>5. /\ d = "oracle" => m # "rem"
      /\ d = "postgresql" => m \notin {"equote", "dquote", "tag"}
  BY <1>3, <1>4 DEF Readable
<1>6. CASE ~inString /\ ~inDollar /\ r = "code"
  <2>1. Opened(d, m) = "code"
    BY <1>2, <1>5, <1>6 DEF Opened, InCode
  <2>2. After(d, r, m) = "code"
    BY <1>6, <2>1, StepInCode
  <2>3. QED
    BY <1>1, <1>6, <2>2, OneMarkOn
<1>7. CASE ~inString /\ ~inDollar /\ r = "line" /\ m = "newline"
  <2>1. After(d, r, m) = "code"
    BY <1>7, StepInCode
  <2>2. QED
    BY <1>1, <1>7, <2>1, OneMarkOn
<1>8. CASE inString /\ ~inDollar /\ r = "string"
  <2>1. m # "quote" /\ ~(d = "mysql" /\ m = "backslash")
    BY <1>2, <1>8
  <2>2. After(d, "string", m) = "string"
    <3> HIDE DEF d, m
    <3>1. QED
      BY <2>1, StepInString
  <2>3. QED
    BY <1>1, <1>8, <2>2, OneMarkOn
<1>9. CASE ~inString /\ inDollar /\ r = "body" /\ d = "postgresql"
  <2>1. After(d, r, m) = "body"
    BY <1>2, <1>9, StepInBody
  <2>2. QED
    BY <1>1, <1>9, <2>1, OneMarkOn
<1>10. QED
  BY <1>3, <1>6, <1>7, <1>8, <1>9 DEF InStepAt

(* A chunk is taken from the list; its scan starts in code.                *)
LEMMA ChunkStep == ScanInv /\ (KeepChunk \/ ScanChunk) => ScanInv'
<1> SUFFICES ASSUME ScanInv, KeepChunk \/ ScanChunk PROVE ScanInv'
  OBVIOUS
<1>1. chunks # <<>> /\ chunks \in Seq(Chunk(input.dialect)) /\ input' = input
      /\ chunks' = Tail(chunks) /\ input \in Inputs
  BY DEF ScanInv, KeepChunk, ScanChunk
<1>2. Head(chunks) \in Chunk(input.dialect) /\ chunks' \in Seq(Chunk(input.dialect))
  <2>1. \A S : \A s \in Seq(S) : s # <<>> => Head(s) \in S /\ Tail(s) \in Seq(S)
    OBVIOUS
  <2>2. QED
    BY <1>1, <2>1
<1>3. CASE KeepChunk
  <2>1. pc' = "chunk"
    BY <1>3 DEF KeepChunk
  <2>2. QED
    BY <1>1, <1>2, <2>1 DEF ScanInv
<1>4. CASE ScanChunk
  <2>1. text' \in Seq(Marks) /\ Readable(input.dialect, text') /\ pos' = 1
        /\ ~inString' /\ ~inDollar'
    BY <1>2, <1>4 DEF ScanChunk, Chunk
  <2>2. Regions(input.dialect, text')[1] = "code" /\ 1 \in 1..(Len(text') + 1)
    BY <2>1, RegionsStep
  <2>3. InStepAt(input.dialect, text, pos)'
    BY <1>1, <2>1, <2>2 DEF InStepAt
  <2>4. QED
    BY <1>1, <1>2, <2>1, <2>2, <2>3 DEF ScanInv
<1>5. QED
  BY <1>3, <1>4

LEMMA ScanNext == ScanInv /\ [Next]_vars => ScanInv'
<1> SUFFICES ASSUME ScanInv, [Next]_vars PROVE ScanInv'
  OBVIOUS
<1>1. CASE Begin \/ End \/ Separator
  <2>1. CASE Begin
    <3>1. At("begin") /\ InCode /\ UNCHANGED <<input, chunks, text, pc>>
          /\ UNCHANGED <<inDollar, inString>> /\ pos' = pos + 1
      BY <2>1 DEF Begin, Take
    <3>2. QED
      BY <3>1, CodeMarkStep
  <2>2. CASE End
    <3>1. At("end") /\ InCode /\ UNCHANGED <<input, chunks, text, pc>>
          /\ UNCHANGED <<inDollar, inString>> /\ pos' = pos + 1
      BY <2>2 DEF End, Take
    <3>2. QED
      BY <3>1, CodeMarkStep
  <2>3. CASE Separator
    <3>1. At("semi") /\ InCode /\ UNCHANGED <<input, chunks, text, pc>>
          /\ UNCHANGED <<inDollar, inString>> /\ pos' = pos + 1
      BY <2>3 DEF Separator
    <3>2. QED
      BY <3>1, CodeMarkStep
  <2>4. QED
    BY <1>1, <2>1, <2>2, <2>3
<1>2. CASE Return \/ EndChunk
  <2>1. pc' \in {"chunk", "done"} /\ UNCHANGED <<input, chunks>>
    BY <1>2 DEF Return, EndChunk
  <2>2. QED
    BY <2>1 DEF ScanInv
<1>3. CASE UNCHANGED vars
  BY <1>3 DEF vars, ScanInv, InStepAt
<1>4. QED
  BY <1>1, <1>2, <1>3, ChunkStep, LineCommentStep, BlockCommentStep, DollarStep, EscapeStep,
     QuoteStep, CopyStep DEF Next, Finished

(* The scanner of split_statements reads no mark in another region than    *)
(* the client does: a literal, a comment or a $$ body that it takes for    *)
(* open is open, in every chunk of every script of any length.             *)
THEOREM ScanKeepsStep ==
  ASSUME AllReadable
  PROVE  Spec => []InStepWithClient
<1>1. Init => ScanInv
  BY ScanInit
<1>2. ScanInv /\ [Next]_vars => ScanInv'
  BY ScanNext
<1>3. ScanInv => InStepWithClient
  BY DEF ScanInv, InStepWithClient, InStepAt
<1>4. QED
  BY <1>1, <1>2, <1>3, PTL DEF Spec

-----------------------------------------------------------------------------
(* Sequences that are built piece by piece: Joined(xs, n) is what the      *)
(* first n of a list of sequences come to.                                 *)

(* Induction up to a bound, for the numbers of a set.                      *)
LEMMA UpTo ==
  ASSUME NEW N \in Nat, NEW Good \in SUBSET (0..N),
         0 \in Good, \A n \in 1..N : n - 1 \in Good => n \in Good
  PROVE  Good = 0..N
<1> DEFINE Bad == {n \in 0..N : n \notin Good}
<1>1. ASSUME Bad # {} PROVE FALSE
  <2>0. Bad \in SUBSET Nat
    OBVIOUS
  <2>1. PICK m \in Bad : \A j \in Bad : m <= j
    <3> HIDE DEF Bad
    <3>1. QED
      BY <1>1, <2>0, SomeLeast
  <2>2. m # 0 /\ m \in 0..N
    BY <2>1
  <2>3. m \in 1..N /\ m - 1 \in 0..N /\ ~(m <= m - 1)
    BY <2>2
  <2>4. QED
    BY <2>1, <2>3
<1>2. QED
  BY <1>1

LEMMA EmptyTyped ==
  ASSUME NEW S
  PROVE  <<>> \in Seq(S)
OBVIOUS

LEMMA Glued ==
  ASSUME NEW S
  PROVE  /\ \A s \in Seq(S), t \in Seq(S) : Glue(s, t) \in Seq(S)
         /\ \A s \in Seq(S) : Glue(s, <<>>) = s /\ Glue(<<>>, s) = s
         /\ \A s \in Seq(S), t \in Seq(S), u \in Seq(S) : Glue(Glue(s, t), u) = Glue(s, Glue(t, u))
         /\ \A s \in Seq(S), t \in Seq(S), u \in Seq(S) : Glue(s, t) = Glue(s, u) => t = u
<1>1. ASSUME NEW s \in Seq(S) PROVE Glue(s, <<>>) = s /\ Glue(<<>>, s) = s
  BY ConcatEmptySeq DEF Glue
<1>2. ASSUME NEW s \in Seq(S), NEW t \in Seq(S) PROVE Glue(s, t) \in Seq(S)
  BY ConcatProperties DEF Glue
<1>3. ASSUME NEW s \in Seq(S), NEW t \in Seq(S), NEW u \in Seq(S)
      PROVE  Glue(Glue(s, t), u) = Glue(s, Glue(t, u))
  BY ConcatAssociative DEF Glue
<1>4. ASSUME NEW s \in Seq(S), NEW t \in Seq(S), NEW u \in Seq(S), Glue(s, t) = Glue(s, u)
      PROVE  t = u
  BY <1>4, ConcatSimplifications DEF Glue
<1>5. QED
  BY <1>1, <1>2, <1>3, <1>4

(* The first n lists of a list of lists, flattened, one list at a time.    *)
Joined(xs, n) == FlattenSeq([m \in 1..n |-> xs[m]])

FlattenOf(ss, k) == CHOOSE h : FlattensAs(h, ss, k)

Flattens(h, ss, k) == h[1] = ss[1] /\ \A n \in 2..k : h[n] = Glue(h[n - 1], ss[n])

LEMMA FlattenIs ==
  ASSUME NEW S, NEW k \in Nat \ {0}, NEW ss \in [1..k -> Seq(S)]
  PROVE  /\ FlattenSeq(ss) = FlattenOf(ss, k)[k]
         /\ Flattens(FlattenOf(ss, k), ss, k)
<1>1. ss \in Seq(Seq(S)) /\ Len(ss) = k /\ Len(ss) # 0
  BY FunctionIsSeq
<1>2. FlattenSeq(ss) = FlattenOf(ss, Len(ss))[Len(ss)]
  BY <1>1, Zenon DEF FlattenSeq, FlattenOf, FlattensAs, Glue
<1>3. FlattensAs(FlattenOf(ss, k), ss, k)
  BY FlattenExists, Zenon DEF FlattenOf
<1> DEFINE h == FlattenOf(ss, k)
<1> HIDE DEF h
<1>4. \A n \in 1..k : h[n] = IF n = 1 THEN ss[n] ELSE Glue(h[n - 1], ss[n])
  BY <1>3 DEF FlattensAs, h
<1>5. 1 \in 1..k /\ \A n \in 2..k : n \in 1..k /\ n # 1
  OBVIOUS
<1>6. QED
  BY <1>1, <1>2, <1>4, <1>5 DEF h, Flattens

LEMMA JoinedSteps ==
  ASSUME NEW S, NEW N \in Nat, NEW xs \in [1..N -> Seq(S)]
  PROVE  /\ Joined(xs, 0) = <<>>
         /\ Joined(xs, N) = FlattenSeq(xs)
         /\ \A n \in 0..N : Joined(xs, n) \in Seq(S)
         /\ \A n \in 1..N : Joined(xs, n) = Glue(Joined(xs, n - 1), xs[n])
<1> DEFINE ys(n) == [m \in 1..n |-> xs[m]]
<1>0. \A n \in 0..N : ys(n) \in [1..n -> Seq(S)] /\ \A m \in 1..n : ys(n)[m] = xs[m]
  OBVIOUS
<1>1. Joined(xs, 0) = <<>>
  <2>1. ys(0) = <<>>
    OBVIOUS
  <2>2. FlattenSeq(<<>>) = <<>>
    <3>1. Len(<<>>) = 0
      OBVIOUS
    <3>2. QED
      BY <3>1, Zenon DEF FlattenSeq
  <2>3. QED
    BY <2>1, <2>2 DEF Joined
<1>2. Joined(xs, N) = FlattenSeq(xs)
  <2>1. ys(N) = xs
    OBVIOUS
  <2>2. QED
    BY <2>1 DEF Joined
<1> HIDE DEF ys
<1>3. ASSUME NEW n \in 1..N
      PROVE  Joined(xs, n) = FlattenOf(xs, N)[n] /\ Joined(xs, n) \in Seq(S)
  <2> DEFINE g == FlattenOf(ys(n), n)
             h == FlattenOf(xs, N)
  <2>1. n \in Nat \ {0} /\ n \in 0..N /\ N \in Nat \ {0}
    OBVIOUS
  <2>2. ys(n) \in [1..n -> Seq(S)] /\ \A m \in 1..n : ys(n)[m] = xs[m]
    BY <1>0, <2>1
  <2>3. FlattenSeq(ys(n)) = g[n] /\ Flattens(g, ys(n), n)
    BY <2>1, <2>2, FlattenIs, Zenon
  <2>4. Flattens(h, xs, N)
    BY <2>1, FlattenIs, Zenon
  <2> HIDE DEF g, h
  <2> DEFINE Good == {m \in 0..n : m > 0 => g[m] = h[m]}
  <2>5. Good \in SUBSET (0..n) /\ 0 \in Good
    BY <2>1
  <2>6. ASSUME NEW m \in 1..n, m - 1 \in Good PROVE m \in Good
    <3>1. CASE m = 1
      BY <2>1, <2>2, <2>3, <2>4, <3>1 DEF Flattens
    <3>2. CASE m # 1
      <4>1. m \in 2..n /\ m \in 2..N /\ m - 1 > 0 /\ m \in 0..n
        BY <2>1, <3>2
      <4>2. g[m - 1] = h[m - 1]
        BY <2>6, <4>1
      <4>3. QED
        BY <2>2, <2>3, <2>4, <4>1, <4>2 DEF Flattens
    <3>3. QED
      BY <3>1, <3>2
  <2>7. Good = 0..n
    <3> HIDE DEF Good
    <3>1. QED
      BY <2>1, <2>5, <2>6, UpTo
  <2>8. g[n] = h[n]
    <3>1. n \in Good /\ n > 0
      BY <2>1, <2>7
    <3>2. QED
      BY <3>1
  <2>9. FlattenSeq(ys(n)) \in Seq(S)
    <3>1. Len(ys(n)) = n
      BY <2>1, <2>2, FunctionIsSeq
    <3>2. \A m \in 1..n : ys(n)[m] \in Seq(S)
      BY <2>2
    <3>3. QED
      BY <2>1, <3>1, <3>2, FlattenTyped
  <2>10. Joined(xs, n) = FlattenSeq(ys(n))
    BY DEF Joined, ys
  <2>11. QED
    BY <2>3, <2>8, <2>9, <2>10 DEF h
<1>4. ASSUME NEW n \in 1..N PROVE Joined(xs, n) = Glue(Joined(xs, n - 1), xs[n])
  <2> DEFINE h == FlattenOf(xs, N)
  <2>1. N \in Nat \ {0}
    OBVIOUS
  <2>2. Flattens(h, xs, N)
    BY <2>1, FlattenIs, Zenon
  <2> HIDE DEF h
  <2>3. Joined(xs, n) = h[n]
    BY <1>3 DEF h
  <2>4. CASE n = 1
    <3>1. Glue(<<>>, xs[1]) = xs[1]
      <4>1. xs[1] \in Seq(S)
        BY <2>1
      <4>2. QED
        BY <4>1, Glued
    <3>2. QED
      BY <1>1, <2>2, <2>3, <2>4, <3>1 DEF Flattens
  <2>5. CASE n # 1
    <3>1. n \in 2..N /\ n - 1 \in 1..N
      BY <2>5
    <3>2. Joined(xs, n - 1) = h[n - 1]
      BY <1>3, <3>1 DEF h
    <3>3. QED
      BY <2>2, <2>3, <3>1, <3>2 DEF Flattens
  <2>6. QED
    BY <2>4, <2>5
<1>5. ASSUME NEW n \in 0..N PROVE Joined(xs, n) \in Seq(S)
  <2>1. n = 0 \/ n \in 1..N
    OBVIOUS
  <2>2. QED
    BY <1>1, <1>3, <2>1, EmptyTyped
<1>6. QED
  BY <1>1, <1>2, <1>4, <1>5

(* Empty lists add nothing; equal lists add the same.                      *)
NothingIn(xs, a, b) == \A n \in a..b : xs[n] = <<>>

LEMMA JoinedSame ==
  ASSUME NEW S, NEW N \in Nat, NEW xs \in [1..N -> Seq(S)], NEW a \in 0..N, NEW b \in a..N,
         NothingIn(xs, a + 1, b)
  PROVE  Joined(xs, b) = Joined(xs, a)
<1> DEFINE J(n) == Joined(xs, n)
<1>1. /\ \A n \in 0..N : J(n) \in Seq(S)
      /\ \A n \in 1..N : J(n) = Glue(J(n - 1), xs[n])
  BY JoinedSteps
<1> HIDE DEF J
<1> DEFINE Good == {n \in 0..(b - a) : J(a + n) = J(a)}
<1>2. b - a \in Nat /\ Good \in SUBSET (0..(b - a)) /\ 0 \in Good
  OBVIOUS
<1>3. ASSUME NEW n \in 1..(b - a), n - 1 \in Good PROVE n \in Good
  <2>1. a + n \in (a + 1)..b /\ a + n \in 1..N /\ a \in 0..N /\ (a + n) - 1 = a + (n - 1)
        /\ n \in 0..(b - a)
    OBVIOUS
  <2>2. J(a + n) = Glue(J(a + (n - 1)), <<>>)
    BY <1>1, <2>1 DEF NothingIn
  <2>3. J(a + (n - 1)) = J(a) /\ J(a) \in Seq(S)
    BY <1>1, <1>3, <2>1
  <2>4. J(a + n) = J(a)
    BY <2>2, <2>3, Glued
  <2>5. QED
    BY <2>1, <2>4
<1>4. Good = 0..(b - a)
  <2> HIDE DEF Good
  <2>1. QED
    BY <1>2, <1>3, UpTo
<1>5. b - a \in 0..(b - a) /\ a + (b - a) = b
  BY <1>2
<1>6. \A n \in 0..(b - a) : J(a + n) = J(a)
  BY <1>4
<1>7. J(a + (b - a)) = J(a)
  BY <1>5, <1>6
<1>8. QED
  BY <1>5, <1>7 DEF J

Matches(ys, K, xs, a) == \A n \in 1..K : ys[n] = xs[a + n]

Continues(ys, K, xs, a) == \A n \in 0..K : Joined(xs, a + n) = Glue(Joined(xs, a), Joined(ys, n))

LEMMA JoinedOn ==
  ASSUME NEW S, NEW N \in Nat, NEW xs \in [1..N -> Seq(S)],
         NEW M \in Nat, NEW ys \in [1..M -> Seq(S)], NEW K \in 0..M,
         NEW a \in 0..N, a + K <= N, Matches(ys, K, xs, a)
  PROVE  Continues(ys, K, xs, a)
<1> DEFINE J(n) == Joined(xs, n)
           I(n) == Joined(ys, n)
<1>1. /\ \A n \in 0..N : J(n) \in Seq(S)
      /\ \A n \in 1..N : J(n) = Glue(J(n - 1), xs[n])
  BY JoinedSteps
<1>2. /\ I(0) = <<>> /\ \A n \in 0..M : I(n) \in Seq(S)
      /\ \A n \in 1..M : I(n) = Glue(I(n - 1), ys[n])
  BY JoinedSteps
<1> HIDE DEF J, I
<1> DEFINE Good == {n \in 0..K : J(a + n) = Glue(J(a), I(n))}
<1>3. Good \in SUBSET (0..K) /\ 0 \in Good
  <2>1. J(a) \in Seq(S) /\ J(a + 0) = J(a)
    BY <1>1
  <2>2. QED
    BY <1>2, <2>1, Glued
<1>4. ASSUME NEW n \in 1..K, n - 1 \in Good PROVE n \in Good
  <2>1. a + n \in 1..N /\ a \in 0..N /\ (a + n) - 1 = a + (n - 1) /\ n \in 0..K /\ n - 1 \in 0..M
        /\ n \in 1..M
    OBVIOUS
  <2>2. J(a + n) = Glue(Glue(J(a), I(n - 1)), ys[n])
    BY <1>1, <1>4, <2>1 DEF Matches
  <2>3. J(a) \in Seq(S) /\ I(n - 1) \in Seq(S) /\ ys[n] \in Seq(S)
    BY <1>1, <1>2, <2>1
  <2>4. Glue(Glue(J(a), I(n - 1)), ys[n]) = Glue(J(a), Glue(I(n - 1), ys[n]))
    BY <2>3, Glued
  <2>5. J(a + n) = Glue(J(a), I(n))
    BY <1>2, <2>2, <2>4
  <2>6. QED
    BY <2>1, <2>5
<1>5. Good = 0..K
  <2> HIDE DEF Good
  <2>1. QED
    BY <1>3, <1>4, UpTo
<1>6. \A n \in 0..K : J(a + n) = Glue(J(a), I(n))
  BY <1>5
<1>7. QED
  BY <1>6 DEF J, I, Continues

(* The regions of a part that starts in code are those of the text.        *)
LEMMA PartRegions ==
  ASSUME NEW d, NEW t \in Seq(Marks), NEW a \in 1..(Len(t) + 1), NEW b \in (a - 1)..Len(t),
         Regions(d, t)[a] = "code"
  PROVE  /\ SubSeq(t, a, b) \in Seq(Marks) /\ Len(SubSeq(t, a, b)) = b - a + 1
         /\ \A n \in 1..(b - a + 1) : SubSeq(t, a, b)[n] = t[a - 1 + n]
         /\ \A n \in 1..(b - a + 2) : Regions(d, SubSeq(t, a, b))[n] = Regions(d, t)[a - 1 + n]
<1> DEFINE x == SubSeq(t, a, b)
           r(n) == Regions(d, t)[n]
           q(n) == Regions(d, x)[n]
<1>0. Len(t) \in Nat /\ DOMAIN t = 1..Len(t) /\ \A n \in 1..Len(t) : t[n] \in Marks
  OBVIOUS
<1>1. PICK k \in Nat : k = b - a + 1
  BY <1>0
<1>2. x \in Seq(Marks) /\ Len(x) = k /\ \A n \in 1..k : x[n] = t[a - 1 + n] /\ a - 1 + n \in 1..Len(t)
  <2>1. a \in Int /\ b \in Int /\ \A n \in a..b : t[n] \in Marks
    BY <1>0
  <2>2. /\ x \in Seq(Marks)
        /\ Len(x) = IF a <= b THEN b - a + 1 ELSE 0
        /\ \A n \in 1..(b - a + 1) : x[n] = t[a + n - 1]
    BY <2>1, SubSeqProperties
  <2>3. \A n \in 1..k : a + n - 1 = a - 1 + n /\ a - 1 + n \in 1..Len(t) /\ n \in 1..(b - a + 1)
    BY <1>0, <1>1
  <2>4. Len(x) = k
    BY <1>0, <1>1, <2>2
  <2> HIDE DEF x
  <2>5. QED
    BY <2>2, <2>3, <2>4
<1> HIDE DEF x
<1>3. r(a) = "code" /\ \A n \in 1..Len(t) : r(n + 1) = After(d, r(n), t[n])
  BY RegionsStep
<1>4. q(1) = "code" /\ \A n \in 1..k : q(n + 1) = After(d, q(n), x[n])
  BY <1>2, RegionsStep, ZenonT(60)
<1> HIDE DEF r, q
<1> DEFINE Good == {n \in 0..k : q(n + 1) = r(a + n)}
<1>5. Good \in SUBSET (0..k) /\ 0 \in Good
  <2>1. a + 0 = a /\ 0 + 1 = 1
    BY <1>0
  <2>2. QED
    BY <1>3, <1>4, <2>1
<1>6. ASSUME NEW n \in 1..k, n - 1 \in Good PROVE n \in Good
  <2>1. (n - 1) + 1 = n /\ a + (n - 1) = a - 1 + n /\ (a - 1 + n) + 1 = a + n /\ n \in 0..k
    BY <1>0, <1>1
  <2>2. q(n) = r(a - 1 + n)
    BY <1>6, <2>1
  <2>3. q(n + 1) = After(d, q(n), x[n]) /\ x[n] = t[a - 1 + n]
    BY <1>2, <1>4
  <2>4. r(a + n) = After(d, r(a - 1 + n), t[a - 1 + n])
    <3>1. a - 1 + n \in 1..Len(t)
      BY <1>2
    <3>2. r((a - 1 + n) + 1) = After(d, r(a - 1 + n), t[a - 1 + n])
      BY <1>3, <3>1
    <3>3. QED
      BY <2>1, <3>2
  <2>5. q(n + 1) = r(a + n)
    BY <2>2, <2>3, <2>4
  <2>6. QED
    BY <2>1, <2>5
<1>7. Good = 0..k
  <2> HIDE DEF Good
  <2>1. QED
    BY <1>1, <1>5, <1>6, UpTo
<1>8. \A n \in 1..(k + 1) : q(n) = r(a - 1 + n)
  <2>1. TAKE n \in 1..(k + 1)
  <2>2. n - 1 \in 0..k /\ (n - 1) + 1 = n /\ a + (n - 1) = a - 1 + n
    BY <1>0, <1>1
  <2>3. \A m \in 0..k : q(m + 1) = r(a + m)
    BY <1>7
  <2>4. q((n - 1) + 1) = r(a + (n - 1))
    BY <2>2, <2>3
  <2>5. QED
    BY <2>2, <2>4
<1>9. k + 1 = b - a + 2
  BY <1>0, <1>1
<1>10. QED
  BY <1>1, <1>2, <1>8, <1>9 DEF x, r, q

(* The code of a text, mark by mark.                                       *)
KeptAt(d, t) ==
  [n \in DOMAIN t |-> IF Reaches(Regions(d, t)[n], t[n]) THEN <<t[n]>> ELSE <<>>]

LEMMA CodeIs ==
  ASSUME NEW d, NEW t \in Seq(Marks)
  PROVE  /\ KeptAt(d, t) \in [1..Len(t) -> Seq(Marks)]
         /\ \A n \in 1..Len(t) : KeptAt(d, t)[n] = IF Reaches(Regions(d, t)[n], t[n]) THEN <<t[n]>> ELSE <<>>
         /\ Code(d, t) = Joined(KeptAt(d, t), Len(t))
         /\ Code(d, t) \in Seq(Marks)
<1>0. Len(t) \in Nat /\ DOMAIN t = 1..Len(t) /\ \A n \in 1..Len(t) : t[n] \in Marks
  OBVIOUS
<1>1. \A n \in 1..Len(t) : <<t[n]>> \in Seq(Marks) /\ <<>> \in Seq(Marks)
  <2>1. \A m \in Marks : <<m>> \in Seq(Marks)
    <3> DEFINE S == Marks
    <3>1. \A m \in S : <<m>> \in Seq(S)
      <4> HIDE DEF S
      <4>1. QED
        OBVIOUS
    <3>2. QED
      BY <3>1
  <2>2. QED
    BY <1>0, <2>1, EmptyTyped
<1>2. /\ KeptAt(d, t) \in [1..Len(t) -> Seq(Marks)]
      /\ \A n \in 1..Len(t) : KeptAt(d, t)[n] = IF Reaches(Regions(d, t)[n], t[n]) THEN <<t[n]>> ELSE <<>>
  BY <1>0, <1>1 DEF KeptAt
<1>3. Code(d, t) = FlattenSeq(KeptAt(d, t))
  BY Zenon DEF Code, KeptAt
<1>4. /\ FlattenSeq(KeptAt(d, t)) = Joined(KeptAt(d, t), Len(t))
      /\ Joined(KeptAt(d, t), Len(t)) \in Seq(Marks)
  <2>1. PICK N \in Nat : N = Len(t)
    BY <1>0
  <2>2. KeptAt(d, t) \in [1..N -> Seq(Marks)] /\ N \in 0..N
    BY <1>2, <2>1
  <2>3. QED
    BY <2>1, <2>2, JoinedSteps
<1>5. QED
  BY <1>2, <1>3, <1>4

LEMMA CodeOfPart ==
  ASSUME NEW d, NEW t \in Seq(Marks), NEW a \in 1..(Len(t) + 1), NEW b \in (a - 1)..Len(t),
         Regions(d, t)[a] = "code"
  PROVE  /\ Joined(KeptAt(d, t), b) = Glue(Joined(KeptAt(d, t), a - 1), Code(d, SubSeq(t, a, b)))
         /\ Joined(KeptAt(d, t), b) \in Seq(Marks) /\ Joined(KeptAt(d, t), a - 1) \in Seq(Marks)
         /\ Code(d, SubSeq(t, a, b)) \in Seq(Marks)
<1> DEFINE x == SubSeq(t, a, b)
           xs == KeptAt(d, t)
           ys == KeptAt(d, x)
<1>0. PICK N \in Nat : N = Len(t)
  OBVIOUS
<1>1. PICK K \in Nat : K = b - a + 1
  BY <1>0
<1>2. /\ x \in Seq(Marks) /\ Len(x) = K
      /\ \A n \in 1..K : x[n] = t[a - 1 + n] /\ Regions(d, x)[n] = Regions(d, t)[a - 1 + n]
  <2>1. \A n \in 1..K : n \in 1..(b - a + 1) /\ n \in 1..(b - a + 2)
    BY <1>0, <1>1
  <2>2. /\ x \in Seq(Marks) /\ Len(x) = b - a + 1
        /\ \A n \in 1..(b - a + 1) : x[n] = t[a - 1 + n]
        /\ \A n \in 1..(b - a + 2) : Regions(d, x)[n] = Regions(d, t)[a - 1 + n]
    BY PartRegions
  <2> HIDE DEF x
  <2>3. QED
    BY <1>1, <2>1, <2>2
<1> HIDE DEF x
<1>3. /\ xs \in [1..N -> Seq(Marks)]
      /\ \A n \in 1..N : xs[n] = IF Reaches(Regions(d, t)[n], t[n]) THEN <<t[n]>> ELSE <<>>
  BY <1>0, CodeIs
<1>4. /\ ys \in [1..K -> Seq(Marks)]
      /\ \A n \in 1..K : ys[n] = IF Reaches(Regions(d, x)[n], x[n]) THEN <<x[n]>> ELSE <<>>
      /\ Code(d, x) = Joined(ys, K) /\ Code(d, x) \in Seq(Marks)
  BY <1>2, CodeIs
<1> HIDE DEF xs, ys
<1>5. /\ a - 1 \in 0..N /\ (a - 1) + K = b /\ K \in 0..K /\ b \in 0..N
      /\ \A n \in 1..K : a - 1 + n \in 1..N
  BY <1>0, <1>1
<1>6. \A n \in 1..K : ys[n] = xs[a - 1 + n]
  BY <1>2, <1>3, <1>4, <1>5
<1>7. Joined(xs, (a - 1) + K) = Glue(Joined(xs, a - 1), Joined(ys, K))
  <2>1. PICK c \in 0..N : c = a - 1
    BY <1>5
  <2>2. c + K <= N /\ Matches(ys, K, xs, c)
    BY <1>5, <1>6, <2>1 DEF Matches
  <2>3. Continues(ys, K, xs, c)
    <3>1. xs \in [1..N -> Seq(Marks)] /\ ys \in [1..K -> Seq(Marks)]
      BY <1>3, <1>4
    <3>2. K \in 0..K
      OBVIOUS
    <3>3. QED
      BY <2>2, <3>1, <3>2, JoinedOn
  <2>4. QED
    BY <1>5, <2>1, <2>3 DEF Continues
<1>8. Joined(xs, b) \in Seq(Marks) /\ Joined(xs, a - 1) \in Seq(Marks)
  BY <1>3, <1>5, JoinedSteps
<1>9. QED
  BY <1>4, <1>5, <1>7, <1>8 DEF x, xs

(* Marks that do not reach the engine can be left out at both ends.        *)
LEMMA CodeWithin ==
  ASSUME NEW d, NEW t \in Seq(Marks), NEW a \in 1..(Len(t) + 1), NEW b \in (a - 1)..Len(t),
         NEW a1 \in a..(b + 1), NEW b1 \in (a1 - 1)..b,
         Regions(d, t)[a] = "code", Regions(d, t)[a1] = "code",
         NothingIn(KeptAt(d, t), a, a1 - 1), NothingIn(KeptAt(d, t), b1 + 1, b)
  PROVE  Code(d, SubSeq(t, a, b)) = Code(d, SubSeq(t, a1, b1))
<1> DEFINE C == Code(d, SubSeq(t, a, b))
           C1 == Code(d, SubSeq(t, a1, b1))
           xs == KeptAt(d, t)
<1>0. PICK N \in Nat : N = Len(t)
  OBVIOUS
<1>1. a1 \in 1..(Len(t) + 1) /\ b1 \in (a1 - 1)..Len(t)
  BY <1>0
<1>2. /\ Joined(xs, b) = Glue(Joined(xs, a - 1), C)
      /\ Joined(xs, b) \in Seq(Marks) /\ Joined(xs, a - 1) \in Seq(Marks) /\ C \in Seq(Marks)
  BY CodeOfPart
<1>3. /\ Joined(xs, b1) = Glue(Joined(xs, a1 - 1), C1)
      /\ C1 \in Seq(Marks)
  BY <1>1, CodeOfPart
<1>4. xs \in [1..N -> Seq(Marks)]
  BY <1>0, CodeIs
<1> HIDE DEF xs, C, C1
<1>5. Joined(xs, a1 - 1) = Joined(xs, a - 1)
  <2>1. PICK p \in 0..N : p = a - 1
    BY <1>0
  <2>2. PICK q \in p..N : q = a1 - 1
    BY <1>0, <2>1
  <2>3. p + 1 = a /\ NothingIn(xs, p + 1, q)
    BY <2>1, <2>2 DEF xs
  <2>4. Joined(xs, q) = Joined(xs, p)
    BY <1>4, <2>3, JoinedSame, SMTT(60)
  <2>5. QED
    BY <2>1, <2>2, <2>4
<1>6. Joined(xs, b) = Joined(xs, b1)
  <2>1. b1 \in 0..N /\ b \in b1..N
    BY <1>0
  <2>2. NothingIn(xs, b1 + 1, b)
    BY DEF xs
  <2>3. QED
    BY <1>4, <2>1, <2>2, JoinedSame
<1>7. Glue(Joined(xs, a - 1), C) = Glue(Joined(xs, a - 1), C1)
  BY <1>2, <1>3, <1>5, <1>6
<1>8. C = C1
  BY <1>2, <1>3, <1>7, Glued
<1>9. QED
  BY <1>8 DEF C, C1

(* What stripping leaves of a text.                                        *)
StripsTo(t, a, b) ==
  /\ Strip(t) = SubSeq(t, a, b)
  /\ \A n \in 1..(a - 1) : t[n] = "newline"
  /\ \A n \in (b + 1)..Len(t) : t[n] = "newline"

LEMMA StripIs ==
  ASSUME NEW t \in Seq(Marks)
  PROVE  \E a \in 1..(Len(t) + 1) : \E b \in (a - 1)..Len(t) : StripsTo(t, a, b)
<1> DEFINE code == {n \in DOMAIN t : t[n] # "newline"}
<1>0. PICK N \in Nat : N = Len(t) /\ DOMAIN t = 1..N
  OBVIOUS
<1>1. Strip(t) = IF code = {} THEN <<>> ELSE SubSeq(t, Min(code), Max(code))
  BY DEF Strip
<1>2. CASE code = {}
  <2>1. SubSeq(t, 1, 0) = <<>>
    BY SubSeqEmpty
  <2>2. StripsTo(t, 1, 0)
    BY <1>0, <1>1, <1>2, <2>1 DEF StripsTo
  <2>3. 1 \in 1..(Len(t) + 1) /\ 0 \in (1 - 1)..Len(t)
    BY <1>0
  <2>4. QED
    BY <2>2, <2>3
<1>3. CASE code # {}
  <2>1. code \in SUBSET Nat /\ code \in SUBSET (1..N)
    BY <1>0
  <2>2. \A n \in 1..N : n \notin code => t[n] = "newline"
    BY <1>0
  <2> HIDE DEF code
  <2>3. PICK a \in code : a = Min(code) /\ \A j \in code : a <= j
    BY <1>3, <2>1, MinIsLeast
  <2>4. PICK b \in code : b = Max(code) /\ \A j \in code : b >= j
    BY <1>3, <2>1, MaxIsGreatest
  <2>5. a \in 1..N /\ b \in 1..N /\ a <= b
    BY <2>1, <2>3, <2>4
  <2>6. \A n \in 1..(a - 1) : n \in 1..N /\ n \notin code
    BY <2>3, <2>5
  <2>7. \A n \in (b + 1)..N : n \in 1..N /\ n \notin code
    BY <2>4, <2>5
  <2>8. StripsTo(t, a, b)
    BY <1>0, <1>1, <1>3, <2>2, <2>3, <2>4, <2>6, <2>7 DEF StripsTo
  <2>9. a \in 1..(Len(t) + 1) /\ b \in (a - 1)..Len(t)
    BY <1>0, <2>5
  <2>10. QED
    BY <2>8, <2>9
<1>4. QED
  BY <1>2, <1>3

RegionNames == {"code", "string", "string_escape", "escaping_string", "escaping_string_escape",
                "line", "block", "identifier", "body", "tagged_body"}

(* Where a text may end: outside strings and bodies.                       *)
Ended == {"code", "line", "block"}

LEMMA RegionTyped ==
  ASSUME NEW d, NEW r \in RegionNames, NEW m
  PROVE  After(d, r, m) \in RegionNames
<1>1. CASE r = "code"
  BY <1>1 DEF After, Opened, RegionNames
<1>2. CASE r = "string_escape" \/ r = "escaping_string_escape"
  BY <1>2 DEF After, RegionNames
<1>3. CASE r \notin {"code", "string_escape", "escaping_string_escape"}
  <2>1. After(d, r, m) \in {"string_escape", "escaping_string_escape", "code", r}
    BY <1>3 DEF After
  <2>2. QED
    BY <2>1 DEF RegionNames
<1>4. QED
  BY <1>1, <1>2, <1>3

LEMMA NewlineSteps ==
  ASSUME NEW d
  PROVE  /\ After(d, "code", "newline") = "code"
         /\ \A r \in RegionNames : After(d, r, "newline") \in Ended => r \in Ended
<1>1. After(d, "code", "newline") = "code"
  BY DEF After, Opened
<1>2. ASSUME NEW r \in RegionNames, r \notin Ended PROVE After(d, r, "newline") \notin Ended
  <2>1. CASE r \in {"string_escape", "escaping_string_escape"}
    BY <2>1 DEF After, Ended
  <2>2. CASE r \notin {"string_escape", "escaping_string_escape"}
    <3>1. r \in {"string", "escaping_string", "identifier", "body", "tagged_body"}
      BY <1>2, <2>2 DEF RegionNames, Ended
    <3>2. Closing(r) # "newline"
      BY <3>1 DEF Closing
    <3>3. After(d, r, "newline") = r
      BY <3>1, <3>2 DEF After, Escaping
    <3>4. QED
      BY <1>2, <3>3
  <2>3. QED
    BY <2>1, <2>2
<1>3. QED
  BY <1>1, <1>2

LEMMA RegionsTyped ==
  ASSUME NEW d, NEW t \in Seq(Marks)
  PROVE  \A n \in 1..(Len(t) + 1) : Regions(d, t)[n] \in RegionNames
<1> DEFINE r(n) == Regions(d, t)[n]
<1>0. PICK N \in Nat : N = Len(t)
  OBVIOUS
<1>1. r(1) = "code" /\ \A n \in 1..N : r(n + 1) = After(d, r(n), t[n])
  BY <1>0, RegionsStep
<1> HIDE DEF r
<1> DEFINE Good == {n \in 0..N : r(n + 1) \in RegionNames}
<1>2. Good \in SUBSET (0..N) /\ 0 \in Good
  <2>1. r(0 + 1) \in RegionNames
    BY <1>1 DEF RegionNames
  <2>2. QED
    BY <2>1
<1>3. ASSUME NEW n \in 1..N, n - 1 \in Good PROVE n \in Good
  <2>1. r((n - 1) + 1) \in RegionNames /\ (n - 1) + 1 = n /\ n \in 0..N
    BY <1>3
  <2>2. After(d, r(n), t[n]) \in RegionNames
    BY <2>1, RegionTyped
  <2>3. QED
    BY <1>1, <2>1, <2>2
<1>4. Good = 0..N
  <2> HIDE DEF Good
  <2>1. QED
    BY <1>2, <1>3, UpTo
<1>5. \A n \in 0..N : r(n + 1) \in RegionNames
  BY <1>4
<1>6. \A n \in 1..(N + 1) : n - 1 \in 0..N /\ (n - 1) + 1 = n
  OBVIOUS
<1>7. \A n \in 1..(N + 1) : r(n) \in RegionNames
  BY <1>5, <1>6
<1>8. QED
  BY <1>0, <1>7 DEF r

(* Newlines at either end of a part that starts in code and ends outside   *)
(* strings and bodies do not reach the engine.                             *)
LEMMA LeadingNewlines ==
  ASSUME NEW d, NEW t \in Seq(Marks), NEW a \in 1..(Len(t) + 1), NEW a1 \in a..(Len(t) + 1),
         Regions(d, t)[a] = "code", \A n \in a..(a1 - 1) : t[n] = "newline"
  PROVE  \A n \in a..a1 : Regions(d, t)[n] = "code"
<1> DEFINE r(n) == Regions(d, t)[n]
<1>0. PICK N \in Nat : N = Len(t)
  OBVIOUS
<1>1. \A n \in 1..N : r(n + 1) = After(d, r(n), t[n])
  BY <1>0, RegionsStep
<1> HIDE DEF r
<1> DEFINE Good == {n \in 0..(a1 - a) : r(a + n) = "code"}
<1>2. a1 - a \in Nat /\ Good \in SUBSET (0..(a1 - a)) /\ 0 \in Good
  <2>1. a + 0 = a /\ r(a) = "code"
    BY DEF r
  <2>2. QED
    BY <2>1
<1>3. ASSUME NEW n \in 1..(a1 - a), n - 1 \in Good PROVE n \in Good
  <2>1. a + (n - 1) \in a..(a1 - 1) /\ a + (n - 1) \in 1..N /\ (a + (n - 1)) + 1 = a + n
        /\ n \in 0..(a1 - a)
    BY <1>0
  <2>2. r(a + (n - 1)) = "code" /\ t[a + (n - 1)] = "newline"
    BY <1>3, <2>1
  <2>3. r((a + (n - 1)) + 1) = After(d, "code", "newline")
    BY <1>1, <2>1, <2>2
  <2>4. r(a + n) = "code"
    BY <2>1, <2>3, NewlineSteps
  <2>5. QED
    BY <2>1, <2>4
<1>4. Good = 0..(a1 - a)
  <2> HIDE DEF Good
  <2>1. QED
    BY <1>2, <1>3, UpTo
<1>5. \A n \in 0..(a1 - a) : r(a + n) = "code"
  BY <1>4
<1>6. \A n \in a..a1 : n - a \in 0..(a1 - a) /\ a + (n - a) = n
  OBVIOUS
<1>7. \A n \in a..a1 : r(n) = "code"
  BY <1>5, <1>6
<1>8. QED
  BY <1>7 DEF r

LEMMA TrailingNewlines ==
  ASSUME NEW d, NEW t \in Seq(Marks), NEW b \in 0..Len(t), NEW b1 \in 0..b,
         Regions(d, t)[b + 1] \in Ended, \A n \in (b1 + 1)..b : t[n] = "newline"
  PROVE  \A n \in (b1 + 1)..(b + 1) : Regions(d, t)[n] \in Ended
<1> DEFINE r(n) == Regions(d, t)[n]
<1>0. PICK N \in Nat : N = Len(t)
  OBVIOUS
<1>1. \A n \in 1..N : r(n + 1) = After(d, r(n), t[n]) /\ r(n) \in RegionNames
  BY <1>0, RegionsStep, RegionsTyped
<1> HIDE DEF r
<1> DEFINE Good == {n \in 0..(b - b1) : r(b + 1 - n) \in Ended}
<1>2. b - b1 \in Nat /\ Good \in SUBSET (0..(b - b1)) /\ 0 \in Good
  <2>1. b + 1 - 0 = b + 1 /\ r(b + 1) \in Ended
    BY DEF r
  <2>2. QED
    BY <2>1
<1>3. ASSUME NEW n \in 1..(b - b1), n - 1 \in Good PROVE n \in Good
  <2>1. b + 1 - n \in (b1 + 1)..b /\ b + 1 - n \in 1..N /\ (b + 1 - n) + 1 = b + 1 - (n - 1)
        /\ n \in 0..(b - b1)
    BY <1>0
  <2>2. r(b + 1 - (n - 1)) \in Ended /\ t[b + 1 - n] = "newline"
    BY <1>3, <2>1
  <2>3. r((b + 1 - n) + 1) = After(d, r(b + 1 - n), "newline") /\ r(b + 1 - n) \in RegionNames
    BY <1>1, <2>1, <2>2
  <2>4. r(b + 1 - n) \in Ended
    <3>1. After(d, r(b + 1 - n), "newline") \in Ended
      BY <2>1, <2>2, <2>3
    <3>2. QED
      BY <2>3, <3>1, NewlineSteps
  <2>5. QED
    BY <2>1, <2>4
<1>4. Good = 0..(b - b1)
  <2> HIDE DEF Good
  <2>1. QED
    BY <1>2, <1>3, UpTo
<1>5. \A n \in 0..(b - b1) : r(b + 1 - n) \in Ended
  BY <1>4
<1>6. \A n \in (b1 + 1)..(b + 1) : b + 1 - n \in 0..(b - b1) /\ b + 1 - (b + 1 - n) = n
  OBVIOUS
<1>7. \A n \in (b1 + 1)..(b + 1) : r(n) \in Ended
  BY <1>5, <1>6
<1>8. QED
  BY <1>7 DEF r

LEMMA NewlineDropped ==
  ASSUME NEW d, NEW t \in Seq(Marks), NEW n \in 1..Len(t), t[n] = "newline",
         Regions(d, t)[n] \in Ended
  PROVE  KeptAt(d, t)[n] = <<>>
<1>1. ~Reaches(Regions(d, t)[n], "newline")
  BY DEF Reaches, Ended
<1>2. QED
  BY <1>1, CodeIs

(* A statement and the same statement stripped hold the same code.         *)
LEMMA StripKeepsCode ==
  ASSUME NEW d, NEW t \in Seq(Marks), Regions(d, t)[Len(t) + 1] \in Ended
  PROVE  Code(d, Strip(t)) = Code(d, t) /\ Strip(t) \in Seq(Marks)
<1>0. PICK N \in Nat : N = Len(t)
  OBVIOUS
<1>1. PICK a \in 1..(Len(t) + 1) : \E b \in (a - 1)..Len(t) : StripsTo(t, a, b)
  BY StripIs
<1>2. PICK b \in (a - 1)..Len(t) : StripsTo(t, a, b)
  BY <1>1
<1>3. Regions(d, t)[1] = "code"
  BY RegionsStep
<1>4. \A n \in 1..a : Regions(d, t)[n] = "code"
  <2>1. 1 \in 1..(Len(t) + 1) /\ a \in 1..(Len(t) + 1)
    BY <1>0
  <2>2. QED
    BY <1>2, <1>3, <2>1, LeadingNewlines DEF StripsTo
<1>5. \A n \in (b + 1)..(N + 1) : Regions(d, t)[n] \in Ended
  <2>1. N \in 0..Len(t) /\ b \in 0..N
    BY <1>0
  <2>2. QED
    BY <1>0, <1>2, <2>1, TrailingNewlines DEF StripsTo
<1>6. NothingIn(KeptAt(d, t), 1, a - 1)
  <2> SUFFICES ASSUME NEW n \in 1..(a - 1) PROVE KeptAt(d, t)[n] = <<>>
    BY DEF NothingIn
  <2>2. n \in 1..Len(t) /\ n \in 1..a /\ t[n] = "newline"
    BY <1>0, <1>2 DEF StripsTo
  <2>3. Regions(d, t)[n] \in Ended
    BY <1>4, <2>2 DEF Ended
  <2>4. QED
    BY <2>2, <2>3, NewlineDropped
<1>7. NothingIn(KeptAt(d, t), b + 1, N)
  <2> SUFFICES ASSUME NEW n \in (b + 1)..N PROVE KeptAt(d, t)[n] = <<>>
    BY DEF NothingIn
  <2>2. n \in 1..Len(t) /\ n \in (b + 1)..(N + 1) /\ t[n] = "newline"
    BY <1>0, <1>2 DEF StripsTo
  <2>3. QED
    BY <1>5, <2>2, NewlineDropped
<1>8. SubSeq(t, 1, N) = t
  BY <1>0, SubSeqFull
<1>9. Code(d, SubSeq(t, 1, N)) = Code(d, SubSeq(t, a, b))
  <2>1. /\ 1 \in 1..(Len(t) + 1) /\ N \in (1 - 1)..Len(t) /\ a \in 1..(N + 1) /\ b \in (a - 1)..N
        /\ a \in 1..a
    BY <1>0
  <2>2. QED
    BY <1>3, <1>4, <1>6, <1>7, <2>1, CodeWithin
<1>10. Strip(t) \in Seq(Marks)
  BY StripWithin, WithinMarks
<1>11. QED
  BY <1>2, <1>8, <1>9, <1>10 DEF StripsTo

LEMMA PartOfPart ==
  ASSUME NEW t \in Seq(Marks), NEW a \in 1..(Len(t) + 1), NEW b \in (a - 1)..Len(t),
         NEW p \in 1..(b - a + 2), NEW q \in (p - 1)..(b - a + 1)
  PROVE  SubSeq(SubSeq(t, a, b), p, q) = SubSeq(t, a - 1 + p, a - 1 + q)
<1> DEFINE x == SubSeq(t, a, b)
           y == SubSeq(x, p, q)
           z == SubSeq(t, a - 1 + p, a - 1 + q)
<1>0. PICK N \in Nat : N = Len(t) /\ \A n \in 1..N : t[n] \in Marks
  OBVIOUS
<1>1. x \in Seq(Marks) /\ \A n \in 1..(b - a + 1) : x[n] = t[a + n - 1] /\ x[n] \in Marks
  <2>1. \A n \in a..b : t[n] \in Marks
    BY <1>0
  <2>2. \A n \in 1..(b - a + 1) : a + n - 1 \in a..b
    BY <1>0
  <2>3. a \in Int /\ b \in Int
    BY <1>0
  <2>4. x \in Seq(Marks) /\ \A n \in 1..(b - a + 1) : x[n] = t[a + n - 1]
    BY <2>1, <2>3, SubSeqProperties
  <2> HIDE DEF x
  <2>5. QED
    BY <2>1, <2>2, <2>4
<1> HIDE DEF x
<1>2. /\ y \in Seq(Marks) /\ Len(y) = q - p + 1
      /\ \A n \in 1..(q - p + 1) : y[n] = x[p + n - 1]
  <2>1. \A n \in p..q : n \in 1..(b - a + 1) /\ x[n] \in Marks
    BY <1>0, <1>1
  <2>2. p \in Int /\ q \in Int
    BY <1>0
  <2>3. Len(y) = IF p <= q THEN q - p + 1 ELSE 0
    BY <2>1, <2>2, SubSeqProperties
  <2>4. y \in Seq(Marks) /\ \A n \in 1..(q - p + 1) : y[n] = x[p + n - 1]
    BY <2>1, <2>2, SubSeqProperties
  <2> HIDE DEF y
  <2>5. QED
    BY <1>0, <2>3, <2>4
<1>3. /\ z \in Seq(Marks) /\ Len(z) = q - p + 1
      /\ \A n \in 1..(q - p + 1) : z[n] = t[a - 1 + p + n - 1]
  <2>0. PICK i \in Int : i = a - 1 + p
    BY <1>0
  <2>1. PICK j \in Int : j = a - 1 + q
    BY <1>0
  <2>2. \A n \in i..j : t[n] \in Marks
    BY <1>0, <2>0, <2>1
  <2>3. /\ z = SubSeq(t, i, j) /\ j - i + 1 = q - p + 1 /\ (i <= j <=> p <= q)
    BY <1>0, <2>0, <2>1
  <2> HIDE DEF z
  <2>4. /\ z \in Seq(Marks) /\ Len(z) = IF i <= j THEN j - i + 1 ELSE 0
        /\ \A n \in 1..(j - i + 1) : z[n] = t[i + n - 1]
    BY <2>2, <2>3, SubSeqProperties
  <2>5. QED
    BY <1>0, <2>0, <2>1, <2>3, <2>4
<1> HIDE DEF y, z
<1>4. \A n \in 1..(q - p + 1) : y[n] = z[n]
  <2>1. TAKE n \in 1..(q - p + 1)
  <2>2. p + n - 1 \in 1..(b - a + 1) /\ a + (p + n - 1) - 1 = a - 1 + p + n - 1
    BY <1>0
  <2>3. y[n] = t[a + (p + n - 1) - 1]
    BY <1>1, <1>2, <2>2
  <2>4. QED
    BY <1>3, <2>2, <2>3
<1>5. y = z
  <2>1. Len(y) = Len(z) /\ \A n \in 1..Len(y) : y[n] = z[n]
    BY <1>2, <1>3, <1>4
  <2>2. QED
    BY <1>2, <1>3, <2>1, SeqEqual
<1>6. QED
  BY <1>5 DEF x, y, z

(* The last position of a set before a position.                           *)
LEMMA LastBeforeIs ==
  ASSUME NEW N \in Nat, NEW S \in SUBSET (1..N), NEW n \in 1..(N + 1)
  PROVE  /\ LastBefore(S, n) \in 0..(n - 1)
         /\ LastBefore(S, n) # 0 => LastBefore(S, n) \in S
         /\ \A m \in S : m < n => m <= LastBefore(S, n)
<1> DEFINE before == {m \in S : m < n}
<1>1. LastBefore(S, n) = IF before = {} THEN 0 ELSE Max(before)
  BY DEF LastBefore
<1>2. CASE before = {}
  BY <1>1, <1>2
<1>3. CASE before # {}
  <2>1. before \in SUBSET (1..N)
    OBVIOUS
  <2>2. Max(before) \in before /\ \A j \in before : Max(before) >= j
    <3> HIDE DEF before
    <3>1. QED
      BY <1>3, <2>1, MaxIsGreatest
  <2>3. PICK l \in before : l = LastBefore(S, n) /\ \A j \in before : l >= j
    BY <1>1, <1>3, <2>2
  <2>4. l \in S /\ l < n /\ l \in 1..N
    BY <2>3
  <2>5. \A m \in S : m < n => m \in before
    OBVIOUS
  <2> HIDE DEF before
  <2>6. QED
    BY <2>3, <2>4, <2>5
<1>4. QED
  BY <1>2, <1>3

LEMMA LastBeforeFrom ==
  ASSUME NEW N \in Nat, NEW S \in SUBSET (1..N), NEW n \in 1..(N + 1), NEW l \in 0..(n - 1),
         l = 0 \/ l \in S, \A m \in (l + 1)..(n - 1) : m \notin S
  PROVE  LastBefore(S, n) = l
<1> DEFINE k == LastBefore(S, n)
<1>1. k \in 0..(n - 1) /\ (k # 0 => k \in S) /\ \A m \in S : m < n => m <= k
  BY LastBeforeIs
<1> HIDE DEF k
<1>2. l <= k
  BY <1>1
<1>3. ~(l < k)
  BY <1>1
<1>4. QED
  BY <1>1, <1>2, <1>3 DEF k

(* What texts, and the positions of a text, send.                          *)
Texts == Seq(Marks)

LEMMA SentTyped ==
  ASSUME NEW d, NEW t \in Texts
  PROVE  Sent(d, t) \in Seq(Texts) /\ (Code(d, t) = <<>> => Sent(d, t) = <<>>)
<1>1. Code(d, t) \in Texts
  BY CodeIs DEF Texts
<1>2. \A S : \A s \in S : <<s>> \in Seq(S)
  OBVIOUS
<1>3. <<Code(d, t)>> \in Seq(Texts)
  BY <1>1, <1>2
<1>4. QED
  BY <1>3, EmptyTyped DEF Sent

LEMMA SameCodeSent ==
  ASSUME NEW d, NEW t, NEW u, Code(d, t) = Code(d, u)
  PROVE  Sent(d, t) = Sent(d, u)
BY DEF Sent

LEMMA CodeOfNone ==
  ASSUME NEW d
  PROVE  Code(d, <<>>) = <<>> /\ Sent(d, <<>>) = <<>>
<1>1. <<>> \in Seq(Marks) /\ Len(<<>>) = 0
  OBVIOUS
<1>2. KeptAt(d, <<>>) \in [1..0 -> Seq(Marks)] /\ Code(d, <<>>) = Joined(KeptAt(d, <<>>), 0)
  <2>1. \A t \in Seq(Marks) : KeptAt(d, t) \in [1..Len(t) -> Seq(Marks)]
                              /\ Code(d, t) = Joined(KeptAt(d, t), Len(t))
    BY CodeIs
  <2>2. QED
    BY <1>1, <2>1
<1>3. Joined(KeptAt(d, <<>>), 0) = <<>>
  <2>1. 0 \in Nat
    OBVIOUS
  <2>2. QED
    BY <1>2, <2>1, JoinedSteps
<1>4. QED
  BY <1>2, <1>3 DEF Sent

LEMMA CodeOfAllSteps ==
  ASSUME NEW d, NEW texts \in Seq(Texts)
  PROVE  /\ CodeOfAll(d, <<>>) = <<>>
         /\ CodeOfAll(d, texts) \in Seq(Texts)
         /\ \A t \in Texts :
              /\ Append(texts, t) \in Seq(Texts)
              /\ CodeOfAll(d, Append(texts, t)) = Glue(CodeOfAll(d, texts), Sent(d, t))
<1> DEFINE sent(ts) == [n \in DOMAIN ts |-> Sent(d, ts[n])]
<1>0. \A ts : CodeOfAll(d, ts) = FlattenSeq(sent(ts))
  BY DEF CodeOfAll
<1>1. ASSUME NEW ts \in Seq(Texts)
      PROVE  /\ sent(ts) \in [1..Len(ts) -> Seq(Texts)] /\ Len(ts) \in Nat
             /\ CodeOfAll(d, ts) = Joined(sent(ts), Len(ts))
             /\ CodeOfAll(d, ts) \in Seq(Texts)
  <2>1. Len(ts) \in Nat /\ DOMAIN ts = 1..Len(ts) /\ \A n \in 1..Len(ts) : ts[n] \in Texts
    OBVIOUS
  <2>2. \A n \in 1..Len(ts) : Sent(d, ts[n]) \in Seq(Texts)
    BY <2>1, SentTyped
  <2>3. sent(ts) \in [1..Len(ts) -> Seq(Texts)]
    BY <2>1, <2>2, SMTT(60)
  <2>4. PICK N \in Nat : N = Len(ts)
    BY <2>1
  <2>5. sent(ts) \in [1..N -> Seq(Texts)] /\ N \in 0..N
    BY <2>3, <2>4
  <2> HIDE DEF sent
  <2>6. Joined(sent(ts), N) = FlattenSeq(sent(ts)) /\ Joined(sent(ts), N) \in Seq(Texts)
    BY <2>5, JoinedSteps
  <2>7. QED
    BY <1>0, <2>1, <2>3, <2>4, <2>6
<1>2. CodeOfAll(d, <<>>) = <<>>
  <2>1. <<>> \in Seq(Texts) /\ Len(<<>>) = 0
    OBVIOUS
  <2> HIDE DEF sent
  <2>2. sent(<<>>) \in [1..0 -> Seq(Texts)] /\ CodeOfAll(d, <<>>) = Joined(sent(<<>>), 0)
    BY <1>1, <2>1
  <2>3. 0 \in Nat
    OBVIOUS
  <2>4. Joined(sent(<<>>), 0) = <<>>
    BY <2>2, <2>3, JoinedSteps
  <2>5. QED
    BY <2>2, <2>4
<1>3. ASSUME NEW t \in Texts
      PROVE  /\ Append(texts, t) \in Seq(Texts)
             /\ CodeOfAll(d, Append(texts, t)) = Glue(CodeOfAll(d, texts), Sent(d, t))
  <2> DEFINE more == Append(texts, t)
  <2>1. PICK N \in Nat : N = Len(texts) /\ DOMAIN texts = 1..N
    OBVIOUS
  <2>2. more \in Seq(Texts) /\ Len(more) = N + 1 /\ DOMAIN more = 1..(N + 1) /\ more[N + 1] = t
        /\ \A n \in 1..N : more[n] = texts[n]
    <3>1. \A S : \A s \in Seq(S), x \in S :
            /\ Append(s, x) \in Seq(S) /\ Len(Append(s, x)) = Len(s) + 1
            /\ Append(s, x)[Len(s) + 1] = x
            /\ \A n \in 1..Len(s) : Append(s, x)[n] = s[n]
      OBVIOUS
    <3>2. QED
      BY <2>1, <3>1
  <2> HIDE DEF more
  <2>3. sent(more)[N + 1] = Sent(d, t)
    BY <2>1, <2>2
  <2>4. [n \in 1..N |-> sent(more)[n]] = sent(texts)
    BY <2>1, <2>2
  <2>5. Joined(sent(more), N) = FlattenSeq(sent(texts))
    BY <2>4, Zenon DEF Joined
  <2> HIDE DEF sent
  <2>6. sent(more) \in [1..(N + 1) -> Seq(Texts)] /\ CodeOfAll(d, more) = Joined(sent(more), N + 1)
    BY <1>1, <2>2
  <2>7. PICK M \in Nat : M = N + 1
    BY <2>1
  <2>8. sent(more) \in [1..M -> Seq(Texts)] /\ M \in 1..M /\ M - 1 = N
    BY <2>6, <2>7
  <2>9. Joined(sent(more), M) = Glue(Joined(sent(more), M - 1), sent(more)[M])
    BY <2>8, JoinedSteps
  <2>10. QED
    BY <1>0, <2>2, <2>3, <2>5, <2>6, <2>7, <2>8, <2>9 DEF more
<1>4. QED
  <2>1. CodeOfAll(d, texts) \in Seq(Texts)
    <3> HIDE DEF sent
    <3>1. QED
      BY <1>1
  <2>2. QED
    BY <1>2, <1>3, <2>1

LEMMA AppendStrippedSends ==
  ASSUME NEW d, NEW texts \in Seq(Texts), NEW t \in Texts, Regions(d, t)[Len(t) + 1] \in Ended
  PROVE  /\ AppendStripped(texts, t) \in Seq(Texts)
         /\ CodeOfAll(d, AppendStripped(texts, t)) = Glue(CodeOfAll(d, texts), Sent(d, t))
<1>1. Code(d, Strip(t)) = Code(d, t) /\ Strip(t) \in Texts
  BY StripKeepsCode DEF Texts
<1>2. Sent(d, Strip(t)) = Sent(d, t)
  BY <1>1, SameCodeSent
<1>3. CASE Strip(t) = <<>>
  <2>1. Sent(d, t) = <<>>
    BY <1>2, <1>3, CodeOfNone
  <2>2. AppendStripped(texts, t) = texts
    BY <1>3 DEF AppendStripped
  <2>3. Glue(CodeOfAll(d, texts), <<>>) = CodeOfAll(d, texts)
    BY CodeOfAllSteps, Glued
  <2>4. QED
    BY <2>1, <2>2, <2>3
<1>4. CASE Strip(t) # <<>>
  <2>1. AppendStripped(texts, t) = Append(texts, Strip(t))
    BY <1>4 DEF AppendStripped
  <2>2. QED
    BY <1>1, <1>2, <2>1, CodeOfAllSteps
<1>5. QED
  BY <1>3, <1>4

-----------------------------------------------------------------------------
(* What the statements of a part of a script are to the whole of it.       *)

LEMMA StatementTyped ==
  ASSUME NEW t \in Texts, NEW S \in SUBSET (1..Len(t)), NEW n \in 1..(Len(t) + 1)
  PROVE  Statement(t, S, n) \in Texts
<1>0. PICK N \in Nat : N = Len(t) /\ t \in Seq(Marks)
  BY DEF Texts
<1>1. PICK l \in 0..(n - 1) : l = LastBefore(S, n)
  BY <1>0, LastBeforeIs
<1>2. l + 1 \in 1..(Len(t) + 1) /\ n - 1 \in 0..Len(t)
  BY <1>0
<1>3. SubSeq(t, l + 1, n - 1) \in Seq(Marks)
  BY <1>0, <1>2, SliceWithin, WithinMarks
<1>4. QED
  BY <1>1, <1>3 DEF Statement, Texts

LEMMA SentAtIs ==
  ASSUME NEW d, NEW t \in Texts, NEW S \in SUBSET (1..Len(t))
  PROVE  /\ SentAt(d, t, S) \in [1..(Len(t) + 1) -> Seq(Texts)]
         /\ \A n \in 1..(Len(t) + 1) :
              SentAt(d, t, S)[n] = IF n \in S \/ n = Len(t) + 1 THEN Sent(d, Statement(t, S, n))
                                   ELSE <<>>
         /\ StatementsBetween(d, t, S) = Joined(SentAt(d, t, S), Len(t) + 1)
         /\ \A n \in 0..(Len(t) + 1) : Joined(SentAt(d, t, S), n) \in Seq(Texts)
<1>0. PICK N \in Nat : N = Len(t) + 1
  BY DEF Texts
<1>1. \A n \in 1..N : Sent(d, Statement(t, S, n)) \in Seq(Texts) /\ <<>> \in Seq(Texts)
  BY <1>0, StatementTyped, SentTyped, EmptyTyped
<1>2. SentAt(d, t, S) \in [1..N -> Seq(Texts)]
  BY <1>0, <1>1 DEF SentAt
<1>3. \A n \in 1..N :
        SentAt(d, t, S)[n] = IF n \in S \/ n = Len(t) + 1 THEN Sent(d, Statement(t, S, n)) ELSE <<>>
  BY <1>0 DEF SentAt
<1>4. /\ FlattenSeq(SentAt(d, t, S)) = Joined(SentAt(d, t, S), N)
      /\ \A n \in 0..N : Joined(SentAt(d, t, S), n) \in Seq(Texts)
  BY <1>2, JoinedSteps
<1>5. QED
  BY <1>0, <1>2, <1>3, <1>4 DEF StatementsBetween

SentAs(X, d, t, S, N) ==
  /\ X \in [1..(N + 1) -> Seq(Texts)]
  /\ \A m \in 1..(N + 1) :
       X[m] = IF m \in S \/ m = N + 1 THEN Sent(d, Statement(t, S, m)) ELSE <<>>

LEMMA SentAtAs ==
  ASSUME NEW d, NEW t \in Texts, NEW S \in SUBSET (1..Len(t)), NEW N, N = Len(t)
  PROVE  /\ SentAs(SentAt(d, t, S), d, t, S, N)
         /\ StatementsBetween(d, t, S) = Joined(SentAt(d, t, S), N + 1)
<1>1. /\ SentAt(d, t, S) \in [1..(Len(t) + 1) -> Seq(Texts)]
      /\ \A n \in 1..(Len(t) + 1) :
           SentAt(d, t, S)[n] = IF n \in S \/ n = Len(t) + 1 THEN Sent(d, Statement(t, S, n))
                                ELSE <<>>
      /\ StatementsBetween(d, t, S) = Joined(SentAt(d, t, S), Len(t) + 1)
  BY SentAtIs, Zenon
<1>2. QED
  BY <1>1, Zenon DEF SentAs

(* A part of a text: it starts in code after a separator, but for blanks,  *)
(* and has the separators of the text.                                     *)
PartOf(d, t, S, a, a1, b1, Sx) ==
  /\ Regions(d, t)[a] = "code"
  /\ Regions(d, t)[a1] = "code"
  /\ a = 1 \/ a - 1 \in S
  /\ \A n \in a..(a1 - 1) : n \notin S
  /\ NothingIn(KeptAt(d, t), a, a1 - 1)
  /\ Sx \in SUBSET (1..(b1 - a1 + 1))
  /\ \A n \in 1..(b1 - a1 + 1) : n \in Sx <=> a1 - 1 + n \in S

LEMMA PartStatement ==
  ASSUME NEW d, NEW t \in Texts, NEW S \in SUBSET (1..Len(t)),
         NEW a \in 1..(Len(t) + 1), NEW a1 \in a..(Len(t) + 1), NEW b1 \in (a1 - 1)..Len(t),
         NEW Sx, PartOf(d, t, S, a, a1, b1, Sx), NEW n \in 1..(b1 - a1 + 2)
  PROVE  Code(d, Statement(SubSeq(t, a1, b1), Sx, n)) = Code(d, Statement(t, S, a1 - 1 + n))
<1>0. PICK N \in Nat : N = Len(t) /\ t \in Seq(Marks)
  BY DEF Texts
<1>1. PICK K \in Nat : K = b1 - a1 + 1 /\ Sx \in SUBSET (1..K) /\ n \in 1..(K + 1)
  BY <1>0 DEF PartOf
<1>2. PICK l \in 0..(n - 1) : /\ l = LastBefore(Sx, n) /\ (l # 0 => l \in Sx)
                              /\ \A m \in Sx : m < n => m <= l
  BY <1>1, LastBeforeIs
<1>3. PICK e \in 1..(N + 1) : e = a1 - 1 + n
  BY <1>0, <1>1
<1>4. Statement(SubSeq(t, a1, b1), Sx, n) = SubSeq(t, a1 + l, e - 1)
  <2>1. /\ l + 1 \in 1..(b1 - a1 + 2) /\ n - 1 \in ((l + 1) - 1)..(b1 - a1 + 1)
        /\ a1 \in 1..(Len(t) + 1)
        /\ a1 - 1 + (l + 1) = a1 + l /\ a1 - 1 + (n - 1) = e - 1
    BY <1>0, <1>1, <1>3
  <2>2. SubSeq(SubSeq(t, a1, b1), l + 1, n - 1) = SubSeq(t, a1 - 1 + (l + 1), a1 - 1 + (n - 1))
    BY <1>0, <2>1, PartOfPart
  <2>3. QED
    BY <1>2, <2>1, <2>2 DEF Statement
<1>5. \A m \in (a1 + l)..(e - 1) : m \notin S
  <2>1. TAKE m \in (a1 + l)..(e - 1)
  <2>2. m - a1 + 1 \in 1..(b1 - a1 + 1) /\ a1 - 1 + (m - a1 + 1) = m
        /\ m - a1 + 1 < n /\ ~(m - a1 + 1 <= l)
    BY <1>0, <1>1, <1>3
  <2>3. m - a1 + 1 \notin Sx
    BY <1>2, <2>2
  <2>4. QED
    BY <2>2, <2>3 DEF PartOf
<1>6. CASE l = 0
  <2>1. LastBefore(S, e) = a - 1
    <3>1. a - 1 \in 0..(e - 1) /\ S \in SUBSET (1..N)
      BY <1>0, <1>1, <1>3
    <3>2. a - 1 = 0 \/ a - 1 \in S
      BY <1>0 DEF PartOf
    <3>3. \A m \in ((a - 1) + 1)..(e - 1) : m \in a..(a1 - 1) \/ m \in (a1 + l)..(e - 1)
      BY <1>0, <1>3, <1>6
    <3>4. \A m \in ((a - 1) + 1)..(e - 1) : m \notin S
      BY <1>5, <3>3 DEF PartOf
    <3>5. QED
      BY <1>0, <3>1, <3>2, <3>4, LastBeforeFrom
  <2>2. Statement(t, S, e) = SubSeq(t, a, e - 1)
    BY <1>0, <2>1 DEF Statement
  <2>3. Code(d, SubSeq(t, a, e - 1)) = Code(d, SubSeq(t, a1, e - 1))
    <3>1. e - 1 \in (a - 1)..Len(t) /\ a1 \in a..((e - 1) + 1) /\ e - 1 \in (a1 - 1)..(e - 1)
      BY <1>0, <1>1, <1>3
    <3>2. NothingIn(KeptAt(d, t), (e - 1) + 1, e - 1)
      BY <1>0 DEF NothingIn
    <3>3. QED
      BY <1>0, <3>1, <3>2, CodeWithin DEF PartOf
  <2>4. a1 + l = a1
    BY <1>0, <1>6
  <2>5. QED
    BY <1>3, <1>4, <2>2, <2>3, <2>4, Zenon
<1>7. CASE l # 0
  <2>1. LastBefore(S, e) = a1 - 1 + l
    <3>1. a1 - 1 + l \in 0..(e - 1) /\ S \in SUBSET (1..N)
          /\ (a1 - 1 + l) + 1 = a1 + l
      BY <1>0, <1>1, <1>3
    <3>2. a1 - 1 + l \in S
      BY <1>1, <1>2, <1>7 DEF PartOf
    <3>3. \A m \in ((a1 - 1 + l) + 1)..(e - 1) : m \notin S
      BY <1>5, <3>1
    <3>4. QED
      BY <1>0, <3>1, <3>2, <3>3, LastBeforeFrom
  <2>2. (a1 - 1 + l) + 1 = a1 + l
    BY <1>0
  <2>3. Statement(t, S, e) = SubSeq(t, a1 + l, e - 1)
    BY <2>1, <2>2 DEF Statement
  <2>4. QED
    BY <1>3, <1>4, <2>3
<1>8. QED
  BY <1>6, <1>7

LEMMA PartSendsSoFar ==
  ASSUME NEW d, NEW t \in Texts, NEW S \in SUBSET (1..Len(t)),
         NEW a \in 1..(Len(t) + 1), NEW a1 \in a..(Len(t) + 1), NEW b1 \in (a1 - 1)..Len(t),
         NEW Sx, PartOf(d, t, S, a, a1, b1, Sx), NEW n \in 0..(b1 - a1 + 1)
  PROVE  Joined(SentAt(d, t, S), a1 - 1 + n)
           = Glue(Joined(SentAt(d, t, S), a - 1), Joined(SentAt(d, SubSeq(t, a1, b1), Sx), n))
<1> DEFINE x == SubSeq(t, a1, b1)
           X == SentAt(d, t, S)
           Y == SentAt(d, x, Sx)
<1>0. PICK N \in Nat : N = Len(t) /\ t \in Seq(Marks)
  BY DEF Texts
<1>1. PICK K \in Nat : K = b1 - a1 + 1 /\ Sx \in SUBSET (1..K) /\ n \in 0..K
  BY <1>0 DEF PartOf
<1>2. x \in Texts /\ Len(x) = K
  <2>1. a1 \in 1..(Len(t) + 1) /\ Regions(d, t)[a1] = "code"
    BY <1>0 DEF PartOf
  <2>2. QED
    BY <1>0, <1>1, <2>1, PartRegions DEF Texts
<1>3. SentAs(X, d, t, S, N)
  BY <1>0, SentAtAs, Zenon
<1>4. SentAs(Y, d, x, Sx, K)
  <2>1. x \in Texts /\ K = Len(x) /\ Sx \in SUBSET (1..Len(x))
    BY <1>1, <1>2
  <2> HIDE DEF x
  <2>2. SentAs(SentAt(d, x, Sx), d, x, Sx, K)
    BY <2>1, SentAtAs, Zenon
  <2>3. QED
    BY <2>2
<1>5. \A m \in 1..K : Code(d, Statement(x, Sx, m)) = Code(d, Statement(t, S, a1 - 1 + m))
  <2>1. \A m \in 1..K : m \in 1..(b1 - a1 + 2)
    BY <1>0, <1>1
  <2>2. QED
    BY <2>1, PartStatement
<1> HIDE DEF x, X, Y
<1>6. ASSUME NEW m \in 1..K PROVE Y[m] = X[a1 - 1 + m]
  <2>1. a1 - 1 + m \in 1..(N + 1) /\ a1 - 1 + m # N + 1 /\ m # K + 1 /\ m \in 1..(K + 1)
        /\ m \in 1..(b1 - a1 + 1)
    BY <1>0, <1>1
  <2>2. m \in Sx <=> a1 - 1 + m \in S
    BY <2>1 DEF PartOf
  <2>3. Sent(d, Statement(x, Sx, m)) = Sent(d, Statement(t, S, a1 - 1 + m))
    BY <1>5, SameCodeSent
  <2>4. QED
    BY <1>3, <1>4, <2>1, <2>2, <2>3 DEF SentAs
<1>7. PICK c \in 0..(N + 1) : c = a1 - 1
  BY <1>0
<1>8. Continues(Y, K, X, c)
  <2>1. Matches(Y, K, X, c)
    BY <1>6, <1>7 DEF Matches
  <2>2. PICK M \in Nat : M = K + 1
    OBVIOUS
  <2>3. PICK L \in Nat : L = N + 1
    OBVIOUS
  <2>4. c + K <= L /\ K \in 0..M /\ c \in 0..L
    BY <1>0, <1>1, <1>7, <2>2, <2>3
  <2>5. X \in [1..L -> Seq(Texts)] /\ Y \in [1..M -> Seq(Texts)]
    BY <1>3, <1>4, <2>2, <2>3 DEF SentAs
  <2>6. QED
    BY <2>1, <2>4, <2>5, JoinedOn
<1>9. Joined(X, a1 - 1) = Joined(X, a - 1)
  <2>1. PICK p \in 0..N : p = a - 1
    BY <1>0
  <2>2. c \in p..(N + 1) /\ p + 1 = a /\ p \in 0..(N + 1)
    BY <1>0, <1>7, <2>1
  <2>3. NothingIn(X, a, c)
    <3> SUFFICES ASSUME NEW m \in a..c PROVE X[m] = <<>>
      BY DEF NothingIn
    <3>1. m \in 1..(N + 1) /\ m # N + 1 /\ m \in a..(a1 - 1)
      BY <1>0, <1>7
    <3>2. QED
      BY <1>3, <3>1 DEF PartOf, SentAs
  <2>4. PICK L \in Nat : L = N + 1
    OBVIOUS
  <2>5. X \in [1..L -> Seq(Texts)] /\ p \in 0..L /\ c \in p..L /\ NothingIn(X, p + 1, c)
    BY <1>3, <2>2, <2>3, <2>4 DEF SentAs
  <2>6. Joined(X, c) = Joined(X, p)
    BY <2>5, JoinedSame
  <2>7. QED
    BY <1>7, <2>1, <2>6
<1>10. QED
  BY <1>1, <1>7, <1>8, <1>9 DEF Continues, X, Y, x

LEMMA PartSends ==
  ASSUME NEW d, NEW t \in Texts, NEW S \in SUBSET (1..Len(t)),
         NEW a \in 1..(Len(t) + 1), NEW a1 \in a..(Len(t) + 1), NEW b1 \in (a1 - 1)..Len(t),
         NEW Sx, PartOf(d, t, S, a, a1, b1, Sx),
         NEW b \in b1..Len(t), b = Len(t) \/ b + 1 \in S, \A n \in (b1 + 1)..b : n \notin S,
         NothingIn(KeptAt(d, t), b1 + 1, b), \A n \in S : Regions(d, t)[n + 1] = "code"
  PROVE  Joined(SentAt(d, t, S), b + 1)
           = Glue(Joined(SentAt(d, t, S), a - 1), StatementsBetween(d, SubSeq(t, a1, b1), Sx))
<1> DEFINE x == SubSeq(t, a1, b1)
           X == SentAt(d, t, S)
           Y == SentAt(d, x, Sx)
<1>0. PICK N \in Nat : N = Len(t) /\ t \in Seq(Marks)
  BY DEF Texts
<1>1. PICK K \in Nat : K = b1 - a1 + 1 /\ Sx \in SUBSET (1..K)
  BY <1>0 DEF PartOf
<1>2. x \in Texts /\ Len(x) = K
  <2>1. a1 \in 1..(Len(t) + 1) /\ Regions(d, t)[a1] = "code"
    BY <1>0 DEF PartOf
  <2>2. QED
    BY <1>0, <1>1, <2>1, PartRegions DEF Texts
<1>3. SentAs(X, d, t, S, N)
  BY <1>0, SentAtAs, Zenon
<1>4. SentAs(Y, d, x, Sx, K) /\ StatementsBetween(d, x, Sx) = Joined(Y, K + 1)
  <2>1. x \in Texts /\ K = Len(x) /\ Sx \in SUBSET (1..Len(x))
    BY <1>1, <1>2
  <2> HIDE DEF x
  <2>2. /\ SentAs(SentAt(d, x, Sx), d, x, Sx, K)
        /\ StatementsBetween(d, x, Sx) = Joined(SentAt(d, x, Sx), K + 1)
    BY <2>1, SentAtAs, Zenon
  <2>3. QED
    BY <2>2
<1>5. Joined(X, b1) = Glue(Joined(X, a - 1), Joined(Y, K))
  <2>1. K \in 0..(b1 - a1 + 1) /\ a1 - 1 + K = b1
    BY <1>0, <1>1
  <2>2. Joined(X, a1 - 1 + K) = Glue(Joined(X, a - 1), Joined(Y, K))
    BY <2>1, PartSendsSoFar
  <2> HIDE DEF x, X, Y
  <2>3. QED
    BY <2>1, <2>2
<1>6. Code(d, Statement(x, Sx, K + 1)) = Code(d, Statement(t, S, b1 + 1))
  <2>1. K + 1 \in 1..(b1 - a1 + 2) /\ a1 - 1 + (K + 1) = b1 + 1
    BY <1>0, <1>1
  <2>2. Code(d, Statement(x, Sx, K + 1)) = Code(d, Statement(t, S, a1 - 1 + (K + 1)))
    BY <2>1, PartStatement
  <2> HIDE DEF x
  <2>3. QED
    BY <2>1, <2>2
<1> HIDE DEF x, X, Y
<1>7. Code(d, Statement(t, S, b1 + 1)) = Code(d, Statement(t, S, b + 1))
  <2>1. S \in SUBSET (1..N) /\ b1 + 1 \in 1..(N + 1) /\ b + 1 \in 1..(N + 1)
    BY <1>0
  <2>2. PICK l \in 0..b1 : /\ l = LastBefore(S, b1 + 1) /\ (l # 0 => l \in S)
                           /\ \A m \in S : m < b1 + 1 => m <= l
    <3>1. (b1 + 1) - 1 = b1
      BY <1>0
    <3>2. QED
      BY <2>1, <3>1, LastBeforeIs
  <2>3. LastBefore(S, b + 1) = l
    <3>1. l \in 0..((b + 1) - 1) /\ (l = 0 \/ l \in S)
      BY <1>0, <2>2
    <3>2. \A m \in (l + 1)..((b + 1) - 1) : m \in (b1 + 1)..b \/ (m < b1 + 1 /\ ~(m <= l))
      BY <1>0, <2>2
    <3>3. \A m \in (l + 1)..((b + 1) - 1) : m \notin S
      BY <2>2, <3>2
    <3>4. QED
      BY <2>1, <3>1, <3>3, LastBeforeFrom
  <2>4. Regions(d, t)[l + 1] = "code"
    <3>1. CASE l = 0
      BY <1>0, <3>1, RegionsStep
    <3>2. CASE l # 0
      BY <2>2, <3>2
    <3>3. QED
      BY <3>1, <3>2
  <2>5. /\ l + 1 \in 1..(Len(t) + 1) /\ b \in ((l + 1) - 1)..Len(t)
        /\ l + 1 \in (l + 1)..(b + 1) /\ b1 \in ((l + 1) - 1)..b
    BY <1>0, <2>2
  <2>6. NothingIn(KeptAt(d, t), l + 1, (l + 1) - 1)
    BY <2>2 DEF NothingIn
  <2>7. Code(d, SubSeq(t, l + 1, b)) = Code(d, SubSeq(t, l + 1, b1))
    <3>1. PICK p \in 1..(Len(t) + 1) : p = l + 1
      BY <2>5
    <3>2. Regions(d, t)[p] = "code" /\ b \in (p - 1)..Len(t) /\ p \in p..(b + 1)
          /\ b1 \in (p - 1)..b /\ NothingIn(KeptAt(d, t), p, p - 1)
      BY <2>4, <2>5, <2>6, <3>1
    <3>3. Code(d, SubSeq(t, p, b)) = Code(d, SubSeq(t, p, b1))
      BY <1>0, <3>2, CodeWithin
    <3>4. QED
      BY <3>1, <3>3
  <2>8. (b + 1) - 1 = b /\ (b1 + 1) - 1 = b1
    BY <1>0
  <2>9. QED
    BY <2>2, <2>3, <2>7, <2>8 DEF Statement
<1>8. Y[K + 1] = X[b + 1]
  <2>1. K + 1 \in 1..(K + 1) /\ b + 1 \in 1..(N + 1) /\ (b + 1 \in S \/ b + 1 = N + 1)
    BY <1>0, <1>1
  <2>2. Sent(d, Statement(x, Sx, K + 1)) = Sent(d, Statement(t, S, b + 1))
    BY <1>6, <1>7, SameCodeSent
  <2>3. QED
    BY <1>3, <1>4, <2>1, <2>2 DEF SentAs
<1>9. PICK L \in Nat : L = N + 1
  OBVIOUS
<1>10. PICK M \in Nat : M = K + 1
  OBVIOUS
<1>11. /\ \A m \in 0..L : Joined(X, m) \in Seq(Texts)
       /\ \A m \in 1..L : Joined(X, m) = Glue(Joined(X, m - 1), X[m])
  <2>1. X \in [1..L -> Seq(Texts)]
    BY <1>3, <1>9 DEF SentAs
  <2>2. QED
    BY <2>1, JoinedSteps, ZenonT(60)
<1>12. /\ \A m \in 0..M : Joined(Y, m) \in Seq(Texts)
       /\ \A m \in 1..M : Joined(Y, m) = Glue(Joined(Y, m - 1), Y[m])
  <2>1. Y \in [1..M -> Seq(Texts)]
    BY <1>4, <1>10 DEF SentAs
  <2>2. QED
    BY <2>1, JoinedSteps, ZenonT(60)
<1>13. Joined(X, b) = Joined(X, b1)
  <2>1. b1 \in 0..L /\ b \in b1..L
    BY <1>0, <1>9
  <2>2. NothingIn(X, b1 + 1, b)
    <3> SUFFICES ASSUME NEW m \in (b1 + 1)..b PROVE X[m] = <<>>
      BY DEF NothingIn
    <3>1. m \in 1..(N + 1) /\ m # N + 1
      BY <1>0
    <3>2. QED
      BY <1>3, <3>1 DEF SentAs
  <2>3. X \in [1..L -> Seq(Texts)]
    BY <1>3, <1>9 DEF SentAs
  <2>4. PICK b0 \in 0..L, b2 \in b1..L : b0 = b1 /\ b2 = b
    BY <2>1
  <2>5. b2 \in b0..L /\ NothingIn(X, b0 + 1, b2)
    BY <2>2, <2>4
  <2>6. Joined(X, b2) = Joined(X, b0)
    <3>1. PICK xs \in [1..L -> Seq(Texts)] : xs = X
      BY <2>3
    <3>2. NothingIn(xs, b0 + 1, b2)
      BY <2>5, <3>1
    <3>3. Joined(xs, b2) = Joined(xs, b0)
      BY <1>9, <2>4, <2>5, <3>2, JoinedSame
    <3>4. QED
      BY <3>1, <3>3
  <2>7. QED
    BY <2>4, <2>6
<1>14. Joined(X, b + 1) = Glue(Glue(Joined(X, a - 1), Joined(Y, K)), Y[K + 1])
  <2>1. b + 1 \in 1..L /\ (b + 1) - 1 = b
    BY <1>0, <1>9
  <2>2. Joined(X, b + 1) = Glue(Joined(X, b), X[b + 1])
    BY <1>11, <2>1
  <2>3. QED
    BY <1>5, <1>8, <1>13, <2>2
<1>15. Joined(Y, K + 1) = Glue(Joined(Y, K), Y[K + 1])
  <2>1. K + 1 \in 1..M /\ (K + 1) - 1 = K
    BY <1>10
  <2>2. QED
    BY <1>12, <2>1
<1>16. Glue(Glue(Joined(X, a - 1), Joined(Y, K)), Y[K + 1])
         = Glue(Joined(X, a - 1), Glue(Joined(Y, K), Y[K + 1]))
  <2>1. a - 1 \in 0..L /\ K \in 0..M /\ K + 1 \in 1..(K + 1)
    BY <1>0, <1>9, <1>10
  <2>2. Joined(X, a - 1) \in Seq(Texts) /\ Joined(Y, K) \in Seq(Texts) /\ Y[K + 1] \in Seq(Texts)
    BY <1>4, <1>11, <1>12, <2>1 DEF SentAs
  <2>3. PICK u \in Seq(Texts), v \in Seq(Texts), w \in Seq(Texts) :
          u = Joined(X, a - 1) /\ v = Joined(Y, K) /\ w = Y[K + 1]
    BY <2>2
  <2>4. Glue(Glue(u, v), w) = Glue(u, Glue(v, w))
    BY Glued
  <2>5. QED
    BY <2>3, <2>4, Zenon
<1>17. QED
  BY <1>4, <1>14, <1>15, <1>16 DEF X, Y, x

-----------------------------------------------------------------------------
(* Blocks: the depth of a part is the depth of the script, when the part   *)
(* starts at depth 0 in code.                                              *)

(* The depth of a text, mark by mark.                                      *)
AtLeast0(x) == IF x < 0 THEN 0 ELSE x

Counts(h, c, m) == h[0] = 0 /\ \A n \in 1..m : h[n] = AtLeast0(h[n - 1] + c[n])

LEMMA CountExists ==
  ASSUME NEW N \in Nat, NEW c \in [1..N -> {-1, 0, 1}]
  PROVE  \E h \in [0..N -> Nat] : Counts(h, c, N)
<1> DEFINE Good == {m \in 0..N : \E h \in [0..m -> Nat] : Counts(h, c, m)}
<1>1. Good \in SUBSET (0..N) /\ 0 \in Good
  <2>1. [n \in 0..0 |-> 0] \in [0..0 -> Nat] /\ Counts([n \in 0..0 |-> 0], c, 0)
    BY DEF Counts
  <2>2. QED
    BY <2>1
<1>2. ASSUME NEW m \in 1..N, m - 1 \in Good PROVE m \in Good
  <2>1. PICK h \in [0..(m - 1) -> Nat] : Counts(h, c, m - 1)
    BY <1>2
  <2> DEFINE last == AtLeast0(h[m - 1] + c[m])
             g == [n \in 0..m |-> IF n = m THEN last ELSE h[n]]
  <2>2. h[m - 1] \in Nat /\ c[m] \in {-1, 0, 1}
    OBVIOUS
  <2>3. last \in Nat
    BY <2>2 DEF AtLeast0
  <2> HIDE DEF last
  <2>4. g \in [0..m -> Nat]
    BY <2>3
  <2>5. g[m] = last /\ \A n \in 0..(m - 1) : g[n] = h[n]
    OBVIOUS
  <2> HIDE DEF g
  <2>6. g[0] = 0
    BY <2>1, <2>5 DEF Counts
  <2>7. ASSUME NEW n \in 1..m PROVE g[n] = AtLeast0(g[n - 1] + c[n])
    <3>1. CASE n = m
      <4>1. m - 1 \in 0..(m - 1)
        OBVIOUS
      <4>2. g[m - 1] = h[m - 1]
        BY <2>5, <4>1
      <4>3. QED
        BY <2>5, <3>1, <4>2 DEF last
    <3>2. CASE n # m
      <4>1. n \in 1..(m - 1) /\ n \in 0..(m - 1) /\ n - 1 \in 0..(m - 1)
        BY <3>2
      <4>2. g[n] = h[n] /\ g[n - 1] = h[n - 1]
        BY <2>5, <4>1
      <4>3. h[n] = AtLeast0(h[n - 1] + c[n])
        BY <2>1, <4>1 DEF Counts
      <4>4. QED
        BY <4>2, <4>3
    <3>3. QED
      BY <3>1, <3>2
  <2>8. Counts(g, c, m)
    BY <2>6, <2>7 DEF Counts
  <2>9. QED
    BY <2>4, <2>8
<1>3. Good = 0..N
  <2> HIDE DEF Good
  <2>1. QED
    BY <1>1, <1>2, UpTo
<1>4. N \in Good
  <2> HIDE DEF Good
  <2>1. QED
    BY <1>3
<1>5. QED
  BY <1>4

LEMMA ChangeTyped ==
  ASSUME NEW t, NEW code, NEW n
  PROVE  Change(t, code, n) \in {-1, 0, 1}
BY DEF Change

DepthAs(h, t, code) ==
  h = [n \in 0..Len(t) |->
        IF n = 0 THEN 0
        ELSE LET to == h[n - 1] + Change(t, code, n) IN IF to < 0 THEN 0 ELSE to]

LEMMA DepthExists ==
  ASSUME NEW t \in Texts, NEW code
  PROVE  \E h : DepthAs(h, t, code)
<1>0. PICK N \in Nat : N = Len(t)
  BY DEF Texts
<1> DEFINE c == [n \in 1..N |-> Change(t, code, n)]
<1>1. c \in [1..N -> {-1, 0, 1}] /\ \A n \in 1..N : c[n] = Change(t, code, n)
  BY ChangeTyped
<1> HIDE DEF c
<1>2. PICK h \in [0..N -> Nat] : Counts(h, c, N)
  BY <1>1, CountExists
<1>3. h = [n \in 0..N |-> h[n]]
  OBVIOUS
<1>4. ASSUME NEW n \in 0..N
      PROVE  h[n] = IF n = 0 THEN 0
                    ELSE LET to == h[n - 1] + Change(t, code, n) IN IF to < 0 THEN 0 ELSE to
  <2>1. CASE n = 0
    BY <1>2, <2>1 DEF Counts
  <2>2. CASE n # 0
    <3>1. n \in 1..N
      BY <2>2
    <3>2. QED
      BY <1>1, <1>2, <2>2, <3>1 DEF Counts, AtLeast0
  <2>3. QED
    BY <2>1, <2>2
<1>5. QED
  BY <1>0, <1>3, <1>4 DEF DepthAs

LEMMA DepthSteps ==
  ASSUME NEW t \in Texts, NEW code
  PROVE  /\ Depth(t, code)[0] = 0
         /\ \A n \in 1..Len(t) :
              Depth(t, code)[n] = AtLeast0(Depth(t, code)[n - 1] + Change(t, code, n))
         /\ \A n \in 0..Len(t) : Depth(t, code)[n] \in Nat
<1> DEFINE h == CHOOSE h : DepthAs(h, t, code)
<1>0. PICK N \in Nat : N = Len(t)
  BY DEF Texts
<1>1. Depth(t, code) = h
  BY Zenon DEF Depth, DepthAs
<1>2. DepthAs(h, t, code)
  BY DepthExists, Zenon
<1> HIDE DEF h
<1>3. h[0] = 0 /\ \A n \in 1..N : h[n] = AtLeast0(h[n - 1] + Change(t, code, n))
  <2>1. 0 \in 0..N /\ \A n \in 1..N : n \in 0..N /\ n # 0
    OBVIOUS
  <2>2. QED
    BY <1>0, <1>2, <2>1 DEF DepthAs, AtLeast0
<1> DEFINE Good == {n \in 0..N : h[n] \in Nat}
<1>4. Good \in SUBSET (0..N) /\ 0 \in Good
  BY <1>3
<1>5. ASSUME NEW n \in 1..N, n - 1 \in Good PROVE n \in Good
  <2>1. h[n - 1] \in Nat /\ Change(t, code, n) \in {-1, 0, 1}
    BY <1>5, ChangeTyped
  <2>2. QED
    BY <1>3, <2>1 DEF AtLeast0
<1>6. Good = 0..N
  <2> HIDE DEF Good
  <2>1. QED
    BY <1>4, <1>5, UpTo
<1>7. \A n \in 0..N : h[n] \in Nat
  BY <1>6
<1>8. QED
  BY <1>0, <1>1, <1>3, <1>7

(* Marks that open and close nothing keep the depth.                       *)
LEMMA DepthSame ==
  ASSUME NEW t \in Texts, NEW code, NEW a \in 0..Len(t), NEW b \in a..Len(t),
         \A n \in (a + 1)..b : Change(t, code, n) = 0
  PROVE  \A n \in a..b : Depth(t, code)[n] = Depth(t, code)[a]
<1>0. PICK N \in Nat : N = b - a
  BY DEF Texts
<1> DEFINE D(n) == Depth(t, code)[n]
<1>1. /\ \A n \in 1..Len(t) : D(n) = AtLeast0(D(n - 1) + Change(t, code, n))
      /\ \A n \in 0..Len(t) : D(n) \in Nat
  BY DepthSteps
<1> HIDE DEF D
<1> DEFINE Good == {n \in 0..N : D(a + n) = D(a)}
<1>2. Good \in SUBSET (0..N) /\ 0 \in Good
  BY DEF Texts
<1>3. ASSUME NEW n \in 1..N, n - 1 \in Good PROVE n \in Good
  <2>1. a + n \in (a + 1)..b /\ (a + n) - 1 = a + (n - 1) /\ a + n \in 1..Len(t)
        /\ a + (n - 1) \in 0..Len(t)
    BY <1>0 DEF Texts
  <2>2. D(a + n) = AtLeast0(D(a + (n - 1)) + 0) /\ D(a + (n - 1)) \in Nat
    BY <1>1, <2>1
  <2>3. D(a + n) = D(a + (n - 1))
    BY <2>2 DEF AtLeast0
  <2>4. QED
    BY <1>3, <2>3
<1>4. Good = 0..N
  <2> HIDE DEF Good
  <2>1. QED
    BY <1>2, <1>3, UpTo
<1>5. \A n \in 0..N : D(a + n) = D(a)
  BY <1>4
<1>6. \A n \in a..b : n - a \in 0..N /\ a + (n - a) = n
  BY <1>0 DEF Texts
<1>7. ASSUME NEW n \in a..b PROVE D(n) = D(a)
  BY <1>5, <1>6, <1>7
<1>8. QED
  BY <1>7 DEF D

(* A BEGIN that starts a transaction: the next mark is a semicolon or the  *)
(* word TRANSACTION.                                                       *)
LEMMA StartsIs ==
  ASSUME NEW t \in Texts, NEW n \in 0..Len(t)
  PROVE  StartsTransaction(t, n) <=>
           \E m \in (n + 1)..Len(t) : /\ t[m] \in {"semi", "transaction"}
                                    /\ \A k \in (n + 1)..(m - 1) : t[k] = "newline"
<1> DEFINE next == {m \in (n + 1)..Len(t) : t[m] # "newline"}
<1>0. Len(t) \in Nat
  BY DEF Texts
<1>1. StartsTransaction(t, n) <=> next # {} /\ t[Min(next)] \in {"semi", "transaction"}
  BY DEF StartsTransaction
<1>2. next \in SUBSET Nat
  BY <1>0
<1>3. next # {} => Min(next) \in next /\ \A j \in next : Min(next) <= j
  <2> HIDE DEF next
  <2>1. QED
    BY <1>2, MinIsLeast
<1>4. ASSUME next # {}, t[Min(next)] \in {"semi", "transaction"}
      PROVE  \E m \in (n + 1)..Len(t) : /\ t[m] \in {"semi", "transaction"}
                                       /\ \A k \in (n + 1)..(m - 1) : t[k] = "newline"
  <2>1. PICK m \in next : m = Min(next) /\ \A j \in next : m <= j
    BY <1>3, <1>4
  <2>2. m \in (n + 1)..Len(t) /\ t[m] \in {"semi", "transaction"}
    BY <1>4, <2>1
  <2>3. ASSUME NEW k \in (n + 1)..(m - 1) PROVE t[k] = "newline"
    <3>1. k \in (n + 1)..Len(t) /\ ~(m <= k)
      BY <1>0, <2>2
    <3>2. k \notin next
      BY <2>1, <3>1
    <3>3. QED
      BY <3>1, <3>2
  <2>4. QED
    BY <2>2, <2>3
<1>5. ASSUME NEW m \in (n + 1)..Len(t), t[m] \in {"semi", "transaction"},
             \A k \in (n + 1)..(m - 1) : t[k] = "newline"
      PROVE  next # {} /\ t[Min(next)] \in {"semi", "transaction"}
  <2>1. m \in next
    BY <1>5
  <2>2. PICK f \in next : f = Min(next) /\ \A j \in next : f <= j
    BY <1>3, <2>1
  <2>3. f \in (n + 1)..Len(t) /\ f <= m /\ t[f] # "newline"
    BY <2>1, <2>2
  <2>4. f = m
    <3>1. f \in (n + 1)..(m - 1) \/ f = m
      BY <1>0, <2>3
    <3>2. QED
      BY <1>5, <2>3, <3>1
  <2>5. QED
    BY <1>5, <2>1, <2>2, <2>4
<1>6. QED
  BY <1>1, <1>4, <1>5

LEMMA OpensIs ==
  ASSUME NEW t, NEW n
  PROVE  OpensBlock(t, n) <=> ~StartsTransaction(t, n)
BY DEF OpensBlock, StartsTransaction

(* A part that starts in code outside blocks, and does not end between a   *)
(* BEGIN and the mark that tells what it starts, has the depth of the text. *)
Detached(d, t, a, b) ==
  /\ Regions(d, t)[a] = "code"
  /\ Depth(t, InCodeAt(d, t))[a - 1] = 0
  /\ a = 1 \/ t[a - 1] # "end"
  /\ ~StartsTransaction(t, b)

LEMMA PartChange ==
  ASSUME NEW d, NEW t \in Texts, NEW a \in 1..(Len(t) + 1), NEW b \in (a - 1)..Len(t),
         Detached(d, t, a, b), NEW n \in 1..(b - a + 1)
  PROVE  /\ n \in InCodeAt(d, SubSeq(t, a, b)) <=> a - 1 + n \in InCodeAt(d, t)
         /\ SubSeq(t, a, b)[n] = t[a - 1 + n]
         /\ OpensCase(SubSeq(t, a, b), n) <=> OpensCase(t, a - 1 + n)
         /\ Change(SubSeq(t, a, b), InCodeAt(d, SubSeq(t, a, b)), n)
              = Change(t, InCodeAt(d, t), a - 1 + n)
<1> DEFINE x == SubSeq(t, a, b)
<1>0. PICK N \in Nat : N = Len(t) /\ t \in Seq(Marks)
  BY DEF Texts
<1>1. PICK K \in Nat : K = b - a + 1 /\ n \in 1..K /\ a + K = b + 1
  BY <1>0
<1>2. /\ x \in Texts /\ Len(x) = K
      /\ \A m \in 1..K : x[m] = t[a - 1 + m]
      /\ \A m \in 1..(K + 1) : Regions(d, x)[m] = Regions(d, t)[a - 1 + m]
  <2>1. Regions(d, t)[a] = "code"
    BY DEF Detached
  <2>2. /\ x \in Seq(Marks) /\ Len(x) = b - a + 1
        /\ \A m \in 1..(b - a + 1) : x[m] = t[a - 1 + m]
        /\ \A m \in 1..(b - a + 2) : Regions(d, x)[m] = Regions(d, t)[a - 1 + m]
    BY <1>0, <2>1, PartRegions
  <2>3. b - a + 2 = K + 1
    BY <1>0, <1>1
  <2> HIDE DEF x
  <2>4. QED
    BY <1>1, <2>2, <2>3 DEF Texts
<1> HIDE DEF x
<1>3. PICK p \in 1..N : p = a - 1 + n
  BY <1>0, <1>1
<1>4. n \in 1..(K + 1) /\ x[n] = t[p] /\ Regions(d, x)[n] = Regions(d, t)[p]
  BY <1>1, <1>2, <1>3
<1>5. DOMAIN x = 1..K /\ DOMAIN t = 1..N
  BY <1>0, <1>2 DEF Texts
<1>6. n \in InCodeAt(d, x) <=> p \in InCodeAt(d, t)
  BY <1>1, <1>3, <1>4, <1>5 DEF InCodeAt
<1>7. OpensCase(x, n) <=> OpensCase(t, p)
  <2>1. CASE n = 1
    <3>1. p = a
      BY <1>0, <1>3, <2>1
    <3>2. p = 1 \/ t[p - 1] # "end"
      BY <3>1 DEF Detached
    <3>3. QED
      BY <1>4, <2>1, <3>2 DEF OpensCase
  <2>2. CASE n # 1
    <3>1. n - 1 \in 1..K /\ a - 1 + (n - 1) = p - 1 /\ p # 1
      BY <1>0, <1>1, <1>3, <2>2
    <3>2. x[n - 1] = t[p - 1]
      BY <1>2, <3>1
    <3>3. QED
      BY <1>4, <2>2, <3>1, <3>2 DEF OpensCase
  <2>3. QED
    BY <2>1, <2>2
<1>8. StartsTransaction(x, n) <=> StartsTransaction(t, p)
  <2>1. n \in 0..Len(x) /\ p \in 0..Len(t) /\ b \in 0..Len(t)
    BY <1>0, <1>1, <1>2, <1>3
  <2>2. ASSUME StartsTransaction(x, n) PROVE StartsTransaction(t, p)
    <3>1. PICK m \in (n + 1)..K : /\ x[m] \in {"semi", "transaction"}
                                 /\ \A k \in (n + 1)..(m - 1) : x[k] = "newline"
      BY <1>2, <2>1, <2>2, StartsIs
    <3>2. a - 1 + m \in (p + 1)..N /\ m \in 1..K
      BY <1>0, <1>1, <1>3
    <3>3. t[a - 1 + m] \in {"semi", "transaction"}
      BY <1>2, <3>1, <3>2
    <3>4. ASSUME NEW k \in (p + 1)..((a - 1 + m) - 1) PROVE t[k] = "newline"
      <4>1. k - a + 1 \in (n + 1)..(m - 1) /\ k - a + 1 \in 1..K /\ a - 1 + (k - a + 1) = k
        BY <1>0, <1>1, <1>3
      <4>2. x[k - a + 1] = t[a - 1 + (k - a + 1)]
        BY <1>2, <4>1
      <4>3. QED
        BY <3>1, <4>1, <4>2
    <3>5. QED
      BY <1>0, <2>1, <3>2, <3>3, <3>4, StartsIs
  <2>3. ASSUME StartsTransaction(t, p) PROVE StartsTransaction(x, n)
    <3>1. PICK m \in (p + 1)..N : /\ t[m] \in {"semi", "transaction"}
                                 /\ \A k \in (p + 1)..(m - 1) : t[k] = "newline"
      BY <1>0, <2>1, <2>3, StartsIs
    <3>2. m <= b
      <4>1. SUFFICES ASSUME ~(m <= b) PROVE FALSE
        OBVIOUS
      <4>2. m \in (b + 1)..N /\ \A k \in (b + 1)..(m - 1) : k \in (p + 1)..(m - 1)
        BY <1>0, <1>1, <1>3, <4>1
      <4>3. \A k \in (b + 1)..(m - 1) : t[k] = "newline"
        BY <3>1, <4>2
      <4>4. StartsTransaction(t, b)
        BY <1>0, <2>1, <3>1, <4>2, <4>3, StartsIs
      <4>5. QED
        BY <4>4 DEF Detached
    <3>3. PICK q \in (n + 1)..K : q = m - a + 1 /\ a - 1 + q = m /\ q \in 1..K
      BY <1>0, <1>1, <1>3, <3>2
    <3>4. x[q] \in {"semi", "transaction"}
      BY <1>2, <3>1, <3>3
    <3>5. ASSUME NEW k \in (n + 1)..(q - 1) PROVE x[k] = "newline"
      <4>1. k \in 1..K /\ a - 1 + k \in (p + 1)..(m - 1)
        BY <1>0, <1>1, <1>3, <3>3
      <4>2. QED
        BY <1>2, <3>1, <4>1
    <3>6. QED
      BY <1>2, <2>1, <3>3, <3>4, <3>5, StartsIs
  <2>4. QED
    BY <2>2, <2>3
<1>9. Change(x, InCodeAt(d, x), n) = Change(t, InCodeAt(d, t), p)
  BY <1>4, <1>6, <1>7, <1>8 DEF Change
<1>10. QED
  BY <1>3, <1>4, <1>6, <1>7, <1>9 DEF x

LEMMA PartDepth ==
  ASSUME NEW d, NEW t \in Texts, NEW a \in 1..(Len(t) + 1), NEW b \in (a - 1)..Len(t),
         Detached(d, t, a, b)
  PROVE  \A n \in 0..(b - a + 1) :
           Depth(SubSeq(t, a, b), InCodeAt(d, SubSeq(t, a, b)))[n]
             = Depth(t, InCodeAt(d, t))[a - 1 + n]
<1> DEFINE x == SubSeq(t, a, b)
           X(n) == Depth(x, InCodeAt(d, x))[n]
           D(n) == Depth(t, InCodeAt(d, t))[n]
<1>0. PICK N \in Nat : N = Len(t) /\ t \in Seq(Marks)
  BY DEF Texts
<1>1. PICK K \in Nat : K = b - a + 1
  BY <1>0
<1>2. x \in Texts /\ Len(x) = K
  <2>1. Regions(d, t)[a] = "code"
    BY DEF Detached
  <2>2. QED
    BY <1>0, <1>1, <2>1, PartRegions DEF Texts
<1>3. \A n \in 1..K : Change(x, InCodeAt(d, x), n) = Change(t, InCodeAt(d, t), a - 1 + n)
  BY <1>1, PartChange
<1>4. /\ X(0) = 0
      /\ \A n \in 1..K : X(n) = AtLeast0(X(n - 1) + Change(x, InCodeAt(d, x), n))
  <2> HIDE DEF x
  <2>1. QED
    BY <1>2, DepthSteps
<1>5. /\ D(a - 1) = 0
      /\ \A n \in 1..N : D(n) = AtLeast0(D(n - 1) + Change(t, InCodeAt(d, t), n))
  BY <1>0, DepthSteps DEF Detached
<1> HIDE DEF X, D, x
<1> DEFINE Good == {n \in 0..K : X(n) = D(a - 1 + n)}
<1>6. Good \in SUBSET (0..K) /\ 0 \in Good
  <2>1. a - 1 + 0 = a - 1
    BY <1>0
  <2>2. QED
    BY <1>4, <1>5, <2>1
<1>7. ASSUME NEW n \in 1..K, n - 1 \in Good PROVE n \in Good
  <2>1. a - 1 + n \in 1..N /\ (a - 1 + n) - 1 = a - 1 + (n - 1)
    BY <1>0, <1>1
  <2>2. X(n - 1) = D(a - 1 + (n - 1))
    BY <1>7
  <2>3. D(a - 1 + n) = AtLeast0(D(a - 1 + (n - 1)) + Change(t, InCodeAt(d, t), a - 1 + n))
    BY <1>5, <2>1
  <2>4. X(n) = D(a - 1 + n)
    BY <1>3, <1>4, <2>2, <2>3
  <2>5. QED
    BY <2>4
<1>8. Good = 0..K
  <2> HIDE DEF Good
  <2>1. QED
    BY <1>6, <1>7, UpTo
<1>9. \A n \in 0..K : X(n) = D(a - 1 + n)
  BY <1>8
<1>10. QED
  BY <1>1, <1>9 DEF X, D, x

LEMMA PartSemis ==
  ASSUME NEW d, NEW t \in Texts, NEW a \in 1..(Len(t) + 1), NEW b \in (a - 1)..Len(t),
         Detached(d, t, a, b), NEW n \in 1..(b - a + 1)
  PROVE  n \in TopLevelSemis(SubSeq(t, a, b), InCodeAt(d, SubSeq(t, a, b)))
           <=> a - 1 + n \in TopLevelSemis(t, InCodeAt(d, t))
<1> DEFINE x == SubSeq(t, a, b)
<1>1. /\ n \in InCodeAt(d, x) <=> a - 1 + n \in InCodeAt(d, t)
      /\ x[n] = t[a - 1 + n]
  BY PartChange
<1>2. n \in 0..(b - a + 1)
  BY DEF Texts
<1>3. Depth(x, InCodeAt(d, x))[n] = Depth(t, InCodeAt(d, t))[a - 1 + n]
  BY <1>2, PartDepth
<1> HIDE DEF x
<1>4. QED
  BY <1>1, <1>3 DEF TopLevelSemis, x

-----------------------------------------------------------------------------
(* What a chunk sends, and a list of chunks.                               *)

(* The chunks a script that is split as its client reads it is cut into:   *)
(* none ends inside a literal, and the CASEs of one that is scanned are    *)
(* flat.                                                                   *)
Flat(d, x) == \A n \in InCodeAt(d, x) : OpensCase(x, n) => FlatCase(x, InCodeAt(d, x), n)

FineChunk(d) ==
  {c \in Chunk(d) : /\ Regions(d, c.text)[Len(c.text) + 1] \in Ended
                    /\ c.scan => Flat(d, c.text)}

Semis(d, x) == TopLevelSemis(x, InCodeAt(d, x))

ChunkSends(d, c) ==
  IF c.scan THEN StatementsBetween(d, c.text, Semis(d, c.text)) ELSE Sent(d, c.text)

SendsAt(d, cs) == [n \in DOMAIN cs |-> ChunkSends(d, cs[n])]

SendsOf(d, cs) == FlattenSeq(SendsAt(d, cs))

LEMMA SemisIn ==
  ASSUME NEW d, NEW x \in Texts
  PROVE  Semis(d, x) \in SUBSET (1..Len(x)) /\ Semis(d, x) \subseteq InCodeAt(d, x)
BY DEF Semis, TopLevelSemis, InCodeAt, Texts

LEMMA ChunkSendsTyped ==
  ASSUME NEW d, NEW c \in FineChunk(d)
  PROVE  /\ ChunkSends(d, c) \in Seq(Texts) /\ c.text \in Texts /\ c.scan \in BOOLEAN
         /\ Regions(d, c.text)[Len(c.text) + 1] \in Ended
         /\ c.scan => Flat(d, c.text) /\ Readable(d, c.text)
<1>1. /\ c.text \in Texts /\ c.scan \in BOOLEAN
      /\ Regions(d, c.text)[Len(c.text) + 1] \in Ended
      /\ c.scan => Flat(d, c.text) /\ Readable(d, c.text)
  BY DEF FineChunk, Chunk, Texts
<1>2. PICK x \in Texts : x = c.text
  BY <1>1
<1>3. StatementsBetween(d, x, Semis(d, x)) \in Seq(Texts)
  <2>1. PICK S \in SUBSET (1..Len(x)) : S = Semis(d, x)
    BY SemisIn
  <2>2. /\ StatementsBetween(d, x, S) = Joined(SentAt(d, x, S), Len(x) + 1)
        /\ \A n \in 0..(Len(x) + 1) : Joined(SentAt(d, x, S), n) \in Seq(Texts)
    BY SentAtIs
  <2>3. Len(x) + 1 \in 0..(Len(x) + 1)
    BY DEF Texts
  <2>4. QED
    BY <2>1, <2>2, <2>3
<1>4. Sent(d, x) \in Seq(Texts)
  BY SentTyped
<1>5. QED
  BY <1>1, <1>2, <1>3, <1>4 DEF ChunkSends

LEMMA SendsAtIs ==
  ASSUME NEW d, NEW cs \in Seq(FineChunk(d)), NEW N \in Nat, N = Len(cs)
  PROVE  /\ SendsAt(d, cs) \in [1..N -> Seq(Texts)]
         /\ \A n \in 1..N : SendsAt(d, cs)[n] = ChunkSends(d, cs[n])
         /\ SendsOf(d, cs) = Joined(SendsAt(d, cs), N)
         /\ SendsOf(d, cs) \in Seq(Texts)
<1>1. DOMAIN cs = 1..N /\ \A n \in 1..N : cs[n] \in FineChunk(d)
  OBVIOUS
<1>2. \A n \in 1..N : ChunkSends(d, cs[n]) \in Seq(Texts)
  BY <1>1, ChunkSendsTyped
<1>3. /\ SendsAt(d, cs) \in [1..N -> Seq(Texts)]
      /\ \A n \in 1..N : SendsAt(d, cs)[n] = ChunkSends(d, cs[n])
  BY <1>1, <1>2 DEF SendsAt
<1>4. PICK xs \in [1..N -> Seq(Texts)] : xs = SendsAt(d, cs)
  BY <1>3
<1>5. FlattenSeq(xs) = Joined(xs, N) /\ Joined(xs, N) \in Seq(Texts)
  <2>1. N \in 0..N
    OBVIOUS
  <2>2. QED
    BY <2>1, JoinedSteps
<1>6. QED
  BY <1>3, <1>4, <1>5 DEF SendsOf

(* The chunks of two lists, one after the other.                           *)
LEMMA SendsOfGlue ==
  ASSUME NEW d, NEW cs \in Seq(FineChunk(d)), NEW ds \in Seq(FineChunk(d))
  PROVE  /\ Glue(cs, ds) \in Seq(FineChunk(d))
         /\ SendsOf(d, Glue(cs, ds)) = Glue(SendsOf(d, cs), SendsOf(d, ds))
<1>1. PICK A \in Nat, B \in Nat : A = Len(cs) /\ B = Len(ds)
  OBVIOUS
<1>2. PICK es \in Seq(FineChunk(d)) : es = Glue(cs, ds)
  <2> DEFINE S == FineChunk(d)
  <2>1. cs \in Seq(S) /\ ds \in Seq(S)
    OBVIOUS
  <2> HIDE DEF S
  <2>2. Glue(cs, ds) \in Seq(S)
    BY <2>1, Glued
  <2>3. QED
    BY <2>2 DEF S
<1>3. PICK N \in Nat : N = A + B
  OBVIOUS
<1>4. /\ Len(es) = N
      /\ \A n \in 1..A : es[n] = cs[n]
      /\ \A n \in 1..B : es[A + n] = ds[n]
  <2> DEFINE S == FineChunk(d)
  <2>1. cs \in Seq(S) /\ ds \in Seq(S)
    OBVIOUS
  <2> HIDE DEF S
  <2>2. QED
    BY <1>1, <1>2, <1>3, <2>1 DEF Glue
<1>5. PICK xs \in [1..N -> Seq(Texts)] :
        /\ xs = SendsAt(d, es)
        /\ \A n \in 1..N : xs[n] = ChunkSends(d, es[n])
        /\ SendsOf(d, es) = Joined(xs, N)
  BY <1>4, SendsAtIs
<1>6. PICK ys \in [1..B -> Seq(Texts)] :
        /\ ys = SendsAt(d, ds)
        /\ \A n \in 1..B : ys[n] = ChunkSends(d, ds[n])
        /\ SendsOf(d, ds) = Joined(ys, B)
  BY <1>1, SendsAtIs
<1>7. PICK zs \in [1..A -> Seq(Texts)] :
        /\ zs = SendsAt(d, cs)
        /\ \A n \in 1..A : zs[n] = ChunkSends(d, cs[n])
        /\ SendsOf(d, cs) = Joined(zs, A)
  BY <1>1, SendsAtIs
<1>8. Joined(xs, A) = Joined(zs, A)
  <2>1. \A n \in 1..A : xs[n] = zs[n]
    BY <1>3, <1>4, <1>5, <1>7
  <2>2. [n \in 1..A |-> xs[n]] = [n \in 1..A |-> zs[n]]
    BY <2>1
  <2>3. QED
    BY <2>2 DEF Joined
<1>9. Joined(xs, A + B) = Glue(Joined(xs, A), Joined(ys, B))
  <2>1. Matches(ys, B, xs, A)
    <3> SUFFICES ASSUME NEW n \in 1..B PROVE ys[n] = xs[A + n]
      BY DEF Matches
    <3>1. A + n \in 1..N
      BY <1>3
    <3>2. QED
      BY <1>4, <1>5, <1>6, <3>1
  <2>2. A \in 0..N /\ B \in 0..B /\ A + B <= N
    BY <1>3
  <2>3. Continues(ys, B, xs, A)
    BY <2>1, <2>2, JoinedOn
  <2>4. QED
    BY <2>2, <2>3 DEF Continues
<1>10. QED
  BY <1>2, <1>3, <1>5, <1>6, <1>7, <1>8, <1>9

LEMMA SendsOfOne ==
  ASSUME NEW d, NEW c \in FineChunk(d)
  PROVE  <<c>> \in Seq(FineChunk(d)) /\ SendsOf(d, <<c>>) = ChunkSends(d, c)
<1>1. PICK cs \in Seq(FineChunk(d)) : cs = <<c>> /\ Len(cs) = 1 /\ cs[1] = c
  <2> DEFINE S == FineChunk(d)
  <2>1. c \in S
    OBVIOUS
  <2> HIDE DEF S
  <2>2. <<c>> \in Seq(S) /\ Len(<<c>>) = 1 /\ <<c>>[1] = c
    BY <2>1
  <2>3. QED
    BY <2>2 DEF S
<1>2. /\ SendsAt(d, cs) \in [1..1 -> Seq(Texts)]
      /\ SendsAt(d, cs)[1] = ChunkSends(d, c)
      /\ SendsOf(d, cs) = Joined(SendsAt(d, cs), 1)
  <2>1. PICK N \in Nat : N = 1
    OBVIOUS
  <2>2. N = Len(cs) /\ 1 \in 1..N
    BY <1>1, <2>1
  <2>3. /\ SendsAt(d, cs) \in [1..N -> Seq(Texts)]
        /\ \A n \in 1..N : SendsAt(d, cs)[n] = ChunkSends(d, cs[n])
        /\ SendsOf(d, cs) = Joined(SendsAt(d, cs), N)
    BY <2>2, SendsAtIs
  <2>4. QED
    BY <1>1, <2>1, <2>2, <2>3
<1>3. PICK xs \in [1..1 -> Seq(Texts)] : xs = SendsAt(d, cs)
  BY <1>2
<1>4. Joined(xs, 0) = <<>> /\ Joined(xs, 1) = Glue(Joined(xs, 1 - 1), xs[1])
  <2>1. PICK N \in Nat : N = 1
    OBVIOUS
  <2>2. xs \in [1..N -> Seq(Texts)] /\ 1 \in 1..N
    BY <2>1
  <2>3. QED
    BY <2>2, JoinedSteps
<1>5. xs[1] \in Seq(Texts) /\ 1 - 1 = 0
  OBVIOUS
<1>6. QED
  BY <1>1, <1>2, <1>3, <1>4, <1>5, Glued

LEMMA SendsOfNone ==
  ASSUME NEW d
  PROVE  SendsOf(d, <<>>) = <<>>
<1>1. PICK cs \in Seq(FineChunk(d)) : cs = <<>> /\ Len(cs) = 0
  <2>1. <<>> \in Seq(FineChunk(d))
    BY EmptyTyped
  <2>2. Len(<<>>) = 0
    OBVIOUS
  <2>3. QED
    BY <2>1, <2>2
<1>2. SendsAt(d, cs) \in [1..0 -> Seq(Texts)] /\ SendsOf(d, cs) = Joined(SendsAt(d, cs), 0)
  BY <1>1, SendsAtIs
<1>3. PICK xs \in [1..0 -> Seq(Texts)] : xs = SendsAt(d, cs)
  BY <1>2
<1>4. Joined(xs, 0) = <<>>
  BY JoinedSteps
<1>5. QED
  BY <1>1, <1>2, <1>3, <1>4

(* A list of chunks is its head and its tail.                              *)
LEMMA SendsOfHead ==
  ASSUME NEW d, NEW cs \in Seq(FineChunk(d)), cs # <<>>
  PROVE  /\ Head(cs) \in FineChunk(d) /\ Tail(cs) \in Seq(FineChunk(d))
         /\ SendsOf(d, cs) = Glue(ChunkSends(d, Head(cs)), SendsOf(d, Tail(cs)))
<1>1. Head(cs) \in FineChunk(d) /\ Tail(cs) \in Seq(FineChunk(d))
  OBVIOUS
<1>2. cs = Glue(<<Head(cs)>>, Tail(cs))
  BY HeadTailProperties, ConcatProperties DEF Glue
<1>3. PICK c \in FineChunk(d), rest \in Seq(FineChunk(d)), one \in Seq(FineChunk(d)) :
        c = Head(cs) /\ rest = Tail(cs) /\ one = <<c>>
  BY <1>1, SendsOfOne
<1>4. SendsOf(d, Glue(one, rest)) = Glue(SendsOf(d, one), SendsOf(d, rest))
  BY SendsOfGlue
<1>5. SendsOf(d, one) = ChunkSends(d, c)
  BY <1>3, SendsOfOne
<1>6. QED
  BY <1>1, <1>2, <1>3, <1>4, <1>5

-----------------------------------------------------------------------------
(* The scan of one chunk: where it stands, and what it has sent.           *)

(* The scanner's depth is the client's, or the client stands in a CASE     *)
(* that the scanner does not count.                                        *)
Breaks == {"begin", "routine", "case", "end", "semi"} \cup Directives

CaseEndsAt(d, x, p, m) ==
  /\ m \in InCodeAt(d, x) /\ m >= p /\ x[m] = "end"
  /\ \A k \in p..(m - 1) : k \in InCodeAt(d, x) => x[k] \notin Breaks

DepthKept(d, x, p, dep) ==
  \/ dep = Depth(x, InCodeAt(d, x))[p - 1]
  \/ /\ dep = 0 /\ Depth(x, InCodeAt(d, x))[p - 1] = 1
     /\ \E m \in InCodeAt(d, x) : CaseEndsAt(d, x, p, m)

LEMMA DepthQuiet ==
  ASSUME NEW d, NEW x \in Texts, NEW p \in 1..(Len(x) + 1), NEW q \in p..(Len(x) + 1),
         NEW dep, DepthKept(d, x, p, dep),
         \A n \in p..(q - 1) : /\ Change(x, InCodeAt(d, x), n) = 0
                               /\ n \in InCodeAt(d, x) => x[n] # "end"
  PROVE  DepthKept(d, x, q, dep)
<1>0. PICK N \in Nat : N = Len(x)
  BY DEF Texts
<1>1. PICK a \in 0..N, b \in 0..N : a = p - 1 /\ b = q - 1
  BY <1>0
<1>2. Depth(x, InCodeAt(d, x))[b] = Depth(x, InCodeAt(d, x))[a]
  <2>1. b \in a..Len(x) /\ a \in 0..Len(x) /\ a + 1 = p /\ b \in a..b
    BY <1>0, <1>1
  <2>2. \A n \in (a + 1)..b : Change(x, InCodeAt(d, x), n) = 0
    BY <1>1, <2>1
  <2>3. QED
    BY <2>1, <2>2, DepthSame
<1>3. ASSUME NEW m \in InCodeAt(d, x), CaseEndsAt(d, x, p, m) PROVE CaseEndsAt(d, x, q, m)
  <2>1. m \in 1..N
    BY <1>0 DEF InCodeAt, Texts
  <2>2. m >= p /\ x[m] = "end"
    BY <1>3 DEF CaseEndsAt
  <2>3. m >= q
    <3>1. m \in p..(q - 1) \/ m >= q
      BY <1>0, <2>1, <2>2
    <3>2. QED
      BY <2>2, <3>1
  <2>4. \A k \in q..(m - 1) : k \in p..(m - 1)
    BY <1>0, <2>1
  <2>5. QED
    BY <1>3, <2>2, <2>3, <2>4 DEF CaseEndsAt
<1>4. QED
  BY <1>1, <1>2, <1>3 DEF DepthKept

LEMMA DepthOfMark ==
  ASSUME NEW d, NEW x \in Texts, NEW p \in 1..Len(x), NEW dep \in Nat,
         DepthKept(d, x, p, dep), Flat(d, x), p \in InCodeAt(d, x)
  PROVE  /\ x[p] = "begin" => DepthKept(d, x, p + 1, IF OpensBlock(x, p) THEN dep + 1 ELSE dep)
         /\ x[p] = "end" => DepthKept(d, x, p + 1, IF dep > 0 THEN dep - 1 ELSE dep)
         /\ x[p] = "case" => DepthKept(d, x, p + 1, dep)
         /\ x[p] = "semi" => (p \in Semis(d, x) <=> dep = 0)
<1> DEFINE C == InCodeAt(d, x)
           D(n) == Depth(x, C)[n]
<1>0. PICK N \in Nat : N = Len(x)
  BY DEF Texts
<1>1. p - 1 \in 0..N /\ p \in 1..N /\ (p + 1) - 1 = p /\ p \in 0..N
  BY <1>0
<1>2. /\ D(p) = AtLeast0(D(p - 1) + Change(x, C, p))
      /\ D(p - 1) \in Nat /\ D(p) \in Nat
  BY <1>0, <1>1, DepthSteps
<1>3. ASSUME x[p] \in Breaks, x[p] # "end" PROVE dep = D(p - 1)
  <2>1. ASSUME NEW m \in C, CaseEndsAt(d, x, p, m) PROVE FALSE
    <3>1. m \in 1..N /\ m >= p /\ m # p
      BY <1>0, <1>3, <2>1 DEF CaseEndsAt, InCodeAt, Texts
    <3>2. p \in p..(m - 1)
      BY <1>1, <3>1
    <3>3. QED
      BY <1>3, <2>1, <3>2 DEF CaseEndsAt
  <2>2. QED
    BY <2>1 DEF DepthKept
<1>4. ASSUME x[p] = "begin"
      PROVE  DepthKept(d, x, p + 1, IF OpensBlock(x, p) THEN dep + 1 ELSE dep)
  <2>1. dep = D(p - 1)
    BY <1>3, <1>4 DEF Breaks
  <2>2. Change(x, C, p) = IF OpensBlock(x, p) THEN 1 ELSE 0
    BY <1>4, OpensIs DEF Change
  <2>3. D(p) = IF OpensBlock(x, p) THEN dep + 1 ELSE dep
    BY <1>2, <2>1, <2>2 DEF AtLeast0
  <2>4. QED
    BY <1>1, <2>3 DEF DepthKept
<1>5. ASSUME x[p] = "end"
      PROVE  DepthKept(d, x, p + 1, IF dep > 0 THEN dep - 1 ELSE dep)
  <2>1. Change(x, C, p) = -1
    BY <1>5 DEF Change
  <2>2. D(p) = IF D(p - 1) > 0 THEN D(p - 1) - 1 ELSE 0
    BY <1>2, <2>1 DEF AtLeast0
  <2>3. dep = D(p - 1) \/ (dep = 0 /\ D(p - 1) = 1)
    BY DEF DepthKept
  <2>4. D(p) = IF dep > 0 THEN dep - 1 ELSE dep
    BY <1>2, <2>2, <2>3
  <2>5. QED
    BY <1>1, <2>4 DEF DepthKept
<1>6. ASSUME x[p] = "case" PROVE DepthKept(d, x, p + 1, dep)
  <2>1. dep = D(p - 1)
    BY <1>3, <1>6 DEF Breaks
  <2>2. Change(x, C, p) = IF OpensCase(x, p) THEN 1 ELSE 0
    BY <1>6 DEF Change
  <2>3. CASE ~OpensCase(x, p)
    <3>1. D(p) = dep
      BY <1>2, <2>1, <2>2, <2>3 DEF AtLeast0
    <3>2. QED
      BY <1>1, <3>1 DEF DepthKept
  <2>4. CASE OpensCase(x, p)
    <3>1. FlatCase(x, C, p)
      BY <2>4 DEF Flat
    <3>2. D(p) = 1
      BY <3>1 DEF FlatCase
    <3>3. dep = 0
      BY <1>2, <2>1, <2>2, <2>4, <3>2 DEF AtLeast0
    <3>4. PICK m \in C : /\ m > p /\ x[m] = "end"
                         /\ \A k \in (p + 1)..(m - 1) : k \in C =>
                              x[k] \notin {"begin", "routine", "case", "end", "semi"} \cup Directives
      BY <3>1 DEF FlatCase
    <3>5. m >= p + 1
      <4>1. m \in 1..N
        BY <1>0 DEF InCodeAt, Texts
      <4>2. QED
        BY <1>1, <3>4, <4>1
    <3>6. CaseEndsAt(d, x, p + 1, m)
      BY <3>4, <3>5 DEF CaseEndsAt, Breaks
    <3>7. QED
      BY <1>1, <3>2, <3>3, <3>6 DEF DepthKept
  <2>5. QED
    BY <2>3, <2>4
<1>7. ASSUME x[p] = "semi" PROVE p \in Semis(d, x) <=> dep = 0
  <2>1. dep = D(p - 1)
    BY <1>3, <1>7 DEF Breaks
  <2>2. Change(x, C, p) = 0
    BY <1>7 DEF Change
  <2>3. D(p) = dep
    BY <1>2, <2>1, <2>2 DEF AtLeast0
  <2>4. QED
    BY <1>7, <2>3 DEF Semis, TopLevelSemis
<1>8. QED
  BY <1>4, <1>5, <1>6, <1>7

(* The statements of the text being scanned: those up to the mark read are *)
(* sent, and the buffer holds the next one up to there.                    *)
SentSoFar(d, x, p, sts, cs, all) ==
  \E done \in Seq(Texts) :
    /\ CodeOfAll(d, sts) = Glue(done, Joined(SentAt(d, x, Semis(d, x)), p - 1))
    /\ Glue(done, Glue(StatementsBetween(d, x, Semis(d, x)), SendsOf(d, cs))) = all

ScanAt(d, x, p, b, dep, sts, cs, all) ==
  /\ x \in Texts
  /\ Regions(d, x)[Len(x) + 1] \in Ended
  /\ Flat(d, x)
  /\ p \in 1..(Len(x) + 1)
  /\ dep \in Nat
  /\ DepthKept(d, x, p, dep)
  /\ b = SubSeq(x, LastBefore(Semis(d, x), p) + 1, p - 1)
  /\ SentSoFar(d, x, p, sts, cs, all)

(* Marks that separate nothing are added to the buffer.                    *)
LEMMA Taken ==
  ASSUME NEW d, NEW x, NEW p, NEW b, NEW dep, NEW sts, NEW cs, NEW all,
         ScanAt(d, x, p, b, dep, sts, cs, all),
         NEW q \in (p + 1)..(Len(x) + 1), \A n \in p..(q - 1) : n \notin Semis(d, x),
         NEW dep1 \in Nat, DepthKept(d, x, q, dep1)
  PROVE  ScanAt(d, x, q, b \o SubSeq(x, p, q - 1), dep1, sts, cs, all)
<1>0. /\ x \in Texts /\ p \in 1..(Len(x) + 1) /\ Regions(d, x)[Len(x) + 1] \in Ended /\ Flat(d, x)
      /\ b = SubSeq(x, LastBefore(Semis(d, x), p) + 1, p - 1)
      /\ SentSoFar(d, x, p, sts, cs, all)
  BY DEF ScanAt
<1>1. PICK N \in Nat : N = Len(x) /\ x \in Seq(Marks)
  BY <1>0 DEF Texts
<1>2. q \in 1..(N + 1) /\ p \in 1..N /\ q - 1 \in p..N
  BY <1>0, <1>1
<1>3. PICK S \in SUBSET (1..N) : S = Semis(d, x)
  BY <1>0, <1>1, SemisIn
<1>4. PICK l \in 0..(p - 1) : /\ l = LastBefore(S, p) /\ (l # 0 => l \in S)
                              /\ \A m \in S : m < p => m <= l
  BY <1>0, <1>1, <1>3, LastBeforeIs
<1>5. LastBefore(S, q) = l
  <2>1. l \in 0..(q - 1) /\ (l = 0 \/ l \in S)
    BY <1>1, <1>2, <1>4
  <2>2. \A m \in (l + 1)..(q - 1) : m \in p..(q - 1) \/ (m < p /\ ~(m <= l))
    BY <1>1, <1>2
  <2>3. \A m \in (l + 1)..(q - 1) : m \notin S
    BY <1>3, <1>4, <2>2
  <2>4. QED
    BY <1>1, <1>2, <2>1, <2>3, LastBeforeFrom
<1>6. SubSeq(x, l + 1, p - 1) \o SubSeq(x, p, q - 1) = SubSeq(x, l + 1, q - 1)
  <2>1. PICK m \in 1..(Len(x) + 1), k \in 0..Len(x), r \in 0..Len(x) :
          /\ m = l + 1 /\ k = p - 1 /\ r = q - 1
          /\ k \in (m - 1)..Len(x) /\ r \in k..Len(x)
    BY <1>1, <1>2, <1>4
  <2>2. SubSeq(x, m, k) \o SubSeq(x, k + 1, r) = SubSeq(x, m, r)
    BY <1>1, <2>1, ConcatAdjacentSubSeq
  <2>3. k + 1 = p
    BY <1>2, <2>1
  <2>4. QED
    BY <2>1, <2>2, <2>3
<1>7. Joined(SentAt(d, x, S), q - 1) = Joined(SentAt(d, x, S), p - 1)
  <2>1. PICK X \in [1..(N + 1) -> Seq(Texts)] : X = SentAt(d, x, S) /\ SentAs(X, d, x, S, N)
    <3>1. SentAs(SentAt(d, x, S), d, x, S, N)
      BY <1>0, <1>1, <1>3, SentAtAs, Zenon
    <3>2. QED
      BY <3>1 DEF SentAs
  <2>2. PICK M \in Nat, a \in Nat, c \in Nat :
          M = N + 1 /\ a = p - 1 /\ c = q - 1 /\ a \in 0..M /\ c \in a..M
    BY <1>1, <1>2
  <2>3. NothingIn(X, a + 1, c)
    <3> SUFFICES ASSUME NEW n \in (a + 1)..c PROVE X[n] = <<>>
      BY DEF NothingIn
    <3>1. n \in p..(q - 1) /\ n \in 1..(N + 1) /\ n # N + 1
      BY <1>1, <1>2, <2>2
    <3>2. QED
      BY <1>3, <2>1, <3>1 DEF SentAs
  <2>4. X \in [1..M -> Seq(Texts)]
    BY <2>2
  <2>5. Joined(X, c) = Joined(X, a)
    BY <2>2, <2>3, <2>4, JoinedSame
  <2>6. QED
    BY <2>1, <2>2, <2>5
<1>8. b \o SubSeq(x, p, q - 1) = SubSeq(x, LastBefore(S, q) + 1, q - 1)
  BY <1>0, <1>3, <1>4, <1>5, <1>6
<1>9. SentSoFar(d, x, q, sts, cs, all)
  BY <1>0, <1>3, <1>7 DEF SentSoFar
<1>10. QED
  BY <1>0, <1>1, <1>2, <1>3, <1>8, <1>9 DEF ScanAt

(* What the buffer holds at a separator, and at the end, is a statement of *)
(* the text.                                                               *)
LEMMA BufferIsStatement ==
  ASSUME NEW d, NEW x, NEW p, NEW b, NEW dep, NEW sts, NEW cs, NEW all,
         ScanAt(d, x, p, b, dep, sts, cs, all), sts \in Seq(Texts),
         p \in Semis(d, x) \/ p = Len(x) + 1
  PROVE  /\ b \in Texts
         /\ AppendStripped(sts, b) \in Seq(Texts)
         /\ SentSoFar(d, x, p + 1, AppendStripped(sts, b), cs, all)
<1>0. /\ x \in Texts /\ p \in 1..(Len(x) + 1) /\ Regions(d, x)[Len(x) + 1] \in Ended
      /\ b = SubSeq(x, LastBefore(Semis(d, x), p) + 1, p - 1)
      /\ SentSoFar(d, x, p, sts, cs, all)
  BY DEF ScanAt
<1>1. PICK N \in Nat : N = Len(x) /\ x \in Seq(Marks)
  BY <1>0 DEF Texts
<1>2. PICK S \in SUBSET (1..N) : S = Semis(d, x) /\ S \subseteq InCodeAt(d, x)
  BY <1>0, <1>1, SemisIn
<1>3. PICK l \in 0..(p - 1) : l = LastBefore(S, p) /\ (l # 0 => l \in S)
  BY <1>0, <1>1, <1>2, LastBeforeIs
<1>4. ASSUME NEW n \in S PROVE Regions(d, x)[n] = "code" /\ Regions(d, x)[n + 1] = "code"
  <2>1. n \in 1..Len(x) /\ x[n] = "semi" /\ Regions(d, x)[n] = "code"
    BY <1>1, <1>2, <1>4 DEF Semis, TopLevelSemis, InCodeAt
  <2>2. After(d, "code", "semi") = "code"
    BY DEF After, Opened
  <2>3. QED
    BY <1>1, <2>1, <2>2, RegionsStep
<1>5. PICK a \in 1..(Len(x) + 1) : a = l + 1 /\ Regions(d, x)[a] = "code"
  <2>1. l + 1 \in 1..(Len(x) + 1)
    BY <1>0, <1>1
  <2>2. Regions(d, x)[l + 1] = "code"
    <3>1. CASE l = 0
      BY <1>1, <3>1, RegionsStep
    <3>2. CASE l # 0
      BY <1>3, <1>4, <3>2
    <3>3. QED
      BY <3>1, <3>2
  <2>3. QED
    BY <2>1, <2>2
<1>6. PICK c \in (a - 1)..Len(x) : c = p - 1
  BY <1>0, <1>1, <1>5
<1>7. b \in Texts /\ Regions(d, b)[Len(b) + 1] \in Ended
  <2>1. /\ SubSeq(x, a, c) \in Seq(Marks) /\ Len(SubSeq(x, a, c)) = c - a + 1
        /\ \A n \in 1..(c - a + 2) :
             Regions(d, SubSeq(x, a, c))[n] = Regions(d, x)[a - 1 + n]
    <3>1. c \in (a - 1)..Len(x) /\ a \in 1..(Len(x) + 1) /\ x \in Seq(Marks)
          /\ Regions(d, x)[a] = "code"
      BY <1>1, <1>5, <1>6
    <3>2. QED
      BY <3>1, PartRegions
  <2>2. b = SubSeq(x, a, c)
    BY <1>0, <1>2, <1>3, <1>5, <1>6
  <2>3. Len(b) + 1 \in 1..(c - a + 2) /\ a - 1 + (Len(b) + 1) = p
    <3>1. Len(b) = c - a + 1
      BY <2>1, <2>2
    <3>2. a \in Nat /\ c \in Int /\ c >= a - 1 /\ p = c + 1
      BY <1>0, <1>1, <1>5, <1>6
    <3>3. QED
      BY <3>1, <3>2
  <2>4. Regions(d, b)[Len(b) + 1] = Regions(d, x)[p]
    BY <2>1, <2>2, <2>3
  <2>5. Regions(d, x)[p] \in Ended
    BY <1>0, <1>2, <1>4 DEF Ended
  <2>6. QED
    BY <2>1, <2>2, <2>4, <2>5 DEF Texts
<1>8. /\ AppendStripped(sts, b) \in Seq(Texts)
      /\ CodeOfAll(d, AppendStripped(sts, b)) = Glue(CodeOfAll(d, sts), Sent(d, b))
  BY <1>7, AppendStrippedSends
<1>9. PICK X \in [1..(N + 1) -> Seq(Texts)] : X = SentAt(d, x, S) /\ SentAs(X, d, x, S, N)
  <2>1. SentAs(SentAt(d, x, S), d, x, S, N)
    BY <1>0, <1>1, <1>2, SentAtAs, Zenon
  <2>2. QED
    BY <2>1 DEF SentAs
<1>10. X[p] = Sent(d, b)
  <2>1. p \in 1..(N + 1) /\ (p \in S \/ p = N + 1)
    BY <1>0, <1>1, <1>2
  <2>2. X[p] = Sent(d, Statement(x, S, p))
    BY <1>9, <2>1 DEF SentAs
  <2>3. QED
    BY <1>0, <1>2, <2>2 DEF Statement
<1>11. /\ Joined(X, p) = Glue(Joined(X, p - 1), X[p])
       /\ Joined(X, p - 1) \in Seq(Texts) /\ X[p] \in Seq(Texts)
  <2>1. PICK M \in Nat : M = N + 1
    OBVIOUS
  <2>2. X \in [1..M -> Seq(Texts)] /\ p \in 1..M /\ p - 1 \in 0..M
    BY <1>0, <1>1, <2>1
  <2>3. QED
    BY <2>2, JoinedSteps
<1>12. PICK done \in Seq(Texts) :
         /\ CodeOfAll(d, sts) = Glue(done, Joined(X, p - 1))
         /\ Glue(done, Glue(StatementsBetween(d, x, S), SendsOf(d, cs))) = all
  BY <1>0, <1>2, <1>9 DEF SentSoFar
<1>13. CodeOfAll(d, AppendStripped(sts, b)) = Glue(done, Joined(X, p))
  <2>1. PICK u \in Seq(Texts), v \in Seq(Texts) : u = Joined(X, p - 1) /\ v = X[p]
    BY <1>11
  <2>2. Glue(Glue(done, u), v) = Glue(done, Glue(u, v))
    BY Glued
  <2>3. QED
    BY <1>8, <1>10, <1>11, <1>12, <2>1, <2>2, Zenon
<1>14. (p + 1) - 1 = p
  BY <1>0, <1>1
<1>15. QED
  BY <1>2, <1>7, <1>8, <1>9, <1>12, <1>13, <1>14 DEF SentSoFar

-----------------------------------------------------------------------------
(* _is_executable drops no code.                                           *)

(* The trivia a text starts with, jump by jump.                            *)
Follows(h, j, a, b) == \A n \in a..b : h[n] = IF j[n] = n THEN n ELSE h[j[n]]

LEMMA FollowExists ==
  ASSUME NEW M \in Nat, NEW j \in [1..M -> 1..M], \A n \in 1..M : j[n] >= n
  PROVE  \E h \in [1..M -> 1..M] : Follows(h, j, 1, M)
<1> DEFINE Good == {k \in 0..M : \E h \in [1..M -> 1..M] : Follows(h, j, M + 1 - k, M)}
<1>1. Good \in SUBSET (0..M) /\ 0 \in Good
  <2>1. [n \in 1..M |-> n] \in [1..M -> 1..M]
    OBVIOUS
  <2>2. \A h : Follows(h, j, M + 1 - 0, M)
    BY DEF Follows
  <2>3. QED
    BY <2>1, <2>2
<1>2. ASSUME NEW k \in 1..M, k - 1 \in Good PROVE k \in Good
  <2>1. PICK h \in [1..M -> 1..M] : Follows(h, j, M + 1 - (k - 1), M)
    BY <1>2
  <2>2. PICK p \in 1..M : p = M + 1 - k /\ M + 1 - (k - 1) = p + 1
    OBVIOUS
  <2> DEFINE first == IF j[p] = p THEN p ELSE h[j[p]]
             g == [n \in 1..M |-> IF n = p THEN first ELSE h[n]]
  <2>3. first \in 1..M
    OBVIOUS
  <2> HIDE DEF first
  <2>4. g \in [1..M -> 1..M] /\ g[p] = first /\ \A n \in 1..M : n # p => g[n] = h[n]
    BY <2>3
  <2> HIDE DEF g
  <2>5. ASSUME NEW n \in p..M PROVE g[n] = IF j[n] = n THEN n ELSE g[j[n]]
    <3>0. n \in 1..M /\ j[n] \in 1..M /\ j[n] >= n
      OBVIOUS
    <3>1. CASE n = p
      <4>1. j[p] # p => g[j[p]] = h[j[p]]
        BY <2>4, <3>0, <3>1
      <4>2. QED
        BY <2>4, <3>1, <4>1 DEF first
    <3>2. CASE n # p
      <4>1. n \in (p + 1)..M /\ j[n] # p
        BY <3>0, <3>2
      <4>2. h[n] = IF j[n] = n THEN n ELSE h[j[n]]
        BY <2>1, <2>2, <4>1 DEF Follows
      <4>3. QED
        BY <2>4, <3>0, <3>2, <4>1, <4>2
    <3>3. QED
      BY <3>1, <3>2
  <2>6. Follows(g, j, M + 1 - k, M)
    BY <2>2, <2>5 DEF Follows
  <2>7. k \in 0..M
    OBVIOUS
  <2>8. QED
    BY <2>4, <2>6, <2>7, Zenon
<1>3. Good = 0..M
  <2> HIDE DEF Good
  <2>1. QED
    BY <1>1, <1>2, UpTo
<1>4. M \in 0..M /\ M + 1 - M = 1
  OBVIOUS
<1>5. \E h \in [1..M -> 1..M] : Follows(h, j, M + 1 - M, M)
  BY <1>3, <1>4
<1>6. QED
  BY <1>4, <1>5, Zenon

Jump(t, n) ==
  CASE n <= Len(t) /\ t[n] = "newline" -> n + 1
    [] n <= Len(t) /\ t[n] = "dashes"  -> Find(t, "newline", n)
    [] n <= Len(t) /\ t[n] = "open" /\ Find(t, "close", n) <= Len(t) -> Find(t, "close", n) + 1
    [] OTHER -> n

TriviaAs(h, t) ==
  h = [n \in 1..(Len(t) + 1) |->
        CASE n <= Len(t) /\ t[n] = "newline" -> h[n + 1]
          [] n <= Len(t) /\ t[n] = "dashes"  -> h[Find(t, "newline", n)]
          [] n <= Len(t) /\ t[n] = "open" /\ Find(t, "close", n) <= Len(t) ->
               h[Find(t, "close", n) + 1]
          [] OTHER -> n]

LEMMA JumpIs ==
  ASSUME NEW t \in Texts, NEW n \in 1..(Len(t) + 1)
  PROVE  /\ Jump(t, n) \in n..(Len(t) + 1)
         /\ Jump(t, n) = n => \/ n = Len(t) + 1
                              \/ n \in 1..Len(t) /\ t[n] \notin {"newline", "dashes"}
         /\ Jump(t, n) # n =>
              /\ n \in 1..Len(t)
              /\ \/ t[n] = "newline" /\ Jump(t, n) = n + 1
                 \/ t[n] = "dashes" /\ Jump(t, n) = Find(t, "newline", n)
                 \/ /\ t[n] = "open" /\ Jump(t, n) = Find(t, "close", n) + 1
                    /\ Find(t, "close", n) <= Len(t)
         /\ \A h : (IF Jump(t, n) = n THEN n ELSE h[Jump(t, n)]) =
              (CASE n <= Len(t) /\ t[n] = "newline" -> h[n + 1]
                 [] n <= Len(t) /\ t[n] = "dashes"  -> h[Find(t, "newline", n)]
                 [] n <= Len(t) /\ t[n] = "open" /\ Find(t, "close", n) <= Len(t) ->
                      h[Find(t, "close", n) + 1]
                 [] OTHER -> n)
<1>0. PICK N \in Nat : N = Len(t) /\ t \in Seq(Marks)
  BY DEF Texts
<1>1. PICK f \in n..(N + 1) : /\ f = Find(t, "newline", n)
                              /\ f <= N => t[f] = "newline"
  BY <1>0, FindIs
<1>2. PICK c \in n..(N + 1) : /\ c = Find(t, "close", n)
                              /\ c <= N => t[c] = "close"
  BY <1>0, FindIs
<1>3. n = N + 1 \/ n \in 1..N
  BY <1>0
<1>4. CASE n \in 1..N /\ t[n] = "newline"
  <2>1. Jump(t, n) = n + 1 /\ n <= Len(t)
    BY <1>0, <1>4 DEF Jump
  <2>2. QED
    BY <1>0, <1>4, <2>1
<1>5. CASE n \in 1..N /\ t[n] = "dashes"
  <2>1. Jump(t, n) = f /\ n <= Len(t)
    BY <1>0, <1>1, <1>5 DEF Jump
  <2>2. f # n
    BY <1>1, <1>5
  <2>3. QED
    BY <1>0, <1>1, <1>5, <2>1, <2>2
<1>6. CASE n \in 1..N /\ t[n] = "open" /\ c <= N
  <2>1. Jump(t, n) = c + 1 /\ n <= Len(t) /\ c <= Len(t)
    BY <1>0, <1>2, <1>6 DEF Jump
  <2>2. c + 1 # n /\ c + 1 \in n..(N + 1)
    BY <1>2, <1>6
  <2>3. QED
    BY <1>0, <1>2, <1>6, <2>1, <2>2
<1>7. CASE /\ ~(n \in 1..N /\ t[n] = "newline") /\ ~(n \in 1..N /\ t[n] = "dashes")
           /\ ~(n \in 1..N /\ t[n] = "open" /\ c <= N)
  <2>1. n <= N => n \in 1..N
    BY <1>0
  <2>2. Jump(t, n) = n
    BY <1>0, <1>2, <1>7, <2>1 DEF Jump
  <2>3. QED
    BY <1>0, <1>2, <1>3, <1>7, <2>1, <2>2
<1>8. QED
  BY <1>4, <1>5, <1>6, <1>7

LEMMA TriviaExists ==
  ASSUME NEW t \in Texts
  PROVE  \E h : TriviaAs(h, t)
<1>0. PICK M \in Nat : M = Len(t) + 1
  BY DEF Texts
<1> DEFINE j == [n \in 1..M |-> Jump(t, n)]
<1>1. /\ j \in [1..M -> 1..M]
      /\ \A n \in 1..M : j[n] = Jump(t, n) /\ j[n] >= n
  <2>1. \A n \in 1..M : Jump(t, n) \in n..M
    BY <1>0, JumpIs
  <2>2. QED
    BY <1>0, <2>1
<1> HIDE DEF j
<1>2. PICK h \in [1..M -> 1..M] : Follows(h, j, 1, M)
  BY <1>1, FollowExists
<1>3. h = [n \in 1..M |-> h[n]]
  OBVIOUS
<1>4. ASSUME NEW n \in 1..M
      PROVE  h[n] = CASE n <= Len(t) /\ t[n] = "newline" -> h[n + 1]
                      [] n <= Len(t) /\ t[n] = "dashes"  -> h[Find(t, "newline", n)]
                      [] n <= Len(t) /\ t[n] = "open" /\ Find(t, "close", n) <= Len(t) ->
                           h[Find(t, "close", n) + 1]
                      [] OTHER -> n
  <2>1. h[n] = IF Jump(t, n) = n THEN n ELSE h[Jump(t, n)]
    BY <1>1, <1>2 DEF Follows
  <2>2. QED
    BY <1>0, <2>1, JumpIs, Zenon
<1>5. h = [n \in 1..M |->
             CASE n <= Len(t) /\ t[n] = "newline" -> h[n + 1]
               [] n <= Len(t) /\ t[n] = "dashes"  -> h[Find(t, "newline", n)]
               [] n <= Len(t) /\ t[n] = "open" /\ Find(t, "close", n) <= Len(t) ->
                    h[Find(t, "close", n) + 1]
               [] OTHER -> n]
  BY <1>3, <1>4, Zenon
<1>6. TriviaAs(h, t)
  BY <1>0, <1>5, Zenon DEF TriviaAs
<1>7. QED
  BY <1>6

(* A text's trivia holds no code, and leads to code.                       *)
Here(d, t, n) ==
  \/ n = Len(t) + 1
  \/ Regions(d, t)[n] = "code"
  \/ n \in 1..Len(t) /\ Regions(d, t)[n] = "line" /\ t[n] = "newline"

LEMMA JumpKeeps ==
  ASSUME NEW d, NEW t \in Texts, NEW n \in 1..(Len(t) + 1), Here(d, t, n), Jump(t, n) # n
  PROVE  Here(d, t, Jump(t, n)) /\ NothingIn(KeptAt(d, t), n, Jump(t, n) - 1)
<1>0. PICK N \in Nat : N = Len(t) /\ t \in Seq(Marks)
  BY DEF Texts
<1>1. n \in 1..N
  BY <1>0, JumpIs
<1>2. \A m \in 1..N : ~Reaches(Regions(d, t)[m], t[m]) => KeptAt(d, t)[m] = <<>>
  BY <1>0, CodeIs
<1>3. CASE t[n] = "newline" /\ Jump(t, n) = n + 1
  <2>1. Regions(d, t)[n] \in {"code", "line"}
    BY <1>0, <1>1 DEF Here
  <2>2. KeptAt(d, t)[n] = <<>>
    BY <1>1, <1>2, <1>3, <2>1 DEF Reaches
  <2>3. Regions(d, t)[n + 1] = "code"
    <3>1. Regions(d, t)[n + 1] = After(d, Regions(d, t)[n], "newline")
      BY <1>0, <1>1, <1>3, RegionsStep
    <3>2. After(d, "code", "newline") = "code" /\ After(d, "line", "newline") = "code"
      BY DEF After, Opened, Escaping, Closing
    <3>3. QED
      BY <2>1, <3>1, <3>2
  <2>4. \A m \in n..((n + 1) - 1) : m = n
    BY <1>0, <1>1
  <2>5. QED
    BY <1>3, <2>2, <2>3, <2>4 DEF Here, NothingIn
<1>4. ASSUME NEW mark \in {"dashes", "open"}, t[n] = mark,
             NEW region \in {"line", "block"}, Opened(d, mark) = region
      PROVE  LET f == Find(t, Closing(region), n)
             IN /\ f \in (n + 1)..(N + 1)
                /\ f <= N => t[f] = Closing(region) /\ Regions(d, t)[f] = region
                /\ NothingIn(KeptAt(d, t), n, f - 1)
                /\ f <= N => NothingIn(KeptAt(d, t), n, f)
  <2>0. n \in 1..(Len(t) + 1)
    OBVIOUS
  <2>1. PICK f \in n..(N + 1) : /\ f = Find(t, Closing(region), n)
                                /\ f <= N => t[f] = Closing(region)
    BY <1>0, <2>0, FindIs
  <2>2. Closing(region) # mark
    BY DEF Closing
  <2>3. f \in (n + 1)..(N + 1)
    BY <1>1, <1>4, <2>1, <2>2
  <2>4. Regions(d, t)[n] = "code"
    BY <1>0, <1>1, <1>4 DEF Here
  <2>5. \A m \in (n + 1)..f : Regions(d, t)[m] = region
    BY <1>0, <1>1, <1>4, <2>1, <2>4, RegionLasts
  <2>6. ASSUME NEW m \in n..f, m <= N PROVE KeptAt(d, t)[m] = <<>>
    <3>1. m \in 1..N /\ (m = n \/ m \in (n + 1)..f)
      BY <1>1, <2>1, <2>6
    <3>2. ~Reaches(Regions(d, t)[m], t[m])
      BY <1>4, <2>4, <2>5, <3>1 DEF Reaches
    <3>3. QED
      BY <1>2, <3>1, <3>2
  <2>7. \A m \in n..(f - 1) : m \in n..f /\ m <= N
    BY <1>1, <2>1
  <2>8. f \in (n + 1)..f
    BY <2>3
  <2>9. QED
    BY <2>1, <2>3, <2>5, <2>6, <2>7, <2>8 DEF NothingIn
<1>5. CASE t[n] = "dashes" /\ Jump(t, n) = Find(t, "newline", n)
  <2>1. Opened(d, "dashes") = "line" /\ Closing("line") = "newline"
    BY DEF Opened, Closing
  <2>2. PICK f : f = Find(t, "newline", n) /\ f \in (n + 1)..(N + 1)
                 /\ (f <= N => t[f] = "newline" /\ Regions(d, t)[f] = "line")
                 /\ NothingIn(KeptAt(d, t), n, f - 1)
    BY <1>4, <1>5, <2>1
  <2>3. f = N + 1 \/ (f \in 1..N /\ f <= N)
    BY <1>0, <1>1, <2>2
  <2>4. QED
    BY <1>0, <1>5, <2>2, <2>3 DEF Here
<1>6. CASE /\ t[n] = "open" /\ Jump(t, n) = Find(t, "close", n) + 1
           /\ Find(t, "close", n) <= Len(t)
  <2>1. Opened(d, "open") = "block" /\ Closing("block") = "close"
    BY DEF Opened, Closing
  <2>2. PICK f : f = Find(t, "close", n) /\ f \in (n + 1)..(N + 1)
                 /\ (f <= N => t[f] = "close" /\ Regions(d, t)[f] = "block")
                 /\ (f <= N => NothingIn(KeptAt(d, t), n, f))
    BY <1>4, <1>6, <2>1
  <2>3. f \in 1..N /\ f <= N /\ (f + 1) - 1 = f
    BY <1>0, <1>1, <1>6, <2>2
  <2>4. Regions(d, t)[f + 1] = "code"
    BY <1>0, <2>2, <2>3, RegionsStep, StepInBlock
  <2>5. QED
    BY <1>6, <2>2, <2>3, <2>4 DEF Here
<1>7. QED
  BY <1>3, <1>5, <1>6, JumpIs

LEMMA TriviaIs ==
  ASSUME NEW d, NEW t \in Texts
  PROVE  /\ TriviaEnd(t) \in 1..(Len(t) + 1)
         /\ NothingIn(KeptAt(d, t), 1, TriviaEnd(t) - 1)
         /\ TriviaEnd(t) <= Len(t) => /\ Regions(d, t)[TriviaEnd(t)] = "code"
                                      /\ t[TriviaEnd(t)] # "newline"
<1> DEFINE h == CHOOSE h : TriviaAs(h, t)
<1>0. PICK N \in Nat : N = Len(t) /\ t \in Seq(Marks)
  BY DEF Texts
<1>1. TriviaEnd(t) = h[1]
  BY Zenon DEF TriviaEnd, TriviaAs
<1>2. TriviaAs(h, t)
  BY TriviaExists, Zenon
<1> HIDE DEF h
<1>3. ASSUME NEW n \in 1..(N + 1) PROVE h[n] = IF Jump(t, n) = n THEN n ELSE h[Jump(t, n)]
  <2>1. h[n] = CASE n <= Len(t) /\ t[n] = "newline" -> h[n + 1]
                 [] n <= Len(t) /\ t[n] = "dashes"  -> h[Find(t, "newline", n)]
                 [] n <= Len(t) /\ t[n] = "open" /\ Find(t, "close", n) <= Len(t) ->
                      h[Find(t, "close", n) + 1]
                 [] OTHER -> n
    <3>1. n \in 1..(Len(t) + 1)
      BY <1>0
    <3>2. QED
      BY <1>2, <3>1, Zenon DEF TriviaAs
  <2>2. n \in 1..(Len(t) + 1)
    BY <1>0
  <2>3. (IF Jump(t, n) = n THEN n ELSE h[Jump(t, n)]) =
          (CASE n <= Len(t) /\ t[n] = "newline" -> h[n + 1]
             [] n <= Len(t) /\ t[n] = "dashes"  -> h[Find(t, "newline", n)]
             [] n <= Len(t) /\ t[n] = "open" /\ Find(t, "close", n) <= Len(t) ->
                  h[Find(t, "close", n) + 1]
             [] OTHER -> n)
    BY <2>2, JumpIs, Zenon
  <2>4. QED
    BY <2>1, <2>3, Zenon
<1> DEFINE Fine(n) == Here(d, t, n) =>
                        /\ h[n] \in n..(N + 1)
                        /\ NothingIn(KeptAt(d, t), n, h[n] - 1)
                        /\ h[n] <= N => Regions(d, t)[h[n]] = "code" /\ t[h[n]] # "newline"
           Good == {k \in 0..N : \A n \in (N + 1 - k)..(N + 1) : Fine(n)}
<1>4. ASSUME NEW n \in 1..(N + 1), \A m \in (n + 1)..(N + 1) : Fine(m) PROVE Fine(n)
  <2> SUFFICES ASSUME Here(d, t, n)
               PROVE  /\ h[n] \in n..(N + 1)
                      /\ NothingIn(KeptAt(d, t), n, h[n] - 1)
                      /\ h[n] <= N => Regions(d, t)[h[n]] = "code" /\ t[h[n]] # "newline"
    OBVIOUS
  <2>1. PICK j \in n..(N + 1) : j = Jump(t, n)
    BY <1>0, JumpIs
  <2>2. CASE j = n
    <3>1. h[n] = n
      BY <1>3, <2>1, <2>2
    <3>2. \A m \in n..(n - 1) : FALSE
      OBVIOUS
    <3>3. n <= N => n \in 1..N /\ t[n] # "newline"
      <4>1. n \in 1..(Len(t) + 1) /\ Jump(t, n) = n
        BY <1>0, <2>1, <2>2
      <4>2. n = Len(t) + 1 \/ (n \in 1..Len(t) /\ t[n] \notin {"newline", "dashes"})
        BY <4>1, JumpIs
      <4>3. QED
        BY <1>0, <4>2
    <3>4. n <= N => Regions(d, t)[n] = "code"
      BY <1>0, <3>3 DEF Here
    <3>5. QED
      BY <3>1, <3>2, <3>3, <3>4 DEF NothingIn
  <2>3. CASE j # n
    <3>1. Here(d, t, j) /\ NothingIn(KeptAt(d, t), n, j - 1)
      BY <1>0, <2>1, <2>3, JumpKeeps
    <3>2. j \in (n + 1)..(N + 1)
      BY <2>1, <2>3
    <3>3. h[n] = h[j]
      BY <1>3, <2>1, <2>3
    <3>4. /\ h[j] \in j..(N + 1)
          /\ NothingIn(KeptAt(d, t), j, h[j] - 1)
          /\ h[j] <= N => Regions(d, t)[h[j]] = "code" /\ t[h[j]] # "newline"
      BY <1>4, <3>1, <3>2
    <3>5. PICK e \in j..(N + 1) : e = h[j]
      BY <3>4
    <3>6. \A m \in n..(e - 1) : m \in n..(j - 1) \/ m \in j..(e - 1)
      BY <2>1, <3>5
    <3>7. NothingIn(KeptAt(d, t), n, e - 1)
      BY <3>1, <3>4, <3>5, <3>6 DEF NothingIn
    <3>8. e \in n..(N + 1)
      BY <2>1, <3>5
    <3>9. QED
      BY <3>3, <3>4, <3>5, <3>7, <3>8
  <2>4. QED
    BY <2>2, <2>3
<1> HIDE DEF Fine
<1>5. Good \in SUBSET (0..N) /\ 0 \in Good
  <2>1. ASSUME NEW n \in (N + 1 - 0)..(N + 1) PROVE Fine(n)
    <3>1. n \in 1..(N + 1) /\ \A m \in (n + 1)..(N + 1) : FALSE
      OBVIOUS
    <3>2. QED
      BY <1>4, <3>1
  <2>2. QED
    BY <2>1
<1>6. ASSUME NEW k \in 1..N, k - 1 \in Good PROVE k \in Good
  <2>1. \A n \in (N + 1 - (k - 1))..(N + 1) : Fine(n)
    BY <1>6
  <2>2. ASSUME NEW n \in (N + 1 - k)..(N + 1) PROVE Fine(n)
    <3>1. n \in 1..(N + 1) /\ \A m \in (n + 1)..(N + 1) : m \in (N + 1 - (k - 1))..(N + 1)
      OBVIOUS
    <3>2. QED
      BY <1>4, <2>1, <3>1
  <2>3. k \in 0..N
    OBVIOUS
  <2>4. QED
    BY <2>2, <2>3, Zenon
<1>7. Good = 0..N
  <2> HIDE DEF Good
  <2>1. QED
    BY <1>5, <1>6, UpTo
<1>8. Fine(1)
  <2>1. N \in 0..N /\ 1 \in (N + 1 - N)..(N + 1)
    OBVIOUS
  <2>2. \A n \in (N + 1 - N)..(N + 1) : Fine(n)
    BY <1>7, <2>1
  <2>3. QED
    BY <2>1, <2>2
<1>9. Here(d, t, 1)
  BY <1>0, RegionsStep DEF Here
<1>10. QED
  BY <1>0, <1>1, <1>8, <1>9 DEF Fine

(* A text with no code but comments is not sent; leaving it out changes    *)
(* nothing.                                                                *)
LEMMA NoCodeKept ==
  ASSUME NEW d, NEW t \in Texts, NothingIn(KeptAt(d, t), 1, Len(t))
  PROVE  Code(d, t) = <<>> /\ Sent(d, t) = <<>>
<1>0. PICK N \in Nat : N = Len(t) /\ t \in Seq(Marks)
  BY DEF Texts
<1>1. PICK xs \in [1..N -> Seq(Marks)] : xs = KeptAt(d, t) /\ Code(d, t) = Joined(xs, N)
  BY <1>0, CodeIs
<1>2. PICK z \in 0..N, e \in 0..N : z = 0 /\ e = N /\ e \in z..N
  OBVIOUS
<1>3. NothingIn(xs, z + 1, e)
  BY <1>0, <1>1, <1>2
<1>4. Joined(xs, e) = Joined(xs, z)
  BY <1>2, <1>3, JoinedSame
<1>5. Joined(xs, 0) = <<>>
  BY JoinedSteps
<1>6. QED
  BY <1>1, <1>2, <1>4, <1>5 DEF Sent

LEMMA NotExecutable ==
  ASSUME NEW d, NEW t \in Texts, ~IsExecutable(t)
  PROVE  Sent(d, t) = <<>>
<1>0. PICK N \in Nat : N = Len(t)
  BY DEF Texts
<1>1. PICK e \in 1..(N + 1) : e = TriviaEnd(t) /\ NothingIn(KeptAt(d, t), 1, e - 1)
  BY <1>0, TriviaIs
<1>2. e - 1 = N
  BY <1>0, <1>1 DEF IsExecutable
<1>3. QED
  BY <1>0, <1>1, <1>2, NoCodeKept

LEMMA ExecutableKeeps ==
  ASSUME NEW d, NEW texts \in Seq(Texts)
  PROVE  /\ Executable(texts) \in Seq(Texts)
         /\ CodeOfAll(d, Executable(texts)) = CodeOfAll(d, texts)
<1>0. PICK N \in Nat : N = Len(texts) /\ DOMAIN texts = 1..N /\ \A n \in 1..N : texts[n] \in Texts
  OBVIOUS
<1> DEFINE xs == [n \in 1..N |-> IF IsExecutable(texts[n]) THEN <<texts[n]>> ELSE <<>>]
           ys == [n \in 1..N |-> Sent(d, texts[n])]
<1>1. xs \in [1..N -> Seq(Texts)]
  <2>1. \A n \in 1..N : <<texts[n]>> \in Seq(Texts) /\ <<>> \in Seq(Texts)
    <3>1. \A S : \A s \in S : <<s>> \in Seq(S) /\ <<>> \in Seq(S)
      OBVIOUS
    <3>2. QED
      BY <1>0, <3>1
  <2>2. QED
    BY <2>1
<1>2. ys \in [1..N -> Seq(Texts)]
  BY <1>0, SentTyped
<1>3. /\ \A n \in 1..N : xs[n] = IF IsExecutable(texts[n]) THEN <<texts[n]>> ELSE <<>>
      /\ \A n \in 1..N : ys[n] = Sent(d, texts[n])
  BY Zenon
<1>4. Executable(texts) = FlattenSeq(xs) /\ CodeOfAll(d, texts) = FlattenSeq(ys)
  BY <1>0 DEF Executable, CodeOfAll
<1> HIDE DEF xs, ys
<1>5. /\ Joined(xs, 0) = <<>> /\ Joined(xs, N) = FlattenSeq(xs)
      /\ \A n \in 0..N : Joined(xs, n) \in Seq(Texts)
      /\ \A n \in 1..N : Joined(xs, n) = Glue(Joined(xs, n - 1), xs[n])
  BY <1>1, JoinedSteps
<1>6. /\ Joined(ys, 0) = <<>> /\ Joined(ys, N) = FlattenSeq(ys)
      /\ \A n \in 0..N : Joined(ys, n) \in Seq(Texts)
      /\ \A n \in 1..N : Joined(ys, n) = Glue(Joined(ys, n - 1), ys[n])
  BY <1>2, JoinedSteps
<1> DEFINE Good == {n \in 0..N : CodeOfAll(d, Joined(xs, n)) = Joined(ys, n)}
<1>7. Good \in SUBSET (0..N) /\ 0 \in Good
  BY <1>5, <1>6, CodeOfAllSteps
<1>8. ASSUME NEW n \in 1..N, n - 1 \in Good PROVE n \in Good
  <2>1. PICK u \in Seq(Texts) : /\ u = Joined(xs, n - 1)
                                /\ CodeOfAll(d, u) = Joined(ys, n - 1)
    BY <1>5, <1>8
  <2>2. texts[n] \in Texts
    BY <1>0
  <2>3. Joined(ys, n) = Glue(CodeOfAll(d, u), Sent(d, texts[n]))
    BY <1>3, <1>6, <2>1
  <2>4. CASE IsExecutable(texts[n])
    <3>1. Joined(xs, n) = Glue(u, <<texts[n]>>)
      BY <1>3, <1>5, <2>1, <2>4
    <3>2. Glue(u, <<texts[n]>>) = Append(u, texts[n])
      BY <2>2, AppendIsConcat DEF Glue
    <3>3. CodeOfAll(d, Append(u, texts[n])) = Glue(CodeOfAll(d, u), Sent(d, texts[n]))
      BY <2>2, CodeOfAllSteps
    <3>4. CodeOfAll(d, Joined(xs, n)) = Joined(ys, n)
      BY <2>3, <3>1, <3>2, <3>3
    <3>5. QED
      BY <3>4
  <2>5. CASE ~IsExecutable(texts[n])
    <3>1. Joined(xs, n) = Glue(u, <<>>)
      BY <1>3, <1>5, <2>1, <2>5
    <3>2. Sent(d, texts[n]) = <<>>
      BY <2>2, <2>5, NotExecutable
    <3>3. Glue(u, <<>>) = u /\ Glue(CodeOfAll(d, u), <<>>) = CodeOfAll(d, u)
      BY CodeOfAllSteps, Glued
    <3>4. CodeOfAll(d, Joined(xs, n)) = Joined(ys, n)
      BY <2>3, <3>1, <3>2, <3>3
    <3>5. QED
      BY <3>4
  <2>6. QED
    BY <2>4, <2>5
<1>9. Good = 0..N
  <2> HIDE DEF Good
  <2>1. QED
    BY <1>7, <1>8, UpTo
<1>10. N \in 0..N
  OBVIOUS
<1>11. CodeOfAll(d, Joined(xs, N)) = Joined(ys, N)
  BY <1>9, <1>10
<1>12. QED
  BY <1>4, <1>5, <1>6, <1>10, <1>11

-----------------------------------------------------------------------------
(* The invariant and the steps that keep it.                               *)

(* What is sent so far, what is left of the chunk being scanned and what   *)
(* the chunks left will send are together what the client sends.           *)
Client == ClientStatements(input.dialect, input.script)

SplitInv ==
  /\ statements \in Seq(Texts)
  /\ chunks \in Seq(FineChunk(input.dialect))
  /\ pc \in {"chunk", "scan", "done"}
  /\ pc = "chunk" =>
       Glue(CodeOfAll(input.dialect, statements), SendsOf(input.dialect, chunks)) = Client
  /\ pc = "scan" => ScanAt(input.dialect, text, pos, buf, depth, statements, chunks, Client)
  /\ pc = "done" => CodeOfAll(input.dialect, statements) = Client

LEMMA ScanStays ==
  ASSUME SplitInv, pc = "scan", pc' = "scan", UNCHANGED <<input, chunks, text>>,
         statements' \in Seq(Texts),
         ScanAt(input.dialect, text, pos', buf', depth', statements', chunks, Client)
  PROVE  SplitInv'
<1>1. input' = input /\ chunks' = chunks /\ text' = text /\ pc' = "scan"
  OBVIOUS
<1>2. Client' = Client
  BY <1>1 DEF Client
<1>3. chunks' \in Seq(FineChunk(input'.dialect))
  BY <1>1 DEF SplitInv
<1>4. QED
  BY <1>1, <1>2, <1>3 DEF SplitInv

LEMMA TakeStep ==
  ASSUME SplitInv, pc = "scan", NEW upTo \in pos..Len(text), Take(upTo),
         \A n \in pos..upTo : n \notin Semis(input.dialect, text),
         depth' \in Nat, DepthKept(input.dialect, text, upTo + 1, depth')
  PROVE  SplitInv'
<1> DEFINE d == input.dialect
<1>1. ScanAt(d, text, pos, buf, depth, statements, chunks, Client) /\ statements \in Seq(Texts)
  BY DEF SplitInv
<1>2. text \in Texts /\ pos \in 1..(Len(text) + 1)
  BY <1>1 DEF ScanAt
<1>3. PICK N \in Nat : N = Len(text)
  BY <1>2 DEF Texts
<1>4. PICK q \in (pos + 1)..(Len(text) + 1) : q = upTo + 1 /\ q - 1 = upTo
  BY <1>2, <1>3
<1>5. ScanAt(d, text, q, buf \o SubSeq(text, pos, q - 1), depth', statements, chunks, Client)
  BY <1>1, <1>4, Taken
<1>6. /\ pos' = q /\ buf' = buf \o SubSeq(text, pos, q - 1)
      /\ UNCHANGED <<input, chunks, text>> /\ pc' = "scan" /\ statements' = statements
  BY <1>4 DEF Take
<1>7. ScanAt(d, text, pos', buf', depth', statements', chunks, Client)
  BY <1>5, <1>6
<1>8. QED
  BY <1>1, <1>6, <1>7, ScanStays

(* Marks that open, close and separate nothing.                            *)
LEMMA QuietStep ==
  ASSUME SplitInv, pc = "scan", NEW upTo \in pos..Len(text), Take(upTo), depth' = depth,
         \A n \in pos..upTo : n \in InCodeAt(input.dialect, text) =>
            text[n] \notin {"begin", "case", "end", "semi"}
  PROVE  SplitInv'
<1> DEFINE d == input.dialect
<1>1. ScanAt(d, text, pos, buf, depth, statements, chunks, Client)
  BY DEF SplitInv
<1>2. text \in Texts /\ pos \in 1..(Len(text) + 1) /\ depth \in Nat
      /\ DepthKept(d, text, pos, depth)
  BY <1>1 DEF ScanAt
<1>3. PICK N \in Nat : N = Len(text)
  BY <1>2 DEF Texts
<1>4. PICK q \in pos..(Len(text) + 1) : q = upTo + 1 /\ q - 1 = upTo
  BY <1>2, <1>3
<1>5. \A n \in pos..(q - 1) : /\ Change(text, InCodeAt(d, text), n) = 0
                              /\ n \in InCodeAt(d, text) => text[n] # "end"
  <2>1. TAKE n \in pos..(q - 1)
  <2>2. n \in pos..upTo
    BY <1>4
  <2>3. n \in InCodeAt(d, text) => text[n] \notin {"begin", "case", "end", "semi"}
    BY <2>2
  <2>4. QED
    BY <2>3 DEF Change
<1>6. DepthKept(d, text, q, depth)
  BY <1>2, <1>5, DepthQuiet
<1>7. \A n \in pos..upTo : n \notin Semis(d, text)
  BY DEF Semis, TopLevelSemis
<1>8. depth' \in Nat /\ DepthKept(d, text, upTo + 1, depth')
  BY <1>2, <1>4, <1>6
<1>9. QED
  BY <1>7, <1>8, TakeStep

LEMMA CommentsSplit ==
  ASSUME ScanInv, SplitInv, LineComment \/ BlockComment
  PROVE  SplitInv'
<1> DEFINE d == input.dialect
<1>1. PICK mark \in {"dashes", "open"}, region \in {"line", "block"} :
        /\ At(mark) /\ Opened(d, mark) = region /\ InCode /\ depth' = depth
        /\ \/ Take(Find(text, Closing(region), pos) - 1)
           \/ Take(IF Find(text, Closing(region), pos) <= Len(text)
                   THEN Find(text, Closing(region), pos) ELSE Len(text))
  <2>1. Opened(d, "dashes") = "line" /\ Closing("line") = "newline"
        /\ Opened(d, "open") = "block" /\ Closing("block") = "close"
    BY DEF Opened, Closing
  <2>2. CASE LineComment
    <3>1. /\ At("dashes") /\ InCode /\ depth' = depth
          /\ Take(Find(text, "newline", pos) - 1)
      BY <2>2 DEF LineComment
    <3>2. QED
      BY <2>1, <3>1
  <2>3. CASE BlockComment
    <3>1. /\ At("open") /\ InCode /\ depth' = depth
          /\ Take(IF Find(text, "close", pos) <= Len(text)
                  THEN Find(text, "close", pos) ELSE Len(text))
      BY <2>3 DEF BlockComment
    <3>2. QED
      BY <2>1, <3>1
  <2>4. QED
    BY <2>2, <2>3
<1>2. /\ text \in Seq(Marks) /\ Len(text) \in Nat /\ pos \in 1..Len(text)
      /\ text[pos] = mark /\ InStepAt(d, text, pos) /\ pc = "scan"
  BY <1>1, AtMark
<1>3. Regions(d, text)[pos] = "code"
  BY <1>1, <1>2 DEF InStepAt, InCode
<1>4. PICK f \in pos..(Len(text) + 1) : f = Find(text, Closing(region), pos)
                                        /\ (f <= Len(text) => text[f] = Closing(region))
  BY <1>2, FindIs
<1>5. \A n \in (pos + 1)..f : Regions(d, text)[n] = region
  BY <1>1, <1>2, <1>3, <1>4, RegionLasts
<1>6. f # pos
  <2>1. Closing(region) # mark
    BY DEF Closing
  <2>2. QED
    BY <1>2, <1>4, <2>1
<1>7. PICK upTo \in pos..Len(text) : Take(upTo) /\ upTo <= f
  <2>1. CASE Take(Find(text, Closing(region), pos) - 1)
    <3>1. Take(f - 1) /\ f - 1 \in pos..Len(text) /\ f - 1 <= f
      BY <1>2, <1>4, <1>6, <2>1
    <3>2. QED
      BY <3>1
  <2>2. CASE Take(IF Find(text, Closing(region), pos) <= Len(text)
                  THEN Find(text, Closing(region), pos) ELSE Len(text))
    <3>1. PICK u \in pos..Len(text) : u = (IF f <= Len(text) THEN f ELSE Len(text)) /\ u <= f
      BY <1>2, <1>4
    <3>2. Take(u)
      BY <1>4, <2>2, <3>1
    <3>3. QED
      BY <3>1, <3>2
  <2>3. QED
    BY <1>1, <2>1, <2>2
<1>8. ASSUME NEW n \in pos..upTo, n \in InCodeAt(d, text)
      PROVE  text[n] \notin {"begin", "case", "end", "semi"}
  <2>1. Regions(d, text)[n] = "code"
    BY <1>8 DEF InCodeAt
  <2>2. n = pos \/ n \in (pos + 1)..f
    BY <1>2, <1>4, <1>7
  <2>3. n = pos
    BY <1>5, <2>1, <2>2
  <2>4. QED
    BY <1>2, <2>3
<1>9. QED
  BY <1>1, <1>2, <1>7, <1>8, QuietStep

LEMMA OneMarkTaken ==
  ASSUME ScanInv, SplitInv, NEW mark, At(mark), Take(pos), depth' = depth,
         mark \in {"begin", "case", "end", "semi"} => pos \notin InCodeAt(input.dialect, text)
  PROVE  SplitInv'
<1>1. Len(text) \in Nat /\ pos \in 1..Len(text) /\ text[pos] = mark /\ pc = "scan"
  BY AtMark
<1>2. PICK upTo \in pos..Len(text) : upTo = pos
  BY <1>1
<1>3. Take(upTo)
  BY <1>2
<1>4. \A n \in pos..upTo : n \in InCodeAt(input.dialect, text) =>
         text[n] \notin {"begin", "case", "end", "semi"}
  <2>1. \A n \in pos..upTo : n = pos
    BY <1>1, <1>2
  <2>2. QED
    BY <1>1, <2>1
<1>5. QED
  BY <1>1, <1>3, <1>4, QuietStep

LEMMA DollarSplit ==
  ASSUME ScanInv, SplitInv, Dollar \/ Quote
  PROVE  SplitInv'
<1>1. PICK mark \in {"dollar", "quote"} : At(mark) /\ Take(pos) /\ depth' = depth
  BY DEF Dollar, Quote
<1>2. QED
  BY <1>1, OneMarkTaken

LEMMA EscapeSplit ==
  ASSUME ScanInv, SplitInv, Escape
  PROVE  SplitInv'
<1> DEFINE d == input.dialect
<1>1. At("backslash") /\ inString /\ d = "mysql" /\ depth' = depth
      /\ Take(IF pos < Len(text) THEN pos + 1 ELSE pos)
  BY DEF Escape, BackslashEscapes
<1>2. /\ text \in Seq(Marks) /\ Len(text) \in Nat /\ pos \in 1..Len(text)
      /\ text[pos] = "backslash" /\ InStepAt(d, text, pos) /\ pc = "scan"
      /\ Regions(d, text)[pos + 1] = After(d, Regions(d, text)[pos], "backslash")
  BY <1>1, AtMark
<1>3. Regions(d, text)[pos] = "string" /\ Regions(d, text)[pos + 1] = "string_escape"
  <2>1. Regions(d, text)[pos] = "string"
    BY <1>1, <1>2 DEF InStepAt
  <2>2. QED
    BY <1>1, <1>2, <2>1, StepInString
<1>4. PICK upTo \in pos..Len(text) : /\ upTo = (IF pos < Len(text) THEN pos + 1 ELSE pos)
                                     /\ upTo <= pos + 1
  BY <1>2
<1>5. Take(upTo)
  BY <1>1, <1>4
<1>6. \A n \in pos..upTo : n = pos \/ n = pos + 1
  BY <1>2, <1>4
<1>7. \A n \in pos..upTo : n \notin InCodeAt(d, text)
  BY <1>3, <1>6 DEF InCodeAt
<1>8. QED
  BY <1>1, <1>2, <1>5, <1>7, QuietStep

(* A mark of code: the depth follows it.                                   *)
LEMMA InCodeMark ==
  ASSUME ScanInv, SplitInv, NEW mark, mark # "newline", At(mark), InCode
  PROVE  /\ text \in Texts /\ pos \in 1..Len(text) /\ text[pos] = mark /\ pc = "scan"
         /\ Len(text) \in Nat
         /\ pos \in InCodeAt(input.dialect, text)
<1>1. /\ text \in Seq(Marks) /\ Len(text) \in Nat /\ pos \in 1..Len(text)
      /\ text[pos] = mark /\ InStepAt(input.dialect, text, pos) /\ pc = "scan"
  BY AtMark
<1>2. Regions(input.dialect, text)[pos] = "code"
  BY <1>1 DEF InStepAt, InCode
<1>3. pos \in DOMAIN text
  BY <1>1
<1>4. QED
  BY <1>1, <1>2, <1>3 DEF InCodeAt, Texts

LEMMA DepthFollows ==
  ASSUME SplitInv, pc = "scan", pos \in 1..Len(text), pos \in InCodeAt(input.dialect, text)
  PROVE  /\ depth \in Nat
         /\ text[pos] = "begin" =>
              DepthKept(input.dialect, text, pos + 1,
                        IF OpensBlock(text, pos) THEN depth + 1 ELSE depth)
         /\ text[pos] = "end" =>
              DepthKept(input.dialect, text, pos + 1, IF depth > 0 THEN depth - 1 ELSE depth)
         /\ text[pos] = "case" => DepthKept(input.dialect, text, pos + 1, depth)
         /\ text[pos] = "semi" => (pos \in Semis(input.dialect, text) <=> depth = 0)
<1> DEFINE d == input.dialect
<1>1. ScanAt(d, text, pos, buf, depth, statements, chunks, Client)
  BY DEF SplitInv
<1>2. text \in Texts /\ depth \in Nat /\ DepthKept(d, text, pos, depth) /\ Flat(d, text)
  BY <1>1 DEF ScanAt
<1>3. QED
  BY <1>2, DepthOfMark

LEMMA BlocksSplit ==
  ASSUME ScanInv, SplitInv, Begin \/ End
  PROVE  SplitInv'
<1> DEFINE d == input.dialect
<1>1. PICK mark \in {"begin", "end"} :
        /\ At(mark) /\ InCode /\ Take(pos)
        /\ mark = "begin" => depth' = IF OpensBlock(text, pos) THEN depth + 1 ELSE depth
        /\ mark = "end" => depth' = IF depth > 0 THEN depth - 1 ELSE depth
  <2>1. CASE Begin
    <3>1. /\ At("begin") /\ InCode /\ Take(pos)
          /\ depth' = IF OpensBlock(text, pos) THEN depth + 1 ELSE depth
      BY <2>1 DEF Begin
    <3>2. QED
      BY <3>1
  <2>2. CASE End
    <3>1. /\ At("end") /\ InCode /\ Take(pos)
          /\ depth' = IF depth > 0 THEN depth - 1 ELSE depth
      BY <2>2 DEF End
    <3>2. QED
      BY <3>1
  <2>3. QED
    BY <2>1, <2>2
<1>2. /\ text \in Texts /\ pos \in 1..Len(text) /\ text[pos] = mark /\ pc = "scan"
      /\ Len(text) \in Nat /\ pos \in InCodeAt(d, text)
  BY <1>1, InCodeMark
<1>3. depth' \in Nat /\ DepthKept(d, text, pos + 1, depth')
  BY <1>1, <1>2, DepthFollows
<1>4. PICK upTo \in pos..Len(text) : upTo = pos
  BY <1>2
<1>5. Take(upTo) /\ DepthKept(d, text, upTo + 1, depth')
  BY <1>1, <1>3, <1>4
<1>6. \A n \in pos..upTo : n \notin Semis(d, text)
  <2>1. \A n \in pos..upTo : n = pos
    BY <1>2, <1>4
  <2>2. QED
    BY <1>2, <2>1 DEF Semis, TopLevelSemis
<1>7. QED
  BY <1>2, <1>3, <1>5, <1>6, TakeStep

LEMMA CopySplit ==
  ASSUME ScanInv, SplitInv, Copy
  PROVE  SplitInv'
<1> DEFINE d == input.dialect
           m == text[pos]
<1>1. At(m) /\ Take(pos) /\ depth' = depth
      /\ (m \in {"begin", "end"} => ~InCode) /\ (m = "semi" => ~InCode \/ depth > 0)
  BY DEF Copy, At
<1>2. /\ text \in Seq(Marks) /\ Len(text) \in Nat /\ pos \in 1..Len(text)
      /\ InStepAt(d, text, pos) /\ pc = "scan"
  BY <1>1, AtMark
<1>3. m # "newline" => (pos \in InCodeAt(d, text) => InCode)
  BY <1>2 DEF InStepAt, InCode, InCodeAt
<1>4. CASE m \in {"begin", "case", "end", "semi"} => pos \notin InCodeAt(d, text)
  <2> HIDE DEF m
  <2>1. QED
    BY <1>1, <1>4, OneMarkTaken
<1>5. CASE m \in {"begin", "case", "end", "semi"} /\ pos \in InCodeAt(d, text)
  <2>1. InCode /\ m \in {"case", "semi"}
    BY <1>1, <1>3, <1>5
  <2>2. PICK upTo \in pos..Len(text) : upTo = pos
    BY <1>2
  <2>3. depth \in Nat /\ (m = "semi" => depth > 0)
        /\ (m = "case" => DepthKept(d, text, pos + 1, depth))
        /\ (m = "semi" => pos \notin Semis(d, text))
    BY <1>1, <1>2, <1>5, <2>1, DepthFollows
  <2>4. CASE m = "case"
    <3>1. \A n \in pos..upTo : n = pos
      BY <1>2, <2>2
    <3>2. \A n \in pos..upTo : n \notin Semis(d, text)
      BY <2>4, <3>1 DEF Semis, TopLevelSemis
    <3>3. Take(upTo) /\ depth' \in Nat /\ DepthKept(d, text, upTo + 1, depth')
      BY <1>1, <2>2, <2>3, <2>4
    <3>4. QED
      BY <1>2, <3>2, <3>3, TakeStep
  <2>5. CASE m = "semi"
    <3>1. \A n \in pos..upTo : n = pos
      BY <1>2, <2>2
    <3>2. \A n \in pos..upTo : n \notin Semis(d, text)
      BY <2>3, <2>5, <3>1
    <3>3. DepthKept(d, text, upTo + 1, depth)
      <4>1. PICK q \in pos..(Len(text) + 1) : q = pos + 1
        BY <1>2
      <4>2. text \in Texts /\ pos \in 1..(Len(text) + 1) /\ DepthKept(d, text, pos, depth)
        BY <1>2 DEF SplitInv, ScanAt
      <4>3. \A n \in pos..(q - 1) : n = pos
        BY <1>2, <4>1
      <4>4. \A n \in pos..(q - 1) : /\ Change(text, InCodeAt(d, text), n) = 0
                                    /\ n \in InCodeAt(d, text) => text[n] # "end"
        BY <2>5, <4>3 DEF Change
      <4>5. DepthKept(d, text, q, depth)
        BY <4>2, <4>4, DepthQuiet
      <4>6. QED
        BY <2>2, <4>1, <4>5
    <3>4. Take(upTo) /\ depth' \in Nat /\ DepthKept(d, text, upTo + 1, depth')
      BY <1>1, <2>2, <2>3, <3>3
    <3>5. QED
      BY <1>2, <3>2, <3>4, TakeStep
  <2>6. QED
    BY <2>1, <2>4, <2>5
<1>6. QED
  BY <1>4, <1>5

LEMMA SeparatorSplit ==
  ASSUME ScanInv, SplitInv, Separator
  PROVE  SplitInv'
<1> DEFINE d == input.dialect
           b1 == AppendStripped(statements, buf)
<1>1. At("semi") /\ InCode /\ depth = 0 /\ statements' = b1 /\ buf' = <<>> /\ pos' = pos + 1
      /\ UNCHANGED <<input, chunks, text, pc, depth>>
  BY DEF Separator
<1>2. /\ text \in Texts /\ pos \in 1..Len(text) /\ text[pos] = "semi" /\ pc = "scan"
      /\ Len(text) \in Nat /\ pos \in InCodeAt(d, text)
  BY <1>1, InCodeMark
<1>3. pos \in Semis(d, text)
  BY <1>1, <1>2, DepthFollows
<1>4. ScanAt(d, text, pos, buf, depth, statements, chunks, Client) /\ statements \in Seq(Texts)
  BY <1>2 DEF SplitInv
<1>5. b1 \in Seq(Texts) /\ SentSoFar(d, text, pos + 1, b1, chunks, Client)
  BY <1>3, <1>4, BufferIsStatement
<1> HIDE DEF b1
<1>6. PICK q \in 1..(Len(text) + 1) : q = pos + 1 /\ q - 1 = pos
  BY <1>2
<1>7. DepthKept(d, text, q, depth)
  <2>1. \A n \in pos..(q - 1) : n = pos
    BY <1>2, <1>6
  <2>2. \A n \in pos..(q - 1) : /\ Change(text, InCodeAt(d, text), n) = 0
                                /\ n \in InCodeAt(d, text) => text[n] # "end"
    BY <1>2, <2>1 DEF Change
  <2>3. /\ pos \in 1..(Len(text) + 1) /\ q \in pos..(Len(text) + 1)
        /\ DepthKept(d, text, pos, depth)
    BY <1>2, <1>4, <1>6 DEF ScanAt
  <2>4. QED
    BY <1>2, <2>2, <2>3, DepthQuiet
<1>8. <<>> = SubSeq(text, LastBefore(Semis(d, text), q) + 1, q - 1)
  <2>1. PICK N \in Nat, S \in SUBSET (1..Len(text)) : N = Len(text) /\ S = Semis(d, text)
    BY <1>2, SemisIn
  <2>2. /\ S \in SUBSET (1..N) /\ q \in 1..(N + 1) /\ pos \in 0..(q - 1) /\ pos \in S
        /\ \A m \in (pos + 1)..(q - 1) : m \notin S
    BY <1>2, <1>3, <1>6, <2>1
  <2>3. LastBefore(S, q) = pos
    BY <2>1, <2>2, LastBeforeFrom
  <2>4. SubSeq(text, pos + 1, pos) = <<>>
    BY <1>2 DEF Texts
  <2>5. QED
    BY <1>6, <2>1, <2>3, <2>4
<1>9. ScanAt(d, text, q, <<>>, depth, b1, chunks, Client)
  BY <1>4, <1>5, <1>6, <1>7, <1>8 DEF ScanAt
<1>10. ScanAt(d, text, pos', buf', depth', statements', chunks, Client)
  BY <1>1, <1>6, <1>9
<1>11. QED
  BY <1>1, <1>2, <1>5, <1>10, ScanStays

LEMMA EndChunkSplit ==
  ASSUME ScanInv, SplitInv, EndChunk
  PROVE  SplitInv'
<1> DEFINE d == input.dialect
           b1 == AppendStripped(statements, buf)
<1>1. pc = "scan" /\ pos > Len(text) /\ statements' = b1 /\ pc' = "chunk"
      /\ input' = input /\ chunks' = chunks
  BY DEF EndChunk
<1>2. ScanAt(d, text, pos, buf, depth, statements, chunks, Client) /\ statements \in Seq(Texts)
      /\ chunks \in Seq(FineChunk(d))
  BY <1>1 DEF SplitInv
<1>3. text \in Texts /\ pos \in 1..(Len(text) + 1)
  BY <1>2 DEF ScanAt
<1>4. Len(text) \in Nat /\ pos = Len(text) + 1
  BY <1>1, <1>3 DEF Texts
<1>5. b1 \in Seq(Texts) /\ SentSoFar(d, text, pos + 1, b1, chunks, Client)
  BY <1>2, <1>4, BufferIsStatement
<1> HIDE DEF b1
<1>6. PICK done \in Seq(Texts) :
        /\ CodeOfAll(d, b1) = Glue(done, Joined(SentAt(d, text, Semis(d, text)), (pos + 1) - 1))
        /\ Glue(done, Glue(StatementsBetween(d, text, Semis(d, text)), SendsOf(d, chunks))) = Client
  BY <1>5 DEF SentSoFar
<1>7. PICK all \in Seq(Texts) : /\ all = StatementsBetween(d, text, Semis(d, text))
                                /\ CodeOfAll(d, b1) = Glue(done, all)
  <2>1. PICK S \in SUBSET (1..Len(text)) : S = Semis(d, text)
    BY <1>3, SemisIn
  <2>2. /\ StatementsBetween(d, text, S) = Joined(SentAt(d, text, S), Len(text) + 1)
        /\ \A n \in 0..(Len(text) + 1) : Joined(SentAt(d, text, S), n) \in Seq(Texts)
    BY <1>3, SentAtIs
  <2>3. Len(text) + 1 \in 0..(Len(text) + 1) /\ (pos + 1) - 1 = Len(text) + 1
    BY <1>4
  <2>4. QED
    BY <1>6, <2>1, <2>2, <2>3
<1>8. PICK rest \in Seq(Texts) : rest = SendsOf(d, chunks)
  <2>1. PICK N \in Nat : N = Len(chunks)
    BY <1>2
  <2>2. SendsOf(d, chunks) \in Seq(Texts)
    BY <1>2, <2>1, SendsAtIs
  <2>3. QED
    BY <2>2
<1>9. Glue(CodeOfAll(d, b1), SendsOf(d, chunks)) = Client
  <2>1. Glue(Glue(done, all), rest) = Glue(done, Glue(all, rest))
    BY Glued
  <2>2. QED
    BY <1>6, <1>7, <1>8, <2>1
<1>10. Client' = Client
  BY <1>1 DEF Client
<1>11. QED
  BY <1>1, <1>2, <1>5, <1>9, <1>10 DEF SplitInv

LEMMA KeepSplit ==
  ASSUME SplitInv, KeepChunk
  PROVE  SplitInv'
<1> DEFINE d == input.dialect
           c == Head(chunks)
           b1 == AppendStripped(statements, c.text)
<1>1. pc = "chunk" /\ chunks # <<>> /\ ~c.scan /\ statements' = b1 /\ pc' = "chunk"
      /\ input' = input /\ chunks' = Tail(chunks)
  BY DEF KeepChunk
<1>2. statements \in Seq(Texts) /\ chunks \in Seq(FineChunk(d))
      /\ Glue(CodeOfAll(d, statements), SendsOf(d, chunks)) = Client
  BY <1>1 DEF SplitInv
<1>3. /\ c \in FineChunk(d) /\ Tail(chunks) \in Seq(FineChunk(d))
      /\ SendsOf(d, chunks) = Glue(ChunkSends(d, c), SendsOf(d, Tail(chunks)))
  BY <1>1, <1>2, SendsOfHead
<1> HIDE DEF c
<1>4. c.text \in Texts /\ Regions(d, c.text)[Len(c.text) + 1] \in Ended
      /\ ChunkSends(d, c) = Sent(d, c.text) /\ ChunkSends(d, c) \in Seq(Texts)
  BY <1>1, <1>3, ChunkSendsTyped DEF ChunkSends
<1>5. /\ b1 \in Seq(Texts)
      /\ CodeOfAll(d, b1) = Glue(CodeOfAll(d, statements), ChunkSends(d, c))
  BY <1>2, <1>4, AppendStrippedSends
<1> HIDE DEF b1
<1>6. PICK u \in Seq(Texts), v \in Seq(Texts), w \in Seq(Texts) :
        u = CodeOfAll(d, statements) /\ v = ChunkSends(d, c) /\ w = SendsOf(d, Tail(chunks))
  <2>0. PICK cs \in Seq(FineChunk(d)) : cs = Tail(chunks)
    BY <1>3
  <2>1. PICK N \in Nat : N = Len(cs)
    OBVIOUS
  <2>2. SendsOf(d, cs) \in Seq(Texts)
    BY <2>1, SendsAtIs
  <2>3. CodeOfAll(d, statements) \in Seq(Texts)
    BY <1>2, CodeOfAllSteps
  <2>4. QED
    BY <1>4, <2>0, <2>2, <2>3
<1>7. Glue(CodeOfAll(d, b1), SendsOf(d, Tail(chunks))) = Client
  <2>1. Glue(Glue(u, v), w) = Glue(u, Glue(v, w))
    BY Glued
  <2>2. QED
    BY <1>2, <1>3, <1>5, <1>6, <2>1
<1>8. Client' = Client
  BY <1>1 DEF Client
<1>9. QED
  BY <1>1, <1>3, <1>5, <1>7, <1>8 DEF SplitInv

LEMMA ScanChunkSplit ==
  ASSUME SplitInv, ScanChunk
  PROVE  SplitInv'
<1> DEFINE d == input.dialect
           c == Head(chunks)
           x == c.text
           cs == Tail(chunks)
<1>1. /\ pc = "chunk" /\ chunks # <<>> /\ c.scan /\ pc' = "scan"
      /\ input' = input /\ chunks' = cs /\ text' = x /\ pos' = 1 /\ buf' = <<>> /\ depth' = 0
      /\ statements' = statements
  BY DEF ScanChunk
<1>2. statements \in Seq(Texts) /\ chunks \in Seq(FineChunk(d))
      /\ Glue(CodeOfAll(d, statements), SendsOf(d, chunks)) = Client
  BY <1>1 DEF SplitInv
<1>3. /\ c \in FineChunk(d) /\ cs \in Seq(FineChunk(d))
      /\ SendsOf(d, chunks) = Glue(ChunkSends(d, c), SendsOf(d, cs))
  BY <1>1, <1>2, SendsOfHead
<1> HIDE DEF c, cs
<1>4. /\ x \in Texts /\ Regions(d, x)[Len(x) + 1] \in Ended /\ Flat(d, x)
      /\ ChunkSends(d, c) = StatementsBetween(d, x, Semis(d, x))
  BY <1>1, <1>3, ChunkSendsTyped DEF ChunkSends
<1> HIDE DEF x
<1>5. PICK N \in Nat, S \in SUBSET (1..Len(x)) : N = Len(x) /\ S = Semis(d, x)
  BY <1>4, SemisIn DEF Texts
<1>6. DepthKept(d, x, 1, 0)
  <2>1. Depth(x, InCodeAt(d, x))[0] = 0 /\ 1 - 1 = 0
    BY <1>4, DepthSteps
  <2>2. QED
    BY <2>1 DEF DepthKept
<1>7. <<>> = SubSeq(x, LastBefore(S, 1) + 1, 1 - 1)
  <2>1. LastBefore(S, 1) \in 0..(1 - 1)
    BY <1>5, LastBeforeIs
  <2>2. LastBefore(S, 1) = 0
    BY <2>1
  <2>3. SubSeq(x, 0 + 1, 1 - 1) = <<>>
    BY <1>4 DEF Texts
  <2>4. QED
    BY <2>2, <2>3
<1>8. SentSoFar(d, x, 1, statements, cs, Client)
  <2>1. PICK done \in Seq(Texts) : done = CodeOfAll(d, statements)
    BY <1>2, CodeOfAllSteps
  <2>2. PICK X \in [1..(N + 1) -> Seq(Texts)] : X = SentAt(d, x, S)
    <3>1. SentAs(SentAt(d, x, S), d, x, S, N)
      BY <1>4, <1>5, SentAtAs, Zenon
    <3>2. QED
      BY <3>1 DEF SentAs
  <2>3. Joined(X, 1 - 1) = <<>>
    <3>1. PICK M \in Nat : M = N + 1
      BY <1>5
    <3>2. X \in [1..M -> Seq(Texts)] /\ 1 - 1 = 0
      BY <3>1
    <3>3. QED
      BY <3>2, JoinedSteps
  <2>4. Glue(done, <<>>) = done
    BY Glued
  <2>5. CodeOfAll(d, statements) = Glue(done, Joined(SentAt(d, x, Semis(d, x)), 1 - 1))
    BY <1>5, <2>1, <2>2, <2>3, <2>4
  <2>6. Glue(done, Glue(StatementsBetween(d, x, Semis(d, x)), SendsOf(d, cs))) = Client
    BY <1>2, <1>3, <1>4, <2>1
  <2>7. QED
    BY <2>5, <2>6 DEF SentSoFar
<1>9. 1 \in 1..(Len(x) + 1) /\ 0 \in Nat
  BY <1>5
<1>10. ScanAt(d, x, 1, <<>>, 0, statements, cs, Client)
  BY <1>4, <1>5, <1>6, <1>7, <1>8, <1>9 DEF ScanAt
<1>11. Client' = Client
  BY <1>1 DEF Client
<1>12. ScanAt(d', text', pos', buf', depth', statements', chunks', Client')
  BY <1>1, <1>10, <1>11
<1>13. QED
  BY <1>1, <1>2, <1>3, <1>12 DEF SplitInv

LEMMA ReturnSplit ==
  ASSUME SplitInv, Return
  PROVE  SplitInv'
<1> DEFINE d == input.dialect
<1>1. /\ pc = "chunk" /\ chunks = <<>> /\ pc' = "done" /\ input' = input /\ chunks' = chunks
      /\ statements' = IF d = "oracle" THEN Executable(statements) ELSE statements
  BY DEF Return
<1>2. statements \in Seq(Texts) /\ chunks \in Seq(FineChunk(d))
      /\ Glue(CodeOfAll(d, statements), SendsOf(d, chunks)) = Client
  BY <1>1 DEF SplitInv
<1>3. CodeOfAll(d, statements) = Client
  <2>1. SendsOf(d, chunks) = <<>>
    BY <1>1, SendsOfNone
  <2>2. CodeOfAll(d, statements) \in Seq(Texts)
    BY <1>2, CodeOfAllSteps
  <2>3. QED
    BY <1>2, <2>1, <2>2, Glued
<1>4. statements' \in Seq(Texts) /\ CodeOfAll(d, statements') = Client
  BY <1>1, <1>2, <1>3, ExecutableKeeps
<1>5. Client' = Client
  BY <1>1 DEF Client
<1>6. QED
  BY <1>1, <1>2, <1>4, <1>5 DEF SplitInv

LEMMA SplitNext == ScanInv /\ SplitInv /\ [Next]_vars => SplitInv'
<1> SUFFICES ASSUME ScanInv, SplitInv, [Next]_vars PROVE SplitInv'
  OBVIOUS
<1>1. CASE UNCHANGED vars
  BY <1>1 DEF vars, SplitInv, Client
<1>2. QED
  BY <1>1, SeparatorSplit, EndChunkSplit, KeepSplit, ScanChunkSplit, ReturnSplit, CommentsSplit,
     DollarSplit, EscapeSplit, BlocksSplit, CopySplit DEF Next, Finished

-----------------------------------------------------------------------------
(* Where a script is cut at the marks of a set, and what its pieces send.  *)

(* A set of positions in order, and the gaps between them.                 *)
Prev(s, i) == IF i = 1 THEN 0 ELSE s[i - 1]

IsCut(s, P, n) ==
  /\ \A i \in 1..Len(s) : /\ s[i] \in P /\ s[i] \in (Prev(s, i) + 1)..n
                          /\ \A m \in (Prev(s, i) + 1)..(s[i] - 1) : m \notin P
  /\ Prev(s, Len(s) + 1) \in 0..n
  /\ \A m \in (Prev(s, Len(s) + 1) + 1)..n : m \notin P

LEMMA CutOn ==
  ASSUME NEW N \in Nat, NEW P, NEW s \in Seq(1..N), NEW n \in 1..N, IsCut(s, P, n - 1)
  PROVE  n \notin P => IsCut(s, P, n)
<1> SUFFICES ASSUME n \notin P PROVE IsCut(s, P, n)
  OBVIOUS
<1>1. PICK L \in Nat : L = Len(s)
  OBVIOUS
<1>2. ASSUME NEW i \in 1..L
      PROVE  /\ s[i] \in P /\ s[i] \in (Prev(s, i) + 1)..n
             /\ \A m \in (Prev(s, i) + 1)..(s[i] - 1) : m \notin P
  <2>1. /\ s[i] \in P /\ s[i] \in (Prev(s, i) + 1)..(n - 1)
        /\ \A m \in (Prev(s, i) + 1)..(s[i] - 1) : m \notin P
    BY <1>1 DEF IsCut
  <2>2. Prev(s, i) \in Int
    BY <1>1 DEF Prev
  <2>3. QED
    BY <2>1, <2>2
<1>3. PICK l \in 0..(n - 1) : l = Prev(s, L + 1) /\ \A m \in (l + 1)..(n - 1) : m \notin P
  BY <1>1 DEF IsCut
<1>4. \A m \in (l + 1)..n : m = n \/ m \in (l + 1)..(n - 1)
  BY <1>3
<1>5. QED
  BY <1>1, <1>2, <1>3, <1>4 DEF IsCut

LEMMA CutAt ==
  ASSUME NEW N \in Nat, NEW P, NEW s \in Seq(1..N), NEW n \in 1..N, IsCut(s, P, n - 1), n \in P
  PROVE  Append(s, n) \in Seq(1..N) /\ IsCut(Append(s, n), P, n)
<1>1. PICK L \in Nat : L = Len(s)
  OBVIOUS
<1>2. PICK u \in Seq(1..N) : u = Append(s, n) /\ Len(u) = L + 1 /\ u[L + 1] = n
                             /\ \A i \in 1..L : u[i] = s[i]
  <2>1. \A S : \A x \in S, v \in Seq(S) :
          /\ Append(v, x) \in Seq(S) /\ Len(Append(v, x)) = Len(v) + 1
          /\ Append(v, x)[Len(v) + 1] = x
          /\ \A i \in 1..Len(v) : Append(v, x)[i] = v[i]
    OBVIOUS
  <2> DEFINE S == 1..N
  <2>2. s \in Seq(S) /\ n \in S
    OBVIOUS
  <2> HIDE DEF S
  <2>3. /\ Append(s, n) \in Seq(S) /\ Len(Append(s, n)) = Len(s) + 1
        /\ Append(s, n)[Len(s) + 1] = n
        /\ \A i \in 1..Len(s) : Append(s, n)[i] = s[i]
    BY <2>1, <2>2
  <2>4. QED
    BY <1>1, <2>3 DEF S
<1>3. ASSUME NEW i \in 1..(L + 1) PROVE Prev(u, i) = Prev(s, i)
  <2>1. i # 1 => i - 1 \in 1..L
    BY <1>1
  <2>2. QED
    BY <1>2, <2>1 DEF Prev
<1>4. PICK l \in 0..(n - 1) : l = Prev(s, L + 1) /\ \A m \in (l + 1)..(n - 1) : m \notin P
  BY <1>1 DEF IsCut
<1>5. ASSUME NEW i \in 1..(L + 1)
      PROVE  /\ u[i] \in P /\ u[i] \in (Prev(u, i) + 1)..n
             /\ \A m \in (Prev(u, i) + 1)..(u[i] - 1) : m \notin P
  <2>1. CASE i = L + 1
    <3>1. u[i] = n /\ Prev(u, i) = l
      BY <1>2, <1>3, <1>4, <2>1
    <3>2. QED
      BY <1>4, <3>1
  <2>2. CASE i # L + 1
    <3>1. i \in 1..Len(s) /\ u[i] = s[i] /\ Prev(u, i) = Prev(s, i)
      BY <1>1, <1>2, <1>3, <2>2
    <3>2. /\ s[i] \in P /\ s[i] \in (Prev(s, i) + 1)..(n - 1)
          /\ \A m \in (Prev(s, i) + 1)..(s[i] - 1) : m \notin P
      BY <3>1 DEF IsCut
    <3>3. Prev(s, i) \in Int
      BY <1>1, <3>1 DEF Prev
    <3>4. QED
      BY <3>1, <3>2, <3>3
  <2>3. QED
    BY <2>1, <2>2
<1>6. Prev(u, Len(u) + 1) = n
  <2>1. Len(u) + 1 # 1 /\ (Len(u) + 1) - 1 = L + 1
    BY <1>1, <1>2
  <2>2. QED
    BY <1>2, <2>1 DEF Prev
<1>7. \A m \in (n + 1)..n : FALSE
  OBVIOUS
<1>8. IsCut(u, P, n)
  BY <1>2, <1>5, <1>6, <1>7, SMTT(60) DEF IsCut
<1>9. QED
  BY <1>2, <1>8

LEMMA InOrderIs ==
  ASSUME NEW t \in Texts, NEW P
  PROVE  InOrder(t, P) \in Seq(1..Len(t)) /\ IsCut(InOrder(t, P), P, Len(t))
<1> DEFINE h == CHOOSE h : OrderAs(h, t, P)
<1>0. PICK N \in Nat : N = Len(t) /\ t \in Seq(Marks)
  BY DEF Texts
<1>1. InOrder(t, P) = h[N]
  BY <1>0, Zenon DEF InOrder, OrderAs
<1>2. OrderAs(h, t, P)
  BY <1>0, OrderExists, Zenon
<1> HIDE DEF h
<1>3. h[0] = <<>> /\ \A n \in 1..N : h[n] = IF n \in P THEN Append(h[n - 1], n) ELSE h[n - 1]
  <2>1. 0 \in 0..N /\ \A n \in 1..N : n \in 0..N /\ n # 0 /\ n > 0
    OBVIOUS
  <2>2. h[0] = <<>>
    BY <1>0, <1>2, <2>1 DEF OrderAs
  <2>3. ASSUME NEW n \in 1..N PROVE h[n] = IF n \in P THEN Append(h[n - 1], n) ELSE h[n - 1]
    <3>1. n \in 0..Len(t) /\ n # 0 /\ n > 0
      BY <1>0, <2>1
    <3>2. h[n] = CASE n = 0 -> <<>>
                   [] n > 0 /\ n \in P -> Append(h[n - 1], n)
                   [] OTHER -> h[n - 1]
      BY <1>2, <3>1 DEF OrderAs
    <3>3. QED
      BY <3>1, <3>2
  <2>4. QED
    BY <2>2, <2>3
<1> DEFINE Good == {n \in 0..N : h[n] \in Seq(1..N) /\ IsCut(h[n], P, n)}
<1>4. Good \in SUBSET (0..N) /\ 0 \in Good
  <2>1. <<>> \in Seq(1..N) /\ Len(<<>>) = 0
    BY EmptyTyped
  <2>2. IsCut(<<>>, P, 0)
    BY <2>1 DEF IsCut, Prev
  <2>3. 0 \in 0..N /\ h[0] \in Seq(1..N) /\ IsCut(h[0], P, 0)
    BY <1>3, <2>1, <2>2
  <2>4. QED
    BY <2>3
<1>5. ASSUME NEW n \in 1..N, n - 1 \in Good PROVE n \in Good
  <2>1. PICK s \in Seq(1..N) : s = h[n - 1] /\ IsCut(s, P, n - 1)
    BY <1>5
  <2>2. CASE n \in P
    <3>1. Append(s, n) \in Seq(1..N) /\ IsCut(Append(s, n), P, n)
      BY <2>1, <2>2, CutAt
    <3>2. h[n] \in Seq(1..N) /\ IsCut(h[n], P, n)
      BY <1>3, <2>1, <2>2, <3>1
    <3>3. QED
      BY <3>2
  <2>3. CASE n \notin P
    <3>1. IsCut(s, P, n)
      BY <2>1, <2>3, CutOn
    <3>2. h[n] \in Seq(1..N) /\ IsCut(h[n], P, n)
      BY <1>3, <2>1, <2>3, <3>1
    <3>3. QED
      BY <3>2
  <2>4. QED
    BY <2>2, <2>3
<1>6. Good = 0..N
  <2> HIDE DEF Good
  <2>1. QED
    BY <1>4, <1>5, UpTo
<1>7. N \in 0..N
  OBVIOUS
<1>8. h[N] \in Seq(1..N) /\ IsCut(h[N], P, N)
  BY <1>6, <1>7
<1>9. QED
  BY <1>0, <1>1, <1>8

(* A text cut at the marks of a set: piece k stands between e[k-1] and     *)
(* e[k].                                                                   *)
Cut(t, marks, K, e) ==
  /\ e[0] = 0 /\ e[K] = Len(t) + 1
  /\ \A k \in 1..K :
       /\ e[k - 1] \in 0..Len(t) /\ e[k] \in (e[k - 1] + 1)..(Len(t) + 1)
       /\ Pieces(t, marks)[k] = SubSeq(t, e[k - 1] + 1, e[k] - 1)
       /\ \A n \in (e[k - 1] + 1)..(e[k] - 1) : t[n] \notin marks
       /\ k # K => e[k] \in 1..Len(t) /\ t[e[k]] \in marks
       /\ k # 1 => e[k - 1] \in 1..Len(t) /\ t[e[k - 1]] \in marks

MarksAt(t, marks) == {n \in DOMAIN t : t[n] \in marks}

LEMMA PiecesCut ==
  ASSUME NEW t \in Texts, NEW marks
  PROVE  \E K \in Nat \ {0} : \E e \in [0..K -> 0..(Len(t) + 1)] :
           /\ Cut(t, marks, K, e)
           /\ DOMAIN Pieces(t, marks) = 1..K /\ Len(Pieces(t, marks)) = K
           /\ Len(InOrder(t, MarksAt(t, marks))) = K - 1
           /\ DOMAIN InOrder(t, MarksAt(t, marks)) = 1..(K - 1)
           /\ \A k \in 1..(K - 1) : InOrder(t, MarksAt(t, marks))[k] = e[k]
<1> DEFINE P == MarksAt(t, marks)
           ends == <<0>> \o InOrder(t, P) \o <<Len(t) + 1>>
<1>0. PICK N \in Nat : N = Len(t)
  BY DEF Texts
<1>1. PICK s \in Seq(1..N) : s = InOrder(t, P) /\ IsCut(s, P, N)
  BY <1>0, InOrderIs
<1>2. PICK L \in Nat : L = Len(s) /\ DOMAIN s = 1..L
  OBVIOUS
<1>3. \A m : m \in P <=> m \in 1..N /\ t[m] \in marks
  BY <1>0 DEF MarksAt, Texts
<1> HIDE DEF P
<1>4. /\ Len(ends) = L + 2 /\ ends[1] = 0 /\ ends[L + 2] = N + 1
      /\ \A i \in 1..L : ends[i + 1] = s[i]
  <2>1. ends = <<0>> \o s \o <<N + 1>>
    BY <1>0, <1>1
  <2>2. s \in Seq(Nat) /\ <<0>> \in Seq(Nat) /\ <<N + 1>> \in Seq(Nat)
    <3>1. \A i \in 1..L : s[i] \in Nat
      BY <1>2
    <3>2. s = [i \in 1..L |-> s[i]]
      BY <1>2
    <3>3. s \in [1..L -> Nat]
      BY <3>1, <3>2
    <3>4. QED
      BY <3>3, FunctionIsSeq
  <2>3. PICK u \in Seq(Nat) : u = <<0>> \o s /\ Len(u) = L + 1 /\ u[1] = 0
                             /\ \A i \in 1..L : u[i + 1] = s[i]
    <3>1. PICK z \in Seq(Nat) : z = <<0>> /\ Len(z) = 1 /\ z[1] = 0
      BY <2>2
    <3>2. /\ z \o s \in Seq(Nat) /\ Len(z \o s) = Len(z) + Len(s)
          /\ \A i \in 1..(Len(z) + Len(s)) :
               (z \o s)[i] = IF i <= Len(z) THEN z[i] ELSE s[i - Len(z)]
      BY <2>2, ConcatProperties
    <3>3. 1 \in 1..(1 + L) /\ 1 <= 1
          /\ \A i \in 1..L : i + 1 \in 1..(1 + L) /\ ~(i + 1 <= 1) /\ (i + 1) - 1 = i
      OBVIOUS
    <3>4. (z \o s)[1] = 0 /\ \A i \in 1..L : (z \o s)[i + 1] = s[i]
      BY <1>2, <3>1, <3>2, <3>3
    <3>5. Len(z \o s) = L + 1
      BY <1>2, <3>1, <3>2
    <3>6. <<0>> \o s = z \o s
      BY <3>1
    <3> DEFINE u == z \o s
    <3>7. u \in Seq(Nat) /\ u = <<0>> \o s /\ Len(u) = L + 1 /\ u[1] = 0
          /\ \A i \in 1..L : u[i + 1] = s[i]
      BY <3>2, <3>4, <3>5, <3>6
    <3> HIDE DEF u
    <3>8. QED
      BY <3>7
  <2>4. PICK z \in Seq(Nat) : z = <<N + 1>> /\ Len(z) = 1 /\ z[1] = N + 1
    BY <2>2
  <2>5. /\ Len(u \o z) = Len(u) + Len(z)
        /\ \A i \in 1..(Len(u) + Len(z)) :
             (u \o z)[i] = IF i <= Len(u) THEN u[i] ELSE z[i - Len(u)]
    BY ConcatProperties
  <2>6. /\ \A i \in 1..(L + 1) : (u \o z)[i] = u[i]
        /\ (u \o z)[L + 2] = N + 1
    <3>1. /\ \A i \in 1..(L + 1) : i \in 1..((L + 1) + 1) /\ i <= L + 1
          /\ L + 2 \in 1..((L + 1) + 1) /\ ~(L + 2 <= L + 1) /\ (L + 2) - (L + 1) = 1
      OBVIOUS
    <3>2. Len(u) = L + 1 /\ Len(z) = 1 /\ Len(u) + Len(z) = (L + 1) + 1
      BY <2>3, <2>4
    <3> DEFINE w == u \o z
    <3>3. \A i \in 1..((L + 1) + 1) : w[i] = IF i <= L + 1 THEN u[i] ELSE z[i - (L + 1)]
      BY <2>5, <3>2
    <3> HIDE DEF w
    <3>4. \A i \in 1..(L + 1) : w[i] = u[i]
      BY <3>1, <3>3
    <3>5. w[L + 2] = z[1]
      BY <3>1, <3>3
    <3>6. QED
      BY <2>4, <3>4, <3>5 DEF w
  <2>7. /\ 1 \in 1..(L + 1) /\ (L + 1) + 1 = L + 2
        /\ \A i \in 1..L : i + 1 \in 1..(L + 1)
    OBVIOUS
  <2>8. ends = u \o z
    BY <2>1, <2>3, <2>4
  <2> HIDE DEF ends
  <2>9. QED
    BY <2>3, <2>4, <2>5, <2>6, <2>7, <2>8
<1>5. Pieces(t, marks) = [k \in 1..(Len(ends) - 1) |-> SubSeq(t, ends[k] + 1, ends[k + 1] - 1)]
  BY DEF Pieces, P, MarksAt
<1> HIDE DEF ends
<1> DEFINE K == L + 1
           e == [k \in 0..K |-> IF k = 0 THEN 0 ELSE IF k = K THEN N + 1 ELSE s[k]]
<1>6. e \in [0..K -> 0..(N + 1)] /\ \A k \in 0..K : e[k] = ends[k + 1]
  <2>1. ASSUME NEW k \in 0..K
        PROVE  /\ e[k] = (IF k = 0 THEN 0 ELSE IF k = K THEN N + 1 ELSE s[k])
               /\ e[k] \in 0..(N + 1) /\ e[k] = ends[k + 1]
    <3>1. e[k] = (IF k = 0 THEN 0 ELSE IF k = K THEN N + 1 ELSE s[k])
      OBVIOUS
    <3>2. k # 0 /\ k # K => k \in 1..L /\ s[k] \in 1..N
      BY <1>2
    <3> HIDE DEF e
    <3>3. k = 0 => ends[k + 1] = 0
      BY <1>4
    <3>4. k = K => ends[k + 1] = N + 1
      BY <1>4
    <3>5. K # 0 /\ 0 \in 0..(N + 1) /\ N + 1 \in 0..(N + 1)
      OBVIOUS
    <3>6. k # 0 /\ k # K => ends[k + 1] = s[k]
      BY <1>4, <3>2
    <3>7. QED
      BY <3>1, <3>2, <3>3, <3>4, <3>5, <3>6
  <2>2. e = [k \in 0..K |-> e[k]]
    OBVIOUS
  <2> HIDE DEF e
  <2>3. QED
    BY <2>1, <2>2
<1>7. e[0] = 0 /\ e[K] = N + 1 /\ \A k \in 1..L : e[k] = s[k]
  <2>1. 0 \in 0..K /\ K \in 0..K /\ K # 0 /\ \A k \in 1..L : k \in 0..K /\ k # 0 /\ k # K
    OBVIOUS
  <2>2. QED
    BY <2>1
<1>8. /\ Len(ends) - 1 = K
      /\ K - 1 = L /\ K \in Nat \ {0} /\ K = L + 1
  BY <1>4
<1> HIDE DEF e, K
<1>9. /\ DOMAIN Pieces(t, marks) = 1..K /\ Len(Pieces(t, marks)) = K
      /\ \A k \in 1..K : Pieces(t, marks)[k] = SubSeq(t, e[k - 1] + 1, e[k] - 1)
  <2>1. Pieces(t, marks) = [k \in 1..K |-> SubSeq(t, ends[k] + 1, ends[k + 1] - 1)]
    BY <1>5, <1>8
  <2>2. DOMAIN Pieces(t, marks) = 1..K
    BY <2>1
  <2>3. Len(Pieces(t, marks)) = K
    <3>1. Len(Pieces(t, marks)) \in Nat /\ DOMAIN Pieces(t, marks) = 1..Len(Pieces(t, marks))
      BY PiecesWithin DEF Texts
    <3>2. QED
      BY <1>8, <2>2, <3>1
  <2>4. ASSUME NEW k \in 1..K PROVE Pieces(t, marks)[k] = SubSeq(t, e[k - 1] + 1, e[k] - 1)
    <3>1. k - 1 \in 0..K /\ k \in 0..K /\ (k - 1) + 1 = k
      BY <1>8
    <3>2. e[k - 1] = ends[k] /\ e[k] = ends[k + 1]
      BY <1>6, <3>1
    <3>3. QED
      BY <2>1, <3>2
  <2>5. QED
    BY <2>2, <2>3, <2>4
<1>10. \A k \in 1..K : Prev(s, k) = e[k - 1]
  <2>1. TAKE k \in 1..K
  <2>2. CASE k = 1
    BY <1>7, <2>2 DEF Prev
  <2>3. CASE k # 1
    <3>1. k - 1 \in 1..L
      BY <1>8, <2>3
    <3>2. QED
      BY <1>7, <2>3, <3>1 DEF Prev
  <2>4. QED
    BY <2>2, <2>3
<1>11. ASSUME NEW k \in 1..K
       PROVE  /\ e[k - 1] \in 0..N /\ e[k] \in (e[k - 1] + 1)..(N + 1)
              /\ \A n \in (e[k - 1] + 1)..(e[k] - 1) : n \notin P
              /\ k # K => e[k] \in P
              /\ k # 1 => e[k - 1] \in P
  <2>1. PICK a \in 0..(N + 1) : a = e[k - 1]
    <3>1. k - 1 \in 0..K
      BY <1>8
    <3>2. QED
      BY <1>6, <3>1
  <2>2. k # 1 => a \in P /\ a \in 1..N
    <3> SUFFICES ASSUME k # 1 PROVE a \in P /\ a \in 1..N
      OBVIOUS
    <3>1. k - 1 \in 1..L
      BY <1>8
    <3>2. s[k - 1] \in P
      BY <1>1, <1>2, <3>1 DEF IsCut
    <3>3. QED
      BY <1>3, <1>7, <2>1, <3>1, <3>2
  <2>3. a \in 0..N
    BY <1>7, <2>1, <2>2
  <2>4. CASE k = K
    <3>1. k = Len(s) + 1 /\ e[k] = N + 1
      BY <1>2, <1>7, <1>8, <2>4
    <3>2. \A m \in (Prev(s, k) + 1)..N : m \notin P
      BY <1>1, <3>1 DEF IsCut
    <3>3. Prev(s, k) = a /\ (N + 1) - 1 = N
      BY <1>10, <2>1
    <3>4. QED
      BY <2>1, <2>2, <2>3, <2>4, <3>1, <3>2, <3>3
  <2>5. CASE k # K
    <3>1. k \in 1..L
      BY <1>8, <2>5
    <3>2. /\ s[k] \in P /\ s[k] \in (Prev(s, k) + 1)..N
          /\ \A m \in (Prev(s, k) + 1)..(s[k] - 1) : m \notin P
      BY <1>1, <1>2, <3>1 DEF IsCut
    <3>3. Prev(s, k) = a /\ e[k] = s[k]
      BY <1>7, <1>10, <2>1, <3>1
    <3>4. QED
      BY <2>1, <2>2, <2>3, <3>2, <3>3, SMTT(60)
  <2>6. QED
    BY <2>4, <2>5
<1>12. Cut(t, marks, K, e)
  <2>1. ASSUME NEW k \in 1..K
        PROVE  /\ e[k - 1] \in 0..Len(t) /\ e[k] \in (e[k - 1] + 1)..(Len(t) + 1)
               /\ Pieces(t, marks)[k] = SubSeq(t, e[k - 1] + 1, e[k] - 1)
               /\ \A n \in (e[k - 1] + 1)..(e[k] - 1) : t[n] \notin marks
               /\ k # K => e[k] \in 1..Len(t) /\ t[e[k]] \in marks
               /\ k # 1 => e[k - 1] \in 1..Len(t) /\ t[e[k - 1]] \in marks
    <3>1. PICK a \in 0..N, b \in 1..(N + 1) :
            a = e[k - 1] /\ b = e[k] /\ b \in (a + 1)..(N + 1)
      BY <1>11
    <3>2. \A n \in (a + 1)..(b - 1) : n \in 1..N
      BY <3>1
    <3>3. \A n \in (a + 1)..(b - 1) : t[n] \notin marks
      BY <1>3, <1>11, <3>1, <3>2
    <3>4. (k # K => b \in 1..N /\ t[b] \in marks) /\ (k # 1 => a \in 1..N /\ t[a] \in marks)
      BY <1>3, <1>11, <3>1
    <3>5. QED
      BY <1>0, <1>9, <3>1, <3>3, <3>4
  <2>2. QED
    BY <1>0, <1>7, <2>1 DEF Cut
<1>13. e \in [0..K -> 0..(Len(t) + 1)]
  BY <1>0, <1>6
<1>14. /\ Len(InOrder(t, P)) = K - 1 /\ DOMAIN InOrder(t, P) = 1..(K - 1)
       /\ \A k \in 1..(K - 1) : InOrder(t, P)[k] = e[k]
  BY <1>1, <1>2, <1>7, <1>8
<1>15. QED
  BY <1>8, <1>9, <1>12, <1>13, <1>14 DEF P

(* What the pieces of a text send, one after the other, is what it sends.  *)
Lists(X, M) == X \in [1..M -> Seq(Texts)]
Spans(e, K, M) == e \in [0..K -> 0..M] /\ e[0] = 0 /\ e[K] = M
Sums(X, e, ys, K) == \A k \in 1..K : Joined(X, e[k]) = Glue(Joined(X, e[k - 1]), ys[k])

LEMMA CutSends ==
  ASSUME NEW M \in Nat, NEW K \in Nat, NEW X, Lists(X, M), NEW ys, Lists(ys, K),
         NEW e, Spans(e, K, M), Sums(X, e, ys, K)
  PROVE  Joined(X, M) = FlattenSeq(ys)
<1>0. X \in [1..M -> Seq(Texts)] /\ ys \in [1..K -> Seq(Texts)]
  BY DEF Lists
<1>1. /\ Joined(ys, 0) = <<>> /\ Joined(ys, K) = FlattenSeq(ys)
      /\ \A k \in 1..K : Joined(ys, k) = Glue(Joined(ys, k - 1), ys[k])
  BY <1>0, JoinedSteps
<1>2. Joined(X, 0) = <<>> /\ e[0] = 0 /\ e[K] = M
  BY <1>0, JoinedSteps DEF Spans
<1> DEFINE Good == {k \in 0..K : Joined(X, e[k]) = Joined(ys, k)}
<1>3. Good \in SUBSET (0..K) /\ 0 \in Good
  BY <1>1, <1>2
<1>4. ASSUME NEW k \in 1..K, k - 1 \in Good PROVE k \in Good
  <2>1. k \in 0..K /\ Joined(X, e[k - 1]) = Joined(ys, k - 1)
    BY <1>4
  <2>2. Joined(X, e[k]) = Glue(Joined(X, e[k - 1]), ys[k])
    BY DEF Sums
  <2>3. Joined(X, e[k]) = Joined(ys, k)
    BY <1>1, <2>1, <2>2
  <2>4. QED
    BY <2>1, <2>3
<1>5. Good = 0..K
  <2> HIDE DEF Good
  <2>1. QED
    BY <1>0, <1>3, <1>4, UpTo
<1>6. K \in 0..K
  OBVIOUS
<1>7. Joined(X, e[K]) = Joined(ys, K)
  BY <1>5, <1>6
<1>8. QED
  BY <1>1, <1>2, <1>7

LEMMA SendsOfAll ==
  ASSUME NEW d, NEW K \in Nat, NEW css \in [1..K -> Seq(FineChunk(d))]
  PROVE  /\ FlattenSeq(css) \in Seq(FineChunk(d))
         /\ [k \in 1..K |-> SendsOf(d, css[k])] \in [1..K -> Seq(Texts)]
         /\ SendsOf(d, FlattenSeq(css)) = FlattenSeq([k \in 1..K |-> SendsOf(d, css[k])])
<1>1. /\ Joined(css, 0) = <<>> /\ Joined(css, K) = FlattenSeq(css)
      /\ \A k \in 0..K : Joined(css, k) \in Seq(FineChunk(d))
      /\ \A k \in 1..K : Joined(css, k) = Glue(Joined(css, k - 1), css[k])
  <2> DEFINE T == FineChunk(d)
  <2>1. css \in [1..K -> Seq(T)]
    OBVIOUS
  <2> HIDE DEF T
  <2>2. /\ Joined(css, 0) = <<>> /\ Joined(css, K) = FlattenSeq(css)
        /\ \A k \in 0..K : Joined(css, k) \in Seq(T)
        /\ \A k \in 1..K : Joined(css, k) = Glue(Joined(css, k - 1), css[k])
    BY <2>1, JoinedSteps
  <2>3. QED
    BY <2>2 DEF T
<1>2. PICK ys \in [1..K -> Seq(Texts)] :
        ys = [k \in 1..K |-> SendsOf(d, css[k])] /\ \A k \in 1..K : ys[k] = SendsOf(d, css[k])
  <2>1. ASSUME NEW k \in 1..K PROVE SendsOf(d, css[k]) \in Seq(Texts)
    <3>1. PICK cs \in Seq(FineChunk(d)), N \in Nat : cs = css[k] /\ N = Len(cs)
      OBVIOUS
    <3>2. SendsOf(d, cs) \in Seq(Texts)
      BY <3>1, SendsAtIs
    <3>3. QED
      BY <3>1, <3>2
  <2> DEFINE zs == [k \in 1..K |-> SendsOf(d, css[k])]
  <2>2. zs \in [1..K -> Seq(Texts)] /\ \A k \in 1..K : zs[k] = SendsOf(d, css[k])
    BY <2>1
  <2> HIDE DEF zs
  <2>3. QED
    BY <2>2 DEF zs
<1>3. /\ Joined(ys, 0) = <<>> /\ Joined(ys, K) = FlattenSeq(ys)
      /\ \A k \in 1..K : Joined(ys, k) = Glue(Joined(ys, k - 1), ys[k])
  BY JoinedSteps
<1> DEFINE Good == {k \in 0..K : SendsOf(d, Joined(css, k)) = Joined(ys, k)}
<1>4. Good \in SUBSET (0..K) /\ 0 \in Good
  <2>1. SendsOf(d, Joined(css, 0)) = Joined(ys, 0)
    BY <1>1, <1>3, SendsOfNone
  <2>2. QED
    BY <2>1
<1>5. ASSUME NEW k \in 1..K, k - 1 \in Good PROVE k \in Good
  <2>1. k \in 0..K /\ k - 1 \in 0..K /\ SendsOf(d, Joined(css, k - 1)) = Joined(ys, k - 1)
    BY <1>5
  <2>2. PICK cs \in Seq(FineChunk(d)), ds \in Seq(FineChunk(d)) :
          cs = Joined(css, k - 1) /\ ds = css[k]
    BY <1>1, <2>1
  <2>3. SendsOf(d, Glue(cs, ds)) = Glue(SendsOf(d, cs), SendsOf(d, ds))
    BY SendsOfGlue
  <2>4. Joined(css, k) = Glue(cs, ds)
    BY <1>1, <2>2
  <2>5. Joined(ys, k) = Glue(Joined(ys, k - 1), ys[k])
    BY <1>3
  <2>6. SendsOf(d, Joined(css, k)) = Joined(ys, k)
    BY <1>2, <2>1, <2>2, <2>3, <2>4, <2>5
  <2>7. QED
    BY <2>1, <2>6
<1>6. Good = 0..K
  <2> HIDE DEF Good
  <2>1. QED
    BY <1>4, <1>5, UpTo
<1>7. K \in 0..K
  OBVIOUS
<1>8. SendsOf(d, Joined(css, K)) = Joined(ys, K)
  BY <1>6, <1>7
<1>9. FlattenSeq(css) \in Seq(FineChunk(d))
  BY <1>1, <1>7
<1>10. QED
  BY <1>1, <1>2, <1>3, <1>8, <1>9

(* A text that is kept whole sends its code.                               *)
LEMMA WholeSends ==
  ASSUME NEW d, NEW x \in Texts
  PROVE  StatementsBetween(d, x, {}) = Sent(d, x)
<1>1. PICK N \in Nat, M \in Nat : N = Len(x) /\ M = N + 1
  BY DEF Texts
<1>2. {} \in SUBSET (1..Len(x))
  OBVIOUS
<1>3. PICK X : X = SentAt(d, x, {}) /\ SentAs(X, d, x, {}, N)
               /\ StatementsBetween(d, x, {}) = Joined(X, M)
  BY <1>1, <1>2, SentAtAs
<1>4. PICK Y \in [1..M -> Seq(Texts)] : Y = X
  BY <1>1, <1>3 DEF SentAs
<1>5. NothingIn(Y, 1, N)
  <2> SUFFICES ASSUME NEW n \in 1..N PROVE Y[n] = <<>>
    BY DEF NothingIn
  <2>1. n \in 1..(N + 1) /\ n # N + 1 /\ n \notin {}
    BY <1>1
  <2>2. QED
    BY <1>3, <1>4, <2>1 DEF SentAs
<1>6. Y[M] = Sent(d, x)
  <2>1. M \in 1..(N + 1) /\ M \notin {}
    BY <1>1
  <2>2. Y[M] = Sent(d, Statement(x, {}, M))
    BY <1>1, <1>3, <1>4, <2>1 DEF SentAs
  <2>3. LastBefore({}, M) = 0
    BY DEF LastBefore
  <2>4. Statement(x, {}, M) = SubSeq(x, 1, N)
    <3>1. 0 + 1 = 1 /\ M - 1 = N
      BY <1>1
    <3>2. QED
      BY <2>3, <3>1 DEF Statement
  <2>5. SubSeq(x, 1, N) = x
    BY <1>1 DEF Texts
  <2>6. QED
    BY <2>2, <2>4, <2>5
<1>7. /\ Joined(Y, 0) = <<>> /\ Joined(Y, M) = Glue(Joined(Y, M - 1), Y[M])
  <2>1. M \in 1..M
    BY <1>1
  <2>2. QED
    BY <2>1, JoinedSteps
<1>8. Joined(Y, N) = Joined(Y, 0)
  <2>1. PICK z \in 0..M : z = 0
    BY <1>1
  <2>2. N \in z..M /\ z + 1 = 1
    BY <1>1, <2>1
  <2>3. NothingIn(Y, z + 1, N)
    BY <1>5, <2>2
  <2>4. Joined(Y, N) = Joined(Y, z)
    BY <1>1, <1>4, <2>2, <2>3, JoinedSame
  <2>5. QED
    BY <2>1, <2>4
<1>9. M - 1 = N
  BY <1>1
<1>10. PICK s \in Seq(Texts) : s = Sent(d, x)
  BY SentTyped
<1>11. Glue(<<>>, s) = s
  BY Glued
<1>12. QED
  BY <1>3, <1>4, <1>6, <1>7, <1>8, <1>9, <1>10, <1>11

(* A text is cut in code: its pieces start in code, and end outside        *)
(* strings and bodies.                                                     *)
Cuttable(d, t, marks) ==
  /\ Regions(d, t)[Len(t) + 1] \in Ended
  /\ \A n \in 1..Len(t) :
       t[n] \in marks => Regions(d, t)[n] = "code" /\ Regions(d, t)[n + 1] = "code"

PieceAt(d, t, marks, a, b) ==
  /\ a \in 1..(Len(t) + 1) /\ b \in (a - 1)..Len(t)
  /\ Regions(d, t)[a] = "code" /\ Regions(d, t)[b + 1] \in Ended
  /\ a = 1 \/ (a - 1 \in 1..Len(t) /\ t[a - 1] \in marks)
  /\ b = Len(t) \/ (b + 1 \in 1..Len(t) /\ t[b + 1] \in marks)
  /\ \A n \in a..b : t[n] \notin marks

PieceOf(d, t, marks, e, k) ==
  /\ PieceAt(d, t, marks, e[k - 1] + 1, e[k] - 1)
  /\ Pieces(t, marks)[k] = SubSeq(t, e[k - 1] + 1, e[k] - 1)

LEMMA CutRegions ==
  ASSUME NEW d, NEW t \in Texts, NEW marks, Cuttable(d, t, marks),
         NEW K \in Nat, NEW e, Cut(t, marks, K, e), NEW k \in 1..K
  PROVE  PieceOf(d, t, marks, e, k)
<1>1. PICK N \in Nat : N = Len(t)
  BY DEF Texts
<1>2. /\ e[k - 1] \in 0..N /\ e[k] \in (e[k - 1] + 1)..(N + 1)
      /\ Pieces(t, marks)[k] = SubSeq(t, e[k - 1] + 1, e[k] - 1)
      /\ \A n \in (e[k - 1] + 1)..(e[k] - 1) : t[n] \notin marks
      /\ k # K => e[k] \in 1..N /\ t[e[k]] \in marks
      /\ k # 1 => e[k - 1] \in 1..N /\ t[e[k - 1]] \in marks
      /\ e[0] = 0 /\ e[K] = N + 1
  BY <1>1 DEF Cut
<1>3. PICK a \in 1..(N + 1), b \in 0..N :
        a = e[k - 1] + 1 /\ b = e[k] - 1 /\ e[k - 1] = a - 1 /\ e[k] = b + 1
  <2>1. PICK p \in 0..N : p = e[k - 1]
    BY <1>2
  <2>2. PICK q \in (p + 1)..(N + 1) : q = e[k]
    BY <1>2, <2>1
  <2>3. p + 1 \in 1..(N + 1) /\ q - 1 \in 0..N /\ p = (p + 1) - 1 /\ q = (q - 1) + 1
    BY <2>1, <2>2
  <2>4. QED
    BY <2>1, <2>2, <2>3
<1>4. e[k - 1] = a - 1 /\ e[k] = b + 1 /\ b \in (a - 1)..N
  <2>1. b + 1 \in ((a - 1) + 1)..(N + 1)
    BY <1>2, <1>3
  <2>2. QED
    BY <1>3, <2>1
<1>5. a = 1 \/ (a - 1 \in 1..N /\ t[a - 1] \in marks)
  BY <1>2, <1>4
<1>6. b = N \/ (b + 1 \in 1..N /\ t[b + 1] \in marks)
  BY <1>2, <1>4
<1>7. Regions(d, t)[a] = "code"
  <2>1. CASE a = 1
    BY <2>1, RegionsStep DEF Texts
  <2>2. CASE a # 1
    <3>1. Regions(d, t)[(a - 1) + 1] = "code"
      BY <1>1, <1>5, <2>2 DEF Cuttable
    <3>2. (a - 1) + 1 = a
      OBVIOUS
    <3>3. QED
      BY <3>1, <3>2
  <2>3. QED
    BY <2>1, <2>2
<1>8. Regions(d, t)[b + 1] \in Ended
  <2>1. CASE b = N
    BY <1>1, <2>1 DEF Cuttable
  <2>2. CASE b # N
    BY <1>1, <1>6, <2>2 DEF Cuttable, Ended
  <2>3. QED
    BY <2>1, <2>2
<1>9. \A n \in a..b : t[n] \notin marks
  BY <1>2, <1>3
<1>10. PieceAt(d, t, marks, a, b)
  BY <1>1, <1>3, <1>4, <1>5, <1>6, <1>7, <1>8, <1>9 DEF PieceAt
<1>11. QED
  BY <1>2, <1>3, <1>10 DEF PieceOf

(* A part that starts in code and ends outside strings and bodies is a     *)
(* chunk.                                                                  *)
LEMMA PartIsChunk ==
  ASSUME NEW d, NEW t \in Texts, NEW a \in 1..(Len(t) + 1), NEW b \in (a - 1)..Len(t),
         Regions(d, t)[a] = "code", Regions(d, t)[b + 1] \in Ended
  PROVE  /\ SubSeq(t, a, b) \in Texts
         /\ Regions(d, SubSeq(t, a, b))[Len(SubSeq(t, a, b)) + 1] \in Ended
         /\ Whole(SubSeq(t, a, b)) \in FineChunk(d)
         /\ ChunkSends(d, Whole(SubSeq(t, a, b))) = Sent(d, SubSeq(t, a, b))
<1> DEFINE x == SubSeq(t, a, b)
<1>1. PICK N \in Nat : N = Len(t)
  BY DEF Texts
<1>2. PICK M \in Nat : M = b - a + 1
  BY <1>1
<1>3. x \in Texts /\ Len(x) = M /\ Regions(d, x)[M + 1] = Regions(d, t)[b + 1]
  <2>1. /\ x \in Seq(Marks) /\ Len(x) = b - a + 1
        /\ \A n \in 1..(b - a + 2) : Regions(d, x)[n] = Regions(d, t)[a - 1 + n]
    BY PartRegions DEF Texts
  <2>2. M + 1 \in 1..(b - a + 2) /\ a - 1 + (M + 1) = b + 1
    BY <1>1, <1>2
  <2> HIDE DEF x
  <2>3. QED
    BY <1>2, <2>1, <2>2 DEF Texts
<1> HIDE DEF x
<1>4. Whole(x) \in Chunk(d) /\ Whole(x).text = x /\ Whole(x).scan = FALSE
  BY <1>3, ChunkOf DEF Whole, Texts
<1>5. Regions(d, x)[Len(x) + 1] \in Ended
  BY <1>3
<1>6. Whole(x) \in FineChunk(d)
  BY <1>4, <1>5 DEF FineChunk
<1>7. ChunkSends(d, Whole(x)) = Sent(d, x)
  BY <1>4 DEF ChunkSends
<1>8. QED
  BY <1>3, <1>5, <1>6, <1>7 DEF x

Apart(d, t, S, a, b) ==
  /\ Regions(d, t)[a] = "code"
  /\ a = 1 \/ a - 1 \in S
  /\ b = Len(t) \/ b + 1 \in S
  /\ \A n \in a..b : n \notin S
  /\ \A n \in S : Regions(d, t)[n + 1] = "code"

(* A piece with no separator, between two of them, sends its code.         *)
LEMMA WholePieceSends ==
  ASSUME NEW d, NEW t \in Texts, NEW S \in SUBSET (1..Len(t)),
         NEW a \in 1..(Len(t) + 1), NEW b \in (a - 1)..Len(t), Apart(d, t, S, a, b)
  PROVE  Joined(SentAt(d, t, S), b + 1)
           = Glue(Joined(SentAt(d, t, S), a - 1), Sent(d, SubSeq(t, a, b)))
<1>1. PICK N \in Nat : N = Len(t)
  BY DEF Texts
<1>2. SubSeq(t, a, b) \in Texts
  BY <1>1, PartRegions DEF Texts, Apart
<1>3. PartOf(d, t, S, a, a, b, {})
  <2>1. \A n \in a..(a - 1) : FALSE
    BY <1>1
  <2>2. \A n \in 1..(b - a + 1) : a - 1 + n \in a..b
    BY <1>1
  <2>3. QED
    BY <2>1, <2>2 DEF PartOf, NothingIn, Apart
<1>4. /\ a \in a..(Len(t) + 1) /\ b \in b..Len(t) /\ \A n \in (b + 1)..b : n \notin S
      /\ NothingIn(KeptAt(d, t), b + 1, b)
      /\ b = Len(t) \/ b + 1 \in S
      /\ \A n \in S : Regions(d, t)[n + 1] = "code"
  BY <1>1 DEF NothingIn, Apart
<1>5. Joined(SentAt(d, t, S), b + 1)
        = Glue(Joined(SentAt(d, t, S), a - 1), StatementsBetween(d, SubSeq(t, a, b), {}))
  BY <1>3, <1>4, PartSends
<1>6. QED
  BY <1>2, <1>5, WholeSends

(* A text cut at a mark and kept whole, piece by piece, sends the          *)
(* statements between the marks.                                           *)
WholePieces(t, mark) ==
  LET pieces == Pieces(t, {mark}) IN [n \in DOMAIN pieces |-> Whole(pieces[n])]

LEMMA WholePiecesSend ==
  ASSUME NEW d, NEW t \in Texts, NEW mark, Cuttable(d, t, {mark})
  PROVE  /\ WholePieces(t, mark) \in Seq(FineChunk(d))
         /\ SendsOf(d, WholePieces(t, mark)) = StatementsBetween(d, t, MarksAt(t, {mark}))
<1>1. PICK N \in Nat : N = Len(t) /\ DOMAIN t = 1..N
  BY DEF Texts
<1>2. PICK S \in SUBSET (1..Len(t)) : S = MarksAt(t, {mark})
  BY <1>1 DEF MarksAt
<1>3. \A n : n \in S <=> n \in 1..N /\ t[n] \in {mark}
  BY <1>1, <1>2 DEF MarksAt
<1>4. PICK K \in Nat : \E e \in [0..K -> 0..(Len(t) + 1)] :
        Cut(t, {mark}, K, e) /\ DOMAIN Pieces(t, {mark}) = 1..K
  <2>1. PICK K \in Nat \ {0} : \E e \in [0..K -> 0..(Len(t) + 1)] :
          Cut(t, {mark}, K, e) /\ DOMAIN Pieces(t, {mark}) = 1..K
    BY PiecesCut
  <2>2. QED
    BY <2>1
<1>5. PICK e \in [0..K -> 0..(Len(t) + 1)] :
        Cut(t, {mark}, K, e) /\ DOMAIN Pieces(t, {mark}) = 1..K
  BY <1>4
<1>6. PICK M \in Nat : M = N + 1
  OBVIOUS
<1>7. PICK X \in [1..M -> Seq(Texts)] :
        X = SentAt(d, t, S) /\ StatementsBetween(d, t, S) = Joined(X, M)
  <2>1. /\ SentAt(d, t, S) \in [1..(Len(t) + 1) -> Seq(Texts)]
        /\ StatementsBetween(d, t, S) = Joined(SentAt(d, t, S), Len(t) + 1)
    BY <1>2, SentAtIs
  <2>2. QED
    BY <1>1, <1>6, <2>1
<1> DEFINE cs == WholePieces(t, mark)
<1>8. cs = [k \in 1..K |-> Whole(Pieces(t, {mark})[k])]
  BY <1>5 DEF WholePieces
<1> HIDE DEF cs
<1>9. ASSUME NEW k \in 1..K
      PROVE  /\ cs[k] \in FineChunk(d)
             /\ Joined(X, e[k]) = Glue(Joined(X, e[k - 1]), ChunkSends(d, cs[k]))
  <2>1. /\ PieceAt(d, t, {mark}, e[k - 1] + 1, e[k] - 1)
        /\ Pieces(t, {mark})[k] = SubSeq(t, e[k - 1] + 1, e[k] - 1)
    <3>1. PICK marks, f : marks = {mark} /\ f = e
      OBVIOUS
    <3>2. Cuttable(d, t, marks) /\ Cut(t, marks, K, f)
      BY <1>5, <3>1
    <3>3. PieceOf(d, t, marks, f, k)
      BY <1>4, <3>2, CutRegions
    <3>4. QED
      BY <3>1, <3>3 DEF PieceOf
  <2>2. PICK a \in 1..(Len(t) + 1) : a = e[k - 1] + 1
    BY <2>1 DEF PieceAt
  <2>3. PICK b \in (a - 1)..Len(t) : b = e[k] - 1
    BY <2>1, <2>2 DEF PieceAt
  <2>4. PieceAt(d, t, {mark}, a, b) /\ cs[k] = Whole(SubSeq(t, a, b))
    BY <1>8, <2>1, <2>2, <2>3
  <2>5. e[k - 1] = a - 1 /\ e[k] = b + 1
    BY <1>1, <2>2, <2>3, SMTT(60)
  <2>6. cs[k] \in FineChunk(d) /\ ChunkSends(d, cs[k]) = Sent(d, SubSeq(t, a, b))
    BY <2>4, PartIsChunk DEF PieceAt
  <2>7. \A n \in S : Regions(d, t)[n + 1] = "code"
    BY <1>1, <1>3 DEF Cuttable
  <2>8. Apart(d, t, S, a, b)
    BY <1>1, <1>3, <2>4, <2>7 DEF PieceAt, Apart
  <2>9. Joined(SentAt(d, t, S), b + 1)
          = Glue(Joined(SentAt(d, t, S), a - 1), Sent(d, SubSeq(t, a, b)))
    BY <1>2, <2>2, <2>3, <2>8, WholePieceSends
  <2>10. QED
    BY <1>7, <2>5, <2>6, <2>9
<1>10. cs \in Seq(FineChunk(d)) /\ Len(cs) = K
  <2> DEFINE T == FineChunk(d)
  <2>1. \A k \in 1..K : cs[k] \in T
    BY <1>9
  <2> HIDE DEF T
  <2>2. cs \in [1..K -> T]
    BY <1>8, <2>1
  <2>3. QED
    BY <2>2, FunctionIsSeq DEF T
<1>11. PICK ys \in [1..K -> Seq(Texts)] :
         /\ ys = SendsAt(d, cs)
         /\ \A k \in 1..K : ys[k] = ChunkSends(d, cs[k])
         /\ SendsOf(d, cs) = FlattenSeq(ys)
  <2>1. PICK L \in Nat : L = K
    OBVIOUS
  <2>2. L = Len(cs) /\ cs \in Seq(FineChunk(d))
    BY <1>10, <2>1
  <2>3. /\ SendsAt(d, cs) \in [1..L -> Seq(Texts)]
        /\ \A n \in 1..L : SendsAt(d, cs)[n] = ChunkSends(d, cs[n])
    BY <2>1, <2>2, SendsAtIs
  <2>4. QED
    BY <2>1, <2>3 DEF SendsOf
<1>12. Joined(X, M) = FlattenSeq(ys)
  <2>1. Sums(X, e, ys, K)
    BY <1>9, <1>11 DEF Sums
  <2>2. e[0] = 0 /\ e[K] = M /\ e \in [0..K -> 0..M]
    BY <1>1, <1>5, <1>6 DEF Cut
  <2>3. PICK L \in Nat : L = K
    OBVIOUS
  <2>3a. PICK f : f = e
    OBVIOUS
  <2>4. PICK zs, Z : zs = ys /\ Z = X /\ Lists(zs, L) /\ Lists(Z, M)
    BY <2>2, <2>3 DEF Lists
  <2>5. Spans(f, L, M) /\ Sums(Z, f, zs, L)
    BY <2>1, <2>2, <2>3, <2>3a, <2>4 DEF Spans
  <2>6. Joined(Z, M) = FlattenSeq(zs)
    BY <1>6, <2>3, <2>4, <2>5, CutSends
  <2>7. QED
    BY <2>4, <2>6
<1>13. QED
  BY <1>2, <1>7, <1>10, <1>11, <1>12 DEF cs

-----------------------------------------------------------------------------
(* The chunks of PostgreSQL and T-SQL.                                     *)

(* The directives of a script that is split as its client reads it.        *)
LEMMA DirectivesIn ==
  ASSUME NEW d \in Dialects, NEW t \in Texts, Splittable(d, t)
  PROVE  /\ Readable(d, t)
         /\ Regions(d, t)[Len(t) + 1] \in Ended
         /\ \A n \in 1..Len(t) : t[n] \in Directives =>
              /\ Regions(d, t)[n] = "code" /\ Regions(d, t)[n + 1] = "code"
              /\ n \in InCodeAt(d, t)
              /\ t[n] \in OwnDirectives(d)
              /\ d # "tsql" => Depth(t, InCodeAt(d, t))[n] = 0
         /\ \A marks : marks \subseteq Directives => Cuttable(d, t, marks)
<1>1. PICK N \in Nat : N = Len(t) /\ DOMAIN t = 1..N
  BY DEF Texts
<1>2. Readable(d, t) /\ Regions(d, t)[N + 1] \in Ended
  BY <1>1 DEF Splittable, Ended
<1>3. ASSUME NEW n \in 1..N, t[n] \in Directives
      PROVE  /\ Regions(d, t)[n] = "code" /\ Regions(d, t)[n + 1] = "code"
             /\ n \in InCodeAt(d, t)
             /\ t[n] \in OwnDirectives(d)
             /\ d # "tsql" => Depth(t, InCodeAt(d, t))[n] = 0
  <2>1. /\ n \in InCodeAt(d, t) /\ t[n] \in OwnDirectives(d)
        /\ d # "tsql" => Depth(t, InCodeAt(d, t))[n] = 0
    BY <1>1, <1>3 DEF Splittable
  <2>2. Regions(d, t)[n] = "code"
    BY <2>1 DEF InCodeAt
  <2>3. Regions(d, t)[n + 1] = After(d, "code", t[n])
    BY <1>1, <2>2, RegionsStep DEF Texts
  <2>4. After(d, "code", t[n]) = "code"
    BY <1>3 DEF After, Opened, Directives
  <2>5. QED
    BY <2>1, <2>2, <2>3, <2>4
<1>4. \A marks : marks \subseteq Directives => Cuttable(d, t, marks)
  BY <1>1, <1>2, <1>3 DEF Cuttable
<1>5. QED
  BY <1>1, <1>2, <1>3, <1>4

(* The chunks of a script send what the client sends.                      *)
ChunksSend(d, t) ==
  /\ Chunks(d, t) \in Seq(FineChunk(d))
  /\ SendsOf(d, Chunks(d, t)) = ClientStatements(d, t)

LEMMA PostgresqlSends ==
  ASSUME NEW t \in Texts, Splittable("postgresql", t)
  PROVE  ChunksSend("postgresql", t)
<1> DEFINE d == "postgresql"
<1>0. d \in Dialects
  BY DEF Dialects
<1>1. PICK N \in Nat : N = Len(t) /\ DOMAIN t = 1..N
  BY DEF Texts
<1>2. /\ Readable(d, t) /\ Regions(d, t)[Len(t) + 1] \in Ended
      /\ \A n \in 1..Len(t) : t[n] \in Directives => t[n] \in OwnDirectives(d)
  BY <1>0, DirectivesIn
<1>3. Flat(d, t)
  <2> SUFFICES ASSUME NEW n \in InCodeAt(d, t), OpensCase(t, n)
               PROVE  FlatCase(t, InCodeAt(d, t), n)
    BY DEF Flat
  <2>1. SemicolonsSplit(d, t, InCodeAt(d, t), n)
    BY DEF SemicolonsSplit
  <2>2. QED
    BY <2>1 DEF Splittable
<1>4. Scanned(t) \in FineChunk(d) /\ Scanned(t).text = t /\ Scanned(t).scan = TRUE
  <2>1. Scanned(t) \in Chunk(d)
    BY <1>2, ChunkOf DEF Texts
  <2>2. Scanned(t).text = t /\ Scanned(t).scan = TRUE
    BY DEF Scanned
  <2>3. QED
    BY <1>2, <1>3, <2>1, <2>2 DEF FineChunk
<1>5. Chunks(d, t) = <<Scanned(t)>>
  BY DEF Chunks
<1>6. Separators(d, t) = Semis(d, t)
  <2>1. \A n \in InCodeAt(d, t) : t[n] \notin Directives
    BY <1>1, <1>2 DEF InCodeAt, OwnDirectives
  <2>2. {n \in InCodeAt(d, t) : t[n] \in Directives} = {}
    BY <2>1
  <2>3. Separators(d, t) = {n \in InCodeAt(d, t) : t[n] \in Directives} \cup TopLevelSemis(t, InCodeAt(d, t))
    BY DEF Separators
  <2>4. QED
    BY <2>2, <2>3 DEF Semis
<1>7. ChunkSends(d, Scanned(t)) = ClientStatements(d, t)
  BY <1>4, <1>6 DEF ChunkSends, ClientStatements
<1>8. QED
  BY <1>4, <1>5, <1>7, SendsOfOne DEF ChunksSend

LEMMA TsqlSends ==
  ASSUME NEW t \in Texts, Splittable("tsql", t)
  PROVE  ChunksSend("tsql", t)
<1> DEFINE d == "tsql"
           marks == {"go"}
<1>0. d \in Dialects /\ marks \subseteq Directives
  BY DEF Dialects, Directives
<1>1. PICK N \in Nat : N = Len(t) /\ DOMAIN t = 1..N
  BY DEF Texts
<1>2. /\ \A n \in 1..Len(t) : t[n] \in Directives =>
           n \in InCodeAt(d, t) /\ t[n] \in OwnDirectives(d)
      /\ Cuttable(d, t, marks)
  BY <1>0, DirectivesIn
<1>3. Chunks(d, t) = WholePieces(t, "go")
  BY DEF Chunks, WholePieces
<1>4. Separators(d, t) = MarksAt(t, {"go"})
  <2>1. Separators(d, t) = {n \in InCodeAt(d, t) : t[n] \in Directives}
    BY DEF Separators
  <2>2. ASSUME NEW n PROVE n \in InCodeAt(d, t) /\ t[n] \in Directives <=> n \in MarksAt(t, {"go"})
    BY <1>1, <1>2 DEF InCodeAt, MarksAt, OwnDirectives, Directives
  <2>3. MarksAt(t, {"go"}) \subseteq DOMAIN t /\ InCodeAt(d, t) \subseteq DOMAIN t
    BY DEF MarksAt, InCodeAt
  <2>4. QED
    BY <2>1, <2>2, <2>3
<1>5. QED
  BY <1>2, <1>3, <1>4, WholePiecesSend DEF ChunksSend, ClientStatements

-----------------------------------------------------------------------------
(* A part that is scanned: its semicolons are those of the script.         *)

(* A part ends, but for newlines, where a directive or a unit follows, or  *)
(* where the text ends.                                                    *)
Followed(d, t, b, c) ==
  /\ c \in b..Len(t)
  /\ \A n \in (b + 1)..c : t[n] = "newline"
  /\ \/ c = Len(t)
     \/ c + 1 \in InCodeAt(d, t) /\ t[c + 1] \in {"begin", "routine"} \cup Directives

LEMMA FollowedStarts ==
  ASSUME NEW d, NEW t \in Texts, NEW b \in 0..Len(t), NEW c, Followed(d, t, b, c)
  PROVE  ~StartsTransaction(t, b)
<1>1. PICK N \in Nat : N = Len(t)
  BY DEF Texts
<1>2. SUFFICES ASSUME NEW m \in (b + 1)..N, t[m] \in {"semi", "transaction"},
                      \A k \in (b + 1)..(m - 1) : t[k] = "newline"
               PROVE  FALSE
  BY <1>1, StartsIs
<1>3. c \in b..N /\ \A n \in (b + 1)..c : t[n] = "newline"
  BY <1>1 DEF Followed
<1>4. m > c
  BY <1>1, <1>2, <1>3
<1>5. c # N /\ t[c + 1] \in {"begin", "routine"} \cup Directives
  BY <1>1, <1>3, <1>4 DEF Followed
<1>6. t[c + 1] # "newline" /\ t[c + 1] \notin {"semi", "transaction"}
  BY <1>5 DEF Directives
<1>7. c + 1 = m \/ c + 1 \in (b + 1)..(m - 1)
  BY <1>1, <1>3, <1>4
<1>8. QED
  BY <1>2, <1>6, <1>7

(* A part of a text that is scanned: it starts in code outside blocks, its *)
(* semicolons separate where they do in the text, and its CASEs are flat.  *)
ScansTo(d, t, S, a, b, c) ==
  /\ Regions(d, t)[a] = "code"
  /\ Depth(t, InCodeAt(d, t))[a - 1] = 0
  /\ a = 1 \/ t[a - 1] # "end"
  /\ Regions(d, t)[b + 1] \in Ended
  /\ Followed(d, t, b, c)
  /\ \A n \in a..b : n \in S <=> n \in Semis(d, t)
  /\ \A n \in a..b : n \in InCodeAt(d, t) /\ OpensCase(t, n) => FlatCase(t, InCodeAt(d, t), n)

LEMMA PartFlat ==
  ASSUME NEW d, NEW t \in Texts, NEW a \in 1..(Len(t) + 1), NEW b \in (a - 1)..Len(t),
         NEW S, NEW c, ScansTo(d, t, S, a, b, c), Detached(d, t, a, b)
  PROVE  Flat(d, SubSeq(t, a, b))
<1> DEFINE x == SubSeq(t, a, b)
           code == InCodeAt(d, t)
           xcode == InCodeAt(d, x)
<1>1. PICK N \in Nat : N = Len(t) /\ DOMAIN t = 1..N
  BY DEF Texts
<1>2. PICK K \in Nat : K = b - a + 1
  BY <1>1
<1>3. x \in Texts /\ Len(x) = K /\ DOMAIN x = 1..K
  <2>1. x \in Seq(Marks) /\ Len(x) = b - a + 1
    BY PartRegions DEF Detached, Texts
  <2> HIDE DEF x
  <2>2. QED
    BY <1>2, <2>1 DEF Texts
<1>4. \A n \in 1..K :
        /\ n \in xcode <=> a - 1 + n \in code
        /\ x[n] = t[a - 1 + n]
        /\ OpensCase(x, n) <=> OpensCase(t, a - 1 + n)
  BY <1>2, PartChange
<1>5. \A n \in 0..K : Depth(x, xcode)[n] = Depth(t, code)[a - 1 + n]
  BY <1>2, PartDepth
<1>6. xcode \subseteq 1..K /\ code \subseteq 1..N
  BY <1>1, <1>3 DEF InCodeAt
<1> HIDE DEF x, code, xcode
<1> SUFFICES ASSUME NEW n \in xcode, OpensCase(x, n) PROVE FlatCase(x, xcode, n)
  BY DEF Flat, x, xcode
<1>7. PICK n0 \in 1..N : n0 = a - 1 + n /\ n0 \in a..b
  BY <1>1, <1>2, <1>6
<1>8. FlatCase(t, code, n0)
  <2>1. n0 \in code /\ OpensCase(t, n0)
    BY <1>4, <1>6, <1>7
  <2>2. QED
    BY <1>7, <2>1 DEF ScansTo, code
<1>9. PICK m \in code :
        /\ m > n0 /\ t[m] = "end"
        /\ \A k \in (n0 + 1)..(m - 1) :
             k \in code => t[k] \notin {"begin", "routine", "case", "end", "semi"} \cup Directives
  BY <1>8 DEF FlatCase
<1>10. m \in 1..N
  BY <1>6, <1>9
<1>11. m <= b
  <2> SUFFICES ASSUME m > b PROVE FALSE
    BY <1>1, <1>10
  <2>1. /\ c \in b..N
        /\ \A k \in (b + 1)..c : t[k] = "newline"
        /\ c = N \/ (c + 1 \in code /\ t[c + 1] \in {"begin", "routine"} \cup Directives)
    BY <1>1 DEF ScansTo, Followed, code
  <2>2. m > c
    BY <1>1, <1>9, <1>10, <2>1
  <2>3. c + 1 \in code /\ t[c + 1] \in {"begin", "routine"} \cup Directives
    BY <1>10, <2>1, <2>2
  <2>4. m # c + 1
    BY <1>9, <2>3 DEF Directives
  <2>5. c + 1 \in (n0 + 1)..(m - 1)
    BY <1>1, <1>7, <1>10, <2>1, <2>2, <2>4
  <2>6. QED
    BY <1>9, <2>3, <2>5
<1>12. PICK m1 \in 1..K : m1 = m - (a - 1) /\ m = a - 1 + m1 /\ m1 > n
  <2>1. PICK m2 \in 1..N, n1 \in 1..K : m2 = m /\ n1 = n
    BY <1>6, <1>10
  <2>2. m2 > n0 /\ m2 <= b /\ n0 = a - 1 + n1
    BY <1>7, <1>9, <1>11, <2>1
  <2>3. m2 - (a - 1) \in 1..K /\ m2 = a - 1 + (m2 - (a - 1)) /\ m2 - (a - 1) > n1
    BY <1>1, <1>2, <2>2
  <2>4. QED
    BY <2>1, <2>3
<1>13. m1 \in xcode /\ x[m1] = "end"
  BY <1>4, <1>9, <1>12
<1>14. ASSUME NEW k \in (n + 1)..(m1 - 1), k \in xcode
       PROVE  x[k] \notin {"begin", "routine", "case", "end", "semi"} \cup Directives
  <2>1. k \in 1..K /\ a - 1 + k \in (n0 + 1)..(m - 1)
    BY <1>1, <1>6, <1>7, <1>12, <1>14
  <2>2. QED
    BY <1>4, <1>9, <1>14, <2>1
<1>15. Depth(x, xcode)[n] = 1
  <2>1. Depth(t, code)[n0] = 1
    BY <1>8 DEF FlatCase
  <2>2. n \in 0..K
    BY <1>6
  <2>3. QED
    BY <1>5, <1>7, <2>1, <2>2
<1>16. QED
  BY <1>12, <1>13, <1>14, <1>15 DEF FlatCase

LEMMA ScannedPart ==
  ASSUME NEW d, NEW t \in Texts, NEW a \in 1..(Len(t) + 1), NEW b \in (a - 1)..Len(t),
         NEW S, NEW c, ScansTo(d, t, S, a, b, c), Readable(d, SubSeq(t, a, b))
  PROVE  /\ Scanned(SubSeq(t, a, b)) \in FineChunk(d)
         /\ ChunkSends(d, Scanned(SubSeq(t, a, b)))
              = StatementsBetween(d, SubSeq(t, a, b), Semis(d, SubSeq(t, a, b)))
         /\ Semis(d, SubSeq(t, a, b)) \in SUBSET (1..(b - a + 1))
         /\ \A n \in 1..(b - a + 1) : n \in Semis(d, SubSeq(t, a, b)) <=> a - 1 + n \in S
<1> DEFINE x == SubSeq(t, a, b)
<1>1. PICK N \in Nat : N = Len(t)
  BY DEF Texts
<1>2. PICK K \in Nat : K = b - a + 1
  BY <1>1
<1>3. Detached(d, t, a, b)
  <2>1. b \in 0..Len(t)
    BY <1>1
  <2>2. ~StartsTransaction(t, b)
    BY <2>1, FollowedStarts DEF ScansTo
  <2>3. QED
    BY <2>2 DEF Detached, ScansTo
<1>4. Flat(d, x)
  BY <1>3, PartFlat
<1>5. x \in Texts /\ Len(x) = K /\ Regions(d, x)[Len(x) + 1] \in Ended
  <2>1. x \in Texts /\ Regions(d, x)[Len(x) + 1] \in Ended
    BY PartIsChunk DEF ScansTo
  <2>2. Len(x) = b - a + 1
    BY PartRegions DEF ScansTo, Texts
  <2> HIDE DEF x
  <2>3. QED
    BY <1>2, <2>1, <2>2
<1>6. \A n \in 1..K : n \in Semis(d, x) <=> a - 1 + n \in Semis(d, t)
  BY <1>2, <1>3, PartSemis DEF Semis
<1>7. \A n \in 1..K : a - 1 + n \in Semis(d, t) <=> a - 1 + n \in S
  <2>1. \A n \in 1..K : a - 1 + n \in a..b
    BY <1>1, <1>2
  <2>2. QED
    BY <2>1 DEF ScansTo
<1>8. Readable(d, x)
  OBVIOUS
<1> HIDE DEF x
<1>9. Scanned(x) \in FineChunk(d) /\ Scanned(x).text = x /\ Scanned(x).scan = TRUE
  <2>1. Scanned(x) \in Chunk(d)
    BY <1>5, <1>8, ChunkOf DEF Texts
  <2>2. Scanned(x).text = x /\ Scanned(x).scan = TRUE
    BY DEF Scanned
  <2>3. QED
    BY <1>4, <1>5, <2>1, <2>2 DEF FineChunk
<1>10. Semis(d, x) \in SUBSET (1..K)
  BY <1>5, SemisIn
<1>11. QED
  BY <1>2, <1>6, <1>7, <1>9, <1>10 DEF ChunkSends, x

-----------------------------------------------------------------------------
(* The chunks of MySQL.                                                    *)

Joins(d, t, S, a, b, Sx) ==
  /\ Regions(d, t)[a] = "code"
  /\ a = 1 \/ a - 1 \in S
  /\ b = Len(t) \/ b + 1 \in S
  /\ \A n \in S : Regions(d, t)[n + 1] = "code"
  /\ Sx \in SUBSET (1..(b - a + 1))
  /\ \A n \in 1..(b - a + 1) : n \in Sx <=> a - 1 + n \in S

(* A part whose separators are known sends its statements.                 *)
LEMMA PartJoins ==
  ASSUME NEW d, NEW t \in Texts, NEW S \in SUBSET (1..Len(t)),
         NEW a \in 1..(Len(t) + 1), NEW b \in (a - 1)..Len(t), NEW Sx,
         Joins(d, t, S, a, b, Sx)
  PROVE  Joined(SentAt(d, t, S), b + 1)
           = Glue(Joined(SentAt(d, t, S), a - 1), StatementsBetween(d, SubSeq(t, a, b), Sx))
<1>1. PICK N \in Nat : N = Len(t)
  BY DEF Texts
<1>2. PartOf(d, t, S, a, a, b, Sx)
  <2>1. \A n \in a..(a - 1) : FALSE
    BY <1>1
  <2>2. QED
    BY <2>1 DEF PartOf, NothingIn, Joins
<1>3. /\ a \in a..(Len(t) + 1) /\ b \in b..Len(t) /\ \A n \in (b + 1)..b : n \notin S
      /\ NothingIn(KeptAt(d, t), b + 1, b)
      /\ b = Len(t) \/ b + 1 \in S
      /\ \A n \in S : Regions(d, t)[n + 1] = "code"
  BY <1>1 DEF NothingIn, Joins
<1>4. QED
  BY <1>2, <1>3, PartSends

(* MySQL: DELIMITER lines.                                                 *)
DelimiterMarks == {"delimiter_dollar", "delimiter_semi"}

LEMMA MysqlDelimiter ==
  ASSUME NEW t \in Texts, NEW a \in 1..(Len(t) + 1), NEW b \in (a - 1)..Len(t),
         PieceAt("mysql", t, DelimiterMarks, a, b)
  PROVE  \A n \in a..b : DelimiterIsDollar(t, n) <=> a # 1 /\ t[a - 1] = "delimiter_dollar"
<1>1. PICK N \in Nat : N = Len(t) /\ DOMAIN t = 1..N
  BY DEF Texts
<1>2. PICK P \in SUBSET (1..N) : P = {m \in DOMAIN t : t[m] \in DelimiterMarks}
  BY <1>1
<1> SUFFICES ASSUME NEW n \in a..b
             PROVE  DelimiterIsDollar(t, n) <=> a # 1 /\ t[a - 1] = "delimiter_dollar"
  OBVIOUS
<1>3. PICK l \in 0..(n - 1) : l = a - 1
  BY <1>1
<1>4. LastOf(t, n, DelimiterMarks) = l
  <2>1. n \in 1..(N + 1) /\ \A m \in (l + 1)..(n - 1) : m \in a..b /\ m \in 1..N
    BY <1>1, <1>3
  <2>2. l = 0 \/ l \in P
    BY <1>1, <1>2, <1>3 DEF PieceAt
  <2>3. \A m \in (l + 1)..(n - 1) : m \notin P
    BY <1>2, <2>1 DEF PieceAt
  <2>4. LastBefore(P, n) = l
    BY <1>1, <1>3, <2>1, <2>2, <2>3, LastBeforeFrom
  <2>5. QED
    BY <1>2, <2>4 DEF LastOf
<1>5. DelimiterIsDollar(t, n) <=> l > 0 /\ t[l] = "delimiter_dollar"
  BY <1>4 DEF DelimiterIsDollar, DelimiterMarks
<1>6. l > 0 <=> a # 1
  BY <1>1, <1>3
<1>7. QED
  BY <1>3, <1>5, <1>6

LEMMA MysqlSeparators ==
  ASSUME NEW t \in Texts, Splittable("mysql", t)
  PROVE  /\ Separators("mysql", t) \in SUBSET (1..Len(t))
         /\ \A n \in 1..Len(t) :
              n \in Separators("mysql", t) <=>
                \/ t[n] \in DelimiterMarks
                \/ n \in Semis("mysql", t) /\ ~DelimiterIsDollar(t, n)
                \/ t[n] = "dollar" /\ DelimiterIsDollar(t, n)
         /\ \A n \in Separators("mysql", t) : Regions("mysql", t)[n + 1] = "code"
         /\ Cuttable("mysql", t, DelimiterMarks)
         /\ \A n \in 1..Len(t) : t[n] = "dollar" /\ DelimiterIsDollar(t, n) =>
              Regions("mysql", t)[n] = "code" /\ Regions("mysql", t)[n + 1] = "code"
<1> DEFINE d == "mysql"
           code == InCodeAt(d, t)
<1>0. d \in Dialects
  BY DEF Dialects
<1>1. PICK N \in Nat : N = Len(t) /\ DOMAIN t = 1..N
  BY DEF Texts
<1>2. /\ \A n \in 1..N : t[n] \in Directives =>
           /\ Regions(d, t)[n + 1] = "code" /\ n \in code /\ t[n] \in DelimiterMarks
      /\ Cuttable(d, t, DelimiterMarks)
  <2>1. DelimiterMarks \subseteq Directives /\ OwnDirectives(d) = DelimiterMarks
    BY DEF DelimiterMarks, Directives, OwnDirectives
  <2>2. QED
    BY <1>0, <1>1, <2>1, DirectivesIn
<1>3. \A n \in 1..N : t[n] = "dollar" /\ DelimiterIsDollar(t, n) => n \in code
  BY <1>1 DEF Splittable
<1>4. Separators(d, t) =
        {n \in code : t[n] \in Directives} \cup
        ({n \in Semis(d, t) : ~DelimiterIsDollar(t, n)} \cup
         {n \in code : t[n] = "dollar" /\ DelimiterIsDollar(t, n)})
  BY DEF Separators, Semis
<1>5. Semis(d, t) \subseteq code /\ \A n \in Semis(d, t) : t[n] = "semi"
  BY DEF Semis, TopLevelSemis
<1>6. code \subseteq 1..N /\ \A n \in code : Regions(d, t)[n] = "code"
  BY <1>1 DEF InCodeAt
<1>7. \A n \in 1..N : Regions(d, t)[n] = "code" => Regions(d, t)[n + 1] = After(d, "code", t[n])
  BY <1>1, RegionsStep DEF Texts
<1>8. After(d, "code", "semi") = "code" /\ After(d, "code", "dollar") = "code"
  BY DEF After, Opened
<1> HIDE DEF code, d
<1>9. DelimiterMarks \subseteq Directives
  BY DEF DelimiterMarks, Directives
<1>10. ASSUME NEW n \in 1..N
       PROVE  n \in Separators(d, t) <=>
                \/ t[n] \in DelimiterMarks
                \/ n \in Semis(d, t) /\ ~DelimiterIsDollar(t, n)
                \/ t[n] = "dollar" /\ DelimiterIsDollar(t, n)
  BY <1>2, <1>3, <1>4, <1>9
<1>11. Separators(d, t) \subseteq 1..N
  BY <1>4, <1>5, <1>6
<1>12. ASSUME NEW n \in Separators(d, t) PROVE Regions(d, t)[n + 1] = "code"
  <2>1. n \in 1..N
    BY <1>11
  <2>2. CASE t[n] \in Directives
    BY <1>2, <2>1, <2>2
  <2>3. CASE t[n] \notin Directives
    <3>1. n \in code /\ t[n] \in {"semi", "dollar"}
      BY <1>4, <1>5, <2>3
    <3>2. QED
      BY <1>6, <1>7, <1>8, <2>1, <3>1
  <2>4. QED
    BY <2>2, <2>3
<1>13. ASSUME NEW n \in 1..N, t[n] = "dollar", DelimiterIsDollar(t, n)
       PROVE  Regions(d, t)[n] = "code" /\ Regions(d, t)[n + 1] = "code"
  BY <1>3, <1>6, <1>7, <1>8, <1>13
<1>14. QED
  BY <1>1, <1>2, <1>10, <1>11, <1>12, <1>13 DEF d

MysqlCut(t, a, x) ==
  IF a = 1 \/ t[a - 1] = "delimiter_semi" THEN <<Scanned(x)>> ELSE WholePieces(x, "dollar")

PieceSent(t, a, b) ==
  LET cs == MysqlCut(t, a, SubSeq(t, a, b))
      X == SentAt("mysql", t, Separators("mysql", t))
  IN /\ cs \in Seq(FineChunk("mysql"))
     /\ Joined(X, b + 1) = Glue(Joined(X, a - 1), SendsOf("mysql", cs))

LEMMA MysqlSemiPiece ==
  ASSUME NEW t \in Texts, Splittable("mysql", t),
         NEW a \in 1..(Len(t) + 1), NEW b \in (a - 1)..Len(t),
         PieceAt("mysql", t, DelimiterMarks, a, b), a = 1 \/ t[a - 1] = "delimiter_semi"
  PROVE  PieceSent(t, a, b)
<1> DEFINE d == "mysql"
           x == SubSeq(t, a, b)
           S == Separators(d, t)
           code == InCodeAt(d, t)
<1>0. d \in Dialects /\ d # "postgresql"
  BY DEF Dialects
<1>1. PICK N \in Nat : N = Len(t) /\ DOMAIN t = 1..N
  BY DEF Texts
<1>2. \A n \in a..b : ~DelimiterIsDollar(t, n)
  BY MysqlDelimiter
<1>3. /\ S \in SUBSET (1..Len(t))
      /\ \A n \in 1..N : n \in S <=> \/ t[n] \in DelimiterMarks
                                     \/ n \in Semis(d, t) /\ ~DelimiterIsDollar(t, n)
                                     \/ t[n] = "dollar" /\ DelimiterIsDollar(t, n)
      /\ \A n \in S : Regions(d, t)[n + 1] = "code"
  BY <1>1, MysqlSeparators
<1>4. /\ Readable(d, t)
      /\ \A n \in 1..N : t[n] \in Directives => n \in code /\ Depth(t, code)[n] = 0
  BY <1>0, <1>1, DirectivesIn
<1>5. ScansTo(d, t, S, a, b, b)
  <2>1. Depth(t, code)[a - 1] = 0 /\ (a = 1 \/ t[a - 1] # "end")
    <3>1. CASE a = 1
      BY <3>1, DepthSteps
    <3>2. CASE a # 1
      <4>1. a - 1 \in 1..N /\ t[a - 1] \in Directives
        BY <1>1, <3>2 DEF PieceAt, DelimiterMarks, Directives
      <4>2. QED
        BY <1>4, <4>1 DEF Directives
    <3>3. QED
      BY <3>1, <3>2
  <2>2. Followed(d, t, b, b)
    <3>1. b \in b..N /\ \A n \in (b + 1)..b : FALSE
      BY <1>1
    <3>2. b # N => b + 1 \in code /\ t[b + 1] \in Directives
      BY <1>1, <1>4 DEF PieceAt, DelimiterMarks, Directives
    <3>3. QED
      BY <1>1, <3>1, <3>2 DEF Followed
  <2>3. ASSUME NEW n \in a..b PROVE n \in S <=> n \in Semis(d, t)
    <3>1. n \in 1..N /\ t[n] \notin DelimiterMarks
      BY <1>1 DEF PieceAt
    <3>2. QED
      BY <1>2, <1>3, <3>1
  <2>4. ASSUME NEW n \in a..b, n \in code, OpensCase(t, n) PROVE FlatCase(t, code, n)
    <3>1. SemicolonsSplit(d, t, code, n)
      BY <1>2 DEF SemicolonsSplit
    <3>2. QED
      BY <2>4, <3>1 DEF Splittable
  <2>5. QED
    BY <2>1, <2>2, <2>3, <2>4 DEF ScansTo, PieceAt
<1>6. Readable(d, x)
  BY <1>4 DEF Readable
<1>7. PICK Sx : Sx = Semis(d, x)
  OBVIOUS
<1>8. /\ Scanned(x) \in FineChunk(d)
      /\ ChunkSends(d, Scanned(x)) = StatementsBetween(d, x, Sx)
      /\ Sx \in SUBSET (1..(b - a + 1))
      /\ \A n \in 1..(b - a + 1) : n \in Sx <=> a - 1 + n \in S
  BY <1>5, <1>6, <1>7, ScannedPart
<1>9. Joined(SentAt(d, t, S), b + 1)
        = Glue(Joined(SentAt(d, t, S), a - 1), StatementsBetween(d, x, Sx))
  <2>1. Regions(d, t)[a] = "code" /\ (a = 1 \/ a - 1 \in S) /\ (b = Len(t) \/ b + 1 \in S)
    BY <1>1, <1>3 DEF PieceAt
  <2>2. PICK Q \in SUBSET (1..Len(t)) : Q = S
    BY <1>3
  <2>3. Joined(SentAt(d, t, Q), b + 1)
          = Glue(Joined(SentAt(d, t, Q), a - 1), StatementsBetween(d, x, Sx))
    <3>1. Joins(d, t, Q, a, b, Sx)
      BY <1>3, <1>8, <2>1, <2>2 DEF Joins
    <3>2. QED
      BY <2>2, <3>1, PartJoins
  <2>4. QED
    BY <2>2, <2>3
<1>10. MysqlCut(t, a, x) = <<Scanned(x)>>
  BY DEF MysqlCut
<1>11. <<Scanned(x)>> \in Seq(FineChunk(d)) /\ SendsOf(d, <<Scanned(x)>>) = ChunkSends(d, Scanned(x))
  BY <1>8, SendsOfOne
<1>12. QED
  BY <1>8, <1>9, <1>10, <1>11 DEF PieceSent

LEMMA MysqlDollarPiece ==
  ASSUME NEW t \in Texts, Splittable("mysql", t),
         NEW a \in 1..(Len(t) + 1), NEW b \in (a - 1)..Len(t),
         PieceAt("mysql", t, DelimiterMarks, a, b), a # 1, t[a - 1] # "delimiter_semi"
  PROVE  PieceSent(t, a, b)
<1> DEFINE d == "mysql"
           x == SubSeq(t, a, b)
           S == Separators(d, t)
<1>1. PICK N \in Nat : N = Len(t) /\ DOMAIN t = 1..N
  BY DEF Texts
<1>2. \A n \in a..b : DelimiterIsDollar(t, n)
  <2>1. t[a - 1] = "delimiter_dollar"
    BY DEF PieceAt, DelimiterMarks
  <2>2. QED
    BY <2>1, MysqlDelimiter
<1>3. /\ S \in SUBSET (1..Len(t))
      /\ \A n \in 1..N : n \in S <=> \/ t[n] \in DelimiterMarks
                                     \/ n \in Semis(d, t) /\ ~DelimiterIsDollar(t, n)
                                     \/ t[n] = "dollar" /\ DelimiterIsDollar(t, n)
      /\ \A n \in S : Regions(d, t)[n + 1] = "code"
      /\ \A n \in 1..N : t[n] = "dollar" /\ DelimiterIsDollar(t, n) =>
           Regions(d, t)[n] = "code" /\ Regions(d, t)[n + 1] = "code"
  BY <1>1, MysqlSeparators
<1>4. PICK K \in Nat : K = b - a + 1
  BY <1>1
<1>5. /\ x \in Texts /\ Len(x) = K /\ DOMAIN x = 1..K
      /\ \A n \in 1..K : x[n] = t[a - 1 + n]
      /\ \A n \in 1..(K + 1) : Regions(d, x)[n] = Regions(d, t)[a - 1 + n]
  <2>1. /\ x \in Seq(Marks) /\ Len(x) = b - a + 1
        /\ \A n \in 1..(b - a + 1) : x[n] = t[a - 1 + n]
        /\ \A n \in 1..(b - a + 2) : Regions(d, x)[n] = Regions(d, t)[a - 1 + n]
    BY PartRegions DEF PieceAt, Texts
  <2>2. K + 1 = b - a + 2
    BY <1>1, <1>4
  <2> HIDE DEF x
  <2>3. QED
    BY <1>4, <2>1, <2>2 DEF Texts
<1>6. \A n \in 1..K : a - 1 + n \in 1..N /\ a - 1 + n \in a..b
  BY <1>1, <1>4
<1> HIDE DEF S, d
<1>7. Cuttable(d, x, {"dollar"})
  <2>1. Regions(d, x)[Len(x) + 1] \in Ended
    <3>1. K + 1 \in 1..(K + 1) /\ a - 1 + (K + 1) = b + 1
      BY <1>1, <1>4
    <3> HIDE DEF x
    <3>2. QED
      BY <1>5, <3>1 DEF PieceAt, d
  <2>2. ASSUME NEW n \in 1..K, x[n] = "dollar"
        PROVE  Regions(d, x)[n] = "code" /\ Regions(d, x)[n + 1] = "code"
    <3>1. t[a - 1 + n] = "dollar" /\ DelimiterIsDollar(t, a - 1 + n)
      BY <1>2, <1>5, <1>6, <2>2
    <3>2. Regions(d, t)[a - 1 + n] = "code" /\ Regions(d, t)[(a - 1 + n) + 1] = "code"
      BY <1>3, <1>6, <3>1
    <3>3. n \in 1..(K + 1) /\ n + 1 \in 1..(K + 1) /\ a - 1 + (n + 1) = (a - 1 + n) + 1
      BY <1>1
    <3>4. QED
      BY <1>5, <3>2, <3>3
  <2> HIDE DEF x
  <2>3. QED
    BY <1>5, <2>1, <2>2 DEF Cuttable
<1> HIDE DEF x
<1>8. PICK Sx : Sx = MarksAt(x, {"dollar"})
  OBVIOUS
<1>9. Sx \in SUBSET (1..(b - a + 1)) /\ \A n \in 1..(b - a + 1) : n \in Sx <=> a - 1 + n \in S
  <2>1. \A n \in 1..K : n \in Sx <=> t[a - 1 + n] = "dollar"
    BY <1>5, <1>8 DEF MarksAt
  <2>2. ASSUME NEW n \in 1..K PROVE a - 1 + n \in S <=> t[a - 1 + n] = "dollar"
    <3>1. t[a - 1 + n] \notin DelimiterMarks /\ DelimiterIsDollar(t, a - 1 + n)
      BY <1>2, <1>6 DEF PieceAt
    <3>2. QED
      BY <1>3, <1>6, <3>1
  <2>3. Sx \subseteq 1..K
    BY <1>5, <1>8 DEF MarksAt
  <2>4. QED
    BY <1>4, <2>1, <2>2, <2>3
<1>10. Joined(SentAt(d, t, S), b + 1)
        = Glue(Joined(SentAt(d, t, S), a - 1), StatementsBetween(d, x, Sx))
  <2>1. Regions(d, t)[a] = "code" /\ (a = 1 \/ a - 1 \in S) /\ (b = Len(t) \/ b + 1 \in S)
    BY <1>1, <1>3 DEF PieceAt, d
  <2>2. PICK Q \in SUBSET (1..Len(t)) : Q = S
    BY <1>3
  <2>3. Joined(SentAt(d, t, Q), b + 1)
          = Glue(Joined(SentAt(d, t, Q), a - 1), StatementsBetween(d, SubSeq(t, a, b), Sx))
    <3>1. Joins(d, t, Q, a, b, Sx)
      BY <1>3, <1>9, <2>1, <2>2 DEF Joins
    <3>2. QED
      BY <2>2, <3>1, PartJoins
  <2>4. QED
    BY <2>2, <2>3 DEF x
<1>11. MysqlCut(t, a, x) = WholePieces(x, "dollar")
  BY DEF MysqlCut
<1>12. /\ WholePieces(x, "dollar") \in Seq(FineChunk(d))
       /\ SendsOf(d, WholePieces(x, "dollar")) = StatementsBetween(d, x, Sx)
  <2>1. PICK mark : mark = "dollar"
    OBVIOUS
  <2>2. PICK y \in Texts : y = x
    BY <1>5
  <2>3. Cuttable(d, y, {mark})
    BY <1>7, <2>1, <2>2
  <2>4. /\ WholePieces(y, mark) \in Seq(FineChunk(d))
        /\ SendsOf(d, WholePieces(y, mark)) = StatementsBetween(d, y, MarksAt(y, {mark}))
    BY <2>3, WholePiecesSend
  <2>5. QED
    BY <1>8, <2>1, <2>2, <2>4
<1>13. QED
  BY <1>10, <1>11, <1>12 DEF PieceSent, S, x, d

(* A script whose pieces send what stands between their ends.              *)
CutsInto(d, t, S, K, e, css) ==
  /\ Spans(e, K, Len(t) + 1)
  /\ \A k \in 1..K : /\ css[k] \in Seq(FineChunk(d))
                     /\ Joined(SentAt(d, t, S), e[k])
                          = Glue(Joined(SentAt(d, t, S), e[k - 1]), SendsOf(d, css[k]))

LEMMA ListsSend ==
  ASSUME NEW d, NEW t \in Texts, NEW S \in SUBSET (1..Len(t)), NEW K \in Nat, NEW e, NEW css,
         CutsInto(d, t, S, K, e, css), css = [k \in 1..K |-> css[k]]
  PROVE  /\ FlattenSeq(css) \in Seq(FineChunk(d))
         /\ SendsOf(d, FlattenSeq(css)) = StatementsBetween(d, t, S)
<1>1. PICK M \in Nat : M = Len(t) + 1
  BY DEF Texts
<1>2. css \in [1..K -> Seq(FineChunk(d))]
  BY DEF CutsInto
<1> DEFINE zs == [k \in 1..K |-> SendsOf(d, css[k])]
<1>3. /\ FlattenSeq(css) \in Seq(FineChunk(d))
      /\ zs \in [1..K -> Seq(Texts)]
      /\ SendsOf(d, FlattenSeq(css)) = FlattenSeq(zs)
  <2>1. PICK cs \in [1..K -> Seq(FineChunk(d))] : cs = css
    BY <1>2
  <2>2. /\ FlattenSeq(cs) \in Seq(FineChunk(d))
        /\ [k \in 1..K |-> SendsOf(d, cs[k])] \in [1..K -> Seq(Texts)]
        /\ SendsOf(d, FlattenSeq(cs)) = FlattenSeq([k \in 1..K |-> SendsOf(d, cs[k])])
    BY <2>1, SendsOfAll, ZenonT(60)
  <2>3. QED
    BY <2>1, <2>2
<1>4. /\ SentAt(d, t, S) \in [1..M -> Seq(Texts)]
      /\ StatementsBetween(d, t, S) = Joined(SentAt(d, t, S), M)
  <2>1. /\ SentAt(d, t, S) \in [1..(Len(t) + 1) -> Seq(Texts)]
        /\ StatementsBetween(d, t, S) = Joined(SentAt(d, t, S), Len(t) + 1)
    BY SentAtIs
  <2>2. QED
    BY <1>1, <2>1
<1>5. PICK X, ys : X = SentAt(d, t, S) /\ ys = zs
  OBVIOUS
<1>6. Lists(X, M) /\ Lists(ys, K) /\ Spans(e, K, M)
  BY <1>1, <1>3, <1>4, <1>5 DEF Lists, CutsInto
<1>7. Sums(X, e, ys, K)
  BY <1>5 DEF Sums, CutsInto
<1>8. Joined(X, M) = FlattenSeq(ys)
  BY <1>1, <1>6, <1>7, CutSends
<1>9. QED
  BY <1>3, <1>4, <1>5, <1>8

LEMMA MysqlSends ==
  ASSUME NEW t \in Texts, Splittable("mysql", t)
  PROVE  ChunksSend("mysql", t)
<1> DEFINE d == "mysql"
           S == Separators(d, t)
           P == {n \in DOMAIN t : t[n] \in DelimiterMarks}
           directives == InOrder(t, P)
           of == [n \in DOMAIN directives |-> t[directives[n]]]
           active == <<"delimiter_semi">> \o of
           regions == Pieces(t, DelimiterMarks)
           css == [n \in DOMAIN regions |->
                     IF active[n] = "delimiter_semi" THEN <<Scanned(regions[n])>>
                     ELSE WholePieces(regions[n], "dollar")]
<1>1. Chunks(d, t) = FlattenSeq(css)
  BY DEF Chunks, MysqlChunks, WholePieces, DelimiterMarks
<1>2. PICK N \in Nat : N = Len(t) /\ DOMAIN t = 1..N
  BY DEF Texts
<1>3. S \in SUBSET (1..Len(t)) /\ Cuttable(d, t, DelimiterMarks)
  BY MysqlSeparators
<1>4. PICK K \in Nat \ {0} : \E e \in [0..K -> 0..(Len(t) + 1)] :
        /\ Cut(t, DelimiterMarks, K, e)
        /\ DOMAIN regions = 1..K
        /\ Len(directives) = K - 1
        /\ DOMAIN directives = 1..(K - 1)
        /\ \A k \in 1..(K - 1) : directives[k] = e[k]
  <2>1. PICK marks : marks = DelimiterMarks
    OBVIOUS
  <2>2. directives = InOrder(t, MarksAt(t, marks)) /\ regions = Pieces(t, marks)
    BY <2>1 DEF MarksAt
  <2> HIDE DEF directives, regions
  <2>3. \E K \in Nat \ {0} : \E e \in [0..K -> 0..(Len(t) + 1)] :
          /\ Cut(t, marks, K, e)
          /\ DOMAIN Pieces(t, marks) = 1..K /\ Len(Pieces(t, marks)) = K
          /\ Len(InOrder(t, MarksAt(t, marks))) = K - 1
          /\ DOMAIN InOrder(t, MarksAt(t, marks)) = 1..(K - 1)
          /\ \A k \in 1..(K - 1) : InOrder(t, MarksAt(t, marks))[k] = e[k]
    BY PiecesCut
  <2>4. QED
    BY <2>1, <2>2, <2>3
<1>5. PICK e \in [0..K -> 0..(Len(t) + 1)] :
        /\ Cut(t, DelimiterMarks, K, e)
        /\ DOMAIN regions = 1..K
        /\ DOMAIN directives = 1..(K - 1)
        /\ \A k \in 1..(K - 1) : directives[k] = e[k]
  BY <1>4
<1> HIDE DEF directives, regions
<1>6. \A k \in 1..(K - 1) : e[k] \in 1..N /\ t[e[k]] \in DelimiterMarks
  <2> SUFFICES ASSUME NEW k \in 1..(K - 1) PROVE e[k] \in 1..N /\ t[e[k]] \in DelimiterMarks
    OBVIOUS
  <2>1. k \in 1..K /\ k # K
    BY <1>4
  <2>2. QED
    BY <1>2, <1>5, <2>1 DEF Cut
<1>7. active[1] = "delimiter_semi" /\ \A k \in 2..K : active[k] = t[e[k - 1]]
  <2>1. PICK L \in Nat : L = K - 1
    BY <1>4
  <2>2. of = [n \in 1..L |-> t[e[n]]]
    BY <1>5, <2>1
  <2>3. of \in [1..L -> DelimiterMarks]
    BY <1>6, <2>1, <2>2
  <2>4. of \in Seq(DelimiterMarks) /\ Len(of) = L /\ \A n \in 1..L : of[n] = t[e[n]]
    BY <2>2, <2>3, FunctionIsSeq
  <2> HIDE DEF of
  <2>5. PICK z \in Seq(DelimiterMarks) : z = <<"delimiter_semi">> /\ Len(z) = 1
                                         /\ z[1] = "delimiter_semi"
    BY DEF DelimiterMarks
  <2>6. \A i \in 1..(Len(z) + Len(of)) :
          (z \o of)[i] = IF i <= Len(z) THEN z[i] ELSE of[i - Len(z)]
    BY <2>4, ConcatProperties
  <2>7. \A i \in 1..(1 + L) : (z \o of)[i] = IF i <= 1 THEN z[i] ELSE of[i - 1]
    BY <2>4, <2>5, <2>6
  <2> DEFINE w == z \o of
  <2>8. active = w
    BY <2>5
  <2>9. \A i \in 1..(1 + L) : w[i] = IF i <= 1 THEN z[i] ELSE of[i - 1]
    BY <2>7
  <2> HIDE DEF active, w
  <2>10. 1 \in 1..(1 + L) /\ \A k \in 2..K : k \in 1..(1 + L) /\ ~(k <= 1) /\ k - 1 \in 1..L
    BY <1>4, <2>1
  <2>11. w[1] = z[1] /\ \A k \in 2..K : w[k] = of[k - 1]
    <3>1. w[1] = z[1]
      BY <2>9, <2>10
    <3>2. ASSUME NEW k \in 2..K PROVE w[k] = of[k - 1]
      <4>1. k \in 1..(1 + L) /\ ~(k <= 1)
        BY <2>10
      <4>2. QED
        BY <2>9, <4>1
    <3>3. QED
      BY <3>1, <3>2
  <2>12. QED
    BY <2>4, <2>5, <2>8, <2>10, <2>11
<1> HIDE DEF active
<1>8. css = [k \in 1..K |-> IF active[k] = "delimiter_semi" THEN <<Scanned(regions[k])>>
                            ELSE WholePieces(regions[k], "dollar")]
  BY <1>5
<1> HIDE DEF css, S, d
<1>9. ASSUME NEW k \in 1..K
      PROVE  /\ css[k] \in Seq(FineChunk(d))
             /\ Joined(SentAt(d, t, S), e[k])
                  = Glue(Joined(SentAt(d, t, S), e[k - 1]), SendsOf(d, css[k]))
  <2>1. PieceAt(d, t, DelimiterMarks, e[k - 1] + 1, e[k] - 1)
        /\ regions[k] = SubSeq(t, e[k - 1] + 1, e[k] - 1)
    <3>1. PICK L \in Nat : L = K
      BY <1>4
    <3>2. PICK f, marks : f = e /\ marks = DelimiterMarks
      OBVIOUS
    <3>3. Cuttable(d, t, marks) /\ Cut(t, marks, L, f) /\ k \in 1..L
      BY <1>3, <1>5, <3>1, <3>2
    <3>4. PieceOf(d, t, marks, f, k)
      BY <3>1, <3>2, <3>3, CutRegions
    <3>5. QED
      BY <3>1, <3>2, <3>4 DEF PieceOf, regions
  <2>2. PICK a \in 1..(Len(t) + 1) : a = e[k - 1] + 1
    BY <2>1 DEF PieceAt
  <2>3. PICK b \in (a - 1)..Len(t) : b = e[k] - 1
    BY <2>1, <2>2 DEF PieceAt
  <2>4. PieceAt(d, t, DelimiterMarks, a, b) /\ regions[k] = SubSeq(t, a, b)
    BY <2>1, <2>2, <2>3
  <2>5. e[k - 1] = a - 1 /\ e[k] = b + 1
    <3>1. k - 1 \in 0..K /\ k \in 0..K
      BY <1>4
    <3>2. PICK p \in 0..(N + 1), q \in 0..(N + 1) : p = e[k - 1] /\ q = e[k]
      BY <1>2, <1>5, <3>1
    <3>3. p = (p + 1) - 1 /\ q = (q - 1) + 1
      OBVIOUS
    <3>4. QED
      BY <2>2, <2>3, <3>2, <3>3
  <2>6. css[k] = MysqlCut(t, a, SubSeq(t, a, b))
    <3>1. css[k] = IF active[k] = "delimiter_semi" THEN <<Scanned(regions[k])>>
                   ELSE WholePieces(regions[k], "dollar")
      BY <1>8
    <3>2. active[k] = "delimiter_semi" <=> (a = 1 \/ t[a - 1] = "delimiter_semi")
      <4>1. CASE k = 1
        <5>1. e[k - 1] = 0
          BY <1>5, <4>1 DEF Cut
        <5>2. a = 1
          BY <2>2, <5>1
        <5>3. QED
          BY <1>7, <4>1, <5>2
      <4>2. CASE k # 1
        <5>1. k \in 2..K /\ k - 1 \in 1..(K - 1)
          BY <1>4, <4>2
        <5>2. a - 1 \in 1..N
          BY <1>6, <2>5, <5>1
        <5>3. a # 1 /\ active[k] = t[a - 1]
          BY <1>7, <2>5, <5>1, <5>2, SMTT(60)
        <5>4. QED
          BY <5>3
      <4>3. QED
        BY <4>1, <4>2
    <3>3. QED
      BY <2>4, <3>1, <3>2 DEF MysqlCut
  <2>7. PieceSent(t, a, b)
    <3>1. CASE a = 1 \/ t[a - 1] = "delimiter_semi"
      BY <2>2, <2>3, <2>4, <3>1, MysqlSemiPiece DEF d
    <3>2. CASE ~(a = 1 \/ t[a - 1] = "delimiter_semi")
      BY <2>2, <2>3, <2>4, <3>2, MysqlDollarPiece DEF d
    <3>3. QED
      BY <3>1, <3>2
  <2>8. QED
    BY <2>5, <2>6, <2>7 DEF PieceSent, S, d
<1>10. CutsInto(d, t, S, K, e, css)
  <2>1. Spans(e, K, Len(t) + 1)
    BY <1>5 DEF Spans, Cut
  <2>2. QED
    BY <1>9, <2>1 DEF CutsInto
<1>11. css = [k \in 1..K |-> css[k]]
  BY <1>8
<1>12. /\ FlattenSeq(css) \in Seq(FineChunk(d))
       /\ SendsOf(d, FlattenSeq(css)) = StatementsBetween(d, t, S)
  <2>1. PICK Q \in SUBSET (1..Len(t)), L \in Nat : Q = S /\ L = K
    BY <1>3, <1>4
  <2>2. PICK f, xs : f = e /\ xs = css
    OBVIOUS
  <2>3. CutsInto(d, t, Q, L, f, xs) /\ xs = [k \in 1..L |-> xs[k]]
    BY <1>10, <1>11, <2>1, <2>2
  <2>4. /\ FlattenSeq(xs) \in Seq(FineChunk(d))
        /\ SendsOf(d, FlattenSeq(xs)) = StatementsBetween(d, t, Q)
    BY <2>3, ListsSend
  <2>5. QED
    BY <2>1, <2>2, <2>4
<1>13. QED
  BY <1>1, <1>12 DEF ChunksSend, ClientStatements, S, d

-----------------------------------------------------------------------------
(* The chunks of Oracle.                                                   *)

(* Oracle: the blocks between the slashes.                                 *)
OracleCode(t) == InCodeAt("oracle", t)

LEMMA OracleUnits ==
  ASSUME NEW t \in Texts, NEW a \in 1..(Len(t) + 1), NEW b \in (a - 1)..Len(t),
         PieceAt("oracle", t, {"slash"}, a, b)
  PROVE  \A n \in a..b : InUnit(t, OracleCode(t), n) <=>
                           \E h \in a..(n - 1) : h \in OracleCode(t) /\ IsHead(t[h])
<1>1. PICK N \in Nat : N = Len(t) /\ DOMAIN t = 1..N
  BY DEF Texts
<1>2. PICK P \in SUBSET (1..N) : P = {m \in DOMAIN t : t[m] \in {"slash"}}
  BY <1>1
<1> SUFFICES ASSUME NEW n \in a..b
             PROVE  InUnit(t, OracleCode(t), n) <=>
                      \E h \in a..(n - 1) : h \in OracleCode(t) /\ IsHead(t[h])
  OBVIOUS
<1>3. PICK l \in 0..(n - 1) : l = a - 1
  BY <1>1
<1>4. LastOf(t, n, {"slash"}) = l
  <2>1. n \in 1..(N + 1) /\ \A m \in (l + 1)..(n - 1) : m \in a..b /\ m \in 1..N
    BY <1>1, <1>3
  <2>2. l = 0 \/ l \in P
    BY <1>1, <1>2, <1>3 DEF PieceAt
  <2>3. \A m \in (l + 1)..(n - 1) : m \notin P
    BY <1>2, <2>1 DEF PieceAt
  <2>4. LastBefore(P, n) = l
    BY <1>1, <1>3, <2>1, <2>2, <2>3, LastBeforeFrom
  <2>5. QED
    BY <1>2, <2>4 DEF LastOf
<1>5. \A h \in OracleCode(t) : h \in 1..N /\ (h > l /\ h < n <=> h \in a..(n - 1))
  <2> SUFFICES ASSUME NEW h \in OracleCode(t)
               PROVE  h \in 1..N /\ (h > l /\ h < n <=> h \in a..(n - 1))
    OBVIOUS
  <2>1. h \in 1..N
    BY <1>1 DEF OracleCode, InCodeAt
  <2>2. QED
    BY <1>1, <1>3, <2>1
<1>6. \A m : IsHead(m) <=> m \in {"begin", "routine"}
  BY DEF IsHead
<1>7. QED
  BY <1>4, <1>5, <1>6 DEF InUnit

LEMMA OracleSeparators ==
  ASSUME NEW t \in Texts, Splittable("oracle", t)
  PROVE  /\ Separators("oracle", t) \in SUBSET (1..Len(t))
         /\ \A n \in 1..Len(t) :
              n \in Separators("oracle", t) <=>
                \/ t[n] = "slash"
                \/ n \in Semis("oracle", t) /\ ~InUnit(t, OracleCode(t), n)
         /\ \A n \in Separators("oracle", t) : Regions("oracle", t)[n + 1] = "code"
         /\ \A n \in Semis("oracle", t) : n \in OracleCode(t) /\ t[n] = "semi"
         /\ Cuttable("oracle", t, {"slash"})
         /\ \A n \in 1..Len(t) : t[n] = "slash" =>
              n \in OracleCode(t) /\ Depth(t, OracleCode(t))[n] = 0
<1> DEFINE d == "oracle"
           code == InCodeAt(d, t)
<1>0. d \in Dialects
  BY DEF Dialects
<1>1. PICK N \in Nat : N = Len(t) /\ DOMAIN t = 1..N
  BY DEF Texts
<1>2. /\ \A n \in 1..N : t[n] \in Directives =>
           /\ Regions(d, t)[n + 1] = "code" /\ n \in code /\ t[n] \in {"slash"}
           /\ Depth(t, code)[n] = 0
      /\ Cuttable(d, t, {"slash"})
  <2>1. {"slash"} \subseteq Directives /\ OwnDirectives(d) = {"slash"}
    BY DEF Directives, OwnDirectives
  <2>2. QED
    BY <1>0, <1>1, <2>1, DirectivesIn
<1>3. \A n \in 1..N : t[n] # "set"
  <2>1. "set" \notin ToSet(t)
    BY DEF Splittable
  <2>2. QED
    BY <1>1, <2>1 DEF ToSet
<1>4. Separators(d, t) =
        {n \in code : t[n] \in Directives} \cup
        ({n \in Semis(d, t) : ~InUnit(t, code, n)} \cup
         {n \in code : /\ n > 1 /\ t[n] = "newline" /\ t[n - 1] = "set"
                       /\ StartsStatement(t, code, n - 1)})
  BY DEF Separators, Semis
<1>5. Semis(d, t) \subseteq code /\ \A n \in Semis(d, t) : t[n] = "semi"
  BY DEF Semis, TopLevelSemis
<1>6. code \subseteq 1..N /\ \A n \in code : Regions(d, t)[n] = "code"
  BY <1>1 DEF InCodeAt
<1>7. \A n \in 1..N : Regions(d, t)[n] = "code" => Regions(d, t)[n + 1] = After(d, "code", t[n])
  BY <1>1, RegionsStep DEF Texts
<1>8. After(d, "code", "semi") = "code"
  BY DEF After, Opened
<1>9. ASSUME NEW n \in code, n > 1 PROVE t[n - 1] # "set"
  <2>1. PICK k \in 1..N : k = n
    BY <1>6
  <2>2. k - 1 \in 1..N
    BY <1>9, <2>1
  <2>3. QED
    BY <1>3, <2>1, <2>2
<1> HIDE DEF code, d
<1>10. Separators(d, t) = {n \in code : t[n] \in Directives} \cup
                          {n \in Semis(d, t) : ~InUnit(t, code, n)}
  BY <1>4, <1>9
<1>11. "slash" \in Directives
  BY DEF Directives
<1>12. ASSUME NEW n \in 1..N
       PROVE  n \in Separators(d, t) <=>
                \/ t[n] = "slash"
                \/ n \in Semis(d, t) /\ ~InUnit(t, code, n)
  BY <1>2, <1>10, <1>11
<1>13. Separators(d, t) \subseteq 1..N
  BY <1>5, <1>6, <1>10
<1>14. ASSUME NEW n \in Separators(d, t) PROVE Regions(d, t)[n + 1] = "code"
  <2>1. n \in 1..N
    BY <1>13
  <2>2. CASE t[n] \in Directives
    BY <1>2, <2>1, <2>2
  <2>3. CASE t[n] \notin Directives
    <3>1. n \in code /\ t[n] = "semi"
      BY <1>5, <1>10, <2>3
    <3>2. QED
      BY <1>6, <1>7, <1>8, <2>1, <3>1
  <2>4. QED
    BY <2>2, <2>3
<1>15. \A n \in 1..N : t[n] = "slash" => n \in code /\ Depth(t, code)[n] = 0
  BY <1>2, <1>11
<1>16. QED
  BY <1>1, <1>2, <1>5, <1>12, <1>13, <1>14, <1>15 DEF d, code, OracleCode

(* The block of a piece: what stripping leaves of it.                      *)
BlockOf(t, a, b, a1, b1) ==
  /\ a1 \in a..(Len(t) + 1) /\ b1 \in (a1 - 1)..Len(t) /\ b \in b1..Len(t)
  /\ Strip(SubSeq(t, a, b)) = SubSeq(t, a1, b1)
  /\ \A n \in a..(a1 - 1) : t[n] = "newline"
  /\ \A n \in (b1 + 1)..b : t[n] = "newline"
  /\ Regions("oracle", t)[a1] = "code" /\ Regions("oracle", t)[b1 + 1] \in Ended
  /\ NothingIn(KeptAt("oracle", t), a, a1 - 1)
  /\ NothingIn(KeptAt("oracle", t), b1 + 1, b)
  /\ Depth(t, OracleCode(t))[a1 - 1] = 0
  /\ a1 = 1 \/ t[a1 - 1] # "end"

LEMMA BlockIs ==
  ASSUME NEW t \in Texts, Splittable("oracle", t),
         NEW a \in 1..(Len(t) + 1), NEW b \in (a - 1)..Len(t),
         PieceAt("oracle", t, {"slash"}, a, b)
  PROVE  \E a1 \in 1..(Len(t) + 1) : \E b1 \in 0..Len(t) : BlockOf(t, a, b, a1, b1)
<1> DEFINE d == "oracle"
           x == SubSeq(t, a, b)
<1>1. PICK N \in Nat : N = Len(t) /\ DOMAIN t = 1..N
  BY DEF Texts
<1>2. PICK K \in Nat : K = b - a + 1
  BY <1>1
<1>3. /\ x \in Seq(Marks) /\ Len(x) = K
      /\ \A n \in 1..K : x[n] = t[a - 1 + n]
  BY <1>2, PartRegions DEF PieceAt, Texts
<1>4. PICK p \in 1..(K + 1) : \E q \in (p - 1)..K : StripsTo(x, p, q)
  <2> HIDE DEF x
  <2>1. QED
    BY <1>3, StripIs
<1>5. PICK q \in (p - 1)..K : StripsTo(x, p, q)
  BY <1>4
<1>6. PICK a1 \in 1..(N + 1) : a1 = a - 1 + p /\ a1 \in a..(N + 1)
  BY <1>1, <1>2
<1>7. PICK b1 \in 0..N : b1 = a - 1 + q /\ b1 \in (a1 - 1)..N /\ b \in b1..N
  BY <1>1, <1>2, <1>6
<1>8. Strip(x) = SubSeq(t, a1, b1)
  <2>1. Strip(x) = SubSeq(x, p, q)
    BY <1>5 DEF StripsTo
  <2>2. K + 1 = b - a + 2
    BY <1>1, <1>2
  <2>3. SubSeq(x, p, q) = SubSeq(t, a - 1 + p, a - 1 + q)
    BY <1>2, <2>2, PartOfPart DEF Texts
  <2>4. QED
    BY <1>6, <1>7, <2>1, <2>3
<1>9. \A n \in a..(a1 - 1) : t[n] = "newline"
  <2> SUFFICES ASSUME NEW n \in a..(a1 - 1) PROVE t[n] = "newline"
    OBVIOUS
  <2>1. PICK m \in 1..(p - 1) : m = n - (a - 1) /\ n = a - 1 + m /\ m \in 1..K
    BY <1>1, <1>6
  <2> HIDE DEF x
  <2>2. QED
    BY <1>3, <1>5, <2>1 DEF StripsTo
<1>10. \A n \in (b1 + 1)..b : t[n] = "newline"
  <2> SUFFICES ASSUME NEW n \in (b1 + 1)..b PROVE t[n] = "newline"
    OBVIOUS
  <2>1. PICK m \in (q + 1)..K : m = n - (a - 1) /\ n = a - 1 + m /\ m \in 1..K
    BY <1>1, <1>2, <1>7
  <2> HIDE DEF x
  <2>2. QED
    BY <1>3, <1>5, <2>1 DEF StripsTo
<1>11. \A n \in a..a1 : Regions(d, t)[n] = "code"
  <2>1. Regions(d, t)[a] = "code"
    BY DEF PieceAt
  <2>2. a1 \in a..(Len(t) + 1) /\ t \in Seq(Marks)
    BY <1>1, <1>6 DEF Texts
  <2>3. QED
    BY <1>9, <2>1, <2>2, LeadingNewlines
<1>12. \A n \in (b1 + 1)..(b + 1) : Regions(d, t)[n] \in Ended
  <2>1. Regions(d, t)[b + 1] \in Ended /\ b \in 0..Len(t) /\ b1 \in 0..b /\ t \in Seq(Marks)
    BY <1>1, <1>7 DEF PieceAt, Texts
  <2>2. QED
    BY <1>10, <2>1, TrailingNewlines
<1> HIDE DEF x, d
<1>13. NothingIn(KeptAt(d, t), a, a1 - 1)
  <2> SUFFICES ASSUME NEW n \in a..(a1 - 1) PROVE KeptAt(d, t)[n] = <<>>
    BY DEF NothingIn
  <2>1. n \in 1..Len(t) /\ n \in a..a1
    BY <1>1, <1>6
  <2>2. Regions(d, t)[n] \in Ended
    BY <1>11, <2>1 DEF Ended
  <2>3. QED
    BY <1>9, <2>1, <2>2, NewlineDropped DEF Texts
<1>14. NothingIn(KeptAt(d, t), b1 + 1, b)
  <2> SUFFICES ASSUME NEW n \in (b1 + 1)..b PROVE KeptAt(d, t)[n] = <<>>
    BY DEF NothingIn
  <2>1. n \in 1..Len(t) /\ n \in (b1 + 1)..(b + 1)
    BY <1>1, <1>7
  <2>2. QED
    BY <1>10, <1>12, <2>1, NewlineDropped DEF Texts
<1>15. Depth(t, OracleCode(t))[a1 - 1] = 0
  <2>1. PICK i \in 0..N, j \in 0..N : i = a - 1 /\ j = a1 - 1 /\ j \in i..N
    BY <1>1, <1>6
  <2>2. Depth(t, OracleCode(t))[i] = 0
    <3>1. CASE a = 1
      BY <2>1, <3>1, DepthSteps
    <3>2. CASE a # 1
      <4>1. i \in 1..N /\ t[i] = "slash"
        BY <1>1, <2>1, <3>2 DEF PieceAt
      <4>2. QED
        BY <1>1, <4>1, OracleSeparators
    <3>3. QED
      BY <3>1, <3>2
  <2>3. \A n \in (i + 1)..j : Change(t, OracleCode(t), n) = 0
    <3> SUFFICES ASSUME NEW n \in (i + 1)..j PROVE Change(t, OracleCode(t), n) = 0
      OBVIOUS
    <3>1. n \in a..(a1 - 1)
      BY <1>1, <2>1
    <3>2. t[n] = "newline"
      BY <1>9, <3>1
    <3>3. QED
      BY <3>2 DEF Change
  <2>4. Depth(t, OracleCode(t))[j] = Depth(t, OracleCode(t))[i]
    <3>1. j \in i..j
      BY <2>1
    <3>2. QED
      BY <1>1, <2>1, <2>3, <3>1, DepthSame
  <2>5. QED
    BY <2>1, <2>2, <2>4
<1>16. a1 = 1 \/ t[a1 - 1] # "end"
  <2>1. CASE a1 = a
    BY <2>1 DEF PieceAt
  <2>2. CASE a1 # a
    <3>1. a1 - 1 \in a..(a1 - 1)
      BY <1>1, <1>6, <2>2
    <3>2. QED
      BY <1>9, <3>1
  <2>3. QED
    BY <2>1, <2>2
<1>17. Regions(d, t)[a1] = "code" /\ Regions(d, t)[b1 + 1] \in Ended
  <2>1. a1 \in a..a1 /\ b1 + 1 \in (b1 + 1)..(b + 1)
    BY <1>1, <1>6, <1>7
  <2>2. QED
    BY <1>11, <1>12, <2>1
<1>18. BlockOf(t, a, b, a1, b1)
  BY <1>1, <1>6, <1>7, <1>8, <1>9, <1>10, <1>13, <1>14, <1>15, <1>16, <1>17 DEF BlockOf, x, d
<1>19. QED
  BY <1>1, <1>18

(* The search for the head of a unit reads the regions of the client.      *)
HeadStates == [region : {"code", "string", "line", "block"}, lineStart : BOOLEAN]

LEMMA HeadStep ==
  ASSUME NEW s \in HeadStates, NEW m, m # "rem"
  PROVE  /\ HeadScan(s, m) \in HeadStates
         /\ HeadScan(s, m).region = After("oracle", s.region, m)
         /\ m = "newline" /\ HeadScan(s, m).region = "code" => HeadScan(s, m).lineStart
<1> DEFINE u == HeadScan(s, m)
<1>1. PICK r \in {"code", "string", "line", "block"}, l \in BOOLEAN :
        s = [region |-> r, lineStart |-> l]
  BY DEF HeadStates
<1>2. s.region = r /\ \A v : [s EXCEPT !.region = v] = [region |-> v, lineStart |-> l]
  BY <1>1
<1>3. CASE r = "line" /\ m # "newline"
  <2>1. u = s
    BY <1>2, <1>3 DEF HeadScan
  <2>2. After("oracle", "line", m) = "line"
    BY <1>3 DEF After, Escaping, Closing
  <2>3. QED
    BY <1>2, <1>3, <2>1, <2>2
<1>4. CASE r = "block"
  <2>1. u = IF m = "close" THEN [region |-> "code", lineStart |-> l] ELSE s
    BY <1>2, <1>4 DEF HeadScan
  <2>2. After("oracle", "block", m) = IF m = "close" THEN "code" ELSE "block"
    BY DEF After, Escaping, Closing
  <2>3. CASE m = "close"
    <3>1. u = [region |-> "code", lineStart |-> l]
      BY <2>1, <2>3
    <3> HIDE DEF u
    <3>2. QED
      BY <1>2, <1>4, <2>2, <2>3, <3>1 DEF HeadStates, u
  <2>4. CASE m # "close"
    <3>1. u = s /\ u.region = "block"
      BY <1>2, <1>4, <2>1, <2>4
    <3>2. QED
      BY <1>2, <1>4, <2>2, <2>4, <3>1
  <2>5. QED
    BY <2>3, <2>4
<1>5. CASE r = "code" /\ m \in {"dashes", "open"}
  <2>1. u = [region |-> IF m = "dashes" THEN "line" ELSE "block", lineStart |-> l]
    BY <1>2, <1>5 DEF HeadScan
  <2>2. After("oracle", "code", m) = IF m = "dashes" THEN "line" ELSE "block"
    BY <1>5 DEF After, Opened
  <2> HIDE DEF u
  <2>3. QED
    BY <1>2, <1>5, <2>1, <2>2 DEF HeadStates, u
<1>6. CASE r \in {"code", "string"} /\ m = "quote"
  <2>1. u = [region |-> IF r = "code" THEN "string" ELSE "code", lineStart |-> FALSE]
    BY <1>2, <1>6 DEF HeadScan
  <2>2. After("oracle", r, m) = IF r = "code" THEN "string" ELSE "code"
    BY <1>6 DEF After, Opened, Escaping, Closing
  <2>3. PICK v \in {"code", "string"} : v = IF r = "code" THEN "string" ELSE "code"
    OBVIOUS
  <2>4. u = [region |-> v, lineStart |-> FALSE]
    BY <2>1, <2>3
  <2> HIDE DEF u
  <2>5. u \in HeadStates /\ u.region = v
    BY <2>4 DEF HeadStates
  <2>6. m # "newline"
    BY <1>6
  <2>7. QED
    BY <1>2, <2>2, <2>3, <2>5, <2>6 DEF u
<1>7. CASE \/ r = "line" /\ m = "newline"
           \/ r = "code" /\ m \notin {"dashes", "open", "quote"}
           \/ r = "string" /\ m # "quote"
  <2>1. u = [region |-> IF r = "line" THEN "code" ELSE r, lineStart |-> m = "newline"]
    BY <1>2, <1>7 DEF HeadScan
  <2>2. After("oracle", r, m) = IF r = "line" THEN "code" ELSE r
    BY <1>7 DEF After, Opened, Escaping, Closing
  <2>3. PICK w, v : w = (m = "newline") /\ v = (IF r = "line" THEN "code" ELSE r)
    OBVIOUS
  <2>4. w \in BOOLEAN /\ v \in {"code", "string", "line", "block"}
    BY <2>3
  <2>5. u = [region |-> v, lineStart |-> w]
    BY <2>1, <2>3
  <2> HIDE DEF u
  <2>6. u \in HeadStates /\ u.region = v /\ u.lineStart = w
    BY <2>4, <2>5 DEF HeadStates
  <2>7. QED
    BY <1>2, <2>2, <2>3, <2>6 DEF u
<1>8. QED
  BY <1>3, <1>4, <1>5, <1>6, <1>7

HeadsAs(h, t) ==
  h = [n \in 1..(Len(t) + 1) |->
        IF n = 1 THEN [region |-> "code", lineStart |-> TRUE] ELSE HeadScan(h[n - 1], t[n - 1])]

LEMMA HeadsExist ==
  ASSUME NEW t \in Texts
  PROVE  \E h : HeadsAs(h, t)
<1> DEFINE first == [region |-> "code", lineStart |-> TRUE]
           Upto(m, h) == h = [n \in 1..m |-> IF n = 1 THEN first ELSE HeadScan(h[n - 1], t[n - 1])]
<1>0. PICK k \in Nat : k = Len(t) + 1
  BY DEF Texts
<1> HIDE DEF first
<1> DEFINE Good == {m \in 0..k : \E h : Upto(m, h)}
<1>1. Good \in SUBSET (0..k) /\ 0 \in Good
  <2>1. Upto(0, [n \in 1..0 |-> <<>>])
    OBVIOUS
  <2>2. 0 \in 0..k
    OBVIOUS
  <2> HIDE DEF Upto
  <2>3. QED
    BY <2>1, <2>2
<1>2. ASSUME NEW m \in 1..k, m - 1 \in Good PROVE m \in Good
  <2>1. PICK h : Upto(m - 1, h)
    BY <1>2
  <2> DEFINE last == IF m = 1 THEN first ELSE HeadScan(h[m - 1], t[m - 1])
             g == [n \in 1..m |-> IF n = m THEN last ELSE h[n]]
  <2>2. \A n \in 1..m : n = m \/ n \in 1..(m - 1)
    OBVIOUS
  <2>3. \A n \in 1..(m - 1) :
          /\ g[n] = h[n]
          /\ h[n] = IF n = 1 THEN first ELSE HeadScan(h[n - 1], t[n - 1])
    BY <2>1
  <2>4. g[m] = last
    OBVIOUS
  <2>5. m # 1 => g[m - 1] = h[m - 1]
    BY <2>3
  <2>6. \A n \in 1..(m - 1) : n # 1 => g[n - 1] = h[n - 1]
    BY <2>3
  <2>7. g = [n \in 1..m |-> g[n]]
    OBVIOUS
  <2>8. \A n \in 1..m : g[n] = IF n = 1 THEN first ELSE HeadScan(g[n - 1], t[n - 1])
    <3> HIDE DEF g
    <3>1. QED
      BY <2>2, <2>3, <2>4, <2>5, <2>6
  <2>9. Upto(m, g)
    <3> HIDE DEF g
    <3>1. QED
      BY <2>7, <2>8
  <2>10. m \in 0..k
    OBVIOUS
  <2> HIDE DEF Upto, g
  <2>11. QED
    BY <2>9, <2>10
<1>3. Good = 0..k
  <2> HIDE DEF Good
  <2>1. QED
    BY <1>1, <1>2, UpTo
<1>4. \E h : Upto(k, h)
  <2> HIDE DEF Upto
  <2>1. k \in 0..k
    OBVIOUS
  <2>2. \A m \in 0..k : m \in Good
    <3> HIDE DEF Good
    <3>1. QED
      BY <1>3
  <2>3. QED
    BY <2>1, <2>2
<1>5. QED
  BY <1>0, <1>4 DEF HeadsAs, first

HeadsOf(h, t) ==
  {n \in DOMAIN t : IsHead(t[n]) /\ h[n].region = "code" /\ h[n].lineStart}

LEMMA HeadsIs ==
  ASSUME NEW t \in Texts, Readable("oracle", t)
  PROVE  \E h : /\ FirstHead(t) = IF HeadsOf(h, t) = {} THEN Len(t) + 1 ELSE Min(HeadsOf(h, t))
                /\ h[1].lineStart
                /\ \A n \in 1..Len(t) :
                     /\ h[n].region = Regions("oracle", t)[n]
                     /\ n # 1 /\ t[n - 1] = "newline" /\ h[n].region = "code" => h[n].lineStart
<1> DEFINE h == CHOOSE h : HeadsAs(h, t)
<1>1. PICK N \in Nat : N = Len(t) /\ DOMAIN t = 1..N
  BY DEF Texts
<1>2. FirstHead(t) = IF HeadsOf(h, t) = {} THEN Len(t) + 1 ELSE Min(HeadsOf(h, t))
  BY Zenon DEF FirstHead, HeadsAs, HeadsOf
<1>3. HeadsAs(h, t)
  BY HeadsExist, Zenon
<1> HIDE DEF h
<1>4. /\ h[1] = [region |-> "code", lineStart |-> TRUE]
      /\ \A n \in 1..N : h[n + 1] = HeadScan(h[n], t[n])
  <2>1. h[1] = [region |-> "code", lineStart |-> TRUE]
    BY <1>1, <1>3 DEF HeadsAs
  <2>2. ASSUME NEW n \in 1..N PROVE h[n + 1] = HeadScan(h[n], t[n])
    <3>1. n + 1 \in 1..(Len(t) + 1) /\ n + 1 # 1 /\ (n + 1) - 1 = n
      BY <1>1
    <3>2. h[n + 1] = HeadScan(h[(n + 1) - 1], t[(n + 1) - 1])
      BY <1>3, <3>1 DEF HeadsAs
    <3>3. QED
      BY <3>1, <3>2
  <2>3. QED
    BY <2>1, <2>2
<1>5. \A n \in 1..N : t[n] # "rem"
  <2>1. "rem" \notin ToSet(t)
    BY DEF Readable
  <2>2. QED
    BY <1>1, <2>1 DEF ToSet
<1>6. /\ Regions("oracle", t)[1] = "code"
      /\ \A n \in 1..N : Regions("oracle", t)[n + 1] = After("oracle", Regions("oracle", t)[n], t[n])
  BY <1>1, RegionsStep DEF Texts
<1> DEFINE Good == {n \in 0..N : h[n + 1] \in HeadStates
                                 /\ h[n + 1].region = Regions("oracle", t)[n + 1]}
<1>7. Good \in SUBSET (0..N) /\ 0 \in Good
  <2>1. 0 + 1 = 1 /\ 0 \in 0..N
    OBVIOUS
  <2>2. h[1] \in HeadStates /\ h[1].region = "code"
    BY <1>4 DEF HeadStates
  <2>3. QED
    BY <1>6, <2>1, <2>2
<1>8. ASSUME NEW n \in 1..N, n - 1 \in Good PROVE n \in Good
  <2>1. (n - 1) + 1 = n /\ n \in 0..N
    OBVIOUS
  <2>2. PICK s \in HeadStates : s = h[n] /\ s.region = Regions("oracle", t)[n]
    BY <1>8, <2>1
  <2>3. PICK m : m = t[n] /\ m # "rem"
    BY <1>5
  <2>4. HeadScan(s, m) \in HeadStates /\ HeadScan(s, m).region = After("oracle", s.region, m)
    BY <2>3, HeadStep
  <2>5. h[n + 1] = HeadScan(s, m)
    BY <1>4, <2>2, <2>3
  <2>6. Regions("oracle", t)[n + 1] = After("oracle", s.region, m)
    BY <1>6, <2>2, <2>3
  <2>7. QED
    BY <2>1, <2>4, <2>5, <2>6
<1>9. Good = 0..N
  <2> HIDE DEF Good
  <2>1. QED
    BY <1>7, <1>8, UpTo
<1>10. \A n \in 1..N : h[n] \in HeadStates /\ h[n].region = Regions("oracle", t)[n]
  <2> SUFFICES ASSUME NEW n \in 1..N
               PROVE  h[n] \in HeadStates /\ h[n].region = Regions("oracle", t)[n]
    OBVIOUS
  <2>1. n - 1 \in 0..N /\ (n - 1) + 1 = n
    OBVIOUS
  <2>2. n - 1 \in Good
    BY <1>9, <2>1
  <2>3. QED
    BY <2>1, <2>2
<1>11. ASSUME NEW n \in 1..N, n # 1, t[n - 1] = "newline", h[n].region = "code"
       PROVE  h[n].lineStart
  <2>1. n - 1 \in 1..N /\ (n - 1) + 1 = n
    BY <1>11
  <2>2. PICK s \in HeadStates : s = h[n - 1]
    BY <1>10, <2>1
  <2>3. PICK m : m = t[n - 1] /\ m # "rem" /\ m = "newline"
    BY <1>11
  <2>4. m = "newline" /\ HeadScan(s, m).region = "code" => HeadScan(s, m).lineStart
    BY <2>3, HeadStep
  <2>5. h[n] = HeadScan(s, m)
    BY <1>4, <2>1, <2>2, <2>3
  <2>6. QED
    BY <1>11, <2>3, <2>4, <2>5
<1>12. h[1].lineStart
  BY <1>4
<1>13. QED
  BY <1>1, <1>2, <1>10, <1>11, <1>12

(* The first head of a text that starts a line is the head of its first    *)
(* unit.                                                                   *)
NoHead(t, a, b) == \A n \in a..b : n \in OracleCode(t) => ~IsHead(t[n])

LEMMA FirstHeadIs ==
  ASSUME NEW t \in Texts, Readable("oracle", t),
         \A n \in 1..Len(t) : /\ n \in OracleCode(t) /\ IsHead(t[n]) /\ NoHead(t, 1, n - 1)
                              => n = 1 \/ t[n - 1] = "newline"
  PROVE  /\ FirstHead(t) \in 1..(Len(t) + 1)
         /\ NoHead(t, 1, FirstHead(t) - 1)
         /\ FirstHead(t) <= Len(t) => FirstHead(t) \in OracleCode(t) /\ IsHead(t[FirstHead(t)])
<1>1. PICK N \in Nat : N = Len(t) /\ DOMAIN t = 1..N
  BY DEF Texts
<1>2. PICK h : /\ FirstHead(t) = IF HeadsOf(h, t) = {} THEN N + 1 ELSE Min(HeadsOf(h, t))
               /\ h[1].lineStart
               /\ \A n \in 1..N :
                    /\ h[n].region = Regions("oracle", t)[n]
                    /\ n # 1 /\ t[n - 1] = "newline" /\ h[n].region = "code" => h[n].lineStart
  BY <1>1, HeadsIs
<1> DEFINE H == HeadsOf(h, t)
           A == {n \in 1..N : n \in OracleCode(t) /\ IsHead(t[n])}
<1>3. \A n \in H : n \in A
  BY <1>1, <1>2 DEF HeadsOf, OracleCode, InCodeAt
<1>4. \A n \in 1..N : n \in OracleCode(t) /\ IsHead(t[n]) /\ NoHead(t, 1, n - 1) => n \in H
  <2> SUFFICES ASSUME NEW n \in 1..N, n \in OracleCode(t), IsHead(t[n]), NoHead(t, 1, n - 1)
               PROVE  n \in H
    OBVIOUS
  <2>1. n = 1 \/ t[n - 1] = "newline"
    BY <1>1
  <2>2. h[n].region = "code"
    BY <1>1, <1>2 DEF OracleCode, InCodeAt
  <2>3. h[n].lineStart
    BY <1>2, <2>1, <2>2
  <2>4. QED
    BY <1>1, <2>2, <2>3, Zenon DEF HeadsOf
<1> HIDE DEF H
<1>5. A \in SUBSET Nat
  OBVIOUS
<1>6. A # {} => Min(A) \in H /\ Min(A) \in A /\ \A n \in A : Min(A) <= n
  <2> SUFFICES ASSUME A # {} PROVE Min(A) \in H /\ Min(A) \in A /\ \A n \in A : Min(A) <= n
    OBVIOUS
  <2> HIDE DEF A
  <2>1. Min(A) \in A /\ \A n \in A : Min(A) <= n
    BY <1>5, MinIsLeast
  <2>2. PICK m \in 1..N : m = Min(A) /\ m \in OracleCode(t) /\ IsHead(t[m])
    BY <2>1 DEF A
  <2>3. NoHead(t, 1, m - 1)
    <3> SUFFICES ASSUME NEW n \in 1..(m - 1), n \in OracleCode(t), IsHead(t[n]) PROVE FALSE
      BY DEF NoHead
    <3>1. n \in 1..N
      OBVIOUS
    <3>2. n \in A
      BY <3>1 DEF A
    <3>3. m <= n
      BY <2>1, <2>2, <3>2
    <3>4. QED
      BY <3>3
  <2>4. QED
    BY <1>4, <2>1, <2>2, <2>3
<1>7. CASE H = {}
  <2>1. A = {} /\ FirstHead(t) = N + 1
    BY <1>2, <1>6, <1>7 DEF H
  <2>2. NoHead(t, 1, N)
    BY <2>1 DEF NoHead
  <2>3. (N + 1) - 1 = N /\ N + 1 \in 1..(N + 1) /\ ~(N + 1 <= N)
    OBVIOUS
  <2>4. QED
    BY <1>1, <2>1, <2>2, <2>3
<1>8. CASE H # {}
  <2>1. H \in SUBSET Nat /\ A # {}
    BY <1>3, <1>5, <1>8
  <2>2. Min(H) \in H /\ \A n \in H : Min(H) <= n
    BY <1>8, <2>1, MinIsLeast
  <2>3. PICK m \in 1..N : m = FirstHead(t) /\ m \in A /\ m \in H /\ m <= Min(A)
    BY <1>2, <1>3, <1>6, <1>8, <2>1, <2>2 DEF H
  <2>4. NoHead(t, 1, m - 1)
    <3> SUFFICES ASSUME NEW n \in 1..(m - 1), n \in OracleCode(t), IsHead(t[n]) PROVE FALSE
      BY DEF NoHead
    <3>1. n \in A
      OBVIOUS
    <3>2. Min(A) <= n /\ Min(A) \in 1..N
      <4> HIDE DEF A
      <4>1. Min(A) \in A /\ \A j \in A : Min(A) <= j
        BY <1>6, <2>1
      <4>2. QED
        BY <3>1, <4>1 DEF A
    <3>3. QED
      BY <2>3, <3>2
  <2>5. QED
    BY <1>1, <2>3, <2>4
<1>9. QED
  BY <1>7, <1>8

(* A block of a script: the positions of its text are those of the script. *)
LEMMA BlockText ==
  ASSUME NEW t \in Texts, NEW a \in 1..(Len(t) + 1), NEW b \in (a - 1)..Len(t),
         Regions("oracle", t)[a] = "code"
  PROVE  /\ SubSeq(t, a, b) \in Texts /\ Len(SubSeq(t, a, b)) = b - a + 1
         /\ \A n \in 1..(b - a + 1) :
              /\ SubSeq(t, a, b)[n] = t[a - 1 + n]
              /\ n \in OracleCode(SubSeq(t, a, b)) <=> a - 1 + n \in OracleCode(t)
              /\ a - 1 + n \in 1..Len(t) /\ a - 1 + n \in a..b
<1> DEFINE x == SubSeq(t, a, b)
<1>1. PICK N \in Nat : N = Len(t) /\ DOMAIN t = 1..N
  BY DEF Texts
<1>2. PICK K \in Nat : K = b - a + 1
  BY <1>1
<1>3. /\ x \in Texts /\ Len(x) = K /\ DOMAIN x = 1..K
      /\ \A n \in 1..K : x[n] = t[a - 1 + n]
      /\ \A n \in 1..K : Regions("oracle", x)[n] = Regions("oracle", t)[a - 1 + n]
  <2>1. /\ x \in Seq(Marks) /\ Len(x) = b - a + 1
        /\ \A n \in 1..(b - a + 1) : x[n] = t[a - 1 + n]
        /\ \A n \in 1..(b - a + 2) : Regions("oracle", x)[n] = Regions("oracle", t)[a - 1 + n]
    BY PartRegions, SMTT(60) DEF Texts
  <2>2. \A n \in 1..K : n \in 1..(b - a + 2)
    BY <1>1, <1>2
  <2> HIDE DEF x
  <2>3. QED
    BY <1>2, <2>1, <2>2 DEF Texts
<1>4. \A n \in 1..K : a - 1 + n \in 1..N /\ a - 1 + n \in a..b
  BY <1>1, <1>2
<1> HIDE DEF x
<1>5. \A n \in 1..K : n \in OracleCode(x) <=> a - 1 + n \in OracleCode(t)
  <2> SUFFICES ASSUME NEW n \in 1..K PROVE n \in OracleCode(x) <=> a - 1 + n \in OracleCode(t)
    OBVIOUS
  <2>1. PICK m \in 1..N : m = a - 1 + n
    BY <1>4
  <2>2. n \in OracleCode(x) <=> Regions("oracle", x)[n] = "code"
    BY <1>3 DEF OracleCode, InCodeAt
  <2>3. m \in OracleCode(t) <=> Regions("oracle", t)[m] = "code"
    BY <1>1 DEF OracleCode, InCodeAt
  <2>4. QED
    BY <1>3, <2>1, <2>2, <2>3
<1>6. QED
  BY <1>1, <1>2, <1>3, <1>4, <1>5 DEF x

SameSeparators(t, a, b, Sx) ==
  /\ Sx \in SUBSET (1..(b - a + 1))
  /\ \A n \in 1..(b - a + 1) : n \in Sx <=> a - 1 + n \in Separators("oracle", t)

(* A newline separates nothing.                                            *)
LEMMA NewlinesSeparateNothing ==
  ASSUME NEW t \in Texts, Splittable("oracle", t), NEW n \in 1..Len(t), t[n] = "newline"
  PROVE  n \notin Separators("oracle", t)
BY OracleSeparators

LEMMA BlockPart ==
  ASSUME NEW t \in Texts, Splittable("oracle", t),
         NEW a \in 1..(Len(t) + 1), NEW b \in (a - 1)..Len(t),
         PieceAt("oracle", t, {"slash"}, a, b),
         NEW a1 \in 1..(Len(t) + 1), NEW b1 \in 0..Len(t), BlockOf(t, a, b, a1, b1),
         NEW q \in (a1 - 1)..b1, NEW Sx, SameSeparators(t, a1, q, Sx)
  PROVE  PartOf("oracle", t, Separators("oracle", t), a, a1, q, Sx)
<1> DEFINE S == Separators("oracle", t)
<1>1. PICK N \in Nat : N = Len(t)
  BY DEF Texts
<1>2. a = 1 \/ a - 1 \in S
  <2>1. a = 1 \/ (a - 1 \in 1..Len(t) /\ t[a - 1] = "slash")
    BY DEF PieceAt
  <2>2. \A n \in 1..Len(t) : t[n] = "slash" => n \in S
    BY OracleSeparators
  <2>3. QED
    BY <2>1, <2>2
<1>3. \A n \in a..(a1 - 1) : n \notin S
  <2> SUFFICES ASSUME NEW n \in a..(a1 - 1) PROVE n \notin S
    OBVIOUS
  <2>1. n \in 1..Len(t) /\ t[n] = "newline"
    BY <1>1 DEF BlockOf
  <2>2. QED
    BY <2>1, NewlinesSeparateNothing
<1>4. QED
  BY <1>2, <1>3 DEF PartOf, BlockOf, PieceAt, SameSeparators

(* A block whose separators are known sends its statements.                *)
LEMMA BlockJoins ==
  ASSUME NEW t \in Texts, Splittable("oracle", t),
         NEW a \in 1..(Len(t) + 1), NEW b \in (a - 1)..Len(t),
         PieceAt("oracle", t, {"slash"}, a, b),
         NEW a1 \in 1..(Len(t) + 1), NEW b1 \in 0..Len(t), BlockOf(t, a, b, a1, b1),
         NEW Sx, SameSeparators(t, a1, b1, Sx)
  PROVE  Joined(SentAt("oracle", t, Separators("oracle", t)), b + 1)
           = Glue(Joined(SentAt("oracle", t, Separators("oracle", t)), a - 1),
                  StatementsBetween("oracle", SubSeq(t, a1, b1), Sx))
<1>1. PICK N \in Nat : N = Len(t)
  BY DEF Texts
<1>2. a1 \in a..(Len(t) + 1) /\ b1 \in (a1 - 1)..Len(t) /\ b \in b1..Len(t)
  BY DEF BlockOf
<1>3. PICK S \in SUBSET (1..Len(t)) : S = Separators("oracle", t)
  BY OracleSeparators
<1>4. PartOf("oracle", t, S, a, a1, b1, Sx)
  <2>1. b1 \in (a1 - 1)..b1
    BY <1>1, <1>2
  <2>2. QED
    BY <1>3, <2>1, BlockPart
<1>5. \A n \in (b1 + 1)..b : n \notin S
  <2> SUFFICES ASSUME NEW n \in (b1 + 1)..b PROVE n \notin S
    OBVIOUS
  <2>1. n \in 1..Len(t) /\ t[n] = "newline"
    BY <1>1 DEF BlockOf
  <2>2. QED
    BY <1>3, <2>1, NewlinesSeparateNothing
<1>6. b = Len(t) \/ b + 1 \in S
  <2>1. b = Len(t) \/ (b + 1 \in 1..Len(t) /\ t[b + 1] = "slash")
    BY DEF PieceAt
  <2>2. \A n \in 1..Len(t) : t[n] = "slash" => n \in S
    BY <1>3, OracleSeparators
  <2>3. QED
    BY <2>1, <2>2
<1>7. \A n \in S : Regions("oracle", t)[n + 1] = "code"
  BY <1>3, OracleSeparators
<1>8. NothingIn(KeptAt("oracle", t), b1 + 1, b)
  BY DEF BlockOf
<1>9. Joined(SentAt("oracle", t, S), b + 1)
        = Glue(Joined(SentAt("oracle", t, S), a - 1),
               StatementsBetween("oracle", SubSeq(t, a1, b1), Sx))
  BY <1>2, <1>3, <1>4, <1>5, <1>6, <1>7, <1>8, PartSends, SMTT(60)
<1>10. QED
  BY <1>3, <1>9

BlockSent(t, a, b, x) ==
  LET X == SentAt("oracle", t, Separators("oracle", t))
  IN /\ OracleBlock(x) \in Seq(FineChunk("oracle"))
     /\ Joined(X, b + 1) = Glue(Joined(X, a - 1), SendsOf("oracle", OracleBlock(x)))

StartsWithHead(x) == TriviaEnd(x) <= Len(x) /\ IsHead(x[TriviaEnd(x)])

LEMMA UnitBlock ==
  ASSUME NEW t \in Texts, Splittable("oracle", t),
         NEW a \in 1..(Len(t) + 1), NEW b \in (a - 1)..Len(t),
         PieceAt("oracle", t, {"slash"}, a, b),
         NEW a1 \in 1..(Len(t) + 1), NEW b1 \in 0..Len(t), BlockOf(t, a, b, a1, b1),
         StartsWithHead(SubSeq(t, a1, b1))
  PROVE  BlockSent(t, a, b, SubSeq(t, a1, b1))
<1> DEFINE d == "oracle"
           x == SubSeq(t, a1, b1)
           S == Separators(d, t)
<1>1. PICK N \in Nat : N = Len(t)
  BY DEF Texts
<1>2. a1 \in a..(Len(t) + 1) /\ b1 \in (a1 - 1)..Len(t) /\ b \in b1..Len(t)
      /\ Regions(d, t)[a1] = "code" /\ Regions(d, t)[b1 + 1] \in Ended
  BY DEF BlockOf
<1>3. PICK K \in Nat : K = b1 - a1 + 1
  BY <1>1, <1>2
<1>4. /\ x \in Texts /\ Len(x) = K
      /\ \A n \in 1..K :
           /\ x[n] = t[a1 - 1 + n]
           /\ n \in OracleCode(x) <=> a1 - 1 + n \in OracleCode(t)
           /\ a1 - 1 + n \in 1..N
  BY <1>1, <1>2, <1>3, BlockText
<1> HIDE DEF x
<1>5. PICK c \in 1..K : c = TriviaEnd(x) /\ IsHead(x[c]) /\ c \in OracleCode(x)
                        /\ NothingIn(KeptAt(d, x), 1, c - 1)
  <2>1. /\ TriviaEnd(x) \in 1..(Len(x) + 1)
        /\ NothingIn(KeptAt(d, x), 1, TriviaEnd(x) - 1)
        /\ TriviaEnd(x) <= Len(x) => Regions(d, x)[TriviaEnd(x)] = "code"
    BY <1>4, TriviaIs
  <2>2. TriviaEnd(x) <= Len(x) /\ IsHead(x[TriviaEnd(x)])
    BY DEF StartsWithHead, x
  <2>3. PICK c \in 1..K : c = TriviaEnd(x)
    BY <1>4, <2>1, <2>2
  <2>4. c \in OracleCode(x)
    <3>1. DOMAIN x = 1..K
      BY <1>4 DEF Texts
    <3>2. QED
      BY <2>1, <2>2, <2>3, <3>1 DEF OracleCode, InCodeAt
  <2>5. QED
    BY <2>1, <2>2, <2>3, <2>4
<1>6. ASSUME NEW n \in 1..K PROVE a1 - 1 + n \notin S
  <2> SUFFICES ASSUME a1 - 1 + n \in S PROVE FALSE
    OBVIOUS
  <2>1. PICK n0 \in 1..N : n0 = a1 - 1 + n
    BY <1>4
  <2>2. n0 \in a..b /\ t[n0] # "slash"
    <3>1. n0 \in a..b
      BY <1>1, <1>2, <1>3, <2>1
    <3>2. QED
      BY <3>1 DEF PieceAt
  <2>3. n0 \in Semis(d, t) /\ ~InUnit(t, OracleCode(t), n0)
    BY <1>1, <2>1, <2>2, OracleSeparators
  <2>4. n0 \in OracleCode(t) /\ t[n0] = "semi"
    BY <2>3, OracleSeparators
  <2>5. n \in OracleCode(x) /\ x[n] = "semi"
    BY <1>4, <2>1, <2>4
  <2>6. n # c
    BY <1>5, <2>5 DEF IsHead
  <2>7. ~(n < c)
    <3> SUFFICES ASSUME n < c PROVE FALSE
      OBVIOUS
    <3>1. KeptAt(d, x)[n] = <<>>
      BY <1>5 DEF NothingIn
    <3>2. KeptAt(d, x)[n] = IF Reaches(Regions(d, x)[n], x[n]) THEN <<x[n]>> ELSE <<>>
      BY <1>4, CodeIs DEF Texts
    <3>3. Reaches(Regions(d, x)[n], x[n])
      BY <2>5 DEF OracleCode, InCodeAt, Reaches
    <3>4. \A z : <<z>> # <<>>
      OBVIOUS
    <3>5. KeptAt(d, x)[n] = <<x[n]>>
      BY <3>2, <3>3
    <3>6. QED
      BY <3>1, <3>4, <3>5
  <2>8. a1 - 1 + c \in a..(n0 - 1) /\ a1 - 1 + c \in OracleCode(t) /\ IsHead(t[a1 - 1 + c])
    <3>1. a1 - 1 + c \in a..(n0 - 1)
      BY <1>1, <1>2, <2>1, <2>6, <2>7
    <3>2. QED
      BY <1>4, <1>5, <3>1
  <2>9. InUnit(t, OracleCode(t), n0)
    BY <2>2, <2>8, OracleUnits
  <2>10. QED
    BY <2>3, <2>9
<1>7. SameSeparators(t, a1, b1, {})
  BY <1>3, <1>6 DEF SameSeparators
<1>8. Joined(SentAt(d, t, S), b + 1) = Glue(Joined(SentAt(d, t, S), a - 1), Sent(d, x))
  <2>1. StatementsBetween(d, x, {}) = Sent(d, x)
    BY <1>4, WholeSends
  <2>2. Joined(SentAt(d, t, S), b + 1)
          = Glue(Joined(SentAt(d, t, S), a - 1), StatementsBetween(d, SubSeq(t, a1, b1), {}))
    BY <1>7, BlockJoins
  <2>3. QED
    BY <2>1, <2>2 DEF x
<1>9. OracleBlock(x) = <<Whole(x)>>
  BY <1>4, <1>5 DEF OracleBlock
<1>10. Whole(x) \in FineChunk(d) /\ ChunkSends(d, Whole(x)) = Sent(d, x)
  BY <1>2, PartIsChunk DEF x
<1>11. QED
  BY <1>8, <1>9, <1>10, SendsOfOne DEF BlockSent, x

(* The first head of a block starts a unit.                                *)
HeadAt(t, h) ==
  h \in OracleCode(t) /\ IsHead(t[h]) /\ UnitStarts(t, OracleCode(t), h)

LEMMA BlockReadable ==
  ASSUME NEW t \in Texts, Splittable("oracle", t),
         NEW a \in 1..(Len(t) + 1), NEW b \in (a - 1)..Len(t)
  PROVE  SubSeq(t, a, b) \in Seq(Marks) /\ Readable("oracle", SubSeq(t, a, b))
<1> DEFINE x == SubSeq(t, a, b)
<1>1. Within(x, t)
  <2>1. b \in 0..Len(t) /\ t \in Seq(Marks)
    BY DEF Texts
  <2>2. QED
    BY <2>1, SliceWithin
<1>2. Readable("oracle", t) /\ "oracle" # "postgresql" /\ t \in Seq(Marks)
  BY DEF Splittable, Texts
<1> HIDE DEF x
<1>3. x \in Seq(Marks) /\ Readable("oracle", x)
  BY <1>1, <1>2, PartReadable
<1>4. QED
  BY <1>3 DEF x

LEMMA FirstOfPiece ==
  ASSUME NEW t \in Texts, Splittable("oracle", t),
         NEW a \in 1..(Len(t) + 1), NEW b \in (a - 1)..Len(t),
         PieceAt("oracle", t, {"slash"}, a, b),
         NEW n \in a..b, n \in OracleCode(t), IsHead(t[n]), NoHead(t, a, n - 1)
  PROVE  UnitStarts(t, OracleCode(t), n)
<1>1. ~InUnit(t, OracleCode(t), n)
  <2>1. ~\E h \in a..(n - 1) : h \in OracleCode(t) /\ IsHead(t[h])
    BY DEF NoHead
  <2>2. QED
    BY <2>1, OracleUnits
<1>2. QED
  BY <1>1 DEF Splittable, OracleCode

LEMMA BlockHead ==
  ASSUME NEW t \in Texts, Splittable("oracle", t),
         NEW a \in 1..(Len(t) + 1), NEW b \in (a - 1)..Len(t),
         PieceAt("oracle", t, {"slash"}, a, b),
         NEW a1 \in 1..(Len(t) + 1), NEW b1 \in 0..Len(t), BlockOf(t, a, b, a1, b1)
  PROVE  \E h \in a1..(b1 + 1) :
           /\ FirstHead(SubSeq(t, a1, b1)) = h - (a1 - 1)
           /\ NoHead(t, a, h - 1)
           /\ h <= b1 => HeadAt(t, h)
<1> DEFINE d == "oracle"
           x == SubSeq(t, a1, b1)
<1>1. PICK N \in Nat : N = Len(t)
  BY DEF Texts
<1>2. a1 \in a..(Len(t) + 1) /\ b1 \in (a1 - 1)..Len(t) /\ b \in b1..Len(t)
      /\ Regions(d, t)[a1] = "code" /\ \A n \in a..(a1 - 1) : t[n] = "newline"
  BY DEF BlockOf
<1>3. PICK K \in Nat : K = b1 - a1 + 1
  BY <1>1, <1>2
<1>4. /\ x \in Texts /\ Len(x) = K
      /\ \A n \in 1..K :
           /\ x[n] = t[a1 - 1 + n]
           /\ n \in OracleCode(x) <=> a1 - 1 + n \in OracleCode(t)
           /\ a1 - 1 + n \in 1..N
  BY <1>1, <1>2, <1>3, BlockText
<1>5. Readable("oracle", x)
  BY <1>2, BlockReadable
<1> HIDE DEF x
<1>6. ASSUME NEW n \in 1..(K + 1), NoHead(x, 1, n - 1) PROVE NoHead(t, a, (a1 - 1 + n) - 1)
  <2> SUFFICES ASSUME NEW m \in a..((a1 - 1 + n) - 1), m \in OracleCode(t), IsHead(t[m]) PROVE FALSE
    BY DEF NoHead
  <2>1. CASE m < a1
    <3>1. m \in a..(a1 - 1)
      BY <1>1, <1>2, <2>1
    <3>2. t[m] = "newline"
      BY <1>2, <3>1
    <3>3. QED
      BY <3>2 DEF IsHead
  <2>2. CASE ~(m < a1)
    <3>1. PICK k \in 1..(n - 1) : k = m - (a1 - 1) /\ m = a1 - 1 + k /\ k \in 1..K
      BY <1>1, <1>2, <1>3, <2>2
    <3>2. k \in OracleCode(x) /\ IsHead(x[k])
      BY <1>4, <3>1
    <3>3. QED
      BY <1>6, <3>1, <3>2 DEF NoHead
  <2>3. QED
    BY <2>1, <2>2
<1>7. ASSUME NEW n \in 1..K, n \in OracleCode(x), IsHead(x[n]), NoHead(x, 1, n - 1)
      PROVE  HeadAt(t, a1 - 1 + n) /\ (n = 1 \/ x[n - 1] = "newline")
  <2>1. PICK h \in a..b : h = a1 - 1 + n
    BY <1>1, <1>2, <1>3
  <2>2. h \in OracleCode(t) /\ IsHead(t[h])
    BY <1>4, <1>7, <2>1
  <2>3. NoHead(t, a, h - 1)
    <3>1. n \in 1..(K + 1)
      BY <1>3
    <3>2. NoHead(t, a, (a1 - 1 + n) - 1)
      BY <1>6, <1>7, <3>1
    <3>3. QED
      BY <2>1, <3>2
  <2>4. UnitStarts(t, OracleCode(t), h)
    BY <2>1, <2>2, <2>3, FirstOfPiece
  <2>5. h = 1 \/ t[h - 1] = "newline"
    BY <2>4 DEF UnitStarts
  <2>6. h = 1 => n = 1
    BY <1>1, <1>2, <2>1
  <2>7. n # 1 => n - 1 \in 1..K /\ a1 - 1 + (n - 1) = h - 1
    BY <1>1, <1>2, <2>1
  <2>8. n # 1 => x[n - 1] = t[h - 1]
    BY <1>4, <2>7
  <2>9. n = 1 \/ x[n - 1] = "newline"
    BY <2>5, <2>6, <2>8
  <2>10. QED
    BY <2>1, <2>2, <2>4, <2>9 DEF HeadAt
<1>8. /\ FirstHead(x) \in 1..(K + 1)
      /\ NoHead(x, 1, FirstHead(x) - 1)
      /\ FirstHead(x) <= K => FirstHead(x) \in OracleCode(x) /\ IsHead(x[FirstHead(x)])
  <2>1. \A n \in 1..Len(x) : /\ n \in OracleCode(x) /\ IsHead(x[n]) /\ NoHead(x, 1, n - 1)
                             => n = 1 \/ x[n - 1] = "newline"
    BY <1>4, <1>7
  <2>2. QED
    BY <1>4, <1>5, <2>1, FirstHeadIs
<1>9. PICK f \in 1..(K + 1) : f = FirstHead(x)
  BY <1>8
<1>10. PICK h \in a1..(b1 + 1) : h = a1 - 1 + f /\ f = h - (a1 - 1) /\ (h <= b1 <=> f <= K)
  <2>1. /\ a1 - 1 + f \in a1..(b1 + 1) /\ f = (a1 - 1 + f) - (a1 - 1)
        /\ a1 - 1 + f <= b1 <=> f <= K
    BY <1>1, <1>2, <1>3
  <2>2. QED
    BY <2>1
<1>11. NoHead(t, a, h - 1)
  BY <1>6, <1>8, <1>9, <1>10
<1>12. h <= b1 => HeadAt(t, h)
  <2> SUFFICES ASSUME h <= b1 PROVE HeadAt(t, h)
    OBVIOUS
  <2>1. f \in 1..K
    BY <1>9, <1>10
  <2>2. f \in OracleCode(x) /\ IsHead(x[f]) /\ NoHead(x, 1, f - 1)
    BY <1>8, <1>9, <2>1
  <2>3. QED
    BY <1>7, <1>10, <2>1, <2>2
<1>13. QED
  BY <1>9, <1>10, <1>11, <1>12 DEF x

(* What stands before the first head of a block is scanned.                *)
LEMMA DdlScans ==
  ASSUME NEW t \in Texts, Splittable("oracle", t),
         NEW a \in 1..(Len(t) + 1), NEW b \in (a - 1)..Len(t),
         PieceAt("oracle", t, {"slash"}, a, b),
         NEW a1 \in 1..(Len(t) + 1), NEW b1 \in 0..Len(t), BlockOf(t, a, b, a1, b1),
         NEW q \in (a1 - 1)..b1, NoHead(t, a, q), Regions("oracle", t)[q + 1] \in Ended,
         NEW c, Followed("oracle", t, q, c)
  PROVE  /\ Scanned(SubSeq(t, a1, q)) \in FineChunk("oracle")
         /\ ChunkSends("oracle", Scanned(SubSeq(t, a1, q)))
              = StatementsBetween("oracle", SubSeq(t, a1, q), Semis("oracle", SubSeq(t, a1, q)))
         /\ SameSeparators(t, a1, q, Semis("oracle", SubSeq(t, a1, q)))
<1> DEFINE d == "oracle"
           S == Separators(d, t)
           x == SubSeq(t, a1, q)
<1>1. PICK N \in Nat : N = Len(t)
  BY DEF Texts
<1>2. a1 \in a..(Len(t) + 1) /\ b1 \in (a1 - 1)..Len(t) /\ b \in b1..Len(t)
      /\ Regions(d, t)[a1] = "code" /\ Depth(t, InCodeAt(d, t))[a1 - 1] = 0
      /\ (a1 = 1 \/ t[a1 - 1] # "end")
  BY DEF BlockOf, OracleCode
<1>3. \A n \in a1..q : n \in 1..N /\ n \in a..b
  BY <1>1, <1>2
<1>4. \A n \in a1..q : ~InUnit(t, OracleCode(t), n)
  <2> SUFFICES ASSUME NEW n \in a1..q PROVE ~InUnit(t, OracleCode(t), n)
    OBVIOUS
  <2>1. \A h \in a..(n - 1) : h \in a..q
    BY <1>1, <1>2
  <2>2. ~\E h \in a..(n - 1) : h \in OracleCode(t) /\ IsHead(t[h])
    BY <2>1 DEF NoHead
  <2>3. QED
    BY <1>3, <2>2, OracleUnits
<1>5. \A n \in a1..q : n \in S <=> n \in Semis(d, t)
  <2> SUFFICES ASSUME NEW n \in a1..q PROVE n \in S <=> n \in Semis(d, t)
    OBVIOUS
  <2>1. t[n] # "slash"
    BY <1>3 DEF PieceAt
  <2>2. QED
    BY <1>1, <1>3, <1>4, <2>1, OracleSeparators
<1>6. \A n \in a1..q : n \in InCodeAt(d, t) /\ OpensCase(t, n) => FlatCase(t, InCodeAt(d, t), n)
  <2> SUFFICES ASSUME NEW n \in a1..q, n \in InCodeAt(d, t), OpensCase(t, n)
               PROVE  FlatCase(t, InCodeAt(d, t), n)
    OBVIOUS
  <2>1. SemicolonsSplit(d, t, InCodeAt(d, t), n)
    BY <1>4 DEF SemicolonsSplit, OracleCode
  <2>2. QED
    BY <2>1 DEF Splittable
<1>7. ScansTo(d, t, S, a1, q, c)
  BY <1>2, <1>5, <1>6 DEF ScansTo
<1>8. q \in (a1 - 1)..Len(t)
  BY <1>1, <1>2
<1>9. Readable(d, x)
  BY <1>8, BlockReadable
<1>10. /\ Scanned(x) \in FineChunk(d)
       /\ ChunkSends(d, Scanned(x)) = StatementsBetween(d, x, Semis(d, x))
       /\ Semis(d, x) \in SUBSET (1..(q - a1 + 1))
       /\ \A n \in 1..(q - a1 + 1) : n \in Semis(d, x) <=> a1 - 1 + n \in S
  BY <1>7, <1>8, <1>9, ScannedPart
<1>11. QED
  BY <1>10 DEF SameSeparators

LEMMA SendsOfTwo ==
  ASSUME NEW d, NEW c1 \in FineChunk(d), NEW c2 \in FineChunk(d)
  PROVE  /\ <<c1, c2>> \in Seq(FineChunk(d))
         /\ SendsOf(d, <<c1, c2>>) = Glue(ChunkSends(d, c1), ChunkSends(d, c2))
<1>1. PICK xs, ys : xs = <<c1>> /\ ys = <<c2>>
  OBVIOUS
<1>2. xs \in Seq(FineChunk(d)) /\ ys \in Seq(FineChunk(d))
      /\ SendsOf(d, xs) = ChunkSends(d, c1) /\ SendsOf(d, ys) = ChunkSends(d, c2)
  BY <1>1, SendsOfOne
<1>3. Glue(xs, ys) \in Seq(FineChunk(d))
      /\ SendsOf(d, Glue(xs, ys)) = Glue(SendsOf(d, xs), SendsOf(d, ys))
  BY <1>2, SendsOfGlue
<1>4. Glue(xs, ys) = <<c1, c2>>
  <2>1. PICK S : S = {c1, c2}
    OBVIOUS
  <2>2. xs \in Seq(S) /\ Len(xs) = 1 /\ xs[1] = c1 /\ ys \in Seq(S) /\ Len(ys) = 1 /\ ys[1] = c2
    BY <1>1, <2>1
  <2>3. PICK zs : zs = xs \o ys
    OBVIOUS
  <2>4. /\ zs \in Seq(S)
        /\ Len(zs) = Len(xs) + Len(ys)
        /\ \A i \in 1..(Len(xs) + Len(ys)) :
             zs[i] = IF i <= Len(xs) THEN xs[i] ELSE ys[i - Len(xs)]
    BY <2>2, <2>3, ConcatProperties
  <2>5. Len(zs) = 2 /\ zs[1] = c1 /\ zs[2] = c2
    BY <2>2, <2>4
  <2>6. PICK us : us = <<c1, c2>>
    OBVIOUS
  <2>7. us \in Seq(S) /\ Len(us) = 2 /\ us[1] = c1 /\ us[2] = c2
    BY <2>1, <2>6
  <2>8. zs = us
    <3>1. \A i \in 1..2 : zs[i] = us[i]
      BY <2>5, <2>7
    <3>2. QED
      BY <2>4, <2>5, <2>7, <3>1, SeqEqual
  <2>9. QED
    BY <2>3, <2>6, <2>8 DEF Glue
<1>5. QED
  BY <1>2, <1>3, <1>4

(* A block with no unit at its start is cut at its first head.             *)
LEMMA BlockCut ==
  ASSUME NEW t \in Texts, NEW a1 \in 1..(Len(t) + 1), NEW b1 \in (a1 - 1)..Len(t),
         Regions("oracle", t)[a1] = "code",
         NEW h \in a1..(b1 + 1), FirstHead(SubSeq(t, a1, b1)) = h - (a1 - 1),
         ~StartsWithHead(SubSeq(t, a1, b1))
  PROVE  OracleBlock(SubSeq(t, a1, b1)) = <<Scanned(SubSeq(t, a1, h - 1)), Whole(SubSeq(t, h, b1))>>
<1> DEFINE x == SubSeq(t, a1, b1)
<1>1. PICK N \in Nat : N = Len(t)
  BY DEF Texts
<1>2. PICK K \in Nat : K = b1 - a1 + 1
  BY <1>1
<1>3. x \in Texts /\ Len(x) = K
  BY <1>2, BlockText
<1>4. PICK f \in 1..(K + 1) : f = h - (a1 - 1) /\ h = a1 - 1 + f
  BY <1>1, <1>2
<1>5. SubSeq(x, 1, f - 1) = SubSeq(t, a1, h - 1)
  <2>1. PICK p \in 1..(b1 - a1 + 2), q \in 0..(b1 - a1 + 1) : p = 1 /\ q = f - 1
    BY <1>1, <1>2
  <2>2. q \in (p - 1)..(b1 - a1 + 1) /\ a1 - 1 + p = a1 /\ a1 - 1 + q = h - 1
    BY <1>1, <1>2, <1>4, <2>1
  <2>3. SubSeq(x, p, q) = SubSeq(t, a1 - 1 + p, a1 - 1 + q)
    BY <2>1, <2>2, PartOfPart DEF Texts
  <2>4. QED
    BY <2>1, <2>2, <2>3
<1>6. SubSeq(x, f, K) = SubSeq(t, h, b1)
  <2>1. PICK p \in 1..(b1 - a1 + 2), q \in 0..(b1 - a1 + 1) : p = f /\ q = K
    BY <1>1, <1>2
  <2>2. q \in (p - 1)..(b1 - a1 + 1) /\ a1 - 1 + p = h /\ a1 - 1 + q = b1
    BY <1>1, <1>2, <1>4, <2>1
  <2>3. SubSeq(x, p, q) = SubSeq(t, a1 - 1 + p, a1 - 1 + q)
    BY <2>1, <2>2, PartOfPart DEF Texts
  <2>4. QED
    BY <2>1, <2>2, <2>3
<1>7. FirstHead(x) = f /\ ~(TriviaEnd(x) <= Len(x) /\ IsHead(x[TriviaEnd(x)]))
  BY <1>4 DEF StartsWithHead
<1> HIDE DEF x
<1>8. OracleBlock(x) = <<Scanned(SubSeq(x, 1, f - 1)), Whole(SubSeq(x, f, K))>>
  BY <1>3, <1>7 DEF OracleBlock
<1>9. QED
  BY <1>5, <1>6, <1>8 DEF x

LEMMA PlainBlock ==
  ASSUME NEW t \in Texts, Splittable("oracle", t),
         NEW a \in 1..(Len(t) + 1), NEW b \in (a - 1)..Len(t),
         PieceAt("oracle", t, {"slash"}, a, b),
         NEW a1 \in 1..(Len(t) + 1), NEW b1 \in 0..Len(t), BlockOf(t, a, b, a1, b1),
         FirstHead(SubSeq(t, a1, b1)) = (b1 + 1) - (a1 - 1), NoHead(t, a, b1),
         ~StartsWithHead(SubSeq(t, a1, b1))
  PROVE  BlockSent(t, a, b, SubSeq(t, a1, b1))
<1> DEFINE d == "oracle"
           x == SubSeq(t, a1, b1)
           X == SentAt(d, t, Separators(d, t))
<1>1. PICK N \in Nat : N = Len(t)
  BY DEF Texts
<1>2. a1 \in a..(Len(t) + 1) /\ b1 \in (a1 - 1)..Len(t) /\ b \in b1..Len(t)
      /\ Regions(d, t)[a1] = "code" /\ Regions(d, t)[b1 + 1] \in Ended
      /\ \A n \in (b1 + 1)..b : t[n] = "newline"
  BY DEF BlockOf
<1>3. Followed(d, t, b1, b)
  <2>1. b = N \/ (b + 1 \in 1..N /\ t[b + 1] = "slash")
    BY <1>1 DEF PieceAt
  <2>2. \A n \in 1..N : t[n] = "slash" => n \in InCodeAt(d, t)
    BY <1>1, OracleSeparators DEF OracleCode
  <2>3. QED
    BY <1>1, <1>2, <2>1, <2>2 DEF Followed, Directives
<1>4. PICK h \in a1..(b1 + 1) : h = b1 + 1 /\ h - 1 = b1
  BY <1>1, <1>2
<1>5. OracleBlock(x) = <<Scanned(x), Whole(SubSeq(t, h, b1))>>
  <2>1. FirstHead(SubSeq(t, a1, b1)) = h - (a1 - 1)
    BY <1>4
  <2>2. OracleBlock(SubSeq(t, a1, b1))
          = <<Scanned(SubSeq(t, a1, h - 1)), Whole(SubSeq(t, h, b1))>>
    BY <1>2, <1>4, <2>1, BlockCut
  <2>3. QED
    BY <1>4, <2>2
<1>6. PICK Sx : Sx = Semis(d, x)
  OBVIOUS
<1>7. /\ Scanned(x) \in FineChunk(d)
      /\ ChunkSends(d, Scanned(x)) = StatementsBetween(d, x, Sx)
      /\ SameSeparators(t, a1, b1, Sx)
  <2>1. b1 \in (a1 - 1)..b1
    BY <1>1, <1>2
  <2>2. QED
    BY <1>2, <1>3, <1>6, <2>1, DdlScans
<1>8. Joined(X, b + 1) = Glue(Joined(X, a - 1), StatementsBetween(d, x, Sx))
  BY <1>7, BlockJoins
<1>9. SubSeq(t, h, b1) = <<>>
  BY <1>1, <1>4 DEF Texts
<1>10. Whole(<<>>) \in FineChunk(d) /\ ChunkSends(d, Whole(<<>>)) = <<>>
  <2>1. PICK p \in 1..(Len(t) + 1) : p = h
    BY <1>1, <1>4
  <2>2. Whole(<<>>) \in Chunk(d) /\ Whole(<<>>).text = <<>> /\ Whole(<<>>).scan = FALSE
    BY ChunkOf, EmptyTyped DEF Whole
  <2>3. Regions(d, <<>>)[Len(<<>>) + 1] = "code"
    <3>1. <<>> \in Seq(Marks) /\ Len(<<>>) + 1 = 1
      BY EmptyTyped
    <3>2. QED
      BY <3>1, RegionsStep
  <2>4. Whole(<<>>) \in FineChunk(d)
    BY <2>2, <2>3 DEF FineChunk, Ended
  <2>5. QED
    BY <2>2, <2>4, CodeOfNone DEF ChunkSends
<1>11. PICK c1 \in FineChunk(d), c2 \in FineChunk(d) : c1 = Scanned(x) /\ c2 = Whole(<<>>)
  BY <1>7, <1>10
<1>12. /\ <<c1, c2>> \in Seq(FineChunk(d))
       /\ SendsOf(d, <<c1, c2>>) = Glue(ChunkSends(d, c1), ChunkSends(d, c2))
  BY SendsOfTwo
<1>13. Glue(ChunkSends(d, c1), <<>>) = ChunkSends(d, c1)
  <2>1. ChunkSends(d, c1) \in Seq(Texts)
    BY ChunkSendsTyped
  <2>2. QED
    BY <2>1, Glued
<1>14. QED
  BY <1>5, <1>7, <1>8, <1>9, <1>10, <1>11, <1>12, <1>13 DEF BlockSent

(* A unit from h to b1 that nothing separates, after a statement without   *)
(* code and before blanks.                                                 *)
UnitAfter(d, t, S, h, b1, b) ==
  /\ Regions(d, t)[h] = "code"
  /\ b = Len(t) \/ b + 1 \in S
  /\ \A n \in h..b : n \notin S
  /\ \A n \in S : Regions(d, t)[n + 1] = "code"
  /\ Code(d, Statement(t, S, h)) = <<>>
  /\ NothingIn(KeptAt(d, t), b1 + 1, b)

LEMMA UnitCode ==
  ASSUME NEW d, NEW t \in Texts, NEW S \in SUBSET (1..Len(t)),
         NEW h \in 1..(Len(t) + 1), NEW b \in (h - 1)..Len(t), NEW b1 \in (h - 1)..b,
         UnitAfter(d, t, S, h, b1, b)
  PROVE  Code(d, Statement(t, S, b + 1)) = Code(d, SubSeq(t, h, b1))
<1> DEFINE J(n) == Joined(KeptAt(d, t), n)
<1>1. PICK N \in Nat : N = Len(t) /\ t \in Seq(Marks)
  BY DEF Texts
<1>2. PICK l \in 0..(h - 1) : l = LastBefore(S, h) /\ (l # 0 => l \in S)
                              /\ \A m \in S : m < h => m <= l
  <2>1. S \in SUBSET (1..N) /\ h \in 1..(N + 1)
    BY <1>1
  <2>2. QED
    BY <2>1, LastBeforeIs
<1>3. LastBefore(S, b + 1) = l
  <2>1. PICK n \in 1..(N + 1) : n = b + 1
    BY <1>1
  <2>2. \A m \in (l + 1)..(n - 1) : m \notin S
    <3> SUFFICES ASSUME NEW m \in (l + 1)..(n - 1), m \in S PROVE FALSE
      OBVIOUS
    <3>1. CASE m < h
      BY <1>2, <3>1
    <3>2. CASE ~(m < h)
      <4>1. m \in h..b
        BY <1>1, <2>1, <3>2
      <4>2. QED
        BY <4>1 DEF UnitAfter
    <3>3. QED
      BY <3>1, <3>2
  <2>3. S \in SUBSET (1..N) /\ l \in 0..(n - 1) /\ (l = 0 \/ l \in S)
    BY <1>1, <1>2, <2>1
  <2>4. QED
    BY <2>1, <2>2, <2>3, LastBeforeFrom
<1>4. PICK a \in 1..(Len(t) + 1) : a = l + 1 /\ l = a - 1
  BY <1>1, <1>2
<1>5. Regions(d, t)[a] = "code"
  <2>1. CASE l = 0
    BY <1>1, <1>4, <2>1, RegionsStep
  <2>2. CASE l # 0
    BY <1>2, <1>4, <2>2 DEF UnitAfter
  <2>3. QED
    BY <2>1, <2>2
<1>6. J(h - 1) = Glue(J(a - 1), Code(d, SubSeq(t, a, h - 1)))
      /\ J(a - 1) \in Seq(Marks) /\ J(h - 1) \in Seq(Marks)
  <2>1. PICK q \in (a - 1)..Len(t) : q = h - 1
    BY <1>1, <1>2, <1>4
  <2>2. QED
    BY <1>1, <1>5, <2>1, CodeOfPart
<1>7. J(b) = Glue(J(a - 1), Code(d, SubSeq(t, a, b))) /\ Code(d, SubSeq(t, a, b)) \in Seq(Marks)
  <2>1. b \in (a - 1)..Len(t)
    BY <1>1, <1>2, <1>4
  <2>2. QED
    BY <1>1, <1>5, <2>1, CodeOfPart
<1>8. J(b1) = Glue(J(h - 1), Code(d, SubSeq(t, h, b1))) /\ Code(d, SubSeq(t, h, b1)) \in Seq(Marks)
  <2>1. b1 \in (h - 1)..Len(t)
    BY <1>1
  <2>2. QED
    BY <1>1, <2>1, CodeOfPart DEF UnitAfter
<1>9. J(b) = J(b1)
  <2>1. PICK X \in [1..N -> Seq(Marks)] : X = KeptAt(d, t)
    BY <1>1, CodeIs
  <2>2. PICK p \in 0..N : p = b1
    BY <1>1
  <2>3. PICK q \in p..N : q = b
    BY <1>1, <2>2
  <2>4. NothingIn(X, p + 1, q)
    BY <2>1, <2>2, <2>3 DEF UnitAfter
  <2>5. Joined(X, q) = Joined(X, p)
    BY <1>1, <2>1, <2>2, <2>3, <2>4, JoinedSame
  <2>6. QED
    BY <2>1, <2>2, <2>3, <2>5
<1>10. Statement(t, S, h) = SubSeq(t, a, h - 1) /\ Statement(t, S, b + 1) = SubSeq(t, a, b)
  <2>1. (b + 1) - 1 = b
    BY <1>1
  <2>2. Statement(t, S, h) = SubSeq(t, LastBefore(S, h) + 1, h - 1)
    BY Zenon DEF Statement
  <2>3. Statement(t, S, b + 1) = SubSeq(t, LastBefore(S, b + 1) + 1, (b + 1) - 1)
    BY Zenon DEF Statement
  <2>4. QED
    BY <1>2, <1>3, <1>4, <2>1, <2>2, <2>3
<1>11. J(h - 1) = J(a - 1)
  <2>1. Code(d, SubSeq(t, a, h - 1)) = <<>>
    BY <1>10 DEF UnitAfter
  <2>2. QED
    BY <1>6, <2>1, Glued
<1>12. Glue(J(a - 1), Code(d, SubSeq(t, a, b))) = Glue(J(a - 1), Code(d, SubSeq(t, h, b1)))
  BY <1>7, <1>8, <1>9, <1>11
<1> HIDE DEF J
<1>13. Code(d, SubSeq(t, a, b)) = Code(d, SubSeq(t, h, b1))
  BY <1>6, <1>7, <1>8, <1>12, Glued
<1>14. QED
  BY <1>10, <1>13

(* What is sent up to the end of a unit after the statements before it.    *)
LEMMA DdlThenUnit ==
  ASSUME NEW d, NEW t \in Texts, NEW S \in SUBSET (1..Len(t)),
         NEW a \in 1..(Len(t) + 1), NEW a1 \in a..(Len(t) + 1), NEW h \in a1..(Len(t) + 1),
         NEW Sd, PartOf(d, t, S, a, a1, h - 1, Sd),
         NEW b \in (h - 1)..Len(t), NEW b1 \in (h - 1)..b, UnitAfter(d, t, S, h, b1, b)
  PROVE  Joined(SentAt(d, t, S), b + 1)
           = Glue(Glue(Joined(SentAt(d, t, S), a - 1),
                       StatementsBetween(d, SubSeq(t, a1, h - 1), Sd)),
                  Sent(d, SubSeq(t, h, b1)))
<1>1. PICK N \in Nat : N = Len(t) /\ t \in Seq(Marks)
  BY DEF Texts
<1>2. PICK K \in Nat : K = h - a1 /\ a1 - 1 + K = h - 1 /\ (h - 1) - a1 + 1 = K
  BY <1>1
<1>3. PICK q \in (a1 - 1)..Len(t) : q = h - 1 /\ q - a1 + 1 = K
  BY <1>1, <1>2
<1>4. PICK y : y = SubSeq(t, a1, q)
  OBVIOUS
<1>5. y \in Texts /\ Len(y) = K
  BY <1>1, <1>3, <1>4, PartRegions DEF PartOf, Texts
<1>6. Sd \in SUBSET (1..Len(y)) /\ PartOf(d, t, S, a, a1, q, Sd)
  BY <1>2, <1>3, <1>5 DEF PartOf
<1>7. PICK X, Y : X = SentAt(d, t, S) /\ Y = SentAt(d, y, Sd)
  OBVIOUS
<1>8. SentAs(X, d, t, S, N)
  BY <1>1, <1>7, SentAtAs
<1>9. SentAs(Y, d, y, Sd, K) /\ StatementsBetween(d, y, Sd) = Joined(Y, K + 1)
  BY <1>5, <1>6, <1>7, SentAtAs
<1>10. Joined(X, h - 1) = Glue(Joined(X, a - 1), Joined(Y, K))
  <2>1. PICK n \in 0..(q - a1 + 1) : n = K
    BY <1>3
  <2>2. Joined(SentAt(d, t, S), a1 - 1 + n)
          = Glue(Joined(SentAt(d, t, S), a - 1), Joined(SentAt(d, SubSeq(t, a1, q), Sd), n))
    BY <1>6, PartSendsSoFar
  <2>3. QED
    BY <1>2, <1>4, <1>7, <2>1, <2>2
<1>11. Y[K + 1] = <<>>
  <2>1. PICK n \in 1..(q - a1 + 2) : n = K + 1 /\ a1 - 1 + n = h
    BY <1>1, <1>2, <1>3
  <2>2. Code(d, Statement(y, Sd, n)) = Code(d, Statement(t, S, h))
    <3>1. Code(d, Statement(SubSeq(t, a1, q), Sd, n)) = Code(d, Statement(t, S, a1 - 1 + n))
      BY <1>6, PartStatement
    <3>2. QED
      BY <1>4, <2>1, <3>1
  <2>3. n \in 1..(Len(y) + 1)
    BY <1>5, <2>1
  <2>4. Statement(y, Sd, n) \in Texts
    BY <1>5, <1>6, <2>3, StatementTyped
  <2>5. Code(d, Statement(y, Sd, n)) = <<>>
    BY <2>2 DEF UnitAfter
  <2>6. Sent(d, Statement(y, Sd, n)) = <<>>
    BY <2>4, <2>5, SentTyped
  <2>7. QED
    BY <1>9, <2>1, <2>6 DEF SentAs
<1>12. StatementsBetween(d, y, Sd) = Joined(Y, K) /\ Joined(Y, K) \in Seq(Texts)
  <2>1. PICK M \in Nat : M = K + 1 /\ M - 1 = K
    OBVIOUS
  <2>2. Y \in [1..M -> Seq(Texts)] /\ M \in 1..M /\ K \in 0..M
    BY <1>9, <2>1 DEF SentAs
  <2>3. Joined(Y, M) = Glue(Joined(Y, M - 1), Y[M]) /\ Joined(Y, K) \in Seq(Texts)
    BY <2>2, JoinedSteps
  <2>4. QED
    BY <1>9, <1>11, <2>1, <2>3, Glued
<1>13. PICK M \in Nat : M = N + 1
  OBVIOUS
<1>14. X \in [1..M -> Seq(Texts)]
  BY <1>8, <1>13 DEF SentAs
<1>15. Joined(X, b) = Joined(X, h - 1)
  <2>1. PICK p \in 0..M : p = h - 1 /\ p + 1 = h
    BY <1>1, <1>13
  <2>0. PICK r \in p..M : r = b
    BY <1>1, <1>13, <2>1
  <2>2. NothingIn(X, p + 1, r)
    <3> SUFFICES ASSUME NEW n \in h..b PROVE X[n] = <<>>
      BY <2>0, <2>1 DEF NothingIn
    <3>1. n \in 1..(N + 1) /\ n # N + 1
      BY <1>1
    <3>2. n \notin S
      BY DEF UnitAfter
    <3>3. QED
      BY <1>8, <3>1, <3>2 DEF SentAs
  <2>3. Joined(X, r) = Joined(X, p)
    BY <1>13, <1>14, <2>0, <2>1, <2>2, JoinedSame
  <2>4. QED
    BY <2>0, <2>1, <2>3
<1>16. Joined(X, b + 1) = Glue(Joined(X, b), Sent(d, SubSeq(t, h, b1)))
  <2>1. PICK m \in 1..M : m = b + 1 /\ m - 1 = b
    BY <1>1, <1>13
  <2>2. Joined(X, m) = Glue(Joined(X, m - 1), X[m])
    BY <1>14, JoinedSteps
  <2>3. X[m] = Sent(d, Statement(t, S, m))
    <3>1. m \in 1..(N + 1) /\ (m \in S \/ m = N + 1)
      BY <1>1, <1>13, <2>1 DEF UnitAfter
    <3>2. QED
      BY <1>8, <3>1 DEF SentAs
  <2>4. Sent(d, Statement(t, S, m)) = Sent(d, SubSeq(t, h, b1))
    <3>1. Code(d, Statement(t, S, b + 1)) = Code(d, SubSeq(t, h, b1))
      <4>1. h \in 1..(Len(t) + 1)
        BY <1>1
      <4>2. QED
        BY <4>1, UnitCode
    <3>2. QED
      BY <2>1, <3>1, SameCodeSent
  <2>5. QED
    BY <2>1, <2>2, <2>3, <2>4
<1>17. QED
  BY <1>3, <1>4, <1>7, <1>10, <1>12, <1>15, <1>16

(* The unit of a block is one statement, whatever semicolons it holds.     *)
LEMMA UnitStays ==
  ASSUME NEW t \in Texts, Splittable("oracle", t),
         NEW a \in 1..(Len(t) + 1), NEW b \in (a - 1)..Len(t),
         PieceAt("oracle", t, {"slash"}, a, b),
         NEW a1 \in 1..(Len(t) + 1), NEW b1 \in 0..Len(t), BlockOf(t, a, b, a1, b1),
         NEW h \in a1..b1, HeadAt(t, h)
  PROVE  UnitAfter("oracle", t, Separators("oracle", t), h, b1, b)
<1> DEFINE d == "oracle"
           S == Separators(d, t)
<1>1. PICK N \in Nat : N = Len(t) /\ DOMAIN t = 1..N
  BY DEF Texts
<1>2. /\ a1 \in a..(Len(t) + 1) /\ b1 \in (a1 - 1)..Len(t) /\ b \in b1..Len(t)
      /\ \A n \in (b1 + 1)..b : t[n] = "newline"
      /\ NothingIn(KeptAt(d, t), b1 + 1, b)
  BY DEF BlockOf
<1>3. h \in OracleCode(t) /\ IsHead(t[h]) /\ Code(d, Statement(t, S, h)) = <<>>
  BY DEF HeadAt, UnitStarts
<1>4. Regions(d, t)[h] = "code"
  BY <1>3 DEF OracleCode, InCodeAt
<1>5. b = Len(t) \/ b + 1 \in S
  <2>1. b = Len(t) \/ (b + 1 \in 1..Len(t) /\ t[b + 1] = "slash")
    BY DEF PieceAt
  <2>2. \A n \in 1..Len(t) : t[n] = "slash" => n \in S
    BY OracleSeparators
  <2>3. QED
    BY <2>1, <2>2
<1>6. ASSUME NEW n \in h..b PROVE n \notin S
  <2>1. n \in 1..N /\ n \in a..b
    BY <1>1, <1>2
  <2>2. CASE n > b1
    <3>1. t[n] = "newline"
      BY <1>1, <1>2, <2>2
    <3>2. QED
      BY <1>1, <2>1, <3>1, NewlinesSeparateNothing
  <2>3. CASE ~(n > b1)
    <3> SUFFICES ASSUME n \in S PROVE FALSE
      OBVIOUS
    <3>1. t[n] # "slash"
      BY <2>1 DEF PieceAt
    <3>2. n \in Semis(d, t) /\ ~InUnit(t, OracleCode(t), n)
      BY <1>1, <2>1, <3>1, OracleSeparators
    <3>3. t[n] = "semi"
      BY <3>2, OracleSeparators
    <3>4. h # n
      BY <1>3, <3>3 DEF IsHead
    <3>5. h \in a..(n - 1)
      BY <1>1, <1>2, <3>4
    <3>6. InUnit(t, OracleCode(t), n)
      BY <1>3, <2>1, <3>5, OracleUnits
    <3>7. QED
      BY <3>2, <3>6
  <2>4. QED
    BY <2>2, <2>3
<1>7. \A n \in S : Regions(d, t)[n + 1] = "code"
  BY OracleSeparators
<1>8. QED
  BY <1>2, <1>3, <1>4, <1>5, <1>6, <1>7 DEF UnitAfter

(* A block with statements before its unit.                                *)
LEMMA MixedBlock ==
  ASSUME NEW t \in Texts, Splittable("oracle", t),
         NEW a \in 1..(Len(t) + 1), NEW b \in (a - 1)..Len(t),
         PieceAt("oracle", t, {"slash"}, a, b),
         NEW a1 \in 1..(Len(t) + 1), NEW b1 \in 0..Len(t), BlockOf(t, a, b, a1, b1),
         NEW h \in a1..b1, FirstHead(SubSeq(t, a1, b1)) = h - (a1 - 1),
         NoHead(t, a, h - 1), HeadAt(t, h), ~StartsWithHead(SubSeq(t, a1, b1))
  PROVE  BlockSent(t, a, b, SubSeq(t, a1, b1))
<1> DEFINE d == "oracle"
           x == SubSeq(t, a1, b1)
<1>1. PICK N \in Nat : N = Len(t) /\ DOMAIN t = 1..N
  BY DEF Texts
<1>2. /\ a1 \in a..(Len(t) + 1) /\ b1 \in (a1 - 1)..Len(t) /\ b \in b1..Len(t)
      /\ Regions(d, t)[a1] = "code" /\ Regions(d, t)[b1 + 1] \in Ended
  BY DEF BlockOf
<1>3. PICK q \in (a1 - 1)..b1 : q = h - 1 /\ q + 1 = h
  BY <1>1, <1>2
<1>4. h \in OracleCode(t) /\ IsHead(t[h]) /\ Regions(d, t)[h] = "code"
  BY DEF HeadAt, OracleCode, InCodeAt
<1>5. Followed(d, t, q, q)
  <2>1. q \in q..Len(t) /\ \A n \in (q + 1)..q : t[n] = "newline"
    BY <1>1, <1>2, <1>3
  <2>2. q + 1 \in InCodeAt(d, t) /\ t[q + 1] \in {"begin", "routine"}
    BY <1>3, <1>4 DEF OracleCode, IsHead
  <2>3. QED
    BY <2>1, <2>2 DEF Followed
<1>6. NoHead(t, a, q) /\ Regions(d, t)[q + 1] \in Ended
  BY <1>3, <1>4 DEF Ended
<1>7. PICK y, Sd : y = SubSeq(t, a1, q) /\ Sd = Semis(d, y)
  OBVIOUS
<1>8. /\ Scanned(y) \in FineChunk(d)
      /\ ChunkSends(d, Scanned(y)) = StatementsBetween(d, y, Sd)
      /\ SameSeparators(t, a1, q, Sd)
  BY <1>3, <1>5, <1>6, <1>7, DdlScans
<1>9. PICK S \in SUBSET (1..Len(t)) : S = Separators(d, t)
  BY OracleSeparators
<1>10. PartOf(d, t, S, a, a1, h - 1, Sd)
  <2>1. PartOf(d, t, Separators(d, t), a, a1, q, Sd)
    BY <1>3, <1>8, BlockPart
  <2>2. QED
    BY <1>3, <1>9, <2>1
<1>11. UnitAfter(d, t, S, h, b1, b)
  BY <1>9, UnitStays
<1>12. Joined(SentAt(d, t, S), b + 1)
         = Glue(Glue(Joined(SentAt(d, t, S), a - 1), StatementsBetween(d, SubSeq(t, a1, h - 1), Sd)),
                Sent(d, SubSeq(t, h, b1)))
  <2>1. a1 \in a..(Len(t) + 1)
    BY <1>2
  <2>2. PICK g \in a1..(Len(t) + 1) : g = h
    BY <1>1, <1>2
  <2>3. b \in (g - 1)..Len(t) /\ b1 \in (g - 1)..b
    BY <1>1, <1>2, <2>2
  <2>4. PartOf(d, t, S, a, a1, g - 1, Sd) /\ UnitAfter(d, t, S, g, b1, b)
    BY <1>10, <1>11, <2>2
  <2>5. Joined(SentAt(d, t, S), b + 1)
          = Glue(Glue(Joined(SentAt(d, t, S), a - 1), StatementsBetween(d, SubSeq(t, a1, g - 1), Sd)),
                 Sent(d, SubSeq(t, g, b1)))
    BY <1>9, <2>1, <2>2, <2>3, <2>4, DdlThenUnit
  <2>6. QED
    BY <2>2, <2>5
<1>13. OracleBlock(x) = <<Scanned(y), Whole(SubSeq(t, h, b1))>>
  <2>1. PICK g \in a1..(b1 + 1) : g = h
    BY <1>1, <1>2
  <2>2. b1 \in (a1 - 1)..Len(t) /\ FirstHead(SubSeq(t, a1, b1)) = g - (a1 - 1)
    BY <1>2, <2>1
  <2>3. OracleBlock(SubSeq(t, a1, b1)) = <<Scanned(SubSeq(t, a1, g - 1)), Whole(SubSeq(t, g, b1))>>
    BY <1>2, <2>1, <2>2, BlockCut
  <2>4. QED
    BY <1>3, <1>7, <2>1, <2>3
<1>14. /\ Whole(SubSeq(t, h, b1)) \in FineChunk(d)
       /\ ChunkSends(d, Whole(SubSeq(t, h, b1))) = Sent(d, SubSeq(t, h, b1))
  <2>1. PICK g \in 1..(Len(t) + 1) : g = h
    BY <1>1, <1>2
  <2>2. b1 \in (g - 1)..Len(t) /\ Regions(d, t)[g] = "code"
    BY <1>1, <1>2, <1>4, <2>1
  <2>3. /\ Whole(SubSeq(t, g, b1)) \in FineChunk(d)
        /\ ChunkSends(d, Whole(SubSeq(t, g, b1))) = Sent(d, SubSeq(t, g, b1))
    BY <1>2, <2>1, <2>2, PartIsChunk
  <2>4. QED
    BY <2>1, <2>3
<1>15. PICK c1 \in FineChunk(d), c2 \in FineChunk(d) :
         c1 = Scanned(y) /\ c2 = Whole(SubSeq(t, h, b1))
  BY <1>8, <1>14
<1>16. /\ <<c1, c2>> \in Seq(FineChunk(d))
       /\ SendsOf(d, <<c1, c2>>) = Glue(ChunkSends(d, c1), ChunkSends(d, c2))
  BY <1>15, SendsOfTwo
<1>17. PICK J : J = Joined(SentAt(d, t, S), a - 1)
  OBVIOUS
<1>18. J \in Seq(Texts)
  <2>1. a - 1 \in 0..(Len(t) + 1)
    BY <1>1
  <2>2. QED
    BY <1>9, <1>17, <2>1, SentAtIs
<1>19. Glue(Glue(J, ChunkSends(d, c1)), ChunkSends(d, c2))
         = Glue(J, Glue(ChunkSends(d, c1), ChunkSends(d, c2)))
  <2>1. ChunkSends(d, c1) \in Seq(Texts) /\ ChunkSends(d, c2) \in Seq(Texts)
    BY <1>15, ChunkSendsTyped
  <2>2. QED
    BY <1>18, <2>1, Glued
<1>20. Joined(SentAt(d, t, S), b + 1) = Glue(Glue(J, ChunkSends(d, c1)), ChunkSends(d, c2))
  BY <1>3, <1>7, <1>8, <1>12, <1>14, <1>15, <1>17
<1> HIDE DEF x
<1>21. QED
  <2>1. OracleBlock(x) = <<c1, c2>>
    BY <1>13, <1>15
  <2>2. BlockSent(t, a, b, x)
    BY <1>9, <1>16, <1>17, <1>19, <1>20, <2>1 DEF BlockSent
  <2>3. QED
    BY <2>2 DEF x

LEMMA BlockSends ==
  ASSUME NEW t \in Texts, Splittable("oracle", t),
         NEW a \in 1..(Len(t) + 1), NEW b \in (a - 1)..Len(t),
         PieceAt("oracle", t, {"slash"}, a, b)
  PROVE  BlockSent(t, a, b, Strip(SubSeq(t, a, b)))
<1>1. PICK N \in Nat : N = Len(t)
  BY DEF Texts
<1>2. PICK a1 \in 1..(Len(t) + 1) : \E b1 \in 0..Len(t) : BlockOf(t, a, b, a1, b1)
  BY BlockIs
<1>3. PICK b1 \in 0..Len(t) : BlockOf(t, a, b, a1, b1)
  BY <1>2
<1>4. Strip(SubSeq(t, a, b)) = SubSeq(t, a1, b1)
  BY <1>3 DEF BlockOf
<1>5. BlockSent(t, a, b, SubSeq(t, a1, b1))
  <2>1. CASE StartsWithHead(SubSeq(t, a1, b1))
    BY <1>2, <1>3, <2>1, UnitBlock
  <2>2. CASE ~StartsWithHead(SubSeq(t, a1, b1))
    <3>1. PICK h \in a1..(b1 + 1) :
            /\ FirstHead(SubSeq(t, a1, b1)) = h - (a1 - 1)
            /\ NoHead(t, a, h - 1)
            /\ h <= b1 => HeadAt(t, h)
      BY <1>2, <1>3, BlockHead
    <3>2. CASE h <= b1
      <4>1. PICK g \in a1..b1 : g = h
        BY <1>1, <3>2
      <4>2. FirstHead(SubSeq(t, a1, b1)) = g - (a1 - 1) /\ NoHead(t, a, g - 1) /\ HeadAt(t, g)
        BY <3>1, <3>2, <4>1
      <4>3. QED
        BY <1>2, <1>3, <2>2, <4>1, <4>2, MixedBlock
    <3>3. CASE ~(h <= b1)
      <4>1. h = b1 + 1 /\ h - 1 = b1
        BY <1>1, <3>3
      <4>2. FirstHead(SubSeq(t, a1, b1)) = (b1 + 1) - (a1 - 1) /\ NoHead(t, a, b1)
        BY <3>1, <4>1
      <4>3. QED
        BY <1>2, <1>3, <2>2, <4>2, PlainBlock
    <3>4. QED
      BY <3>2, <3>3
  <2>3. QED
    BY <2>1, <2>2
<1>6. QED
  BY <1>4, <1>5

LEMMA OracleSends ==
  ASSUME NEW t \in Texts, Splittable("oracle", t)
  PROVE  ChunksSend("oracle", t)
<1> DEFINE d == "oracle"
           S == Separators(d, t)
           blocks == Pieces(t, {"slash"})
           css == [n \in DOMAIN blocks |-> OracleBlock(Strip(blocks[n]))]
<1>1. Chunks(d, t) = FlattenSeq(css)
  BY DEF Chunks
<1>2. PICK N \in Nat : N = Len(t)
  BY DEF Texts
<1>3. S \in SUBSET (1..Len(t)) /\ Cuttable(d, t, {"slash"})
  BY OracleSeparators
<1>4. PICK K \in Nat \ {0} : \E e \in [0..K -> 0..(Len(t) + 1)] :
        Cut(t, {"slash"}, K, e) /\ DOMAIN blocks = 1..K
  <2>1. PICK marks : marks = {"slash"}
    OBVIOUS
  <2>2. blocks = Pieces(t, marks)
    BY <2>1
  <2> HIDE DEF blocks
  <2>3. \E K \in Nat \ {0} : \E e \in [0..K -> 0..(Len(t) + 1)] :
          /\ Cut(t, marks, K, e)
          /\ DOMAIN Pieces(t, marks) = 1..K /\ Len(Pieces(t, marks)) = K
          /\ Len(InOrder(t, MarksAt(t, marks))) = K - 1
          /\ DOMAIN InOrder(t, MarksAt(t, marks)) = 1..(K - 1)
          /\ \A k \in 1..(K - 1) : InOrder(t, MarksAt(t, marks))[k] = e[k]
    BY PiecesCut
  <2>4. QED
    BY <2>1, <2>2, <2>3
<1>5. PICK e \in [0..K -> 0..(Len(t) + 1)] : Cut(t, {"slash"}, K, e) /\ DOMAIN blocks = 1..K
  BY <1>4
<1> HIDE DEF blocks
<1>6. css = [k \in 1..K |-> OracleBlock(Strip(blocks[k]))]
  BY <1>5
<1> HIDE DEF css, S, d
<1>7. ASSUME NEW k \in 1..K
      PROVE  /\ css[k] \in Seq(FineChunk(d))
             /\ Joined(SentAt(d, t, S), e[k])
                  = Glue(Joined(SentAt(d, t, S), e[k - 1]), SendsOf(d, css[k]))
  <2>1. PieceAt(d, t, {"slash"}, e[k - 1] + 1, e[k] - 1)
        /\ blocks[k] = SubSeq(t, e[k - 1] + 1, e[k] - 1)
    <3>1. PICK L \in Nat : L = K
      BY <1>4
    <3>2. PICK f, marks : f = e /\ marks = {"slash"}
      OBVIOUS
    <3>3. Cuttable(d, t, marks) /\ Cut(t, marks, L, f) /\ k \in 1..L
      BY <1>3, <1>5, <3>1, <3>2
    <3>4. PieceOf(d, t, marks, f, k)
      BY <3>1, <3>2, <3>3, CutRegions
    <3>5. QED
      BY <3>1, <3>2, <3>4 DEF PieceOf, blocks
  <2>2. PICK a \in 1..(Len(t) + 1) : a = e[k - 1] + 1
    BY <2>1 DEF PieceAt
  <2>3. PICK b \in (a - 1)..Len(t) : b = e[k] - 1
    BY <2>1, <2>2 DEF PieceAt
  <2>4. PieceAt(d, t, {"slash"}, a, b) /\ blocks[k] = SubSeq(t, a, b)
    BY <2>1, <2>2, <2>3
  <2>5. e[k - 1] = a - 1 /\ e[k] = b + 1
    <3>1. k - 1 \in 0..K /\ k \in 0..K
      BY <1>4
    <3>2. PICK p \in 0..(N + 1), q \in 0..(N + 1) : p = e[k - 1] /\ q = e[k]
      BY <1>2, <1>5, <3>1
    <3>3. p = (p + 1) - 1 /\ q = (q - 1) + 1
      OBVIOUS
    <3>4. QED
      BY <2>2, <2>3, <3>2, <3>3
  <2>6. css[k] = OracleBlock(Strip(SubSeq(t, a, b)))
    BY <1>6, <2>4
  <2>7. BlockSent(t, a, b, Strip(SubSeq(t, a, b)))
    BY <2>2, <2>3, <2>4, BlockSends DEF d
  <2>8. QED
    BY <2>5, <2>6, <2>7 DEF BlockSent, S, d
<1>8. CutsInto(d, t, S, K, e, css)
  <2>1. Spans(e, K, Len(t) + 1)
    BY <1>5 DEF Spans, Cut
  <2>2. QED
    BY <1>7, <2>1 DEF CutsInto
<1>9. css = [k \in 1..K |-> css[k]]
  BY <1>6
<1>10. /\ FlattenSeq(css) \in Seq(FineChunk(d))
       /\ SendsOf(d, FlattenSeq(css)) = StatementsBetween(d, t, S)
  <2>1. PICK Q \in SUBSET (1..Len(t)), L \in Nat : Q = S /\ L = K
    BY <1>3, <1>4
  <2>2. PICK f, xs : f = e /\ xs = css
    OBVIOUS
  <2>3. CutsInto(d, t, Q, L, f, xs) /\ xs = [k \in 1..L |-> xs[k]]
    BY <1>8, <1>9, <2>1, <2>2
  <2>4. /\ FlattenSeq(xs) \in Seq(FineChunk(d))
        /\ SendsOf(d, FlattenSeq(xs)) = StatementsBetween(d, t, Q)
    BY <2>3, ListsSend
  <2>5. QED
    BY <2>1, <2>2, <2>4
<1>11. QED
  BY <1>1, <1>10 DEF ChunksSend, ClientStatements, S, d

(* The chunks of a script together send what its client sends.             *)
LEMMA ChunksSendAll ==
  ASSUME NEW d \in Dialects, NEW t \in Texts, Splittable(d, t)
  PROVE  ChunksSend(d, t)
<1>1. d = "tsql" \/ d = "oracle" \/ d = "mysql" \/ d = "postgresql"
  BY DEF Dialects
<1>2. QED
  BY <1>1, TsqlSends, OracleSends, MysqlSends, PostgresqlSends

AllSplittable == \A i \in Inputs : Splittable(i.dialect, i.script)

LEMMA SplitInit == AllSplittable /\ Init => SplitInv
<1> SUFFICES ASSUME AllSplittable, Init PROVE SplitInv
  OBVIOUS
<1>1. input \in Inputs /\ chunks = Chunks(input.dialect, input.script) /\ pc = "chunk"
      /\ statements = <<>>
  BY DEF Init
<1>2. PICK d \in Dialects, t \in Texts : d = input.dialect /\ t = input.script
  BY <1>1, InputsAssumption DEF Texts
<1>3. Splittable(d, t)
  BY <1>1, <1>2 DEF AllSplittable
<1>4. ChunksSend(d, t)
  BY <1>2, <1>3, ChunksSendAll
<1>5. chunks \in Seq(FineChunk(d)) /\ SendsOf(d, chunks) = ClientStatements(d, t)
  BY <1>1, <1>2, <1>4 DEF ChunksSend
<1>6. statements \in Seq(Texts) /\ CodeOfAll(d, statements) = <<>>
  <2>1. <<>> \in Seq(Texts)
    BY EmptyTyped
  <2>2. QED
    BY <1>1, <2>1, CodeOfAllSteps
<1>7. Glue(<<>>, SendsOf(d, chunks)) = SendsOf(d, chunks)
  <2>1. PICK N \in Nat : N = Len(chunks)
    BY <1>5
  <2>2. SendsOf(d, chunks) \in Seq(Texts)
    BY <1>5, <2>1, SendsAtIs
  <2>3. QED
    BY <2>2, Glued
<1>8. QED
  BY <1>1, <1>2, <1>5, <1>6, <1>7 DEF SplitInv, Client

(* SplitsAsClient: on the scripts that are Splittable, the statements are   *)
(* those the client would send, in order, with no code lost, glued or cut. *)
THEOREM SplitSendsAsClient ==
  ASSUME AllSplittable
  PROVE  Spec => []SplitsAsClient
<1>1. AllReadable
  BY DEF AllSplittable, AllReadable, Splittable
<1>2. Init => ScanInv /\ SplitInv
  BY <1>1, ScanInit, SplitInit
<1>3. ScanInv /\ SplitInv /\ [Next]_vars => ScanInv' /\ SplitInv'
  BY ScanNext, SplitNext
<1>4. ScanInv /\ SplitInv => SplitsAsClient
  BY DEF SplitInv, SplitsAsClient, Client
<1>5. QED
  BY <1>2, <1>3, <1>4, PTL DEF Spec
=============================================================================
