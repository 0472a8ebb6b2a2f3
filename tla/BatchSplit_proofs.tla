-------------------------- MODULE BatchSplit_proofs --------------------------
(* The readers of BatchSplitter.split keep in step with the engine, on     *)
(* scripts of any length: BatchInv is the inductive form of                *)
(* InStepWithClient.                                                       *)
EXTENDS BatchSplit, NaturalsInduction, WellFoundedInduction, TLAPS

(* A non-empty set of numbers has a least one.                             *)
LEMMA SomeLeast ==
  ASSUME NEW T \in SUBSET Nat, T # {}
  PROVE  \E m \in T : \A j \in T : m <= j
<1> DEFINE R == {ss \in Nat \X Nat : ss[1] < ss[2]}
<1>1. PICK x \in T : \A y \in T : ~(<<y, x>> \in R)
  <2> HIDE DEF R
  <2>1. IsWellFoundedOn(R, Nat)
    BY NatLessThanWellFounded DEF OpToRel, R
  <2>2. QED
    BY <2>1, WFMin
<1>2. ASSUME NEW y \in T PROVE x <= y
  <2>1. x \in Nat /\ y \in Nat /\ ~(<<y, x>> \in R)
    BY <1>1
  <2>2. ~(y < x)
    BY <2>1
  <2>3. QED
    BY <2>1, <2>2
<1>3. QED
  BY <1>2

(* A non-empty set of numbers up to n has a greatest one.                  *)
LEMMA SomeGreatest ==
  ASSUME NEW n \in Nat, NEW S \in SUBSET (1..n), S # {}
  PROVE  \E m \in S : \A j \in S : m >= j
<1> DEFINE T == {x \in Nat : n - x \in S}
<1>1. T \subseteq Nat /\ T # {}
  <2>1. PICK m \in S : TRUE
    OBVIOUS
  <2>2. m \in 1..n /\ n - m \in Nat /\ n - (n - m) = m
    BY <2>1
  <2>3. QED
    BY <2>2
<1>2. PICK x \in T : \A y \in T : x <= y
  <2> HIDE DEF T
  <2>1. QED
    BY <1>1, SomeLeast
<1>3. ASSUME NEW j \in S PROVE n - x >= j
  <2>1. j \in 1..n /\ n - j \in Nat /\ n - (n - j) = j
    OBVIOUS
  <2>2. x <= n - j
    BY <1>2, <2>1
  <2>3. QED
    BY <1>2, <2>1, <2>2
<1>4. QED
  BY <1>2, <1>3

LEMMA MinIsLeast ==
  ASSUME NEW S \in SUBSET Nat, S # {}
  PROVE  Min(S) \in S /\ \A j \in S : Min(S) <= j
BY SomeLeast DEF Min

-----------------------------------------------------------------------------
(* The regions of a text, mark by mark.                                    *)
RegionsAs(h, d, t) ==
  h = [n \in 1..(Len(t) + 1) |-> IF n = 1 THEN "code" ELSE After(d, h[n - 1], t[n - 1])]

LEMMA RegionsExist ==
  ASSUME NEW d, NEW t \in Seq(Marks)
  PROVE  \E h : RegionsAs(h, d, t)
<1> DEFINE Upto(m, h) ==
      h = [n \in 1..m |-> IF n = 1 THEN "code" ELSE After(d, h[n - 1], t[n - 1])]
<1>0. PICK k \in Nat : k = Len(t) + 1
  OBVIOUS
<1> DEFINE Bad == {m \in 0..k : ~\E h : Upto(m, h)}
<1>1. ASSUME Bad # {} PROVE FALSE
  <2>0. Bad \in SUBSET Nat
    OBVIOUS
  <2>1. PICK m \in Bad : \A j \in Bad : m <= j
    <3> HIDE DEF Bad
    <3>1. QED
      BY <1>1, <2>0, SomeLeast
  <2>2. CASE m = 0
    <3>1. Upto(0, [n \in 1..0 |-> <<>>])
      OBVIOUS
    <3>2. QED
      BY <2>1, <2>2, <3>1
  <2>3. CASE m # 0
    <3>1. m \in 1..k /\ m - 1 \in 0..k /\ ~(m <= m - 1) /\ m \in Nat
      BY <2>1, <2>3
    <3>2. PICK h : Upto(m - 1, h)
      BY <2>1, <3>1
    <3> DEFINE last == IF m = 1 THEN "code" ELSE After(d, h[m - 1], t[m - 1])
               g == [n \in 1..m |-> IF n = m THEN last ELSE h[n]]
    <3>3. \A n \in 1..m : n = m \/ n \in 1..(m - 1)
      BY <3>1
    <3>4. \A n \in 1..(m - 1) :
            /\ g[n] = h[n]
            /\ h[n] = IF n = 1 THEN "code" ELSE After(d, h[n - 1], t[n - 1])
      BY <3>1, <3>2
    <3>5. g[m] = last
      BY <3>1
    <3>6. m # 1 => g[m - 1] = h[m - 1]
      BY <3>1, <3>4
    <3>7. \A n \in 1..(m - 1) : n # 1 => g[n - 1] = h[n - 1]
      BY <3>1, <3>4
    <3>8. g = [n \in 1..m |-> g[n]]
      OBVIOUS
    <3>9. \A n \in 1..m : g[n] = IF n = 1 THEN "code" ELSE After(d, g[n - 1], t[n - 1])
      <4> HIDE DEF g
      <4>1. QED
        BY <3>3, <3>4, <3>5, <3>6, <3>7
    <3>10. Upto(m, g)
      <4> HIDE DEF g
      <4>1. QED
        BY <3>8, <3>9
    <3>11. QED
      BY <2>1, <3>10
  <2>4. QED
    BY <2>2, <2>3
<1>2. \E h : Upto(k, h)
  BY <1>1
<1>3. QED
  BY <1>0, <1>2 DEF RegionsAs

LEMMA RegionsStep ==
  ASSUME NEW d, NEW t \in Seq(Marks)
  PROVE  /\ Regions(d, t)[1] = "code"
         /\ \A n \in 1..Len(t) : Regions(d, t)[n + 1] = After(d, Regions(d, t)[n], t[n])
<1> DEFINE h == CHOOSE h : RegionsAs(h, d, t)
<1>1. Regions(d, t) = h
  BY Zenon DEF Regions, RegionsAs
<1>2. RegionsAs(h, d, t)
  BY RegionsExist, Zenon
<1> HIDE DEF h
<1>3. h[1] = "code"
  BY <1>2 DEF RegionsAs
<1>4. ASSUME NEW n \in 1..Len(t) PROVE h[n + 1] = After(d, h[n], t[n])
  <2>1. n + 1 \in 1..(Len(t) + 1) /\ n + 1 # 1 /\ (n + 1) - 1 = n
    OBVIOUS
  <2>2. h[n + 1] = After(d, h[(n + 1) - 1], t[(n + 1) - 1])
    BY <1>2, <2>1 DEF RegionsAs
  <2>3. QED
    BY <2>1, <2>2
<1>5. QED
  BY <1>1, <1>3, <1>4

(* Where a mark is found: at its first place, or beyond the text.          *)
LEMMA FindIs ==
  ASSUME NEW t \in Seq(Marks), NEW mark, NEW a \in 1..(Len(t) + 1)
  PROVE  /\ Find(t, mark, a) \in a..(Len(t) + 1)
         /\ Find(t, mark, a) <= Len(t) => t[Find(t, mark, a)] = mark
         /\ \A n \in a..(Find(t, mark, a) - 1) : n \in 1..Len(t) /\ t[n] # mark
<1> DEFINE found == {n \in a..Len(t) : t[n] = mark}
<1>0. Len(t) \in Nat
  OBVIOUS
<1>1. Find(t, mark, a) = IF found = {} THEN Len(t) + 1 ELSE Min(found)
  BY DEF Find
<1>2. CASE found = {}
  <2>1. \A n \in a..Len(t) : t[n] # mark
    BY <1>2
  <2>2. QED
    BY <1>0, <1>1, <1>2, <2>1
<1>3. CASE found # {}
  <2>1. found \in SUBSET Nat
    OBVIOUS
  <2>2. Min(found) \in found /\ \A j \in found : Min(found) <= j
    <3> HIDE DEF found
    <3>1. QED
      BY <1>3, <2>1, MinIsLeast
  <2>3. PICK f \in found : Find(t, mark, a) = f /\ \A j \in found : f <= j
    BY <1>1, <1>3, <2>2
  <2>4. f \in a..Len(t) /\ t[f] = mark
    BY <2>3
  <2>5. \A n \in a..(f - 1) : n \in 1..Len(t) /\ n \in a..Len(t) /\ ~(f <= n)
    BY <1>0, <2>4
  <2>6. \A n \in a..(f - 1) : t[n] # mark
    BY <2>3, <2>5
  <2>7. QED
    BY <1>0, <2>3, <2>4, <2>5, <2>6
<1>4. QED
  BY <1>2, <1>3

(* A region lasts while no mark ends it.                                   *)
Unended(d, t, region, a, f) == \A n \in a..(f - 1) : After(d, region, t[n]) = region

LEMMA RegionHolds ==
  ASSUME NEW d, NEW t \in Seq(Marks), NEW region, NEW a \in 1..(Len(t) + 1),
         NEW f \in a..(Len(t) + 1), Regions(d, t)[a] = region,
         Unended(d, t, region, a, f)
  PROVE  \A n \in a..f : Regions(d, t)[n] = region
<1> DEFINE Bad == {n \in a..f : Regions(d, t)[n] # region}
<1>0. Len(t) \in Nat /\ a \in Nat /\ f \in Nat
  OBVIOUS
<1>1. ASSUME Bad # {} PROVE FALSE
  <2>0. Bad \in SUBSET Nat
    BY <1>0
  <2>1. PICK m \in Bad : \A j \in Bad : m <= j
    <3> HIDE DEF Bad
    <3>1. QED
      BY <1>1, <2>0, SomeLeast
  <2>2. m # a
    BY <2>1
  <2>3. m \in Nat /\ m - 1 \in a..(f - 1) /\ m - 1 \in a..f /\ (m - 1) + 1 = m /\ ~(m <= m - 1)
        /\ m - 1 \in 1..Len(t)
    BY <1>0, <2>1, <2>2
  <2>4. Regions(d, t)[m] = After(d, Regions(d, t)[m - 1], t[m - 1])
    BY <2>3, RegionsStep
  <2>5. Regions(d, t)[m - 1] = region
    BY <2>1, <2>3
  <2>6. After(d, region, t[m - 1]) = region
    BY <2>3 DEF Unended
  <2>7. QED
    BY <2>1, <2>4, <2>5, <2>6
<1>2. QED
  BY <1>1

(* A region that only one mark closes, and the mark that opens it.         *)
Closes(d, region, closer) ==
  /\ After(d, region, closer) = "code"
  /\ \A m : m # closer => After(d, region, m) = region

(* A region that its opening mark starts lasts to its closing mark, and    *)
(* gives way to code behind it.                                            *)
LEMMA RegionLasts ==
  ASSUME NEW d, NEW t \in Seq(Marks), NEW a \in 1..Len(t), Regions(d, t)[a] = "code",
         NEW region, NEW closer, Closes(d, region, closer), After(d, "code", t[a]) = region,
         NEW b \in a..(a + 1), b = a => t[a] # closer
  PROVE  LET f == Find(t, closer, b)
         IN /\ f \in (a + 1)..(Len(t) + 1)
            /\ Regions(d, t)[f] = region
            /\ f <= Len(t) => t[f] = closer /\ Regions(d, t)[f + 1] = "code"
<1> DEFINE f == Find(t, closer, b)
<1>0. PICK k \in Nat : k = Len(t) /\ a \in 1..k /\ a \in Nat
  OBVIOUS
<1>1. b \in Nat /\ b \in 1..(k + 1) /\ a + 1 \in 1..(k + 1) /\ (b = a \/ b = a + 1)
  BY <1>0
<1>2. /\ f \in b..(Len(t) + 1)
      /\ f <= Len(t) => t[f] = closer
      /\ \A n \in b..(f - 1) : n \in 1..Len(t) /\ t[n] # closer
  BY <1>0, <1>1, FindIs
<1> HIDE DEF f
<1>3. f \in (a + 1)..(k + 1) /\ f \in Nat
  <2>1. f \in b..(k + 1)
    BY <1>0, <1>2
  <2>2. f # a
    BY <1>0, <1>1, <1>2, <2>1
  <2>3. QED
    BY <1>0, <1>1, <2>1, <2>2
<1>4. Regions(d, t)[a + 1] = region
  BY RegionsStep
<1>5. \A n \in (a + 1)..(f - 1) : After(d, region, t[n]) = region
  <2>1. TAKE n \in (a + 1)..(f - 1)
  <2>2. n \in b..(f - 1)
    BY <1>0, <1>1, <1>3
  <2>3. QED
    BY <1>2, <2>2 DEF Closes
<1>6. Regions(d, t)[f] = region
  <2>1. f \in (a + 1)..(Len(t) + 1) /\ a + 1 \in 1..(Len(t) + 1)
    BY <1>0, <1>1, <1>3
  <2>2. \A n \in (a + 1)..f : Regions(d, t)[n] = region
    <3>1. PICK e : e = a + 1
      OBVIOUS
    <3>2. /\ e \in 1..(Len(t) + 1) /\ f \in e..(Len(t) + 1) /\ Regions(d, t)[e] = region
          /\ Unended(d, t, region, e, f)
      BY <1>4, <1>5, <2>1, <3>1 DEF Unended
    <3>3. \A n \in e..f : Regions(d, t)[n] = region
      BY <3>2, RegionHolds
    <3>4. QED
      BY <3>1, <3>3
  <2>3. QED
    BY <1>0, <1>3, <2>2
<1>7. ASSUME f <= Len(t) PROVE Regions(d, t)[f + 1] = "code"
  <2>1. f \in 1..Len(t)
    BY <1>0, <1>3, <1>7
  <2>2. Regions(d, t)[f + 1] = After(d, region, closer)
    BY <1>2, <1>6, <1>7, <2>1, RegionsStep
  <2>3. QED
    BY <2>2 DEF Closes
<1>8. QED
  BY <1>0, <1>2, <1>3, <1>6, <1>7 DEF f

(* The regions each scanner skips, and their marks.                        *)
LEMMA RegionsClose ==
  ASSUME NEW d
  PROVE  /\ Closes(d, "line", "newline") /\ Closes(d, "block", "close")
         /\ Closes(d, "identifier", "dquote")
         /\ Closes(d, "body", "dollar") /\ Closes(d, "tagged_body", "tag")
         /\ \A m : After(d, "code", m) = Opened(d, m)
BY Zenon DEF Closes, After, Closing, Escaping

-----------------------------------------------------------------------------
(* The end of a string, over its doubled quotes and escapes.               *)
EndsAs(h, t, n, escapes) ==
  h = [j \in (n + 1)..(Len(t) + 2) |->
        IF j > Len(t) THEN Len(t) + 1
        ELSE IF \/ escapes /\ t[j] = "backslash"
                \/ t[j] = "quote" /\ j < Len(t) /\ t[j + 1] = "quote"
             THEN h[j + 2]
             ELSE IF t[j] = "quote" THEN j ELSE h[j + 1]]

LEMMA EndsExist ==
  ASSUME NEW t \in Seq(Marks), NEW n \in 1..Len(t), NEW escapes
  PROVE  \E h : EndsAs(h, t, n, escapes)
<1>0. PICK k \in Nat : k = Len(t) /\ n \in 1..k /\ n \in Nat
  OBVIOUS
<1> DEFINE skips(j) == \/ escapes /\ t[j] = "backslash"
                       \/ t[j] = "quote" /\ j < k /\ t[j + 1] = "quote"
           body(h, j) == IF j > k THEN k + 1
                         ELSE IF skips(j) THEN h[j + 2]
                         ELSE IF t[j] = "quote" THEN j ELSE h[j + 1]
           From(m, h) == h = [j \in m..(k + 2) |-> body(h, j)]
           Bad == {m \in 1..(k + 3) : ~\E h : From(m, h)}
<1>1. ASSUME Bad # {} PROVE FALSE
  <2>0. Bad \in SUBSET (1..(k + 3)) /\ k + 3 \in Nat
    BY <1>0
  <2>1. PICK m \in Bad : \A j \in Bad : m >= j
    <3> HIDE DEF Bad
    <3>1. QED
      BY <1>1, <2>0, SomeGreatest
  <2>2. m \in 1..(k + 3)
    BY <2>1
  <2>3. CASE m = k + 3
    <3>1. From(m, [j \in m..(k + 2) |-> 0])
      <4>1. \A j : j \notin m..(k + 2)
        BY <1>0, <2>3
      <4> DEFINE g == [j \in m..(k + 2) |-> 0]
      <4>2. g = [j \in m..(k + 2) |-> body(g, j)]
        <5> HIDE DEF g, body
        <5>1. g = [j \in m..(k + 2) |-> 0]
          BY DEF g
        <5>2. QED
          BY <4>1, <5>1
      <4>3. QED
        BY <4>2
    <3>2. QED
      BY <2>1, <3>1
  <2>4. CASE m # k + 3
    <3>1. m + 1 \in 1..(k + 3) /\ ~(m >= m + 1) /\ m \in Nat /\ m \in 1..(k + 2)
      BY <1>0, <2>2, <2>4
    <3>2. PICK h : From(m + 1, h)
      BY <2>1, <3>1
    <3> DEFINE g == [j \in m..(k + 2) |-> IF j = m THEN body(h, m) ELSE h[j]]
    <3>3. \A j \in m..(k + 2) : j = m \/ j \in (m + 1)..(k + 2)
      BY <1>0, <3>1
    <3>4. \A j \in (m + 1)..(k + 2) : g[j] = h[j] /\ j # m
      BY <1>0, <3>1
    <3>5. g[m] = body(h, m)
      BY <1>0, <3>1
    <3>6. g = [j \in m..(k + 2) |-> g[j]]
      OBVIOUS
    <3>7. \A j \in (m + 1)..(k + 2) : h[j] = body(h, j)
      BY <3>2
    <3> HIDE DEF g
    <3>8. \A j \in m..(k + 2) : j <= k => j + 1 \in (m + 1)..(k + 2) /\ j + 2 \in (m + 1)..(k + 2)
      BY <1>0, <3>1
    <3>9. \A j \in m..(k + 2) : body(g, j) = body(h, j)
      <4>1. TAKE j \in m..(k + 2)
      <4>2. CASE j > k
        BY <4>2
      <4>3. CASE ~(j > k)
        <5>1. j \in Nat /\ j <= k
          BY <1>0, <3>1, <4>3
        <5>2. g[j + 1] = h[j + 1] /\ g[j + 2] = h[j + 2]
          BY <3>4, <3>8, <5>1
        <5>3. QED
          BY <5>2
      <4>4. QED
        BY <4>2, <4>3
    <3> HIDE DEF body
    <3>10. \A j \in m..(k + 2) : g[j] = body(g, j)
      BY <3>3, <3>4, <3>5, <3>7, <3>9
    <3>11. From(m, g)
      BY <3>6, <3>10
    <3>12. QED
      BY <2>1, <3>11
  <2>5. QED
    BY <2>3, <2>4
<1>2. n + 1 \in 1..(k + 3)
  BY <1>0
<1>3. \E h : From(n + 1, h)
  BY <1>1, <1>2
<1>4. QED
  BY <1>0, <1>3 DEF EndsAs

(* A string as StringEnd reads it: a quote ends it, a backslash escapes    *)
(* where escapes says so, and a doubled quote opens it again.              *)
ReadAs(d, t, region, escapes) ==
  /\ After(d, region, "quote") = "code"
  /\ \A m : m # "quote" /\ ~(escapes /\ m = "backslash") => After(d, region, m) = region
  /\ escapes => \A m : After(d, After(d, region, "backslash"), m) = region
  /\ \A j \in 1..Len(t) :
       Regions(d, t)[j] = region /\ t[j] = "quote" /\ j < Len(t) /\ t[j + 1] = "quote" =>
         After(d, "code", "quote") = region

LEMMA StringEnds ==
  ASSUME NEW d, NEW t \in Seq(Marks), NEW n \in 1..Len(t), NEW region, NEW escapes \in BOOLEAN,
         Regions(d, t)[n + 1] = region, ReadAs(d, t, region, escapes)
  PROVE  LET e == StringEnd(t, n, escapes)
         IN /\ e \in (n + 1)..(Len(t) + 1)
            /\ e <= Len(t) => Regions(d, t)[e + 1] = "code"
<1>0. PICK k \in Nat : k = Len(t) /\ n \in 1..k /\ n \in Nat
  OBVIOUS
<1> DEFINE h == CHOOSE h : EndsAs(h, t, n, escapes)
           R == Regions(d, t)
<1>1. StringEnd(t, n, escapes) = h[n + 1]
  BY Zenon DEF StringEnd, EndsAs
<1>2. EndsAs(h, t, n, escapes)
  BY EndsExist, Zenon
<1> HIDE DEF h
<1>3. \A j \in (n + 1)..(k + 2) :
        /\ j > k => h[j] = k + 1
        /\ j <= k /\ escapes /\ t[j] = "backslash" => h[j] = h[j + 2]
        /\ j < k /\ t[j] = "quote" /\ t[j + 1] = "quote" => h[j] = h[j + 2]
        /\ j <= k /\ t[j] = "quote" => h[j] = j \/ (j < k /\ t[j + 1] = "quote")
        /\ j <= k /\ t[j] # "quote" /\ ~(escapes /\ t[j] = "backslash") => h[j] = h[j + 1]
  BY <1>0, <1>2 DEF EndsAs
<1>4. \A j \in 1..k : R[j + 1] = After(d, R[j], t[j])
  BY <1>0, RegionsStep
<1> HIDE DEF R
<1> DEFINE Well(j) == /\ h[j] \in j..(k + 1) \/ (j = k + 2 /\ h[j] = k + 1)
                      /\ h[j] <= k => R[h[j] + 1] = "code"
           Bad == {j \in (n + 1)..(k + 2) : (j <= k => R[j] = region) /\ ~Well(j)}
<1>5. ASSUME Bad # {} PROVE FALSE
  <2>0. Bad \in SUBSET (1..(k + 2)) /\ k + 2 \in Nat
    BY <1>0
  <2>1. PICK j \in Bad : \A i \in Bad : j >= i
    <3> HIDE DEF Bad
    <3>1. QED
      BY <1>5, <2>0, SomeGreatest
  <2>2. j \in (n + 1)..(k + 2) /\ j \in Nat /\ (j <= k => R[j] = region) /\ ~Well(j)
    BY <1>0, <2>1
  <2>3. ASSUME NEW i \in (j + 1)..(k + 2), i <= k => R[i] = region PROVE Well(i)
    <3>1. i \in (n + 1)..(k + 2) /\ ~(j >= i)
      BY <1>0, <2>2
    <3>2. QED
      BY <2>1, <2>3, <3>1
  <2>4. j <= k
    <3>1. j > k => h[j] = k + 1
      BY <1>3, <2>2
    <3>2. QED
      BY <1>0, <2>2, <3>1
  <2>5. R[j] = region /\ j \in 1..k /\ R[j + 1] = After(d, region, t[j])
    BY <1>0, <1>4, <2>2, <2>4
  <2>6. j + 1 \in (j + 1)..(k + 2) /\ j + 2 \in (j + 1)..(k + 2) /\ (j + 1) + 1 = j + 2
    BY <1>0, <2>2, <2>4
  <2>7. j + 1 <= k => R[j + 2] = After(d, R[j + 1], t[j + 1])
    <3>1. j + 1 <= k => j + 1 \in 1..k
      BY <2>2
    <3>2. QED
      BY <1>4, <2>6, <3>1
  <2>8. \A i \in {j + 1, j + 2} : Well(i) => h[i] \in j..(k + 1)
    BY <1>0, <2>2, <2>4
  <2>9. ASSUME NEW i \in {j + 1, j + 2}, h[j] = h[i], i <= k => R[i] = region PROVE FALSE
    <3>1. Well(i)
      BY <2>3, <2>6, <2>9
    <3>2. h[i] \in j..(k + 1) /\ (h[i] <= k => R[h[i] + 1] = "code")
      BY <2>8, <3>1
    <3>3. QED
      BY <2>2, <2>9, <3>2
  <2>10. ~(escapes /\ t[j] = "backslash")
    <3>1. escapes /\ t[j] = "backslash" => h[j] = h[j + 2]
      BY <1>3, <2>2, <2>4
    <3>2. escapes /\ t[j] = "backslash" /\ j + 2 <= k => R[j + 2] = region
      BY <2>2, <2>5, <2>7 DEF ReadAs
    <3>3. QED
      BY <2>9, <3>1, <3>2
  <2>11. ~(j < k /\ t[j] = "quote" /\ t[j + 1] = "quote")
    <3>1. j < k /\ t[j] = "quote" /\ t[j + 1] = "quote" => h[j] = h[j + 2]
      BY <1>3, <2>2
    <3>2. j < k /\ t[j] = "quote" /\ t[j + 1] = "quote" => R[j + 1] = "code"
      BY <2>5 DEF ReadAs
    <3>3. j < k /\ t[j] = "quote" /\ t[j + 1] = "quote" => After(d, "code", "quote") = region
      BY <1>0, <2>5 DEF ReadAs, R
    <3>4. j < k /\ t[j] = "quote" /\ t[j + 1] = "quote" => R[j + 2] = region
      BY <2>2, <2>4, <2>7, <3>2, <3>3
    <3>5. QED
      BY <2>9, <3>1, <3>4
  <2>12. CASE t[j] = "quote"
    <3>1. h[j] = j
      BY <1>0, <1>3, <2>2, <2>4, <2>11, <2>12
    <3>2. R[j + 1] = "code"
      BY <2>5, <2>12 DEF ReadAs
    <3>3. QED
      BY <1>0, <2>2, <2>4, <3>1, <3>2
  <2>13. CASE t[j] # "quote"
    <3>1. h[j] = h[j + 1]
      BY <1>3, <2>2, <2>4, <2>10, <2>13
    <3>2. R[j + 1] = region
      BY <2>5, <2>10, <2>13 DEF ReadAs
    <3>3. QED
      BY <2>9, <3>1, <3>2
  <2>14. QED
    BY <2>12, <2>13
<1>6. n + 1 \in (n + 1)..(k + 2) /\ R[n + 1] = region /\ n + 1 # k + 2
  BY <1>0 DEF R
<1>7. Well(n + 1)
  BY <1>5, <1>6
<1>8. QED
  BY <1>0, <1>1, <1>6, <1>7 DEF R

-----------------------------------------------------------------------------
(* The cursor of a scan by marks rests on code, or on the newline after a  *)
(* line comment; a line of Oracle starts in code or in the block comment   *)
(* that in_comment tells of, and a line of MySQL in code.                  *)
InStepAt(d, t, n, inComment) ==
  LET region == Regions(d, t)[n]
  IN CASE d \in {"tsql", "postgresql"} -> region = "code" \/ (region = "line" /\ t[n] = "newline")
       [] d = "oracle" -> region = (IF inComment THEN "block" ELSE "code")
       [] OTHER -> region = "code"

BatchInv ==
  /\ input \in Inputs
  /\ pc = "scan" => at \in 1..(Len(Script) + 2)
  /\ pc = "scan" /\ at <= Len(Script) => InStepAt(Dialect, Script, at, comment)

AllReadable == \A x \in Inputs : Readable(x.dialect, x.script)

LEMMA InputIs ==
  ASSUME BatchInv, AllReadable
  PROVE  /\ Dialect \in Dialects /\ Script \in Seq(Marks) /\ Len(Script) \in Nat
         /\ Readable(Dialect, Script)
<1>1. input \in [dialect : Dialects, script : Seq(Marks)]
  BY InputsAssumption DEF BatchInv
<1>2. Dialect \in Dialects /\ Script \in Seq(Marks)
  BY <1>1 DEF Dialect, Script
<1>3. QED
  BY <1>2 DEF BatchInv, AllReadable, Dialect, Script

LEMMA BatchInit == AllReadable /\ Init => BatchInv
<1> SUFFICES ASSUME AllReadable, Init PROVE BatchInv
  OBVIOUS
<1>1. input \in [dialect : Dialects, script : Seq(Marks)] /\ input \in Inputs
  BY InputsAssumption DEF Init
<1>2. Script \in Seq(Marks) /\ Len(Script) \in Nat
  BY <1>1 DEF Script
<1>3. Regions(Dialect, Script)[1] = "code" /\ at = 1 /\ ~comment
  BY <1>2, RegionsStep DEF Init
<1>4. InStepAt(Dialect, Script, at, comment)
  BY <1>3 DEF InStepAt
<1>5. QED
  BY <1>1, <1>2, <1>3, <1>4 DEF BatchInv

(* A step that moves the cursor within the script.                         *)
LEMMA ScanGoesOn ==
  ASSUME BatchInv, AllReadable, input' = input, at' \in 1..(Len(Script) + 2),
         at' <= Len(Script) => InStepAt(Dialect, Script, at', comment')
  PROVE  BatchInv'
BY DEF BatchInv, Dialect, Script

(* A mark the scan by marks acts on stands in code.                        *)
LEMMA HereIs ==
  ASSUME BatchInv, AllReadable, NEW marks, Here(marks)
  PROVE  /\ Dialect \in {"tsql", "postgresql"} /\ Script \in Seq(Marks)
         /\ Len(Script) \in Nat /\ at \in 1..Len(Script) /\ Script[at] \in marks
         /\ \/ Regions(Dialect, Script)[at] = "code"
            \/ Regions(Dialect, Script)[at] = "line" /\ Script[at] = "newline"
<1>1. Script \in Seq(Marks) /\ Len(Script) \in Nat
  BY InputIs
<1>2. /\ pc = "scan" /\ at \in 1..Len(Script) /\ Script[at] \in marks
      /\ Dialect \in {"tsql", "postgresql"}
  BY <1>1 DEF Here, ByMark, BatchInv
<1>3. InStepAt(Dialect, Script, at, comment)
  BY <1>1, <1>2 DEF BatchInv
<1>4. QED
  BY <1>1, <1>2, <1>3 DEF InStepAt

(* The scan goes on at a place where the client reads code.                *)
LEMMA SkipsTo ==
  ASSUME BatchInv, AllReadable, Dialect \in {"tsql", "postgresql"}, NEW n \in 1..(Len(Script) + 2),
         SkipTo(n), n <= Len(Script) =>
                      \/ Regions(Dialect, Script)[n] = "code"
                      \/ Regions(Dialect, Script)[n] = "line" /\ Script[n] = "newline"
  PROVE  BatchInv'
<1>0. Len(Script) \in Nat
  BY InputIs
<1>1. input' = input /\ at' = (IF n <= Len(Script) THEN n ELSE Len(Script) + 1)
  BY DEF SkipTo
<1>2. at' \in 1..(Len(Script) + 2) /\ (at' <= Len(Script) => at' = n /\ n <= Len(Script))
  BY <1>0, <1>1
<1>3. at' <= Len(Script) => InStepAt(Dialect, Script, at', comment')
  BY <1>2 DEF InStepAt
<1>4. QED
  BY <1>1, <1>2, <1>3, ScanGoesOn

LEMMA LineCommentStep == AllReadable /\ BatchInv /\ SkipLineComment => BatchInv'
<1> SUFFICES ASSUME AllReadable, BatchInv, SkipLineComment PROVE BatchInv'
  OBVIOUS
<1> DEFINE f == Find(Script, "newline", at)
<1>1. Here({"dashes"}) /\ SkipTo(f)
  BY DEF SkipLineComment
<1>2. /\ Dialect \in {"tsql", "postgresql"} /\ Script \in Seq(Marks) /\ Len(Script) \in Nat
      /\ at \in 1..Len(Script) /\ Script[at] = "dashes" /\ Regions(Dialect, Script)[at] = "code"
  BY <1>1, HereIs
<1>3. After(Dialect, "code", "dashes") = "line" /\ Closes(Dialect, "line", "newline")
  BY RegionsClose DEF Opened
<1>4. /\ f \in (at + 1)..(Len(Script) + 1) /\ Regions(Dialect, Script)[f] = "line"
      /\ f <= Len(Script) => Script[f] = "newline"
  <2>1. at \in at..(at + 1)
    BY <1>2
  <2>2. QED
    BY <1>2, <1>3, <2>1, RegionLasts
<1> HIDE DEF f
<1>5. f \in 1..(Len(Script) + 2)
  BY <1>2, <1>4
<1>6. QED
  BY <1>1, <1>2, <1>4, <1>5, SkipsTo

LEMMA BlockCommentStep == AllReadable /\ BatchInv /\ SkipBlockComment => BatchInv'
<1> SUFFICES ASSUME AllReadable, BatchInv, SkipBlockComment PROVE BatchInv'
  OBVIOUS
<1> DEFINE f == Find(Script, "close", at)
<1>1. Here({"open"}) /\ SkipTo(f + 1)
  BY DEF SkipBlockComment
<1>2. /\ Dialect \in {"tsql", "postgresql"} /\ Script \in Seq(Marks) /\ Len(Script) \in Nat
      /\ at \in 1..Len(Script) /\ Script[at] = "open" /\ Regions(Dialect, Script)[at] = "code"
  BY <1>1, HereIs
<1>3. After(Dialect, "code", "open") = "block" /\ Closes(Dialect, "block", "close")
  BY RegionsClose DEF Opened
<1>4. /\ f \in (at + 1)..(Len(Script) + 1)
      /\ f <= Len(Script) => Regions(Dialect, Script)[f + 1] = "code"
  <2>1. at \in at..(at + 1)
    BY <1>2
  <2>2. QED
    BY <1>2, <1>3, <2>1, RegionLasts
<1> HIDE DEF f
<1>5. f + 1 \in 1..(Len(Script) + 2) /\ (f + 1 <= Len(Script) => f <= Len(Script))
  BY <1>2, <1>4
<1>6. QED
  BY <1>1, <1>2, <1>4, <1>5, SkipsTo

LEMMA StringsRead ==
  ASSUME NEW d \in {"tsql", "postgresql"}, NEW t \in Seq(Marks), Readable(d, t),
         NEW escapes \in BOOLEAN
  PROVE  /\ ~escapes => ReadAs(d, t, "string", escapes)
         /\ escapes /\ d = "postgresql" => ReadAs(d, t, "escaping_string", escapes)
<1>1. /\ After(d, "string", "quote") = "code" /\ After(d, "code", "quote") = "string"
      /\ \A m : m # "quote" => After(d, "string", m) = "string"
  BY Zenon DEF After, Opened, Closing, Escaping
<1>2. /\ After(d, "escaping_string", "quote") = "code"
      /\ \A m : m # "quote" /\ m # "backslash" =>
              After(d, "escaping_string", m) = "escaping_string"
      /\ \A m : After(d, After(d, "escaping_string", "backslash"), m) = "escaping_string"
  BY Zenon DEF After, Opened, Closing, Escaping
<1>3. ~escapes => ReadAs(d, t, "string", escapes)
  BY <1>1, Zenon DEF ReadAs
<1>4. ASSUME escapes, d = "postgresql" PROVE ReadAs(d, t, "escaping_string", escapes)
  <2>1. \A n \in DOMAIN t : Regions(d, t)[n] = "escaping_string" /\ t[n] = "quote" /\ n < Len(t) =>
                             t[n + 1] # "quote"
    BY <1>4, Zenon DEF Readable
  <2>2. DOMAIN t = 1..Len(t)
    OBVIOUS
  <2>3. QED
    BY <1>2, <1>4, <2>1, <2>2, Zenon DEF ReadAs
<1>5. QED
  BY <1>3, <1>4

LEMMA StringStep == AllReadable /\ BatchInv /\ SkipString => BatchInv'
<1> SUFFICES ASSUME AllReadable, BatchInv, SkipString PROVE BatchInv'
  OBVIOUS
<1>1. Here({"quote", "equote"})
  BY DEF SkipString
<1>2. /\ Dialect \in {"tsql", "postgresql"} /\ Script \in Seq(Marks) /\ Len(Script) \in Nat
      /\ at \in 1..Len(Script) /\ Script[at] \in {"quote", "equote"}
      /\ Regions(Dialect, Script)[at] = "code"
  BY <1>1, HereIs
<1>3. Readable(Dialect, Script)
  BY InputIs
<1>4. Dialect = "tsql" => Script[at] # "equote"
  BY <1>2, <1>3 DEF Readable
<1>5. Regions(Dialect, Script)[at + 1] = After(Dialect, "code", Script[at])
  BY <1>2, RegionsStep
<1> DEFINE escapes == Dialect = "postgresql" /\ Script[at] = "equote"
           e == StringEnd(Script, at, escapes)
<1>6. SkipTo(e + 1)
  BY DEF SkipString
<1>7. PICK region : /\ Regions(Dialect, Script)[at + 1] = region
                    /\ ReadAs(Dialect, Script, region, escapes)
  <2>1. CASE Script[at] = "quote"
    <3>1. After(Dialect, "code", "quote") = "string"
      BY RegionsClose DEF Opened
    <3>2. ~escapes /\ escapes \in BOOLEAN
      BY <2>1
    <3> HIDE DEF escapes
    <3>3. ReadAs(Dialect, Script, "string", escapes)
      BY <1>2, <1>3, <3>2, StringsRead
    <3>4. Regions(Dialect, Script)[at + 1] = "string"
      BY <1>5, <2>1, <3>1
    <3>5. QED
      BY <3>3, <3>4
  <2>2. CASE Script[at] = "equote"
    <3>1. Dialect = "postgresql"
      BY <1>2, <1>4, <2>2
    <3>2. After("postgresql", "code", "equote") = "escaping_string"
      BY Zenon DEF After, Opened
    <3>3. escapes
      BY <2>2, <3>1
    <3> HIDE DEF escapes
    <3>4. ReadAs(Dialect, Script, "escaping_string", escapes)
      BY <1>2, <1>3, <3>1, <3>3, StringsRead
    <3>5. Regions(Dialect, Script)[at + 1] = "escaping_string"
      BY <1>5, <2>2, <3>1, <3>2, Zenon
    <3>6. QED
      BY <3>4, <3>5, Zenon
  <2>3. QED
    BY <1>2, <2>1, <2>2
<1>8. escapes \in BOOLEAN
  OBVIOUS
<1> HIDE DEF escapes
<1>9. /\ e \in (at + 1)..(Len(Script) + 1)
      /\ e <= Len(Script) => Regions(Dialect, Script)[e + 1] = "code"
  BY <1>2, <1>7, <1>8, StringEnds
<1> HIDE DEF e
<1>10. e + 1 \in 1..(Len(Script) + 2) /\ (e + 1 <= Len(Script) => e <= Len(Script))
  BY <1>2, <1>9
<1>11. QED
  BY <1>2, <1>6, <1>9, <1>10, SkipsTo

LEMMA IdentifierStep == AllReadable /\ BatchInv /\ SkipIdentifier => BatchInv'
<1> SUFFICES ASSUME AllReadable, BatchInv, SkipIdentifier PROVE BatchInv'
  OBVIOUS
<1> DEFINE f == Find(Script, "dquote", at + 1)
<1>1. Here({"dquote"}) /\ Dialect = "postgresql" /\ SkipTo(f + 1)
  BY DEF SkipIdentifier
<1>2. /\ Script \in Seq(Marks) /\ Len(Script) \in Nat
      /\ at \in 1..Len(Script) /\ Script[at] = "dquote" /\ Regions(Dialect, Script)[at] = "code"
  BY <1>1, HereIs
<1>3. After(Dialect, "code", "dquote") = "identifier" /\ Closes(Dialect, "identifier", "dquote")
  BY <1>1, RegionsClose DEF Opened
<1>4. /\ f \in (at + 1)..(Len(Script) + 1)
      /\ f <= Len(Script) => Regions(Dialect, Script)[f + 1] = "code"
  <2>1. at + 1 \in at..(at + 1) /\ at + 1 # at
    BY <1>2
  <2>2. QED
    BY <1>2, <1>3, <2>1, RegionLasts
<1> HIDE DEF f
<1>5. f + 1 \in 1..(Len(Script) + 2) /\ (f + 1 <= Len(Script) => f <= Len(Script))
  BY <1>2, <1>4
<1>6. QED
  BY <1>1, <1>2, <1>4, <1>5, SkipsTo

(* A body ends where the client ends it: Readable says so.                 *)
LEMMA BodyStep == AllReadable /\ BatchInv /\ SkipBody => BatchInv'
<1> SUFFICES ASSUME AllReadable, BatchInv, SkipBody PROVE BatchInv'
  OBVIOUS
<1> DEFINE tag == Script[at]
           f == Find(Script, tag, at + 1)
<1>1. Here({"dollar", "tag"}) /\ Dialect = "postgresql" /\ SkipTo(BodyEnd(Script, at) + 1)
  BY DEF SkipBody
<1>2. /\ Script \in Seq(Marks) /\ Len(Script) \in Nat
      /\ at \in 1..Len(Script) /\ tag \in {"dollar", "tag"} /\ Regions(Dialect, Script)[at] = "code"
  BY <1>1, HereIs
<1>3. BodyEnd(Script, at) = f
  <2>1. Readable("postgresql", Script)
    BY <1>1, InputIs
  <2>2. \A n \in DOMAIN Script :
          Regions("postgresql", Script)[n] = "code" /\ Script[n] \in {"dollar", "tag"} =>
            BodyEnd(Script, n) = Find(Script, Script[n], n + 1)
    BY <2>1, Zenon DEF Readable
  <2>3. at \in DOMAIN Script
    BY <1>2
  <2>4. QED
    BY <1>1, <1>2, <2>2, <2>3
<1>4. PICK region : After(Dialect, "code", tag) = region /\ Closes(Dialect, region, tag)
  <2>1. After("postgresql", "code", "dollar") = "body" /\ After("postgresql", "code", "tag") = "tagged_body"
    BY Zenon DEF After, Opened
  <2>2. Closes(Dialect, "body", "dollar") /\ Closes(Dialect, "tagged_body", "tag")
    BY RegionsClose
  <2>3. QED
    BY <1>1, <1>2, <2>1, <2>2, Zenon
<1> HIDE DEF tag
<1>5. /\ f \in (at + 1)..(Len(Script) + 1)
      /\ f <= Len(Script) => Regions(Dialect, Script)[f + 1] = "code"
  <2>1. at + 1 \in at..(at + 1) /\ at + 1 # at
    BY <1>2
  <2>2. After(Dialect, "code", Script[at]) = region
    BY <1>4 DEF tag
  <2>3. QED
    BY <1>2, <1>4, <2>1, <2>2, RegionLasts
<1> HIDE DEF f
<1>6. f + 1 \in 1..(Len(Script) + 2) /\ (f + 1 <= Len(Script) => f <= Len(Script))
  BY <1>2, <1>5
<1>7. QED
  BY <1>1, <1>2, <1>3, <1>5, <1>6, SkipsTo

LEMMA GoStep == AllReadable /\ BatchInv /\ CutAtGo => BatchInv'
<1> SUFFICES ASSUME AllReadable, BatchInv, CutAtGo PROVE BatchInv'
  OBVIOUS
<1>1. Here({"go"}) /\ Dialect = "tsql" /\ input' = input
      /\ at' = (IF at < Len(Script) THEN at + 2 ELSE at + 1)
  BY DEF CutAtGo
<1>2. /\ Script \in Seq(Marks) /\ Len(Script) \in Nat /\ Readable("tsql", Script)
      /\ at \in 1..Len(Script) /\ Script[at] = "go" /\ Regions(Dialect, Script)[at] = "code"
  BY <1>1, HereIs, InputIs
<1>3. Regions(Dialect, Script)[at + 1] = "code"
  <2>1. Regions(Dialect, Script)[at + 1] = After(Dialect, "code", "go")
    BY <1>2, RegionsStep
  <2>2. After(Dialect, "code", "go") = "code"
    BY Zenon DEF After, Opened
  <2>3. QED
    BY <2>1, <2>2
<1>4. CASE at < Len(Script)
  <2>1. at + 1 \in 1..Len(Script) /\ (at + 1) + 1 = at + 2 /\ at' = at + 2
        /\ at' \in 1..(Len(Script) + 2)
    BY <1>1, <1>2, <1>4
  <2>2. Script[at + 1] = "newline"
    <3>1. \A n \in DOMAIN Script : Script[n] = "go" /\ n < Len(Script) => Script[n + 1] = "newline"
      BY <1>2, Zenon DEF Readable
    <3>2. at \in DOMAIN Script
      BY <1>2
    <3>3. QED
      BY <1>2, <1>4, <3>1, <3>2
  <2>3. Regions(Dialect, Script)[at + 2] = After(Dialect, "code", "newline")
    BY <1>2, <1>3, <2>1, <2>2, RegionsStep
  <2>4. After(Dialect, "code", "newline") = "code"
    BY Zenon DEF After, Opened
  <2>5. InStepAt(Dialect, Script, at', comment')
    BY <1>1, <2>1, <2>3, <2>4 DEF InStepAt
  <2>6. QED
    BY <1>1, <2>1, <2>5, ScanGoesOn
<1>5. CASE ~(at < Len(Script))
  <2>1. at' = at + 1 /\ at' \in 1..(Len(Script) + 2) /\ ~(at' <= Len(Script))
    BY <1>1, <1>2, <1>5
  <2>2. QED
    BY <1>1, <2>1, ScanGoesOn
<1>6. QED
  BY <1>4, <1>5

LEMMA SemiStep == AllReadable /\ BatchInv /\ CutAtSemi => BatchInv'
<1> SUFFICES ASSUME AllReadable, BatchInv, CutAtSemi PROVE BatchInv'
  OBVIOUS
<1>1. Here({"semi"}) /\ Dialect = "postgresql" /\ input' = input /\ at' = at + 1
  BY DEF CutAtSemi
<1>2. /\ Script \in Seq(Marks) /\ Len(Script) \in Nat
      /\ at \in 1..Len(Script) /\ Script[at] = "semi" /\ Regions(Dialect, Script)[at] = "code"
  BY <1>1, HereIs
<1>3. Regions(Dialect, Script)[at + 1] = After(Dialect, "code", "semi")
  BY <1>2, RegionsStep
<1>4. After(Dialect, "code", "semi") = "code"
  BY Zenon DEF After, Opened
<1>5. at' \in 1..(Len(Script) + 2)
  BY <1>1, <1>2
<1>6. InStepAt(Dialect, Script, at', comment')
  BY <1>1, <1>3, <1>4 DEF InStepAt
<1>7. QED
  BY <1>1, <1>5, <1>6, ScanGoesOn

(* No other mark opens anything on T-SQL and PostgreSQL.                   *)
LEMMA AdvanceStep == AllReadable /\ BatchInv /\ Advance => BatchInv'
<1> SUFFICES ASSUME AllReadable, BatchInv, Advance PROVE BatchInv'
  OBVIOUS
<1> DEFINE m == Script[at]
<1>1. /\ Here(Marks \ {"dashes", "open", "quote", "equote"}) /\ SkipTo(at + 1)
      /\ Dialect = "postgresql" => m \notin {"dquote", "dollar", "tag"}
  BY DEF Advance
<1>2. /\ Dialect \in {"tsql", "postgresql"} /\ Script \in Seq(Marks) /\ Len(Script) \in Nat
      /\ at \in 1..Len(Script) /\ m \notin {"dashes", "open", "quote", "equote"}
      /\ \/ Regions(Dialect, Script)[at] = "code"
         \/ Regions(Dialect, Script)[at] = "line" /\ m = "newline"
  BY <1>1, HereIs
<1>3. Regions(Dialect, Script)[at + 1] = After(Dialect, Regions(Dialect, Script)[at], m)
  BY <1>2, RegionsStep
<1> HIDE DEF m
<1>4. After(Dialect, "line", "newline") = "code"
  BY RegionsClose DEF Closes
<1>5. After(Dialect, "code", m) = "code"
  <2>1. Opened(Dialect, m) = "code"
    <3>1. Dialect # "oracle" /\ (Dialect = "postgresql" => m # "equote" /\ m # "dquote" /\ m # "dollar" /\ m # "tag")
          /\ m # "quote" /\ m # "open" /\ m # "dashes"
      BY <1>1, <1>2
    <3>2. QED
      BY <3>1, Zenon DEF Opened
  <2>2. QED
    BY <2>1, RegionsClose
<1>6. Regions(Dialect, Script)[at + 1] = "code"
  BY <1>2, <1>3, <1>4, <1>5
<1>7. at + 1 \in 1..(Len(Script) + 2)
  BY <1>2
<1>8. QED
  BY <1>1, <1>2, <1>6, <1>7, SkipsTo

-----------------------------------------------------------------------------
(* The lines of Oracle.                                                    *)

LEMMA LineIs ==
  ASSUME NEW t \in Seq(Marks), NEW a \in 1..Len(t), NEW f \in a..(Len(t) + 1)
  PROVE  /\ Len(SubSeq(t, a, f - 1)) = f - a
         /\ \A n \in 1..(f - a) : SubSeq(t, a, f - 1)[n] = t[a + n - 1]
<1>1. PICK k \in Nat : k = Len(t) /\ a \in 1..k /\ f \in a..(k + 1)
  OBVIOUS
<1>2. (f - 1) - a + 1 = f - a /\ f - a \in Nat
  BY <1>1
<1>3. SubSeq(t, a, f - 1) = [n \in 1..((f - 1) - a + 1) |-> t[a + n - 1]]
  BY <1>1
<1>4. QED
  BY <1>2, <1>3

FoldAs(h, line, state) ==
  h = [n \in 0..Len(line) |->
        IF n = 0 THEN IF state THEN "block" ELSE "code"
        ELSE CommentStep(h[n - 1], line[n])]

LEMMA FoldExists ==
  ASSUME NEW line, Len(line) \in Nat, NEW state
  PROVE  \E h : FoldAs(h, line, state)
<1> DEFINE first == IF state THEN "block" ELSE "code"
           Upto(m, h) == h = [n \in 0..m |-> IF n = 0 THEN first ELSE CommentStep(h[n - 1], line[n])]
           Bad == {m \in 0..Len(line) : ~\E h : Upto(m, h)}
<1> HIDE DEF first
<1>1. ASSUME Bad # {} PROVE FALSE
  <2>0. Bad \in SUBSET Nat
    OBVIOUS
  <2>1. PICK m \in Bad : \A j \in Bad : m <= j
    <3> HIDE DEF Bad
    <3>1. QED
      BY <1>1, <2>0, SomeLeast
  <2>2. CASE m = 0
    <3>1. Upto(0, [n \in 0..0 |-> first])
      OBVIOUS
    <3>2. QED
      BY <2>1, <2>2, <3>1
  <2>3. CASE m # 0
    <3>1. m \in 1..Len(line) /\ m - 1 \in 0..Len(line) /\ ~(m <= m - 1) /\ m \in Nat
      BY <2>1, <2>3
    <3>2. PICK h : Upto(m - 1, h)
      BY <2>1, <3>1
    <3> DEFINE last == CommentStep(h[m - 1], line[m])
               g == [n \in 0..m |-> IF n = m THEN last ELSE h[n]]
    <3>3. \A n \in 0..m : n = m \/ n \in 0..(m - 1)
      BY <3>1
    <3>4. \A n \in 0..(m - 1) :
            /\ g[n] = h[n]
            /\ h[n] = IF n = 0 THEN first ELSE CommentStep(h[n - 1], line[n])
      BY <3>1, <3>2
    <3>5. g[m] = last
      BY <3>1
    <3>6. g[m - 1] = h[m - 1]
      BY <3>1, <3>4
    <3>7. \A n \in 0..(m - 1) : n # 0 => g[n - 1] = h[n - 1]
      BY <3>1, <3>4
    <3>8. g = [n \in 0..m |-> g[n]]
      OBVIOUS
    <3>9. \A n \in 0..m : g[n] = IF n = 0 THEN first ELSE CommentStep(g[n - 1], line[n])
      <4> HIDE DEF g
      <4>1. QED
        BY <2>3, <3>3, <3>4, <3>5, <3>6, <3>7
    <3>10. Upto(m, g)
      <4> HIDE DEF g
      <4>1. QED
        BY <3>8, <3>9
    <3>11. QED
      BY <2>1, <3>10
  <2>4. QED
    BY <2>2, <2>3
<1>2. \E h : Upto(Len(line), h)
  BY <1>1
<1>3. QED
  BY <1>2 DEF FoldAs, first

(* The regions the client knows on Oracle.                                 *)
LEMMA OracleRegions ==
  ASSUME NEW t \in Seq(Marks)
  PROVE  \A n \in 1..(Len(t) + 1) : Regions("oracle", t)[n] \in {"code", "string", "line", "block"}
<1>0. PICK k \in Nat : k = Len(t)
  OBVIOUS
<1> DEFINE R == Regions("oracle", t)
           Bad == {n \in 1..(k + 1) : R[n] \notin {"code", "string", "line", "block"}}
<1>1. R[1] = "code" /\ \A n \in 1..k : R[n + 1] = After("oracle", R[n], t[n])
  BY <1>0, RegionsStep
<1>2. \A r \in {"code", "string", "line", "block"} : \A m :
        After("oracle", r, m) \in {"code", "string", "line", "block"}
  BY Zenon DEF After, Opened, Closing, Escaping
<1> HIDE DEF R
<1>3. ASSUME Bad # {} PROVE FALSE
  <2>0. Bad \in SUBSET Nat
    OBVIOUS
  <2>1. PICK m \in Bad : \A j \in Bad : m <= j
    <3> HIDE DEF Bad
    <3>1. QED
      BY <1>3, <2>0, SomeLeast
  <2>2. m # 1
    BY <1>1, <2>1
  <2>3. m - 1 \in 1..k /\ (m - 1) + 1 = m /\ ~(m <= m - 1) /\ m - 1 \in 1..(k + 1)
    BY <1>0, <2>1, <2>2
  <2>4. R[m - 1] \in {"code", "string", "line", "block"}
    BY <2>1, <2>3
  <2>5. R[m] = After("oracle", R[m - 1], t[m - 1])
    BY <1>1, <2>3
  <2>6. QED
    BY <1>2, <2>1, <2>4, <2>5
<1>4. QED
  BY <1>0, <1>3 DEF R

(* Mark by mark the reader and the client agree, but for REM.              *)
LEMMA MarksAgree ==
  ASSUME NEW m, m # "newline"
  PROVE  /\ m # "rem" => CommentStep("code", m) = After("oracle", "code", m)
         /\ CommentStep("code", "rem") = "code" /\ After("oracle", "code", "rem") = "line"
         /\ CommentStep("string", m) = After("oracle", "string", m)
         /\ CommentStep("line", m) = After("oracle", "line", m)
         /\ CommentStep("block", m) = After("oracle", "block", m)
         /\ After("oracle", "line", m) = "line"
         /\ \A r : r # "block" /\ m # "open" => CommentStep(r, m) # "block"
<1>1. m # "rem" => CommentStep("code", m) = After("oracle", "code", m)
  <2>1. CASE m = "quote"
    BY <2>1, Zenon DEF CommentStep, After, Opened
  <2>2. CASE m = "open"
    BY <2>2, Zenon DEF CommentStep, After, Opened
  <2>3. CASE m = "dashes"
    BY <2>3, Zenon DEF CommentStep, After, Opened
  <2>4. CASE m # "quote" /\ m # "open" /\ m # "dashes"
    <3>1. CommentStep("code", m) = "code"
      BY <2>4, Zenon DEF CommentStep
    <3>2. m # "rem" => Opened("oracle", m) = "code"
      BY <2>4, Zenon DEF Opened
    <3>3. QED
      BY <3>1, <3>2, RegionsClose
  <2>5. QED
    BY <2>1, <2>2, <2>3, <2>4
<1>2. CommentStep("code", "rem") = "code" /\ After("oracle", "code", "rem") = "line"
  BY Zenon DEF CommentStep, After, Opened
<1>3. CommentStep("string", m) = After("oracle", "string", m)
  BY Zenon DEF CommentStep, After, Closing, Escaping
<1>4. CommentStep("line", m) = After("oracle", "line", m) /\ After("oracle", "line", m) = "line"
  BY Zenon DEF CommentStep, After, Closing, Escaping
<1>5. CommentStep("block", m) = After("oracle", "block", m)
  BY Zenon DEF CommentStep, After, Closing, Escaping
<1>6. \A r : r # "block" /\ m # "open" => CommentStep(r, m) # "block"
  BY Zenon DEF CommentStep
<1>7. QED
  BY <1>1, <1>2, <1>3, <1>4, <1>5, <1>6

(* No comment opens on a line behind a REM or a SET.                       *)
Quiet(t, p, f) == \A n \in p..(f - 1) : t[n] # "open"

LEMMA DirectivesAreQuiet ==
  ASSUME NEW t \in Seq(Marks), Readable("oracle", t), NEW a \in 1..Len(t),
         NEW p \in a..(Find(t, "newline", a) - 1), t[p] \in {"rem", "set"}
  PROVE  Quiet(t, p, Find(t, "newline", a))
<1>0. PICK k \in Nat : k = Len(t) /\ a \in 1..k /\ a \in 1..(k + 1)
  OBVIOUS
<1> DEFINE f == Find(t, "newline", a)
           v == Find(t, "newline", p)
           u == Find(t, "open", p)
<1>1. f \in a..(k + 1) /\ \A n \in a..(f - 1) : n \in 1..k /\ t[n] # "newline"
  BY <1>0, FindIs
<1> HIDE DEF f
<1>2. p \in a..(f - 1) /\ p \in 1..k /\ p \in 1..(k + 1)
  BY <1>0, <1>1 DEF f
<1>3. ~(u < v)
  <2>1. \A n \in DOMAIN t : t[n] \in {"rem", "set"} => ~(Find(t, "open", n) < Find(t, "newline", n))
    BY Zenon DEF Readable
  <2>2. p \in DOMAIN t
    BY <1>0, <1>2
  <2>3. QED
    BY <2>1, <2>2
<1>4. v \in p..(k + 1) /\ (v <= k => t[v] = "newline")
  BY <1>0, <1>2, FindIs
<1>5. u \in p..(k + 1) /\ \A n \in p..(u - 1) : t[n] # "open"
  BY <1>0, <1>2, FindIs
<1> HIDE DEF u, v
<1>6. v >= f
  <2>1. v \notin a..(f - 1)
    <3>1. v \in a..(f - 1) => v <= k /\ t[v] # "newline"
      BY <1>0, <1>1
    <3>2. QED
      BY <1>4, <3>1
  <2>2. QED
    BY <1>0, <1>1, <1>2, <1>4, <2>1
<1>7. \A n \in p..(f - 1) : n \in p..(u - 1)
  BY <1>0, <1>1, <1>2, <1>3, <1>4, <1>5, <1>6
<1>8. QED
  BY <1>5, <1>7 DEF Quiet, f

(* What the client holds open behind a line, the reader does.              *)
LEMMA CommentIs ==
  ASSUME NEW t \in Seq(Marks), Readable("oracle", t), NEW a \in 1..Len(t), NEW state \in BOOLEAN,
         Regions("oracle", t)[a] = (IF state THEN "block" ELSE "code"),
         Find(t, "newline", a) <= Len(t)
  PROVE  LET f == Find(t, "newline", a)
         IN Regions("oracle", t)[f + 1]
              = IF CommentAfter(SubSeq(t, a, f - 1), state) THEN "block" ELSE "code"
<1> DEFINE f == Find(t, "newline", a)
           line == SubSeq(t, a, f - 1)
           R == Regions("oracle", t)
           h == CHOOSE h : FoldAs(h, line, state)
<1>0. PICK k \in Nat : k = Len(t) /\ a \in 1..k /\ a \in 1..(k + 1)
  OBVIOUS
<1>1. f \in a..k /\ t[f] = "newline" /\ \A n \in a..(f - 1) : n \in 1..k /\ t[n] # "newline"
  BY <1>0, FindIs
<1>2. \A p \in a..(f - 1) : t[p] = "rem" => Quiet(t, p, f)
  BY DirectivesAreQuiet
<1> HIDE DEF f
<1>3. PICK w \in Nat : w = f - a /\ f = a + w
  BY <1>0, <1>1
<1>4. Len(line) = w /\ \A n \in 1..w : line[n] = t[a + n - 1]
  <2>1. f \in a..(Len(t) + 1)
    BY <1>0, <1>1
  <2>2. QED
    BY <1>3, <2>1, LineIs
<1> HIDE DEF line
<1>5. CommentAfter(line, state) <=> h[Len(line)] = "block"
  BY Zenon DEF CommentAfter, FoldAs
<1>6. FoldAs(h, line, state)
  <2>1. Len(line) \in Nat
    BY <1>3, <1>4
  <2>2. QED
    BY <2>1, FoldExists, Zenon
<1> HIDE DEF h
<1> DEFINE first == IF state THEN "block" ELSE "code"
<1>7. \A n \in 0..w : /\ n = 0 => h[n] = first
                      /\ n # 0 => h[n] = CommentStep(h[n - 1], line[n])
  BY <1>4, <1>6 DEF FoldAs
<1>8. \A n \in 1..k : R[n + 1] = After("oracle", R[n], t[n])
  BY <1>0, RegionsStep
<1>9. \A n \in 1..(k + 1) : R[n] \in {"code", "string", "line", "block"}
  BY <1>0, OracleRegions
<1>10. R[a] = first
  OBVIOUS
<1> HIDE DEF first
<1> DEFINE Reached(n) == \/ h[n] = R[a + n]
                         \/ R[a + n] = "line" /\ h[n] # "block" /\ Quiet(t, a + n, f)
           Bad == {n \in 0..w : ~Reached(n)}
<1>11. R[f] # "string"
  <2>1. \A n \in DOMAIN t : t[n] = "newline" => R[n] # "string"
    BY Zenon DEF Readable
  <2>2. f \in DOMAIN t
    BY <1>0, <1>1
  <2>3. QED
    BY <1>1, <2>1, <2>2
<1> HIDE DEF R
<1>12. ASSUME Bad # {} PROVE FALSE
  <2>0. Bad \in SUBSET Nat
    BY <1>3
  <2>1. PICK n \in Bad : \A j \in Bad : n <= j
    <3> HIDE DEF Bad
    <3>1. QED
      BY <1>12, <2>0, SomeLeast
  <2>2. n # 0
    <3>1. 0 \in 0..w /\ a + 0 = a
      BY <1>0, <1>3
    <3>2. h[0] = first
      BY <1>7, <3>1
    <3>3. h[0] = R[a + 0]
      BY <1>10, <3>1, <3>2
    <3>4. QED
      BY <2>1, <3>3
  <2>3. PICK p \in a..(f - 1) : p = a + n - 1
    BY <1>0, <1>3, <2>1, <2>2
  <2>4. /\ n - 1 \in 0..w /\ n \in 1..w /\ ~(n <= n - 1) /\ a + (n - 1) = p /\ a + n = p + 1
        /\ p \in 1..k /\ p \in 1..(k + 1) /\ t[p] # "newline"
    BY <1>0, <1>1, <1>3, <2>1, <2>2, <2>3
  <2>5. R[p + 1] = After("oracle", R[p], t[p]) /\ R[p] \in {"code", "string", "line", "block"}
    BY <1>8, <1>9, <2>4
  <2>6. h[n] = CommentStep(h[n - 1], t[p])
    BY <1>4, <1>7, <2>2, <2>3, <2>4
  <2>7. \/ h[n - 1] = R[p]
        \/ R[p] = "line" /\ h[n - 1] # "block" /\ Quiet(t, p, f)
    BY <2>1, <2>4
  <2>8. CASE h[n - 1] = R[p] /\ ~(R[p] = "code" /\ t[p] = "rem")
    <3>1. CommentStep(R[p], t[p]) = After("oracle", R[p], t[p])
      BY <2>4, <2>5, <2>8, MarksAgree
    <3>2. h[n] = R[a + n]
      BY <2>4, <2>5, <2>6, <2>8, <3>1
    <3>3. QED
      BY <2>1, <3>2
  <2>9. CASE h[n - 1] = R[p] /\ R[p] = "code" /\ t[p] = "rem"
    <3>1. h[n] = "code" /\ R[a + n] = "line"
      BY <2>4, <2>5, <2>6, <2>9, MarksAgree
    <3>2. Quiet(t, p, f)
      BY <1>2, <2>9
    <3>3. Quiet(t, a + n, f)
      BY <1>0, <1>1, <2>3, <2>4, <3>2 DEF Quiet
    <3>4. QED
      BY <2>1, <3>1, <3>3
  <2>10. CASE R[p] = "line" /\ h[n - 1] # "block" /\ Quiet(t, p, f)
    <3>1. t[p] # "open"
      BY <1>0, <1>1, <2>3, <2>10 DEF Quiet
    <3>2. h[n] # "block" /\ R[a + n] = "line"
      BY <2>4, <2>5, <2>6, <2>10, <3>1, MarksAgree
    <3>3. Quiet(t, a + n, f)
      BY <1>0, <1>1, <2>3, <2>4, <2>10 DEF Quiet
    <3>4. QED
      BY <2>1, <3>2, <3>3
  <2>11. QED
    BY <2>7, <2>8, <2>9, <2>10
<1>13. h[w] = R[f] \/ (R[f] = "line" /\ h[w] # "block")
  BY <1>3, <1>12
<1>14. R[f + 1] = After("oracle", R[f], "newline") /\ R[f] \in {"code", "line", "block"}
  BY <1>0, <1>1, <1>8, <1>9, <1>11
<1>15. /\ After("oracle", "code", "newline") = "code" /\ After("oracle", "line", "newline") = "code"
       /\ After("oracle", "block", "newline") = "block"
  BY Zenon DEF After, Opened, Closing, Escaping
<1>16. R[f + 1] = IF h[w] = "block" THEN "block" ELSE "code"
  BY <1>13, <1>14, <1>15
<1>17. CommentAfter(line, state) <=> h[w] = "block"
  BY <1>4, <1>5
<1>18. QED
  BY <1>16, <1>17 DEF R, f, line

LEMMA QuietLineIs ==
  ASSUME NEW t \in Seq(Marks), Readable("oracle", t), NEW a \in 1..Len(t),
         Regions("oracle", t)[a] = "code", Find(t, "newline", a) <= Len(t),
         Quiet(t, a, Find(t, "newline", a))
  PROVE  Regions("oracle", t)[Find(t, "newline", a) + 1] = "code"
<1> DEFINE f == Find(t, "newline", a)
           R == Regions("oracle", t)
           Bad == {n \in a..f : R[n] = "block"}
<1>0. PICK k \in Nat : k = Len(t) /\ a \in 1..k /\ a \in 1..(k + 1)
  OBVIOUS
<1>1. f \in a..k /\ t[f] = "newline"
  BY <1>0, FindIs
<1>2. \A n \in a..(f - 1) : t[n] # "open"
  BY DEF Quiet
<1> HIDE DEF f
<1>3. /\ \A n \in 1..k : R[n + 1] = After("oracle", R[n], t[n])
      /\ \A n \in 1..(k + 1) : R[n] \in {"code", "string", "line", "block"}
  BY <1>0, RegionsStep, OracleRegions
<1>4. R[f] # "string"
  <2>1. \A n \in DOMAIN t : t[n] = "newline" => R[n] # "string"
    BY Zenon DEF Readable
  <2>2. f \in DOMAIN t
    BY <1>0, <1>1
  <2>3. QED
    BY <1>1, <2>1, <2>2
<1>5. \A r \in {"code", "string", "line"} : \A m :
        m # "open" => After("oracle", r, m) # "block"
  BY Zenon DEF After, Opened, Closing, Escaping
<1>6. R[a] = "code"
  OBVIOUS
<1> HIDE DEF R
<1>7. ASSUME Bad # {} PROVE FALSE
  <2>0. Bad \in SUBSET Nat
    BY <1>0, <1>1
  <2>1. PICK n \in Bad : \A j \in Bad : n <= j
    <3> HIDE DEF Bad
    <3>1. QED
      BY <1>7, <2>0, SomeLeast
  <2>2. n # a
    BY <1>6, <2>1
  <2>3. /\ n - 1 \in a..(f - 1) /\ n - 1 \in a..f /\ (n - 1) + 1 = n /\ ~(n <= n - 1)
        /\ n - 1 \in 1..k /\ n - 1 \in 1..(k + 1)
    BY <1>0, <1>1, <2>1, <2>2
  <2>4. R[n - 1] \in {"code", "string", "line"}
    BY <1>3, <2>1, <2>3
  <2>5. R[n] = After("oracle", R[n - 1], t[n - 1]) /\ t[n - 1] # "open"
    BY <1>2, <1>3, <2>3
  <2>6. QED
    BY <1>5, <2>1, <2>4, <2>5
<1>8. R[f] \in {"code", "line"}
  BY <1>0, <1>1, <1>3, <1>4, <1>7
<1>9. R[f + 1] = After("oracle", R[f], "newline")
  BY <1>0, <1>1, <1>3
<1>10. After("oracle", "code", "newline") = "code" /\ After("oracle", "line", "newline") = "code"
  BY Zenon DEF After, Opened, Closing, Escaping
<1>11. QED
  BY <1>8, <1>9, <1>10 DEF f, R

(* A reader of lines goes on where the next one starts.                    *)
LEMMA AtLineIs ==
  ASSUME BatchInv, AllReadable, NEW d \in {"oracle", "mysql"}, AtLine(d)
  PROVE  /\ Dialect = d /\ Script \in Seq(Marks) /\ Len(Script) \in Nat /\ at \in 1..Len(Script)
         /\ Readable(d, Script) /\ InStepAt(d, Script, at, comment)
         /\ Find(Script, "newline", at) \in at..(Len(Script) + 1)
<1>1. Script \in Seq(Marks) /\ Len(Script) \in Nat /\ Readable(Dialect, Script)
  BY InputIs
<1>2. pc = "scan" /\ Dialect = d /\ at \in 1..Len(Script)
  BY <1>1 DEF AtLine, BatchInv
<1>3. Find(Script, "newline", at) \in at..(Len(Script) + 1)
  BY <1>1, <1>2, FindIs
<1>4. QED
  BY <1>1, <1>2, <1>3 DEF BatchInv

LEMMA NextLineGoesOn ==
  ASSUME BatchInv, AllReadable, NEW d \in {"oracle", "mysql"}, AtLine(d), NextLine,
         Find(Script, "newline", at) <= Len(Script) =>
           InStepAt(d, Script, Find(Script, "newline", at) + 1, comment')
  PROVE  BatchInv'
<1> DEFINE f == Find(Script, "newline", at)
<1>1. Dialect = d /\ Len(Script) \in Nat /\ at \in 1..Len(Script) /\ f \in at..(Len(Script) + 1)
  BY AtLineIs
<1>2. input' = input /\ at' = f + 1
  BY DEF NextLine
<1>3. f <= Len(Script) => InStepAt(Dialect, Script, f + 1, comment')
  BY <1>1
<1> HIDE DEF f
<1>4. at' \in 1..(Len(Script) + 2) /\ (at' <= Len(Script) => f <= Len(Script))
  BY <1>1, <1>2
<1>5. QED
  BY <1>2, <1>3, <1>4, ScanGoesOn

(* Each line of MySQL starts in code: Readable says so.                    *)
LEMMA MysqlStep == AllReadable /\ BatchInv /\ (Delimiter \/ SplitLine \/ MysqlLine) => BatchInv'
<1> SUFFICES ASSUME AllReadable, BatchInv, Delimiter \/ SplitLine \/ MysqlLine PROVE BatchInv'
  OBVIOUS
<1> DEFINE f == Find(Script, "newline", at)
<1>1. AtLine("mysql") /\ NextLine
  BY DEF Delimiter, SplitLine, MysqlLine
<1>2. /\ Script \in Seq(Marks) /\ Len(Script) \in Nat /\ at \in 1..Len(Script)
      /\ Readable("mysql", Script) /\ f \in at..(Len(Script) + 1)
  BY <1>1, AtLineIs
<1>3. f <= Len(Script) => Script[f] = "newline" /\ f \in DOMAIN Script
  BY <1>2, FindIs
<1>4. \A n \in DOMAIN Script : Script[n] = "newline" => Regions("mysql", Script)[n + 1] = "code"
  BY <1>2, Zenon DEF Readable
<1>5. f <= Len(Script) => InStepAt("mysql", Script, f + 1, comment')
  BY <1>3, <1>4 DEF InStepAt
<1>6. QED
  BY <1>1, <1>5, NextLineGoesOn

(* A line that the reader follows mark by mark.                            *)
LEMMA FollowedLine ==
  ASSUME BatchInv, AllReadable, AtLine("oracle"), NextLine,
         \/ comment /\ (comment' <=> CommentAfter(Line, TRUE))
         \/ ~comment /\ (comment' <=> CommentAfter(Line, FALSE))
  PROVE  BatchInv'
<1> DEFINE f == Find(Script, "newline", at)
<1>1. /\ Script \in Seq(Marks) /\ Len(Script) \in Nat /\ at \in 1..Len(Script)
      /\ Readable("oracle", Script) /\ InStepAt("oracle", Script, at, comment)
  BY AtLineIs
<1>2. f <= Len(Script) => Regions("oracle", Script)[f + 1] = IF comment' THEN "block" ELSE "code"
  <2>1. CASE comment /\ (comment' <=> CommentAfter(Line, TRUE))
    <3>1. Regions("oracle", Script)[at] = (IF TRUE THEN "block" ELSE "code")
      BY <1>1, <2>1 DEF InStepAt
    <3>2. f <= Len(Script) => Regions("oracle", Script)[f + 1]
                                = IF CommentAfter(Line, TRUE) THEN "block" ELSE "code"
      BY <1>1, <3>1, CommentIs DEF Line
    <3> HIDE DEF f
    <3>3. QED
      BY <2>1, <3>2
  <2>2. CASE ~comment /\ (comment' <=> CommentAfter(Line, FALSE))
    <3>1. Regions("oracle", Script)[at] = (IF FALSE THEN "block" ELSE "code")
      BY <1>1, <2>2 DEF InStepAt
    <3>2. f <= Len(Script) => Regions("oracle", Script)[f + 1]
                                = IF CommentAfter(Line, FALSE) THEN "block" ELSE "code"
      BY <1>1, <3>1, CommentIs DEF Line
    <3> HIDE DEF f
    <3>3. QED
      BY <2>2, <3>2
  <2>3. QED
    BY <2>1, <2>2
<1>3. f <= Len(Script) => InStepAt("oracle", Script, f + 1, comment')
  <2> HIDE DEF f
  <2>1. QED
    BY <1>2 DEF InStepAt
<1>4. QED
  BY <1>3, NextLineGoesOn

(* A line that no comment opens on, read as a directive.                   *)
LEMMA QuietLine ==
  ASSUME BatchInv, AllReadable, AtLine("oracle"), NextLine, ~comment, comment' = comment,
         Quiet(Script, at, Find(Script, "newline", at))
  PROVE  BatchInv'
<1> DEFINE f == Find(Script, "newline", at)
<1>1. /\ Script \in Seq(Marks) /\ Len(Script) \in Nat /\ at \in 1..Len(Script)
      /\ Readable("oracle", Script) /\ InStepAt("oracle", Script, at, comment)
  BY AtLineIs
<1>2. Regions("oracle", Script)[at] = "code"
  BY <1>1 DEF InStepAt
<1>3. f <= Len(Script) => Regions("oracle", Script)[f + 1] = "code"
  BY <1>1, <1>2, QuietLineIs
<1>4. f <= Len(Script) => InStepAt("oracle", Script, f + 1, comment')
  <2> HIDE DEF f
  <2>1. QED
    BY <1>3 DEF InStepAt
<1>5. QED
  BY <1>4, NextLineGoesOn

LEMMA DirectiveStep == AllReadable /\ BatchInv /\ (Remark \/ SetDirective \/ Slash) => BatchInv'
<1> SUFFICES ASSUME AllReadable, BatchInv, Remark \/ SetDirective \/ Slash PROVE BatchInv'
  OBVIOUS
<1> DEFINE f == Find(Script, "newline", at)
<1>1. AtLine("oracle") /\ NextLine /\ ~comment /\ comment' = comment
  BY DEF Remark, SetDirective, Slash
<1>2. /\ Script \in Seq(Marks) /\ Len(Script) \in Nat /\ at \in 1..Len(Script)
      /\ Readable("oracle", Script) /\ f \in at..(Len(Script) + 1)
  BY <1>1, AtLineIs
<1>3. Line = SubSeq(Script, at, f - 1)
  BY DEF Line
<1> HIDE DEF f
<1>4. Len(Line) = f - at /\ \A n \in 1..(f - at) : Line[n] = Script[at + n - 1]
  BY <1>2, <1>3, LineIs
<1>5. Len(Line) >= 1 => Line[1] = Script[at] /\ at \in at..(f - 1)
  <2>1. Len(Line) >= 1 => 1 \in 1..(f - at) /\ at + 1 - 1 = at /\ at \in at..(f - 1)
    BY <1>2, <1>4
  <2>2. QED
    BY <1>4, <2>1
<1>6. Line \in Seq(Marks)
  BY <1>2, <1>3
<1>7. Quiet(Script, at, f)
  <2>1. CASE Remark \/ SetDirective
    <3>1. Line # <<>> /\ Head(Line) \in {"rem", "set"}
      BY <2>1 DEF Remark, SetDirective, IsRemark, IsSetDirective, StartsWith
    <3>2. Len(Line) >= 1 /\ Line[1] \in {"rem", "set"}
      BY <1>6, <3>1
    <3>3. Script[at] \in {"rem", "set"} /\ at \in at..(f - 1)
      BY <1>5, <3>2
    <3>4. QED
      BY <1>2, <3>3, DirectivesAreQuiet DEF f
  <2>2. CASE Slash
    <3>1. Line = <<"slash">>
      BY <2>2 DEF Slash, IsSlash
    <3>2. Len(Line) = 1 /\ Line[1] = "slash"
      BY <3>1
    <3>3. f = at + 1 /\ Script[at] = "slash"
      <4>1. f - at = 1
        <5>1. Len(Line) = f - at
          BY <1>4
        <5>2. QED
          BY <3>2, <5>1
      <4>2. Script[at] = "slash"
        <5>1. Len(Line) >= 1
          BY <3>2
        <5>2. Line[1] = Script[at]
          BY <1>5, <5>1
        <5>3. QED
          BY <3>2, <5>2
      <4>3. f \in Int /\ at \in Int
        BY <1>2
      <4>4. QED
        BY <4>1, <4>2, <4>3
    <3>4. QED
      BY <1>2, <3>3 DEF Quiet
  <2>3. QED
    BY <2>1, <2>2
<1>8. QED
  BY <1>1, <1>7, QuietLine DEF f

LEMMA OracleStep ==
  AllReadable /\ BatchInv /\ (InsideComment \/ OpenComment \/ OpenUnit \/ OracleLine) => BatchInv'
<1> SUFFICES ASSUME AllReadable, BatchInv, InsideComment \/ OpenComment \/ OpenUnit \/ OracleLine
             PROVE  BatchInv'
  OBVIOUS
<1>1. CASE InsideComment
  <2>1. /\ AtLine("oracle") /\ NextLine /\ comment
        /\ comment' <=> CommentAfter(Line, TRUE)
    BY <1>1 DEF InsideComment
  <2>2. QED
    BY <2>1, FollowedLine
<1>2. CASE OpenComment \/ OpenUnit \/ OracleLine
  <2>1. AtLine("oracle") /\ NextLine /\ ~comment
    BY <1>2 DEF OpenComment, OpenUnit, OracleLine, Ordinary
  <2>2. comment' <=> CommentAfter(Line, FALSE)
    <3>1. CASE OpenComment
      BY <3>1 DEF OpenComment
    <3>2. CASE OpenUnit
      BY <2>1, <3>2 DEF OpenUnit
    <3>3. CASE OracleLine
      BY <2>1, <3>3 DEF OracleLine
    <3>4. QED
      BY <1>2, <3>1, <3>2, <3>3
  <2>3. QED
    BY <2>1, <2>2, FollowedLine
<1>3. QED
  BY <1>1, <1>2

-----------------------------------------------------------------------------
LEMMA BatchNext == AllReadable /\ BatchInv /\ [Next]_vars => BatchInv'
<1> SUFFICES ASSUME AllReadable, BatchInv, [Next]_vars PROVE BatchInv'
  OBVIOUS
<1>1. CASE EndOfScan \/ EndOfOracle \/ EndOfMysql
  <2>1. pc' = "done" /\ input' = input
    BY <1>1 DEF EndOfScan, EndOfOracle, EndOfMysql, EndOfLines
  <2>2. QED
    BY <2>1 DEF BatchInv
<1>2. CASE UNCHANGED vars
  BY <1>2 DEF vars, BatchInv, Dialect, Script
<1>3. QED
  BY <1>1, <1>2, LineCommentStep, BlockCommentStep, StringStep, IdentifierStep, BodyStep,
     GoStep, SemiStep, AdvanceStep, DirectiveStep, OracleStep, MysqlStep DEF Next, Finished

(* The readers of BatchSplitter.split and the engine agree, at every step  *)
(* of every script of any length, on where a comment, a string or a body   *)
(* is open.                                                                *)
THEOREM ReadersKeepStep ==
  ASSUME AllReadable
  PROVE  Spec => []InStepWithClient
<1>1. Init => BatchInv
  BY BatchInit
<1>2. BatchInv /\ [Next]_vars => BatchInv'
  BY BatchNext
<1>3. BatchInv => InStepWithClient
  <2> SUFFICES ASSUME BatchInv, pc = "scan", at <= Len(Script) PROVE InStepWithClient
    BY DEF InStepWithClient
  <2>1. InStepAt(Dialect, Script, at, comment)
    BY DEF BatchInv
  <2>2. CASE ByMark
    BY <2>1, <2>2, Zenon DEF InStepAt, InStepWithClient, ByMark
  <2>3. CASE Dialect = "oracle"
    <3>1. ~ByMark
      BY <2>3 DEF ByMark
    <3>2. comment <=> Regions(Dialect, Script)[at] = "block"
      BY <2>1, <2>3 DEF InStepAt
    <3>3. QED
      BY <2>3, <3>1, <3>2, Zenon DEF InStepWithClient
  <2>4. CASE ~ByMark /\ Dialect # "oracle"
    BY <2>1, <2>4, Zenon DEF InStepAt, InStepWithClient, ByMark
  <2>5. QED
    BY <2>2, <2>3, <2>4
<1>4. QED
  BY <1>1, <1>2, <1>3, PTL DEF Spec
=============================================================================
