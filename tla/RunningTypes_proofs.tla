------------------------ MODULE RunningTypes_proofs ------------------------
(***************************************************************************)
(* The emitted script leaves the columns as the source script does, and    *)
(* the running maps stay current, for any tables, columns and types, as    *)
(* long as scripts keep to KeptForms and create a table once.              *)
(***************************************************************************)
EXTENDS RunningTypes, TLAPS

KeepsForms ==
    /\ \A p \in DOMAIN Palette : Palette[p] \subseteq KeptForms(p.source, p.target)
    /\ MaxCreates = 1

ColumnRecords == [type : Types \cup {None}, notNull : BOOLEAN, rewritten : BOOLEAN]
Nullabilities == {"NOT NULL", "NULL", "unknown"}
Stated == {"NOT NULL", "NULL", "unstated"}
Aspects == {"type", "notNull", "rewritten"}

(***************************************************************************)
(* Types.                                                                  *)
(***************************************************************************)
TypeInv ==
    /\ [source |-> source, target |-> target] \in DOMAIN Palette
    /\ inScript \subseteq Tables
    /\ script \in [Tables -> Creates \cup {<<>>}]
    /\ schema \in [Tables -> [Columns -> ColumnRecords]]
    /\ shipped \in [Tables -> [Columns -> ColumnRecords]]
    /\ types \in [Tables -> [Columns -> Types \cup {None}]]
    /\ notNull \in [Tables -> [Columns -> Nullabilities]]
    /\ flagged \in [Tables -> [Columns -> SUBSET Aspects]]

LEMMA BuiltIsTyped ==
  ASSUME NEW d, d.type \in Types \cup {None}
  PROVE  /\ Built(d) \in ColumnRecords
         /\ Built(d).type = d.type
         /\ Built(d).notNull = (d.null # "NULL")
         /\ Built(d).rewritten = FALSE
BY DEF Built, ColumnRecords

LEMMA AbsentIsTyped == Absent \in ColumnRecords
BY DEF Absent, ColumnRecords

LEMMA CreatesAreOne ==
  ASSUME KeepsForms
  PROVE  Creates = [1 .. 1 -> [Columns -> Definitions]]
BY DEF KeepsForms, Creates

LEMMA HarvestIsTyped ==
  ASSUME KeepsForms, NEW defs \in Creates
  PROVE  /\ Len(defs) = 1 /\ Head(defs) = defs[1] /\ Tail(defs) = <<>> /\ defs # <<>>
         /\ defs[1] \in [Columns -> Definitions]
         /\ HarvestedType(defs) \in [Columns -> Types \cup {None}]
         /\ HarvestedNotNull(defs) \in [Columns -> Nullabilities]
         /\ \A c \in Columns :
              /\ HarvestedType(defs)[c] = defs[1][c].type
              /\ defs[1][c].type # None =>
                   HarvestedNotNull(defs)[c] = (IF defs[1][c].null # "NULL" THEN "NOT NULL" ELSE "NULL")
<1>1. defs \in [1 .. 1 -> [Columns -> Definitions]]
  BY CreatesAreOne
<1>2. defs = <<defs[1]>> /\ Len(<<defs[1]>>) = 1
  BY <1>1
<1>3. Head(defs) = defs[1] /\ Tail(defs) = <<>> /\ defs # <<>> /\ Last(defs) = defs[1]
  <2> DEFINE d == defs[1]
  <2>1. Head(<<d>>) = d /\ Tail(<<d>>) = <<>> /\ <<d>> # <<>> /\ <<d>>[1] = d
    OBVIOUS
  <2>2. Len(defs) = 1
    BY <1>2
  <2>3. QED
    BY <1>2, <2>1, <2>2 DEF Last
<1>4. defs[1] \in [Columns -> Definitions]
  BY <1>1
<1>5. \A d \in Definitions : d.type \in Types \cup {None}
  BY DEF Definitions
<1>6. QED
  BY <1>2, <1>3, <1>4, <1>5 DEF HarvestedType, HarvestedNotNull, Nullabilities

LEMMA InitIsTyped == KeepsForms /\ Init => TypeInv
<1> SUFFICES ASSUME KeepsForms, Init PROVE TypeInv
  OBVIOUS
<1>1. [source |-> source, target |-> target] \in DOMAIN Palette
  <2>1. PICK p \in DOMAIN Palette : source = p.source /\ target = p.target
    BY DEF Init
  <2>2. p = [source |-> p.source, target |-> p.target]
    BY <2>1, PaletteAssumption
  <2>3. QED
    BY <2>1, <2>2
<1>2. /\ inScript \subseteq Tables /\ script \in [Tables -> Creates \cup {<<>>}]
      /\ \A t \in inScript : script[t] \in Creates
  BY DEF Init
<1>3. schema \in [Tables -> [Columns -> ColumnRecords]] /\ shipped = schema
  <2>1. Nothing \in [Columns -> ColumnRecords]
    BY AbsentIsTyped DEF Nothing
  <2>2. Rows \subseteq [Columns -> ColumnRecords]
    BY AbsentIsTyped DEF Rows, Shapes, ColumnRecords
  <2>3. QED
    BY <2>1, <2>2 DEF Init
<1>4. /\ types \in [Tables -> [Columns -> Types \cup {None}]]
      /\ notNull \in [Tables -> [Columns -> Nullabilities]]
  <2>1. /\ [c \in Columns |-> None] \in [Columns -> Types \cup {None}]
        /\ [c \in Columns |-> "unknown"] \in [Columns -> Nullabilities]
    BY DEF Nullabilities
  <2>2. \A t \in inScript : /\ HarvestedType(script[t]) \in [Columns -> Types \cup {None}]
                            /\ HarvestedNotNull(script[t]) \in [Columns -> Nullabilities]
    BY <1>2, HarvestIsTyped
  <2>3. /\ types = [t \in Tables |-> IF t \in inScript THEN HarvestedType(script[t])
                                      ELSE [c \in Columns |-> None]]
        /\ notNull = [t \in Tables |-> IF t \in inScript THEN HarvestedNotNull(script[t])
                                        ELSE [c \in Columns |-> "unknown"]]
    BY DEF Init
  <2>4. QED
    BY <2>1, <2>2, <2>3
<1>5. flagged \in [Tables -> [Columns -> SUBSET Aspects]]
  BY DEF Init
<1>6. QED
  BY <1>1, <1>2, <1>3, <1>4, <1>5 DEF TypeInv

(***************************************************************************)
(* The forms a script may use, by pair.                                    *)
(***************************************************************************)
LEMMA FormsAreKept ==
  ASSUME KeepsForms, TypeInv
  PROVE  /\ source \in Engines /\ target \in Engines
         /\ Palette[[source |-> source, target |-> target]] \subseteq KeptForms(source, target)
<1> DEFINE p == [source |-> source, target |-> target]
<1>1. p \in DOMAIN Palette /\ p.source = source /\ p.target = target
  BY DEF TypeInv
<1>2. QED
  BY <1>1, PaletteAssumption DEF KeepsForms

LEMMA PostgresForms ==
  ASSUME KeepsForms, TypeInv, source = "postgresql"
  PROVE  /\ Takes("TYPE") \/ Takes("USING CAST") => target \in {"tsql", "oracle"}
         /\ Takes("USING") => target \in {"tsql", "mysql"}
         /\ ~Takes("ADD KEY") /\ ~Takes("ADD TWO")
<1>1. ASSUME Takes("TYPE") PROVE target \in {"tsql", "oracle"}
  BY <1>1, FormsAreKept DEF KeptForms, Takes
<1>2. ASSUME Takes("USING CAST") PROVE target \in {"tsql", "oracle"}
  BY <1>2, FormsAreKept DEF KeptForms, Takes
<1>3. ASSUME Takes("USING") PROVE target \in {"tsql", "mysql"}
  BY <1>3, FormsAreKept DEF KeptForms, Takes
<1>4. ASSUME Takes("ADD KEY") PROVE FALSE
  BY <1>4, FormsAreKept DEF KeptForms, Takes
<1>5. ASSUME Takes("ADD TWO") PROVE FALSE
  BY <1>5, FormsAreKept DEF KeptForms, Takes
<1>6. QED
  BY <1>1, <1>2, <1>3, <1>4, <1>5

LEMMA OtherForms ==
  ASSUME KeepsForms, TypeInv
  PROVE  /\ source = "mysql" /\ (Takes("MODIFY") \/ Takes("CHANGE")) => target = "tsql"
         /\ source = "oracle" => /\ ~Takes("MODIFY") /\ ~Takes("MODIFY TYPE NULL")
                                 /\ ~Takes("ADD TWO")
                                 /\ Takes("MODIFY NULL") => target = "postgresql"
         /\ source = "tsql" =>
              /\ Takes("ALTER COLUMN") => target = "mysql"
              /\ Takes("ALTER COLUMN NOT NULL") => target \in {"mysql", "postgresql"}
<1>1. ASSUME Takes("MODIFY") PROVE source = "mysql" /\ target = "tsql"
  BY <1>1, FormsAreKept DEF KeptForms, Takes
<1>2. ASSUME Takes("CHANGE") PROVE source = "mysql" /\ target = "tsql"
  BY <1>2, FormsAreKept DEF KeptForms, Takes
<1>3. ASSUME Takes("MODIFY TYPE NULL") PROVE FALSE
  BY <1>3, FormsAreKept DEF KeptForms, Takes
<1>4. ASSUME Takes("ADD TWO") PROVE source \in {"mysql", "tsql"}
  BY <1>4, FormsAreKept DEF KeptForms, Takes
<1>5. ASSUME Takes("MODIFY NULL") PROVE target = "postgresql"
  BY <1>5, FormsAreKept DEF KeptForms, Takes
<1>6. ASSUME Takes("ALTER COLUMN") PROVE target = "mysql"
  BY <1>6, FormsAreKept DEF KeptForms, Takes
<1>7. ASSUME Takes("ALTER COLUMN NOT NULL") PROVE target \in {"mysql", "postgresql"}
  BY <1>7, FormsAreKept DEF KeptForms, Takes
<1>8. QED
  BY <1>1, <1>2, <1>3, <1>4, <1>5, <1>6, <1>7

(***************************************************************************)
(* The inductive invariant.  Column by column, the two engines agree up to  *)
(* what is flagged and the maps know a tracked column of the source; and a *)
(* table still to come has no column, and its harvest in the maps.          *)
(***************************************************************************)
Agrees(x, y, fl) ==
    /\ "type" \notin fl => y.type = x.type
    /\ "notNull" \notin fl => y.notNull = x.notNull
    /\ "rewritten" \notin fl => y.rewritten = x.rewritten

Knows(tracked, x, ty, nn) ==
    /\ ~tracked => ty = None /\ nn = "unknown"
    /\ tracked /\ x # Absent =>
         /\ source \in {"postgresql", "oracle"} => ty = x.type
         /\ source = "postgresql" => nn = (IF x.notNull THEN "NOT NULL" ELSE "NULL")
    /\ x # Absent => x.type \in Types

CellOK(t, x, y, ty, nn, fl) ==
    /\ x \in ColumnRecords /\ y \in ColumnRecords
    /\ ty \in Types \cup {None} /\ nn \in Nullabilities /\ fl \in SUBSET Aspects
    /\ Agrees(x, y, fl) /\ Knows(t \in inScript, x, ty, nn)

ToCome(t) ==
    script[t] # <<>> =>
        /\ t \in inScript
        /\ \A c \in Columns : /\ schema[t][c] = Absent
                              /\ types[t][c] = HarvestedType(script[t])[c]
                              /\ notNull[t][c] = HarvestedNotNull(script[t])[c]

KnowInv ==
    /\ \A t \in Tables, c \in Columns :
          CellOK(t, schema[t][c], shipped[t][c], types[t][c], notNull[t][c], flagged[t][c])
    /\ \A t \in Tables : ToCome(t)
    /\ refused = {}

IInv == TypeInv /\ KnowInv

LEMMA InitKnows == KeepsForms /\ Init => IInv
<1> SUFFICES ASSUME KeepsForms, Init PROVE IInv
  OBVIOUS
<1>1. TypeInv
  BY InitIsTyped
<1>2. /\ \A t \in Tables : /\ script[t] # <<>> <=> t \in inScript
                           /\ schema[t] = Nothing <=> t \in inScript
      /\ \A t \in Tables, c \in Columns : /\ ~schema[t][c].rewritten
                                          /\ schema[t][c] \in Shapes
      /\ \A t \in Tables, c \in Columns : flagged[t][c] = {}
      /\ shipped = schema /\ refused = {}
  BY DEF Init, Rows, Nothing, Shapes
<1>3. \A t \in Tables, c \in Columns :
        /\ types[t][c] = IF t \in inScript THEN HarvestedType(script[t])[c] ELSE None
        /\ notNull[t][c] = IF t \in inScript THEN HarvestedNotNull(script[t])[c] ELSE "unknown"
  BY DEF Init
<1>4. \A t \in Tables, c \in Columns : t \in inScript => schema[t][c] = Absent
  BY <1>2 DEF Nothing
<1>5. \A t \in Tables, c \in Columns : schema[t][c] # Absent => schema[t][c].type \in Types
  BY <1>2 DEF Shapes
<1>6. \A t \in Tables, c \in Columns :
        /\ Agrees(schema[t][c], shipped[t][c], flagged[t][c])
        /\ Knows(t \in inScript, schema[t][c], types[t][c], notNull[t][c])
  BY <1>2, <1>3, <1>4, <1>5 DEF Agrees, Knows
<1>7. \A t \in Tables : ToCome(t)
  BY <1>2, <1>3, <1>4 DEF ToCome
<1>8. \A t \in Tables, c \in Columns :
        CellOK(t, schema[t][c], shipped[t][c], types[t][c], notNull[t][c], flagged[t][c])
  BY <1>1, <1>6 DEF CellOK, TypeInv
<1>9. QED
  BY <1>1, <1>2, <1>7, <1>8 DEF IInv, KnowInv

(***************************************************************************)
(* A step writes one row of each variable, or one cell of it.              *)
(***************************************************************************)
RowOK(t, X, Y, TY, NN, FL) ==
    /\ X \in [Columns -> ColumnRecords] /\ Y \in [Columns -> ColumnRecords]
    /\ TY \in [Columns -> Types \cup {None}] /\ NN \in [Columns -> Nullabilities]
    /\ FL \in [Columns -> SUBSET Aspects]
    /\ \A c \in Columns : CellOK(t, X[c], Y[c], TY[c], NN[c], FL[c])

RowWritten(t, X, Y, TY, NN, FL) ==
    /\ schema' = [schema EXCEPT ![t] = X] /\ shipped' = [shipped EXCEPT ![t] = Y]
    /\ types' = [types EXCEPT ![t] = TY] /\ notNull' = [notNull EXCEPT ![t] = NN]
    /\ flagged' = [flagged EXCEPT ![t] = FL]
    /\ script' = [script EXCEPT ![t] = <<>>]
    /\ UNCHANGED <<fixed, refused>>

LEMMA RowKeeps ==
  ASSUME IInv, NEW t \in Tables, NEW X, NEW Y, NEW TY, NEW NN, NEW FL,
         RowOK(t, X, Y, TY, NN, FL), RowWritten(t, X, Y, TY, NN, FL)
  PROVE  IInv'
<1>1. UNCHANGED <<source, target, inScript, refused>>
  BY DEF RowWritten, fixed
<1>2. TypeInv'
  <2>1. schema' \in [Tables -> [Columns -> ColumnRecords]]
    BY DEF IInv, TypeInv, RowOK, RowWritten
  <2>2. shipped' \in [Tables -> [Columns -> ColumnRecords]]
    BY DEF IInv, TypeInv, RowOK, RowWritten
  <2>3. types' \in [Tables -> [Columns -> Types \cup {None}]]
    BY DEF IInv, TypeInv, RowOK, RowWritten
  <2>4. notNull' \in [Tables -> [Columns -> Nullabilities]]
    BY DEF IInv, TypeInv, RowOK, RowWritten
  <2>5. flagged' \in [Tables -> [Columns -> SUBSET Aspects]]
    BY DEF IInv, TypeInv, RowOK, RowWritten
  <2>6. script' \in [Tables -> Creates \cup {<<>>}]
    BY DEF IInv, TypeInv, RowWritten
  <2>7. /\ [source |-> source, target |-> target]' \in DOMAIN Palette
        /\ inScript' \subseteq Tables
    BY <1>1 DEF IInv, TypeInv
  <2>8. QED
    BY <2>1, <2>2, <2>3, <2>4, <2>5, <2>6, <2>7 DEF TypeInv
<1>3. /\ schema'[t] = X /\ shipped'[t] = Y /\ types'[t] = TY /\ notNull'[t] = NN
      /\ flagged'[t] = FL /\ script'[t] = <<>>
  BY DEF IInv, TypeInv, RowWritten
<1>4. \A u \in Tables \ {t} :
        /\ schema'[u] = schema[u] /\ shipped'[u] = shipped[u] /\ types'[u] = types[u]
        /\ notNull'[u] = notNull[u] /\ flagged'[u] = flagged[u] /\ script'[u] = script[u]
  BY DEF IInv, TypeInv, RowWritten
<1>5. \A u \in Tables, c \in Columns :
        CellOK(u, schema[u][c], shipped[u][c], types[u][c], notNull[u][c], flagged[u][c])'
  <2> SUFFICES ASSUME NEW u \in Tables, NEW c \in Columns
               PROVE  CellOK(u, schema[u][c], shipped[u][c], types[u][c], notNull[u][c], flagged[u][c])'
    OBVIOUS
  <2>1. CASE u = t
    <3>1. CellOK(t, X[c], Y[c], TY[c], NN[c], FL[c])
      BY DEF RowOK
    <3>2. QED
      BY <1>1, <1>3, <2>1, <3>1 DEF CellOK, Knows, Agrees
  <2>2. CASE u # t
    <3>1. CellOK(u, schema[u][c], shipped[u][c], types[u][c], notNull[u][c], flagged[u][c])
      BY DEF IInv, KnowInv
    <3>2. QED
      BY <1>1, <1>4, <2>2, <3>1 DEF CellOK, Knows, Agrees
  <2>3. QED
    BY <2>1, <2>2
<1>6. \A u \in Tables : ToCome(u)'
  <2> SUFFICES ASSUME NEW u \in Tables PROVE ToCome(u)'
    OBVIOUS
  <2>1. CASE u = t
    BY <1>3, <2>1 DEF ToCome
  <2>2. CASE u # t
    <3>1. ToCome(u)
      BY DEF IInv, KnowInv
    <3>2. QED
      BY <1>1, <1>4, <2>2, <3>1 DEF ToCome
  <2>3. QED
    BY <2>1, <2>2
<1>7. QED
  BY <1>1, <1>2, <1>5, <1>6 DEF IInv, KnowInv

CellWritten(t, c, x, y, ty, nn, fl) ==
    /\ schema' = [schema EXCEPT ![t][c] = x] /\ shipped' = [shipped EXCEPT ![t][c] = y]
    /\ types' = [types EXCEPT ![t][c] = ty] /\ notNull' = [notNull EXCEPT ![t][c] = nn]
    /\ flagged' = [flagged EXCEPT ![t][c] = fl]
    /\ UNCHANGED <<fixed, script, refused>>

LEMMA CellKeeps ==
  ASSUME IInv, NEW t \in Tables, NEW c \in Columns, script[t] = <<>>,
         NEW x, NEW y, NEW ty, NEW nn, NEW fl,
         CellOK(t, x, y, ty, nn, fl), CellWritten(t, c, x, y, ty, nn, fl)
  PROVE  IInv'
<1> DEFINE X == [schema[t] EXCEPT ![c] = x]
           Y == [shipped[t] EXCEPT ![c] = y]
           TY == [types[t] EXCEPT ![c] = ty]
           NN == [notNull[t] EXCEPT ![c] = nn]
           FL == [flagged[t] EXCEPT ![c] = fl]
<1>1. /\ schema[t] \in [Columns -> ColumnRecords] /\ shipped[t] \in [Columns -> ColumnRecords]
      /\ types[t] \in [Columns -> Types \cup {None}] /\ notNull[t] \in [Columns -> Nullabilities]
      /\ flagged[t] \in [Columns -> SUBSET Aspects]
  BY DEF IInv, TypeInv
<1>2. /\ x \in ColumnRecords /\ y \in ColumnRecords
      /\ ty \in Types \cup {None} /\ nn \in Nullabilities /\ fl \in SUBSET Aspects
  BY DEF CellOK
<1>3. X \in [Columns -> ColumnRecords] /\ Y \in [Columns -> ColumnRecords]
  BY <1>1, <1>2
<1>4. /\ TY \in [Columns -> Types \cup {None}] /\ NN \in [Columns -> Nullabilities]
      /\ FL \in [Columns -> SUBSET Aspects]
  BY <1>1, <1>2
<1>5. \A d \in Columns : CellOK(t, X[d], Y[d], TY[d], NN[d], FL[d])
  <2> SUFFICES ASSUME NEW d \in Columns PROVE CellOK(t, X[d], Y[d], TY[d], NN[d], FL[d])
    OBVIOUS
  <2>1. CASE d = c
    <3>1. X[d] = x /\ Y[d] = y /\ TY[d] = ty /\ NN[d] = nn /\ FL[d] = fl
      BY <1>1, <2>1
    <3>2. QED
      BY <3>1
  <2>2. CASE d # c
    <3>1. /\ X[d] = schema[t][d] /\ Y[d] = shipped[t][d] /\ TY[d] = types[t][d]
          /\ NN[d] = notNull[t][d] /\ FL[d] = flagged[t][d]
      BY <1>1, <2>2
    <3>2. CellOK(t, schema[t][d], shipped[t][d], types[t][d], notNull[t][d], flagged[t][d])
      BY DEF IInv, KnowInv
    <3>3. QED
      BY <3>1, <3>2
  <2>3. QED
    BY <2>1, <2>2
<1>6. RowOK(t, X, Y, TY, NN, FL)
  BY <1>3, <1>4, <1>5 DEF RowOK
<1>7. /\ schema' = [schema EXCEPT ![t] = X] /\ shipped' = [shipped EXCEPT ![t] = Y]
      /\ types' = [types EXCEPT ![t] = TY] /\ notNull' = [notNull EXCEPT ![t] = NN]
      /\ flagged' = [flagged EXCEPT ![t] = FL]
  BY DEF CellWritten
<1>8. script' = [script EXCEPT ![t] = <<>>]
  BY DEF CellWritten, IInv, TypeInv
<1>9. RowWritten(t, X, Y, TY, NN, FL)
  BY <1>7, <1>8 DEF RowWritten, CellWritten
<1> HIDE DEF X, Y, TY, NN, FL
<1>10. QED
  BY <1>6, <1>9, RowKeeps

LEMMA CellFacts ==
  ASSUME IInv, NEW t \in Tables, NEW c \in Columns
  PROVE  /\ CellOK(t, schema[t][c], shipped[t][c], types[t][c], notNull[t][c], flagged[t][c])
         /\ Agrees(schema[t][c], shipped[t][c], flagged[t][c])
         /\ Knows(t \in inScript, schema[t][c], types[t][c], notNull[t][c])
         /\ schema[t][c] \in ColumnRecords /\ shipped[t][c] \in ColumnRecords
         /\ types[t][c] \in Types \cup {None} /\ notNull[t][c] \in Nullabilities
         /\ flagged[t][c] \in SUBSET Aspects
<1>1. CellOK(t, schema[t][c], shipped[t][c], types[t][c], notNull[t][c], flagged[t][c])
  BY DEF IInv, KnowInv
<1>2. QED
  BY <1>1 DEF CellOK

LEMMA TablesAreMade ==
  ASSUME IInv, NEW t \in Tables
  PROVE  /\ HasTable(t) => script[t] = <<>>
         /\ \A c \in Columns : Has(t, c) => script[t] = <<>>
<1>1. ToCome(t)
  BY DEF IInv, KnowInv
<1>2. QED
  BY <1>1 DEF ToCome, HasTable, Has

LEMMA FoldsWrite ==
  ASSUME IInv, NEW t \in Tables, NEW c \in Columns
  PROVE  /\ \A type : FoldType(t, c, type) =>
              types' = [types EXCEPT ![t][c] = IF t \in inScript THEN type ELSE types[t][c]]
         /\ \A null : FoldNullability(t, c, null) =>
              notNull' = [notNull EXCEPT ![t][c] = IF t \in inScript THEN null ELSE notNull[t][c]]
<1>1. types = [types EXCEPT ![t][c] = types[t][c]]
  BY DEF IInv, TypeInv
<1>2. notNull = [notNull EXCEPT ![t][c] = notNull[t][c]]
  BY DEF IInv, TypeInv
<1>3. ASSUME NEW type, FoldType(t, c, type)
      PROVE  types' = [types EXCEPT ![t][c] = IF t \in inScript THEN type ELSE types[t][c]]
  BY <1>1, <1>3 DEF FoldType
<1>4. ASSUME NEW null, FoldNullability(t, c, null)
      PROVE  notNull' = [notNull EXCEPT ![t][c] = IF t \in inScript THEN null ELSE notNull[t][c]]
  BY <1>2, <1>4 DEF FoldNullability
<1>5. QED
  BY <1>3, <1>4

LEMMA IdleWrites ==
  ASSUME IInv, NEW t \in Tables, NEW c \in Columns
  PROVE  /\ types = [types EXCEPT ![t][c] = types[t][c]]
         /\ notNull = [notNull EXCEPT ![t][c] = notNull[t][c]]
         /\ shipped = [shipped EXCEPT ![t][c] = shipped[t][c]]
         /\ flagged = [flagged EXCEPT ![t][c] = flagged[t][c]]
BY DEF IInv, TypeInv

LEMMA IdleRows ==
  ASSUME IInv, NEW t \in Tables
  PROVE  /\ types = [types EXCEPT ![t] = types[t]] /\ types[t] \in [Columns -> Types \cup {None}]
         /\ notNull = [notNull EXCEPT ![t] = notNull[t]] /\ notNull[t] \in [Columns -> Nullabilities]
         /\ flagged = [flagged EXCEPT ![t] = flagged[t]] /\ flagged[t] \in [Columns -> SUBSET Aspects]
         /\ schema[t] \in [Columns -> ColumnRecords] /\ shipped[t] \in [Columns -> ColumnRecords]
         /\ script[t] = <<>> => script = [script EXCEPT ![t] = <<>>]
BY DEF IInv, TypeInv

(***************************************************************************)
(* Tables and columns come and go.                                         *)
(***************************************************************************)
LEMMA CreateTableKeeps ==
  ASSUME KeepsForms, IInv, NEW t \in Tables, CreateTable(t)
  PROVE  IInv'
<1> DEFINE defs == script[t]
           row == [c \in Columns |-> IF Head(defs)[c].type = None THEN Absent ELSE Built(Head(defs)[c])]
           clean == [c \in Columns |-> {}]
<1>1. /\ defs \in Creates /\ t \in inScript
      /\ \A c \in Columns : /\ types[t][c] = HarvestedType(defs)[c]
                            /\ notNull[t][c] = HarvestedNotNull(defs)[c]
  BY DEF CreateTable, IInv, TypeInv, KnowInv, ToCome
<1>2. /\ Head(defs) \in [Columns -> Definitions] /\ Tail(defs) = <<>>
      /\ \A c \in Columns :
           /\ HarvestedType(defs)[c] = Head(defs)[c].type
           /\ Head(defs)[c].type # None =>
                HarvestedNotNull(defs)[c] = (IF Head(defs)[c].null # "NULL" THEN "NOT NULL" ELSE "NULL")
  <2>1. /\ Head(defs) = defs[1] /\ Tail(defs) = <<>> /\ defs[1] \in [Columns -> Definitions]
        /\ \A c \in Columns :
             /\ HarvestedType(defs)[c] = defs[1][c].type
             /\ defs[1][c].type # None =>
                  HarvestedNotNull(defs)[c] = (IF defs[1][c].null # "NULL" THEN "NOT NULL" ELSE "NULL")
    BY <1>1, HarvestIsTyped
  <2> HIDE DEF defs
  <2>2. QED
    BY <2>1
<1>3. \A d \in Definitions : /\ d.type \in Types \cup {None}
                             /\ Built(d) \in ColumnRecords /\ Built(d).type = d.type
                             /\ Built(d).notNull = (d.null # "NULL")
  <2>1. \A d \in Definitions : d.type \in Types \cup {None}
    BY DEF Definitions
  <2>2. QED
    BY <2>1, BuiltIsTyped
<1>4. row \in [Columns -> ColumnRecords] /\ clean \in [Columns -> SUBSET Aspects]
  BY <1>2, <1>3, AbsentIsTyped
<1>5. \A c \in Columns : CellOK(t, row[c], row[c], types[t][c], notNull[t][c], clean[c])
  <2> SUFFICES ASSUME NEW c \in Columns
               PROVE  CellOK(t, row[c], row[c], types[t][c], notNull[t][c], clean[c])
    OBVIOUS
  <2>1. Agrees(row[c], row[c], clean[c])
    BY DEF Agrees
  <2>2. row[c] # Absent =>
          /\ Head(defs)[c].type \in Types /\ row[c].type = Head(defs)[c].type
          /\ row[c].notNull = (Head(defs)[c].null # "NULL")
    BY <1>2, <1>3
  <2>3. Knows(t \in inScript, row[c], types[t][c], notNull[t][c])
    BY <1>1, <1>2, <2>2, NoneAssumption DEF Knows
  <2>4. QED
    BY <1>4, <2>1, <2>3, CellFacts DEF CellOK
<1>6. RowOK(t, row, row, types[t], notNull[t], clean)
  BY <1>4, <1>5, IdleRows DEF RowOK
<1>7. /\ schema' = [schema EXCEPT ![t] = row] /\ shipped' = [shipped EXCEPT ![t] = row]
      /\ flagged' = [flagged EXCEPT ![t] = clean] /\ script' = [script EXCEPT ![t] = <<>>]
  BY <1>2 DEF CreateTable, IInv, TypeInv
<1>8. RowWritten(t, row, row, types[t], notNull[t], clean)
  BY <1>7, IdleRows DEF RowWritten, CreateTable, maps
<1> HIDE DEF row, clean
<1>9. QED
  BY <1>6, <1>8, RowKeeps

LEMMA DropTableKeeps ==
  ASSUME KeepsForms, IInv, NEW t \in Tables, DropTable(t)
  PROVE  IInv'
<1>1. script[t] = <<>>
  BY TablesAreMade DEF DropTable
<1>2. Nothing \in [Columns -> ColumnRecords] /\ \A c \in Columns : Nothing[c] = Absent
  BY AbsentIsTyped DEF Nothing
<1>3. \A c \in Columns : CellOK(t, Nothing[c], Nothing[c], types[t][c], notNull[t][c], flagged[t][c])
  BY <1>2, AbsentIsTyped, CellFacts DEF CellOK, Agrees, Knows
<1>4. RowOK(t, Nothing, Nothing, types[t], notNull[t], flagged[t])
  BY <1>2, <1>3, IdleRows DEF RowOK
<1>5. RowWritten(t, Nothing, Nothing, types[t], notNull[t], flagged[t])
  BY <1>1, IdleRows DEF DropTable, RowWritten, maps
<1>6. QED
  BY <1>4, <1>5, RowKeeps

LEMMA DropColumnKeeps ==
  ASSUME KeepsForms, IInv, NEW t \in Tables, NEW c \in Columns, DropColumn(t, c)
  PROVE  IInv'
<1>1. script[t] = <<>>
  BY TablesAreMade DEF DropColumn
<1>2. CellOK(t, Absent, Absent, types[t][c], notNull[t][c], {})
  BY AbsentIsTyped, CellFacts DEF CellOK, Agrees, Knows
<1>3. CellWritten(t, c, Absent, Absent, types[t][c], notNull[t][c], {})
  BY IdleWrites DEF DropColumn, CellWritten, Plain, maps
<1>4. QED
  BY <1>1, <1>2, <1>3, CellKeeps

LEMMA AddColumnKeeps ==
  ASSUME KeepsForms, IInv, NEW t \in Tables, NEW c \in Columns, NEW type \in Types,
         NEW null \in Declared, AddColumn(t, c, type, null)
  PROVE  IInv'
<1> DEFINE x == Built([type |-> type, null |-> null])
           said == IF "NOT NULL" \in {null} THEN "NOT NULL" ELSE "NULL"
           ty == IF t \in inScript THEN type ELSE types[t][c]
           nn == IF t \in inScript THEN said ELSE notNull[t][c]
<1>1. script[t] = <<>>
  BY TablesAreMade DEF AddColumn
<1>2. /\ x \in ColumnRecords /\ x.type = type /\ x.notNull = (null # "NULL")
  BY DEF Built, ColumnRecords
<1>3. source = "postgresql" => null \in {"NOT NULL", "NULL"}
  <2>1. source = "postgresql" => ~Takes("ADD KEY")
    BY PostgresForms DEF IInv
  <2>2. null = "PRIMARY KEY" => Takes("ADD KEY")
    BY DEF AddColumn
  <2>3. QED
    BY <2>1, <2>2 DEF Declared
<1>4. Knows(t \in inScript, x, ty, nn)
  BY <1>2, <1>3, CellFacts DEF Knows
<1>5. Agrees(x, x, {})
  BY DEF Agrees
<1>6. said \in Nullabilities
  BY DEF Nullabilities
<1>7. CellOK(t, x, x, ty, nn, {})
  BY <1>2, <1>4, <1>5, <1>6, CellFacts DEF CellOK
<1>8. FoldType(t, c, type) /\ FoldNullability(t, c, said)
  BY DEF AddColumn, FoldAdd
<1>9. types' = [types EXCEPT ![t][c] = ty] /\ notNull' = [notNull EXCEPT ![t][c] = nn]
  BY <1>8, FoldsWrite
<1>10. CellWritten(t, c, x, x, ty, nn, {})
  BY <1>9 DEF AddColumn, CellWritten, Plain
<1> HIDE DEF x, ty, nn
<1>11. QED
  BY <1>1, <1>7, <1>10, CellKeeps

LEMMA AddColumnsKeeps ==
  ASSUME KeepsForms, IInv, NEW t \in Tables, NEW c \in Columns, NEW d \in Columns,
         NEW type \in Types, NEW first \in {"NOT NULL", "NULL"}, NEW second \in {"NOT NULL", "NULL"},
         AddColumns(t, c, d, type, first, second)
  PROVE  IInv'
<1> DEFINE x == Built([type |-> type, null |-> first])
           z == Built([type |-> type, null |-> second])
           Added(row) == [row EXCEPT ![c] = x, ![d] = z]
           X == Added(schema[t])
           Y == Added(shipped[t])
           said == IF "NOT NULL" \in {first, second} THEN "NOT NULL" ELSE "NULL"
           TY == [types[t] EXCEPT ![c] = IF t \in inScript THEN type ELSE types[t][c]]
           NN == [notNull[t] EXCEPT ![c] = IF t \in inScript THEN said ELSE notNull[t][c]]
           FL == [flagged[t] EXCEPT ![c] = {}, ![d] = {}]
<1>1. script[t] = <<>>
  BY TablesAreMade DEF AddColumns
<1>2. source \notin {"postgresql", "oracle"}
  BY PostgresForms, OtherForms DEF AddColumns, IInv
<1>3. x \in ColumnRecords /\ z \in ColumnRecords /\ x.type = type /\ z.type = type
  BY DEF Built, ColumnRecords
<1>4. X \in [Columns -> ColumnRecords] /\ Y \in [Columns -> ColumnRecords]
  BY <1>3, IdleRows
<1>5. said \in Nullabilities
  BY DEF Nullabilities
<1>6. /\ TY \in [Columns -> Types \cup {None}] /\ NN \in [Columns -> Nullabilities]
      /\ FL \in [Columns -> SUBSET Aspects]
  BY <1>5, IdleRows
<1>7. \A e \in Columns : CellOK(t, X[e], Y[e], TY[e], NN[e], FL[e])
  <2> SUFFICES ASSUME NEW e \in Columns PROVE CellOK(t, X[e], Y[e], TY[e], NN[e], FL[e])
    OBVIOUS
  <2>1. /\ TY[e] \in Types \cup {None} /\ NN[e] \in Nullabilities /\ FL[e] \in SUBSET Aspects
        /\ X[e] \in ColumnRecords /\ Y[e] \in ColumnRecords
    BY <1>4, <1>6
  <2>2. t \notin inScript => TY[e] = None /\ NN[e] = "unknown"
    BY IdleRows, CellFacts DEF Knows
  <2>3. CASE e \in {c, d}
    <3>1. X[e] \in {x, z} /\ Y[e] = X[e]
      BY <2>3, IdleRows
    <3>2. Agrees(X[e], Y[e], FL[e])
      BY <3>1 DEF Agrees
    <3>3. X[e].type \in Types
      BY <1>3, <3>1
    <3>4. Knows(t \in inScript, X[e], TY[e], NN[e])
      BY <1>2, <2>2, <3>3 DEF Knows
    <3>5. QED
      BY <2>1, <3>2, <3>4 DEF CellOK
  <2>4. CASE e \notin {c, d}
    <3>1. /\ X[e] = schema[t][e] /\ Y[e] = shipped[t][e] /\ TY[e] = types[t][e]
          /\ NN[e] = notNull[t][e] /\ FL[e] = flagged[t][e]
      BY <2>4, IdleRows
    <3>2. CellOK(t, schema[t][e], shipped[t][e], types[t][e], notNull[t][e], flagged[t][e])
      BY CellFacts
    <3> HIDE DEF X, Y, TY, NN, FL
    <3>3. QED
      BY <3>1, <3>2
  <2>5. QED
    BY <2>3, <2>4
<1>8. RowOK(t, X, Y, TY, NN, FL)
  BY <1>4, <1>6, <1>7 DEF RowOK
<1>9. types' = [types EXCEPT ![t] = TY] /\ notNull' = [notNull EXCEPT ![t] = NN]
  <2>1. FoldType(t, c, type) /\ FoldNullability(t, c, said)
    BY DEF AddColumns, FoldAdd
  <2>2. QED
    BY <2>1, FoldsWrite
<1>10. /\ schema' = [schema EXCEPT ![t] = X] /\ shipped' = [shipped EXCEPT ![t] = Y]
  BY DEF AddColumns, IInv, TypeInv
<1>11. flagged' = [flagged EXCEPT ![t] = FL]
  BY DEF AddColumns, IInv, TypeInv
<1>12. UNCHANGED <<fixed, refused>> /\ script' = [script EXCEPT ![t] = <<>>]
  BY <1>1, IdleRows DEF AddColumns, Plain
<1>13. RowWritten(t, X, Y, TY, NN, FL)
  BY <1>9, <1>10, <1>11, <1>12 DEF RowWritten
<1> HIDE DEF X, Y, TY, NN, FL
<1>14. QED
  BY <1>8, <1>13, RowKeeps

LEMMA RenameColumnKeeps ==
  ASSUME KeepsForms, IInv, NEW t \in Tables, NEW old \in Columns, NEW new \in Columns,
         RenameColumn(t, old, new)
  PROVE  IInv'
<1> DEFINE X == Renamed(schema[t], Absent, old, new)
           Y == Renamed(shipped[t], Absent, old, new)
           TY == Moved(types[t], None, old, new)
           NN == Moved(notNull[t], "unknown", old, new)
           FL == Renamed(flagged[t], {}, old, new)
<1>1. script[t] = <<>> /\ old # new
  BY TablesAreMade DEF RenameColumn
<1>2. /\ X \in [Columns -> ColumnRecords] /\ Y \in [Columns -> ColumnRecords]
      /\ X[new] = schema[t][old] /\ X[old] = Absent /\ Y[new] = shipped[t][old] /\ Y[old] = Absent
      /\ \A c \in Columns \ {old, new} : X[c] = schema[t][c] /\ Y[c] = shipped[t][c]
  BY <1>1, IdleRows, AbsentIsTyped DEF Renamed
<1>3. /\ FL \in [Columns -> SUBSET Aspects]
      /\ FL[new] = flagged[t][old] /\ FL[old] = {}
      /\ \A c \in Columns \ {old, new} : FL[c] = flagged[t][c]
  BY <1>1, IdleRows DEF Renamed
<1>4. /\ TY \in [Columns -> Types \cup {None}]
      /\ types[t][old] # None => TY[new] = types[t][old]
      /\ \A c \in Columns \ {old, new} : TY[c] = types[t][c]
  BY <1>1, IdleRows DEF Moved, Renamed
<1>5. /\ NN \in [Columns -> Nullabilities]
      /\ notNull[t][old] # "unknown" => NN[new] = notNull[t][old]
      /\ \A c \in Columns \ {old, new} : NN[c] = notNull[t][c]
  <2>1. "unknown" \in Nullabilities
    BY DEF Nullabilities
  <2>2. QED
    BY <1>1, <2>1, IdleRows DEF Moved, Renamed
<1>6. t \notin inScript => TY = types[t] /\ NN = notNull[t]
  BY CellFacts DEF Knows, Moved
<1>7. CellOK(t, X[new], Y[new], TY[new], NN[new], FL[new])
  <2>1. Agrees(X[new], Y[new], FL[new])
    BY <1>2, <1>3, CellFacts
  <2>2. Knows(t \in inScript, schema[t][old], types[t][old], notNull[t][old])
    BY CellFacts
  <2>3. Knows(t \in inScript, X[new], TY[new], NN[new])
    <3>1. CASE t \in inScript
      BY <1>2, <1>4, <1>5, <2>2, <3>1, NoneAssumption DEF Knows
    <3>2. CASE t \notin inScript
      <4>1. TY[new] = None /\ NN[new] = "unknown"
        BY <1>6, <3>2, CellFacts DEF Knows
      <4>2. QED
        BY <1>2, <2>2, <3>2, <4>1 DEF Knows
    <3>3. QED
      BY <3>1, <3>2
  <2>4. QED
    BY <1>2, <1>3, <1>4, <1>5, <2>1, <2>3 DEF CellOK
<1>8. CellOK(t, X[old], Y[old], TY[old], NN[old], FL[old])
  <2>1. t \notin inScript => TY[old] = None /\ NN[old] = "unknown"
    BY <1>6, CellFacts DEF Knows
  <2>2. Agrees(X[old], Y[old], FL[old]) /\ Knows(t \in inScript, X[old], TY[old], NN[old])
    BY <1>2, <2>1 DEF Agrees, Knows
  <2>3. QED
    BY <1>2, <1>3, <1>4, <1>5, <2>2 DEF CellOK
<1> HIDE DEF X, Y, TY, NN, FL
<1>9. \A c \in Columns : CellOK(t, X[c], Y[c], TY[c], NN[c], FL[c])
  <2>1. \A c \in Columns \ {old, new} : CellOK(t, X[c], Y[c], TY[c], NN[c], FL[c])
    BY <1>2, <1>3, <1>4, <1>5, CellFacts
  <2>2. QED
    BY <1>7, <1>8, <2>1
<1>10. RowOK(t, X, Y, TY, NN, FL)
  BY <1>2, <1>3, <1>4, <1>5, <1>9 DEF RowOK
<1>11. RowWritten(t, X, Y, TY, NN, FL)
  <2>1. schema' = [schema EXCEPT ![t] = X] /\ shipped' = [shipped EXCEPT ![t] = Y]
    BY DEF RenameColumn, IInv, TypeInv, X, Y
  <2>2. types' = [types EXCEPT ![t] = TY] /\ notNull' = [notNull EXCEPT ![t] = NN]
    BY DEF RenameColumn, FoldRename, IInv, TypeInv, TY, NN
  <2>3. flagged' = [flagged EXCEPT ![t] = FL]
    BY DEF RenameColumn, IInv, TypeInv, FL
  <2>4. UNCHANGED <<fixed, refused>> /\ script' = [script EXCEPT ![t] = <<>>]
    BY <1>1, IdleRows DEF RenameColumn, Plain
  <2>5. QED
    BY <2>1, <2>2, <2>3, <2>4 DEF RowWritten
<1>12. QED
  BY <1>10, <1>11, RowKeeps

(***************************************************************************)
(* PostgreSQL's changes of a type and of the nullability.                  *)
(***************************************************************************)
LEMMA EmitTypeKeeps ==
  ASSUME KeepsForms, IInv, NEW t \in Tables, NEW c \in Columns, NEW type \in Types,
         source = "postgresql", Has(t, c), target \in {"tsql", "oracle"},
         schema' = [schema EXCEPT ![t][c] = Retyped(source, @, type, "unstated")],
         FoldTypeChange(t, c, type, "unstated"), EmitType(t, c, type), Plain
  PROVE  IInv'
<1> DEFINE before == schema[t][c]
           known == notNull[t][c]
           x == Retyped(source, before, type, "unstated")
           y == Retyped(target, shipped[t][c], type, Restated(t, c))
           ty == IF t \in inScript THEN type ELSE types[t][c]
           fl == flagged[t][c] \cup (IF target = "tsql" /\ known = "unknown" THEN {"notNull"} ELSE {})
<1>1. script[t] = <<>>
  BY TablesAreMade
<1>2. /\ x \in ColumnRecords /\ x.type = type /\ x.rewritten = before.rewritten
      /\ x.notNull = before.notNull
  BY CellFacts DEF Retyped, ColumnRecords
<1>3. Restated(t, c) \in Stated
  BY CellFacts DEF Restated, Stated, Nullabilities
<1>4. /\ y \in ColumnRecords /\ y.type = type /\ y.rewritten = shipped[t][c].rewritten
      /\ Restated(t, c) # "unstated" => y.notNull = (Restated(t, c) = "NOT NULL")
      /\ Restated(t, c) = "unstated" /\ target = "oracle" => y.notNull = shipped[t][c].notNull
  BY <1>3, CellFacts DEF Retyped, ColumnRecords
<1>5. known # "unknown" => known = (IF before.notNull THEN "NOT NULL" ELSE "NULL")
  BY CellFacts DEF Knows, Has
<1>6. Knows(t \in inScript, x, ty, known)
  BY <1>2, CellFacts DEF Knows, Has
<1>7. Agrees(x, y, fl)
  <2>1. "rewritten" \notin fl => y.rewritten = x.rewritten
    BY <1>2, <1>4, CellFacts DEF Agrees
  <2>2. ASSUME "notNull" \notin fl PROVE y.notNull = x.notNull
    <3>1. "notNull" \notin flagged[t][c] /\ shipped[t][c].notNull = before.notNull
      BY <2>2, CellFacts DEF Agrees
    <3>2. CASE target = "oracle"
      <4>1. Restated(t, c) = "unstated"
        BY <3>2 DEF Restated
      <4>2. QED
        BY <1>2, <1>4, <3>1, <3>2, <4>1
    <3>3. CASE target = "tsql"
      <4>1. known # "unknown"
        BY <2>2, <3>3
      <4>2. Restated(t, c) = known
        BY <3>3, <4>1 DEF Restated
      <4>3. y.notNull = before.notNull
        BY <1>4, <1>5, <4>1, <4>2, CellFacts DEF ColumnRecords
      <4>4. QED
        BY <1>2, <4>3
    <3>4. QED
      BY <3>2, <3>3
  <2>3. QED
    BY <1>2, <1>4, <2>1, <2>2 DEF Agrees
<1>8. fl \in SUBSET Aspects
  BY CellFacts DEF Aspects
<1>9. CellOK(t, x, y, ty, known, fl)
  BY <1>2, <1>4, <1>6, <1>7, <1>8, CellFacts DEF CellOK
<1>10. types' = [types EXCEPT ![t][c] = ty] /\ notNull' = [notNull EXCEPT ![t][c] = known]
  BY FoldsWrite, IdleWrites DEF FoldTypeChange
<1>11. /\ schema' = [schema EXCEPT ![t][c] = x] /\ shipped' = [shipped EXCEPT ![t][c] = y]
       /\ flagged' = [flagged EXCEPT ![t][c] = fl]
  BY DEF EmitType, Ship, Flag, IInv, TypeInv
<1>12. CellWritten(t, c, x, y, ty, known, fl)
  BY <1>10, <1>11 DEF CellWritten, Plain
<1> HIDE DEF x, y, ty, known, fl
<1>13. QED
  BY <1>1, <1>9, <1>12, CellKeeps

LEMMA ChangeTypesKeep ==
  ASSUME KeepsForms, IInv, NEW t \in Tables, NEW c \in Columns, NEW type \in Types,
         ChangeType(t, c, type) \/ ChangeTypeUsingCast(t, c, type)
  PROVE  IInv'
<1>1. /\ source = "postgresql" /\ Has(t, c) /\ (Takes("TYPE") \/ Takes("USING CAST"))
      /\ schema' = [schema EXCEPT ![t][c] = Retyped(source, @, type, "unstated")]
      /\ FoldTypeChange(t, c, type, "unstated") /\ EmitType(t, c, type) /\ Plain
  BY DEF ChangeType, ChangeTypeUsingCast
<1>2. target \in {"tsql", "oracle"}
  BY <1>1, PostgresForms DEF IInv
<1>3. QED
  BY <1>1, <1>2, EmitTypeKeeps

LEMMA ChangeTypeUsingKeeps ==
  ASSUME KeepsForms, IInv, NEW t \in Tables, NEW c \in Columns, NEW type \in Types,
         ChangeTypeUsing(t, c, type)
  PROVE  IInv'
<1> DEFINE before == Retyped(source, schema[t][c], type, "unstated")
           x == [before EXCEPT !.rewritten = TRUE]
           ty == IF t \in inScript THEN type ELSE types[t][c]
           fl == flagged[t][c] \cup {"type", "rewritten"}
<1>1. script[t] = <<>>
  BY TablesAreMade DEF ChangeTypeUsing
<1>2. source = "postgresql" /\ target \in {"tsql", "mysql"} /\ Has(t, c)
  BY PostgresForms DEF ChangeTypeUsing, IInv
<1>3. /\ before \in ColumnRecords /\ before.type = type
      /\ before.notNull = schema[t][c].notNull
  BY <1>2, CellFacts DEF Retyped, ColumnRecords
<1>4. x \in ColumnRecords /\ x.type = type /\ x.notNull = schema[t][c].notNull
  BY <1>3 DEF ColumnRecords
<1>5. Agrees(x, shipped[t][c], fl)
  BY <1>4, CellFacts DEF Agrees
<1>6. Knows(t \in inScript, x, ty, notNull[t][c])
  BY <1>2, <1>4, CellFacts DEF Knows, Has
<1>7. fl \in SUBSET Aspects
  BY CellFacts DEF Aspects
<1>8. CellOK(t, x, shipped[t][c], ty, notNull[t][c], fl)
  BY <1>4, <1>5, <1>6, <1>7, CellFacts DEF CellOK
<1>9. /\ types' = [types EXCEPT ![t][c] = ty]
      /\ notNull' = [notNull EXCEPT ![t][c] = notNull[t][c]]
  BY <1>2, FoldsWrite, IdleWrites DEF ChangeTypeUsing, FoldTypeChange
<1>10. /\ schema' = [schema EXCEPT ![t][c] = x]
       /\ flagged' = [flagged EXCEPT ![t][c] = fl]
       /\ shipped' = [shipped EXCEPT ![t][c] = shipped[t][c]]
  BY <1>2, IdleWrites DEF ChangeTypeUsing, Flag, IInv, TypeInv
<1>11. CellWritten(t, c, x, shipped[t][c], ty, notNull[t][c], fl)
  BY <1>9, <1>10 DEF CellWritten, ChangeTypeUsing, Plain
<1> HIDE DEF x, ty, fl
<1>12. QED
  BY <1>1, <1>8, <1>11, CellKeeps

LEMMA SetNullabilityKeeps ==
  ASSUME KeepsForms, IInv, NEW t \in Tables, NEW c \in Columns, NEW null \in {"NOT NULL", "NULL"},
         SetNullability(t, c, null)
  PROVE  IInv'
<1> DEFINE before == schema[t][c]
           x == [before EXCEPT !.notNull = (null = "NOT NULL")]
           nn == IF t \in inScript THEN null ELSE notNull[t][c]
           carried == target # "oracle" /\ types[t][c] = None
           y == IF carried THEN shipped[t][c]
                ELSE IF target = "oracle" THEN [shipped[t][c] EXCEPT !.notNull = (null = "NOT NULL")]
                ELSE Retyped(target, shipped[t][c], types[t][c], null)
           fl == flagged[t][c] \cup (IF carried THEN {"notNull"} ELSE {})
<1>1. script[t] = <<>> /\ source = "postgresql" /\ Has(t, c)
  BY TablesAreMade DEF SetNullability
<1>2. /\ x \in ColumnRecords /\ x.type = before.type /\ x.rewritten = before.rewritten
      /\ x.notNull = (null = "NOT NULL")
  BY CellFacts DEF ColumnRecords
<1>3. types[t][c] # None => types[t][c] = before.type
  BY <1>1, CellFacts DEF Knows, Has
<1>4. /\ y \in ColumnRecords
      /\ "type" \notin flagged[t][c] => y.type = before.type
      /\ "rewritten" \notin flagged[t][c] => y.rewritten = before.rewritten
      /\ ~carried => y.notNull = (null = "NOT NULL")
  <2>1. CASE carried
    BY <2>1, CellFacts DEF Agrees
  <2>2. CASE target = "oracle"
    <3>1. y = [shipped[t][c] EXCEPT !.notNull = (null = "NOT NULL")]
      BY <2>2
    <3>2. y \in ColumnRecords /\ y.type = shipped[t][c].type /\ y.rewritten = shipped[t][c].rewritten
          /\ y.notNull = (null = "NOT NULL")
      BY <3>1, CellFacts DEF ColumnRecords
    <3>3. QED
      BY <3>2, CellFacts DEF Agrees
  <2>3. CASE target # "oracle" /\ types[t][c] # None
    <3>1. y = Retyped(target, shipped[t][c], types[t][c], null)
      BY <2>3
    <3>2. null \in Stated /\ null # "unstated"
      BY DEF Stated
    <3>3. /\ y \in ColumnRecords /\ y.type = types[t][c] /\ y.rewritten = shipped[t][c].rewritten
          /\ y.notNull = (null = "NOT NULL")
      BY <3>1, <3>2, CellFacts DEF Retyped, ColumnRecords
    <3>4. QED
      BY <1>3, <2>3, <3>3, CellFacts DEF Agrees
  <2>4. QED
    BY <2>1, <2>2, <2>3
<1>5. Agrees(x, y, fl)
  BY <1>2, <1>4 DEF Agrees
<1>6. Knows(t \in inScript, x, types[t][c], nn)
  <2>1. nn = IF t \in inScript THEN (IF x.notNull THEN "NOT NULL" ELSE "NULL") ELSE notNull[t][c]
    BY <1>2
  <2>2. QED
    BY <1>1, <1>2, <2>1, CellFacts DEF Knows, Has
<1>7. fl \in SUBSET Aspects /\ nn \in Nullabilities
  BY CellFacts DEF Aspects, Nullabilities
<1>8. CellOK(t, x, y, types[t][c], nn, fl)
  BY <1>2, <1>4, <1>5, <1>6, <1>7, CellFacts DEF CellOK
<1>9. /\ types' = [types EXCEPT ![t][c] = types[t][c]] /\ notNull' = [notNull EXCEPT ![t][c] = nn]
  <2>1. FoldNullability(t, c, null) /\ types' = types
    BY DEF SetNullability
  <2>2. notNull' = [notNull EXCEPT ![t][c] = nn]
    BY <2>1, FoldsWrite
  <2>3. types' = [types EXCEPT ![t][c] = types[t][c]]
    BY <2>1, IdleWrites
  <2>4. QED
    BY <2>2, <2>3
<1>10. schema' = [schema EXCEPT ![t][c] = x]
  BY DEF SetNullability, IInv, TypeInv
<1>11. /\ shipped' = [shipped EXCEPT ![t][c] = y] /\ flagged' = [flagged EXCEPT ![t][c] = fl]
       /\ UNCHANGED <<fixed, script, refused>>
  <2>1. EmitNullability(t, c, null) /\ UNCHANGED <<fixed, script>>
    BY DEF SetNullability
  <2>2. CASE carried
    BY <2>1, <2>2, IdleWrites DEF EmitNullability, Flag, IInv, TypeInv
  <2>3. CASE ~carried
    <3>1. flagged' = flagged /\ fl = flagged[t][c] /\ Ship(t, c, y) /\ UNCHANGED refused
      BY <2>1, <2>3 DEF EmitNullability
    <3>2. shipped' = [shipped EXCEPT ![t][c] = y]
      BY <3>1 DEF Ship
    <3> HIDE DEF y, fl, carried
    <3>3. flagged' = [flagged EXCEPT ![t][c] = fl]
      BY <3>1, IdleWrites
    <3>4. QED
      BY <2>1, <3>1, <3>2, <3>3
  <2>4. QED
    BY <2>2, <2>3
<1>12. CellWritten(t, c, x, y, types[t][c], nn, fl)
  BY <1>9, <1>10, <1>11 DEF CellWritten
<1> HIDE DEF x, y, nn, fl
<1>13. QED
  BY <1>1, <1>8, <1>12, CellKeeps

(***************************************************************************)
(* MySQL's, Oracle's and SQL Server's changes of a column.                 *)
(***************************************************************************)
LEMMA ModifyKeeps ==
  ASSUME KeepsForms, IInv, NEW t \in Tables, NEW c \in Columns, NEW type \in Types,
         Modify(t, c, type)
  PROVE  IInv'
<1> DEFINE x == Retyped(source, schema[t][c], type, "unstated")
           y == Retyped(target, shipped[t][c], type, "unstated")
           ty == IF t \in inScript THEN type ELSE types[t][c]
           nn == IF t \in inScript THEN "NULL" ELSE notNull[t][c]
<1>1. script[t] = <<>> /\ source = "mysql" /\ target = "tsql" /\ Has(t, c)
  BY TablesAreMade, OtherForms DEF Modify, IInv
<1>2. /\ x \in ColumnRecords /\ x.type = type /\ x.rewritten = schema[t][c].rewritten
      /\ x.notNull = FALSE
  BY <1>1, CellFacts DEF Retyped, ColumnRecords
<1>3. /\ y \in ColumnRecords /\ y.type = type /\ y.rewritten = shipped[t][c].rewritten
      /\ y.notNull = FALSE
  BY <1>1, CellFacts DEF Retyped, ColumnRecords
<1>4. Agrees(x, y, flagged[t][c])
  BY <1>2, <1>3, CellFacts DEF Agrees
<1>5. Knows(t \in inScript, x, ty, nn)
  BY <1>1, <1>2, CellFacts DEF Knows
<1>6. nn \in Nullabilities
  BY CellFacts DEF Nullabilities
<1>7. CellOK(t, x, y, ty, nn, flagged[t][c])
  BY <1>2, <1>3, <1>4, <1>5, <1>6, CellFacts DEF CellOK
<1>8. types' = [types EXCEPT ![t][c] = ty]
  BY FoldsWrite DEF Modify, FoldTypeChange
<1>9. notNull' = [notNull EXCEPT ![t][c] = nn]
  <2>1. FoldNullability(t, c, "NULL")
    BY <1>1 DEF Modify, FoldTypeChange
  <2>2. QED
    BY <2>1, FoldsWrite
<1>10. /\ schema' = [schema EXCEPT ![t][c] = x] /\ shipped' = [shipped EXCEPT ![t][c] = y]
       /\ flagged' = flagged /\ Plain
  BY DEF Modify, Ship, IInv, TypeInv
<1> HIDE DEF x, y, ty, nn
<1>11. CellWritten(t, c, x, y, ty, nn, flagged[t][c])
  BY <1>8, <1>9, <1>10, IdleWrites DEF CellWritten, Plain
<1>12. QED
  BY <1>1, <1>7, <1>11, CellKeeps

LEMMA ChangeKeeps ==
  ASSUME KeepsForms, IInv, NEW t \in Tables, NEW old \in Columns, NEW new \in Columns,
         NEW type \in Types, Change(t, old, new, type)
  PROVE  IInv'
<1> DEFINE X == Changed(source, schema[t], old, new, type)
           Y == Changed(target, shipped[t], old, new, type)
           FL == Renamed(flagged[t], {}, old, new)
<1>1. script[t] = <<>> /\ source = "mysql" /\ target = "tsql" /\ old # new
  BY TablesAreMade, OtherForms DEF Change, IInv
<1>2. \A engine \in {"mysql", "tsql"}, row \in [Columns -> ColumnRecords] :
        LET z == Changed(engine, row, old, new, type)
        IN  /\ z \in [Columns -> ColumnRecords] /\ z[old] = Absent
            /\ z[new].type = type /\ z[new].notNull = FALSE
            /\ z[new].rewritten = row[old].rewritten
            /\ \A c \in Columns \ {old, new} : z[c] = row[c]
  <2> SUFFICES ASSUME NEW engine \in {"mysql", "tsql"}, NEW row \in [Columns -> ColumnRecords]
               PROVE  LET z == Changed(engine, row, old, new, type)
                      IN  /\ z \in [Columns -> ColumnRecords] /\ z[old] = Absent
                          /\ z[new].type = type /\ z[new].notNull = FALSE
                          /\ z[new].rewritten = row[old].rewritten
                          /\ \A c \in Columns \ {old, new} : z[c] = row[c]
    OBVIOUS
  <2> DEFINE r == Retyped(engine, row[old], type, "unstated")
             moved == Renamed(row, Absent, old, new)
  <2>1. /\ r \in ColumnRecords /\ r.type = type /\ r.notNull = FALSE
        /\ r.rewritten = row[old].rewritten
    BY DEF Retyped, ColumnRecords
  <2>2. /\ moved \in [Columns -> ColumnRecords] /\ moved[old] = Absent
        /\ \A c \in Columns \ {old, new} : moved[c] = row[c]
    BY <1>1, AbsentIsTyped DEF Renamed
  <2>3. Changed(engine, row, old, new, type) = [moved EXCEPT ![new] = r]
    BY DEF Changed
  <2> HIDE DEF r, moved
  <2>4. QED
    BY <1>1, <2>1, <2>2, <2>3
<1>3. /\ FL \in [Columns -> SUBSET Aspects]
      /\ FL[new] = flagged[t][old] /\ FL[old] = {}
      /\ \A c \in Columns \ {old, new} : FL[c] = flagged[t][c]
  BY <1>1, IdleRows DEF Renamed
<1>4. /\ schema' = [schema EXCEPT ![t] = X] /\ shipped' = [shipped EXCEPT ![t] = Y]
      /\ flagged' = [flagged EXCEPT ![t] = FL] /\ UNCHANGED maps /\ Plain
  BY DEF Change, IInv, TypeInv
<1>5. /\ X \in [Columns -> ColumnRecords] /\ X[old] = Absent
      /\ X[new].type = type /\ X[new].notNull = FALSE
      /\ X[new].rewritten = schema[t][old].rewritten
      /\ \A c \in Columns \ {old, new} : X[c] = schema[t][c]
  BY <1>1, <1>2, IdleRows
<1>6. /\ Y \in [Columns -> ColumnRecords] /\ Y[old] = Absent
      /\ Y[new].type = type /\ Y[new].notNull = FALSE
      /\ Y[new].rewritten = shipped[t][old].rewritten
      /\ \A c \in Columns \ {old, new} : Y[c] = shipped[t][c]
  BY <1>1, <1>2, IdleRows
<1> HIDE DEF X, Y, FL
<1>7. \A c \in Columns : CellOK(t, X[c], Y[c], types[t][c], notNull[t][c], FL[c])
  <2>1. CellOK(t, X[new], Y[new], types[t][new], notNull[t][new], FL[new])
    <3>1. Agrees(X[new], Y[new], FL[new])
      BY <1>3, <1>5, <1>6, CellFacts DEF Agrees
    <3>2. Knows(t \in inScript, X[new], types[t][new], notNull[t][new])
      BY <1>1, <1>5, CellFacts DEF Knows
    <3>3. QED
      BY <1>3, <1>5, <1>6, <3>1, <3>2, CellFacts DEF CellOK
  <2>2. CellOK(t, X[old], Y[old], types[t][old], notNull[t][old], FL[old])
    BY <1>3, <1>5, <1>6, CellFacts, AbsentIsTyped DEF CellOK, Agrees, Knows
  <2>3. \A c \in Columns \ {old, new} : CellOK(t, X[c], Y[c], types[t][c], notNull[t][c], FL[c])
    BY <1>3, <1>5, <1>6, CellFacts
  <2>4. QED
    BY <2>1, <2>2, <2>3
<1>8. RowOK(t, X, Y, types[t], notNull[t], FL)
  BY <1>3, <1>5, <1>6, <1>7, IdleRows DEF RowOK
<1>9. RowWritten(t, X, Y, types[t], notNull[t], FL)
  BY <1>1, <1>4, IdleRows DEF RowWritten, maps, Plain
<1>10. QED
  BY <1>8, <1>9, RowKeeps

LEMMA OracleModifyKeeps ==
  ASSUME KeepsForms, IInv, NEW t \in Tables, NEW c \in Columns, NEW type \in Types \cup {None},
         NEW null \in Stated, OracleModify(t, c, type, null)
  PROVE  IInv'
<1> DEFINE x == Retyped(source, schema[t][c], schema[t][c].type, null)
           y == Retyped(target, shipped[t][c], shipped[t][c].type, null)
<1>1. source = "oracle" /\ type = None /\ null # "unstated"
  <2>1. source = "oracle" /\ (type # None => Takes("MODIFY") \/ Takes("MODIFY TYPE NULL"))
    BY DEF OracleModify
  <2>2. type = None
    BY <2>1, OtherForms DEF IInv
  <2>3. QED
    BY <2>1, <2>2 DEF OracleModify
<1>2. script[t] = <<>> /\ Has(t, c)
  BY TablesAreMade DEF OracleModify
<1>3. /\ x \in ColumnRecords /\ x.type = schema[t][c].type
      /\ x.rewritten = schema[t][c].rewritten /\ x.notNull = (null = "NOT NULL")
  BY <1>1, CellFacts DEF Retyped, ColumnRecords
<1>4. /\ y \in ColumnRecords /\ y.type = shipped[t][c].type
      /\ y.rewritten = shipped[t][c].rewritten /\ y.notNull = (null = "NOT NULL")
  BY <1>1, CellFacts DEF Retyped, ColumnRecords
<1>5. Agrees(x, y, flagged[t][c])
  BY <1>3, <1>4, CellFacts DEF Agrees
<1>6. Knows(t \in inScript, x, types[t][c], notNull[t][c])
  BY <1>1, <1>2, <1>3, CellFacts DEF Knows, Has
<1>7. CellOK(t, x, y, types[t][c], notNull[t][c], flagged[t][c])
  BY <1>3, <1>4, <1>5, <1>6, CellFacts DEF CellOK
<1>8. /\ schema' = [schema EXCEPT ![t][c] = x] /\ shipped' = [shipped EXCEPT ![t][c] = y]
      /\ UNCHANGED <<flagged, maps>> /\ Plain
  BY <1>1 DEF OracleModify, Ship, IInv, TypeInv
<1> HIDE DEF x, y
<1>9. CellWritten(t, c, x, y, types[t][c], notNull[t][c], flagged[t][c])
  BY <1>8, IdleWrites DEF CellWritten, Plain, maps
<1>10. QED
  BY <1>2, <1>7, <1>9, CellKeeps

LEMMA AlterColumnKeeps ==
  ASSUME KeepsForms, IInv, NEW t \in Tables, NEW c \in Columns, NEW type \in Types,
         NEW null \in Stated, AlterColumn(t, c, type, null)
  PROVE  IInv'
<1> DEFINE lost == target = "oracle" /\ null = "NULL"
           stated == IF lost THEN "unstated" ELSE null
           x == Retyped(source, schema[t][c], type, null)
           y == Retyped(target, shipped[t][c], type, stated)
           fl == flagged[t][c] \cup (IF lost THEN {"notNull"} ELSE {})
<1>1. script[t] = <<>> /\ source = "tsql" /\ Has(t, c)
  BY TablesAreMade DEF AlterColumn
<1>2. /\ null = "unstated" => target = "mysql"
      /\ null = "NOT NULL" => target \in {"mysql", "postgresql"}
  BY OtherForms DEF AlterColumn, IInv
<1>3. /\ x \in ColumnRecords /\ x.type = type /\ x.rewritten = schema[t][c].rewritten
      /\ x.notNull = (null = "NOT NULL")
  BY <1>1, CellFacts DEF Retyped, ColumnRecords
<1>4. stated \in Stated
  BY DEF Stated
<1>5. /\ y \in ColumnRecords /\ y.type = type /\ y.rewritten = shipped[t][c].rewritten
      /\ ~lost => y.notNull = (null = "NOT NULL")
  BY <1>2, <1>4, CellFacts DEF Retyped, ColumnRecords
<1>6. Agrees(x, y, fl)
  BY <1>3, <1>5, CellFacts DEF Agrees
<1>7. Knows(t \in inScript, x, types[t][c], notNull[t][c])
  BY <1>1, <1>3, CellFacts DEF Knows
<1>8. fl \in SUBSET Aspects
  BY CellFacts DEF Aspects
<1>9. CellOK(t, x, y, types[t][c], notNull[t][c], fl)
  BY <1>3, <1>5, <1>6, <1>7, <1>8, CellFacts DEF CellOK
<1>10. schema' = [schema EXCEPT ![t][c] = x] /\ UNCHANGED <<fixed, script, maps>>
  BY DEF AlterColumn, IInv, TypeInv
<1>11. ~(target = "oracle" /\ stated = "NOT NULL")
  BY <1>2
<1>12. shipped' = [shipped EXCEPT ![t][c] = y] /\ UNCHANGED refused
  BY <1>11 DEF AlterColumn, Ship
<1>13. flagged' = [flagged EXCEPT ![t][c] = fl]
  BY DEF AlterColumn, Flag, IInv, TypeInv
<1> HIDE DEF x, y, fl
<1>14. CellWritten(t, c, x, y, types[t][c], notNull[t][c], fl)
  BY <1>10, <1>12, <1>13, IdleWrites DEF CellWritten, maps
<1>15. QED
  BY <1>1, <1>9, <1>14, CellKeeps

(***************************************************************************)
(* Every step keeps the invariant, and the invariant is what is promised.  *)
(***************************************************************************)
LEMMA StepKeeps == KeepsForms /\ IInv /\ [Next]_vars => IInv'
<1> SUFFICES ASSUME KeepsForms, IInv, [Next]_vars PROVE IInv'
  OBVIOUS
<1>1. CASE UNCHANGED vars
  <2>1. UNCHANGED <<source, target, inScript, script, schema, shipped, types, notNull, flagged, refused>>
    BY <1>1 DEF vars, fixed, maps
  <2>2. TypeInv'
    BY <2>1 DEF IInv, TypeInv
  <2>3. KnowInv'
    <3>1. \A t \in Tables : ToCome(t)'
      BY <2>1 DEF IInv, KnowInv, ToCome
    <3>2. \A t \in Tables, c \in Columns :
            CellOK(t, schema[t][c], shipped[t][c], types[t][c], notNull[t][c], flagged[t][c])'
      <4> SUFFICES ASSUME NEW t \in Tables, NEW c \in Columns
                   PROVE  CellOK(t, schema[t][c], shipped[t][c], types[t][c], notNull[t][c], flagged[t][c])'
        OBVIOUS
      <4>1. CellOK(t, schema[t][c], shipped[t][c], types[t][c], notNull[t][c], flagged[t][c])
        BY CellFacts
      <4>2. QED
        BY <2>1, <4>1 DEF CellOK, Agrees, Knows
    <3>3. QED
      BY <2>1, <3>1, <3>2 DEF IInv, KnowInv
  <2>4. QED
    BY <2>2, <2>3 DEF IInv
<1>2. CASE Next
  <2>1. PICK t \in Tables :
          \/ CreateTable(t) \/ DropTable(t)
          \/ \E c \in Columns :
              \/ DropColumn(t, c)
              \/ \E null \in {"NOT NULL", "NULL"} : SetNullability(t, c, null)
              \/ \E new \in Columns : RenameColumn(t, c, new)
              \/ \E type \in Types :
                  \/ \E null \in Declared : AddColumn(t, c, type, null)
                  \/ \E d \in Columns, first, second \in {"NOT NULL", "NULL"} :
                          AddColumns(t, c, d, type, first, second)
                  \/ ChangeType(t, c, type)
                  \/ ChangeTypeUsingCast(t, c, type)
                  \/ ChangeTypeUsing(t, c, type)
                  \/ Modify(t, c, type)
                  \/ \E new \in Columns : Change(t, c, new, type)
                  \/ \E null \in Stated : AlterColumn(t, c, type, null)
              \/ \E type \in Types \cup {None}, null \in Stated : OracleModify(t, c, type, null)
    BY <1>2 DEF Next, Stated
  <2>2. CASE CreateTable(t) \/ DropTable(t)
    BY <2>2, CreateTableKeeps, DropTableKeeps
  <2>3. ASSUME NEW c \in Columns, DropColumn(t, c) PROVE IInv'
    BY <2>3, DropColumnKeeps
  <2>4. ASSUME NEW c \in Columns, NEW null \in {"NOT NULL", "NULL"}, SetNullability(t, c, null)
        PROVE  IInv'
    BY <2>4, SetNullabilityKeeps
  <2>5. ASSUME NEW c \in Columns, NEW new \in Columns, RenameColumn(t, c, new) PROVE IInv'
    BY <2>5, RenameColumnKeeps
  <2>6. ASSUME NEW c \in Columns, NEW type \in Types, NEW null \in Declared,
               AddColumn(t, c, type, null)
        PROVE  IInv'
    BY <2>6, AddColumnKeeps
  <2>7. ASSUME NEW c \in Columns, NEW type \in Types, NEW d \in Columns,
               NEW first \in {"NOT NULL", "NULL"}, NEW second \in {"NOT NULL", "NULL"},
               AddColumns(t, c, d, type, first, second)
        PROVE  IInv'
    BY <2>7, AddColumnsKeeps
  <2>8. ASSUME NEW c \in Columns, NEW type \in Types,
               ChangeType(t, c, type) \/ ChangeTypeUsingCast(t, c, type)
        PROVE  IInv'
    BY <2>8, ChangeTypesKeep
  <2>9. ASSUME NEW c \in Columns, NEW type \in Types, ChangeTypeUsing(t, c, type) PROVE IInv'
    BY <2>9, ChangeTypeUsingKeeps
  <2>10. ASSUME NEW c \in Columns, NEW type \in Types, Modify(t, c, type) PROVE IInv'
    BY <2>10, ModifyKeeps
  <2>11. ASSUME NEW c \in Columns, NEW type \in Types, NEW new \in Columns, Change(t, c, new, type)
         PROVE  IInv'
    BY <2>11, ChangeKeeps
  <2>12. ASSUME NEW c \in Columns, NEW type \in Types, NEW null \in Stated,
                AlterColumn(t, c, type, null)
         PROVE  IInv'
    BY <2>12, AlterColumnKeeps
  <2>13. ASSUME NEW c \in Columns, NEW type \in Types \cup {None}, NEW null \in Stated,
                OracleModify(t, c, type, null)
         PROVE  IInv'
    BY <2>13, OracleModifyKeeps
  <2>14. QED
    BY <2>1, <2>2, <2>3, <2>4, <2>5, <2>6, <2>7, <2>8, <2>9, <2>10, <2>11, <2>12, <2>13
<1>3. QED
  BY <1>1, <1>2

LEMMA InvariantHolds == ASSUME KeepsForms PROVE Spec => []IInv
<1>1. Init => IInv
  BY InitKnows
<1>2. IInv /\ [Next]_vars => IInv'
  BY StepKeeps
<1>3. QED
  BY <1>1, <1>2, PTL DEF Spec

\* Whatever a script does to its tables, the emitted ALTERs leave every column
\* with the type, the nullability and the values the source leaves it with, up
\* to what is flagged (converter/emit.py:508, emit_passthrough.py:261).
THEOREM ColumnsAreKept == ASSUME KeepsForms PROVE Spec => []SchemaKept
<1>1. IInv => SchemaKept
  BY CellFacts DEF SchemaKept, Agrees
<1>2. QED
  BY <1>1, InvariantHolds, PTL

\* The running maps (converter/harvest.py:357) describe every tracked column as
\* it is between two statements, for the dialects read against them.
THEOREM KnowledgeStaysCurrent == ASSUME KeepsForms PROVE Spec => []KnowledgeIsCurrent
<1>1. IInv => KnowledgeIsCurrent
  <2> SUFFICES ASSUME IInv, NEW t \in inScript, NEW c \in Columns, Has(t, c)
               PROVE  /\ source \in {"postgresql", "oracle"} => types[t][c] = schema[t][c].type
                      /\ source = "postgresql" =>
                           notNull[t][c] = (IF schema[t][c].notNull THEN "NOT NULL" ELSE "NULL")
    BY DEF KnowledgeIsCurrent
  <2>1. t \in Tables
    BY DEF IInv, TypeInv
  <2>2. QED
    BY <2>1, CellFacts DEF Knows, Has
<1>2. QED
  BY <1>1, InvariantHolds, PTL

\* The target refuses no ALTER the source accepts: ORA-01442 and ORA-01451 are
\* swallowed or cannot arise (_core.py:1264).
THEOREM AltersAreAccepted == ASSUME KeepsForms PROVE Spec => []TargetAccepts
<1>1. IInv => TargetAccepts
  BY DEF IInv, KnowInv, TargetAccepts
<1>2. QED
  BY <1>1, InvariantHolds, PTL
=============================================================================
