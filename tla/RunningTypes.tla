---------------------------- MODULE RunningTypes ----------------------------
(***************************************************************************)
(* What the converter knows about the columns of a script's tables, and    *)
(* what it writes from that knowledge.  A column-shape ALTER is folded     *)
(* into COLUMN_TYPES and COLUMN_NOT_NULL when it is emitted                *)
(* (converter/harvest.py), and the emission of an ALTER restates from the  *)
(* maps the half of the column that the target's spelling would otherwise  *)
(* reset (converter/emit_passthrough.py, converter/emit.py,                *)
(* transpiler/_core.py).                                                   *)
(*                                                                         *)
(* Two engines run beside the converter: schema is what the source script  *)
(* does on the source engine, shipped what the emitted script does on the  *)
(* target engine.  What an engine makes of a type change is external.      *)
(* Identifiers and types mean the same on both engines; a value is told    *)
(* apart only by whether a USING expression has rewritten it.              *)
(***************************************************************************)
EXTENDS Integers, Sequences

CONSTANTS Palette,      \* for each [source, target] run, its statement forms
          Tables,
          Columns,
          Types,
          None,         \* no column, or no type known
          MaxCreates    \* CREATE TABLEs of one table in one script

Engines == {"postgresql", "mysql", "oracle", "tsql"}

ASSUME PaletteAssumption == DOMAIN Palette \subseteq [source : Engines, target : Engines]
ASSUME NoneAssumption == None \notin Types
ASSUME MaxCreatesAssumption == MaxCreates \in Nat \ {0}

\* The forms the converter restates, keeps or flags between s and t; README.md
\* says what is left out of each pair, and why.
KeptForms(s, t) ==
    {f \in {"ADD", "ADD KEY", "ADD TWO", "RENAME", "DROP COLUMN", "DROP TABLE", "TYPE",
            "USING CAST", "USING", "SET NOT NULL", "MODIFY", "CHANGE", "MODIFY NULL",
            "ALTER COLUMN", "ALTER COLUMN NULL", "ALTER COLUMN NOT NULL"} :
       \/ f \in {"ADD", "RENAME", "DROP COLUMN", "DROP TABLE"}
       \/ f = "ADD KEY" /\ s # "postgresql"
       \/ f = "ADD TWO" /\ s \in {"mysql", "tsql"}
       \/ f \in {"TYPE", "USING CAST"} /\ s = "postgresql" /\ t \in {"tsql", "oracle"}
       \/ f = "USING" /\ s = "postgresql" /\ t \in {"tsql", "mysql"}
       \/ f = "SET NOT NULL" /\ s = "postgresql"
       \/ f \in {"MODIFY", "CHANGE"} /\ s = "mysql" /\ t = "tsql"
       \/ f = "MODIFY NULL" /\ s = "oracle" /\ t = "postgresql"
       \/ f = "ALTER COLUMN" /\ s = "tsql" /\ t = "mysql"
       \/ f = "ALTER COLUMN NULL" /\ s = "tsql"
       \/ f = "ALTER COLUMN NOT NULL" /\ s = "tsql" /\ t \in {"mysql", "postgresql"}}

VARIABLES source, target,
          script,     \* the CREATE TABLEs still to come of each table
          schema,     \* the columns on the source engine
          shipped,    \* the columns on the target engine
          inScript,   \* the tables the maps track
          types,      \* COLUMN_TYPES
          notNull,    \* COLUMN_NOT_NULL
          flagged,    \* what a carrier or a warning left to the reader
          refused     \* the tables on which the target raised an error

maps == <<types, notNull>>
fixed == <<source, target, inScript>>
vars == <<fixed, script, schema, shipped, maps, flagged, refused>>

(***************************************************************************)
(* Columns.                                                                *)
(***************************************************************************)
Absent == [type |-> None, notNull |-> FALSE, rewritten |-> FALSE]
Shapes == {Absent} \cup [type : Types, notNull : BOOLEAN, rewritten : BOOLEAN]

\* How a CREATE or an ADD declares a column; a key column is NOT NULL.
Declared == {"NULL", "NOT NULL", "PRIMARY KEY"}
Definitions == [type : Types, null : Declared] \cup {[type |-> None, null |-> "NULL"]}

Built(d) == [type |-> d.type, notNull |-> d.null # "NULL", rewritten |-> FALSE]

Has(t, c) == schema[t][c] # Absent
HasTable(t) == \E c \in Columns : Has(t, c)

\* A type change leaves the nullability alone on PostgreSQL and Oracle, and
\* resets it to NULL on MySQL and SQL Server unless the statement restates it.
Retyped(engine, column, type, null) ==
    [column EXCEPT !.type = type,
                   !.notNull = IF null = "unstated"
                               THEN engine \in {"postgresql", "oracle"} /\ @
                               ELSE null = "NOT NULL"]

Renamed(row, nothing, old, new) == [row EXCEPT ![new] = row[old], ![old] = nothing]

(***************************************************************************)
(* The maps.  Known nullability is "NOT NULL" or "NULL".                   *)
(***************************************************************************)
Last(defs) == defs[Len(defs)]
HarvestedType(defs) == [c \in Columns |-> Last(defs)[c].type]
HarvestedNotNull_NoKeys(defs) ==
    [c \in Columns |-> IF Last(defs)[c].type = None THEN "unknown"
                       ELSE IF Last(defs)[c].null = "NOT NULL" THEN "NOT NULL" ELSE "NULL"]
HarvestedNotNull(defs) ==
    [c \in Columns |-> IF Last(defs)[c].type = None THEN "unknown"
                       ELSE IF Last(defs)[c].null # "NULL" THEN "NOT NULL" ELSE "NULL"]

FoldNullability(t, c, null) ==
    notNull' = IF t \in inScript THEN [notNull EXCEPT ![t][c] = null] ELSE notNull

FoldType(t, c, type) ==
    types' = IF t \in inScript THEN [types EXCEPT ![t][c] = type] ELSE types

\* A type change read from the statement's own dialect: only MySQL's resets
\* the nullability, to what the tail restates.
FoldTypeChange(t, c, type, null) ==
    /\ FoldType(t, c, type)
    /\ IF source = "mysql"
       THEN FoldNullability(t, c, IF null = "NOT NULL" THEN null ELSE "NULL")
       ELSE UNCHANGED notNull

\* ADD records the words NOT NULL and no other spelling of them.
FoldAdd(t, c, type, words) ==
    /\ FoldType(t, c, type)
    /\ FoldNullability(t, c, IF "NOT NULL" \in words THEN "NOT NULL" ELSE "NULL")

Moved(row, nothing, old, new) ==
    IF row[old] = nothing THEN row ELSE Renamed(row, nothing, old, new)

FoldRename(t, old, new) ==
    /\ types' = [types EXCEPT ![t] = Moved(@, None, old, new)]
    /\ notNull' = [notNull EXCEPT ![t] = Moved(@, "unknown", old, new)]

(***************************************************************************)
(* A new script: the harvest reads every CREATE TABLE of it, and the last  *)
(* one of a table wins.                                                    *)
(***************************************************************************)
Nothing == [c \in Columns |-> Absent]
Rows == [Columns -> Shapes] \ {Nothing}
Creates == UNION {[1..n -> [Columns -> Definitions]] : n \in 1..MaxCreates}
NamesAColumn(defs) ==
    \A i \in 1..Len(defs) : \E c \in Columns : defs[i][c].type # None

Init ==
    /\ \E p \in DOMAIN Palette : source = p.source /\ target = p.target
    /\ inScript \in SUBSET Tables
    /\ script \in [Tables -> Creates \cup {<<>>}]
    /\ \A t \in Tables : /\ script[t] # <<>> <=> t \in inScript
                         /\ NamesAColumn(script[t])
    /\ schema \in [Tables -> Rows \cup {Nothing}]
    /\ \A t \in Tables : /\ schema[t] = Nothing <=> t \in inScript
                         /\ \A c \in Columns : ~schema[t][c].rewritten
    /\ shipped = schema
    /\ types = [t \in Tables |-> IF t \in inScript THEN HarvestedType(script[t])
                                 ELSE [c \in Columns |-> None]]
    /\ notNull = [t \in Tables |-> IF t \in inScript THEN HarvestedNotNull(script[t])
                                   ELSE [c \in Columns |-> "unknown"]]
    /\ flagged = [t \in Tables |-> [c \in Columns |-> {}]]
    /\ refused = {}

Takes(form) == form \in Palette[[source |-> source, target |-> target]]

CreateTable(t) ==
    /\ script[t] # <<>> /\ ~HasTable(t)
    /\ schema' = [schema EXCEPT ![t] = [c \in Columns |-> IF Head(script[t])[c].type = None
                                                          THEN Absent
                                                          ELSE Built(Head(script[t])[c])]]
    /\ shipped' = [shipped EXCEPT ![t] = schema'[t]]
    /\ script' = [script EXCEPT ![t] = Tail(@)]
    /\ flagged' = [flagged EXCEPT ![t] = [c \in Columns |-> {}]]
    /\ UNCHANGED <<fixed, maps, refused>>

DropTable(t) ==
    /\ Takes("DROP TABLE") /\ HasTable(t)
    /\ schema' = [schema EXCEPT ![t] = Nothing]
    /\ shipped' = [shipped EXCEPT ![t] = Nothing]
    /\ UNCHANGED <<fixed, script, maps, flagged, refused>>

(***************************************************************************)
(* ADD, DROP COLUMN and RENAME COLUMN go through the generic emission, and *)
(* mean the same everywhere.  DROP COLUMN does not touch the maps.         *)
(***************************************************************************)
Plain == UNCHANGED <<fixed, script, refused>>

AddColumn(t, c, type, null) ==
    /\ Takes(IF null = "PRIMARY KEY" THEN "ADD KEY" ELSE "ADD")
    /\ HasTable(t) /\ ~Has(t, c)
    /\ LET new == Built([type |-> type, null |-> null])
       IN  /\ schema' = [schema EXCEPT ![t][c] = new]
           /\ shipped' = [shipped EXCEPT ![t][c] = new]
    /\ flagged' = [flagged EXCEPT ![t][c] = {}]
    /\ FoldAdd(t, c, type, {null})
    /\ Plain

\* ADD a ..., ADD b ...: the fold records the first column only, and looks for
\* NOT NULL in all that follows its type.
AddColumns(t, c, d, type, first, second) ==
    /\ Takes("ADD TWO")
    /\ c # d /\ HasTable(t) /\ ~Has(t, c) /\ ~Has(t, d)
    /\ LET Added(row) == [row EXCEPT ![c] = Built([type |-> type, null |-> first]),
                                     ![d] = Built([type |-> type, null |-> second])]
       IN  /\ schema' = [schema EXCEPT ![t] = Added(@)]
           /\ shipped' = [shipped EXCEPT ![t] = Added(@)]
    /\ flagged' = [flagged EXCEPT ![t][c] = {}, ![t][d] = {}]
    /\ FoldAdd(t, c, type, {first, second})
    /\ Plain

DropColumn(t, c) ==
    /\ Takes("DROP COLUMN") /\ Has(t, c)
    /\ schema' = [schema EXCEPT ![t][c] = Absent]
    /\ shipped' = [shipped EXCEPT ![t][c] = Absent]
    /\ flagged' = [flagged EXCEPT ![t][c] = {}]
    /\ UNCHANGED maps
    /\ Plain

RenameColumn(t, old, new) ==
    /\ Takes("RENAME") /\ old # new /\ Has(t, old) /\ ~Has(t, new)
    /\ schema' = [schema EXCEPT ![t] = Renamed(@, Absent, old, new)]
    /\ shipped' = [shipped EXCEPT ![t] = Renamed(@, Absent, old, new)]
    /\ flagged' = [flagged EXCEPT ![t] = Renamed(@, {}, old, new)]
    /\ FoldRename(t, old, new)
    /\ Plain

(***************************************************************************)
(* PostgreSQL: ALTER COLUMN c TYPE type.  SQL Server gets the nullability  *)
(* of the map restated, with UNIQUE-1010 when the map has none; Oracle     *)
(* MODIFY keeps it; MySQL gets sqlglot's bare MODIFY COLUMN.               *)
(***************************************************************************)
Flag(t, c, aspects) == flagged' = [flagged EXCEPT ![t][c] = @ \cup aspects]
Ship(t, c, column) == shipped' = [shipped EXCEPT ![t][c] = column]

Restated_Never(t, c) == "unstated"
Restated(t, c) ==
    IF target = "tsql" /\ notNull[t][c] # "unknown" THEN notNull[t][c] ELSE "unstated"

EmitType(t, c, type) ==
    /\ Ship(t, c, Retyped(target, shipped[t][c], type, Restated(t, c)))
    /\ Flag(t, c, IF target = "tsql" /\ notNull[t][c] = "unknown"
                  THEN {"notNull"} ELSE {})

ChangeType(t, c, type) ==
    /\ source = "postgresql" /\ Takes("TYPE") /\ Has(t, c)
    /\ schema' = [schema EXCEPT ![t][c] = Retyped(source, @, type, "unstated")]
    /\ FoldTypeChange(t, c, type, "unstated")
    /\ EmitType(t, c, type)
    /\ Plain

\* TYPE type USING CAST(c AS type): the clause is what a type change does
\* anyway, and strips.
ChangeTypeUsingCast(t, c, type) ==
    /\ source = "postgresql" /\ Takes("USING CAST") /\ Has(t, c)
    /\ schema' = [schema EXCEPT ![t][c] = Retyped(source, @, type, "unstated")]
    /\ FoldTypeChange(t, c, type, "unstated")
    /\ EmitType(t, c, type)
    /\ Plain

\* TYPE type USING expression: a carrier (UNIQUE-1110), except that Oracle's
\* MODIFY is written first and drops the clause.  The fold has run already.
ChangeTypeUsing(t, c, type) ==
    /\ source = "postgresql" /\ Takes("USING") /\ Has(t, c)
    /\ schema' = [schema EXCEPT ![t][c] =
                    [Retyped(source, @, type, "unstated") EXCEPT !.rewritten = TRUE]]
    /\ FoldTypeChange(t, c, type, "unstated")
    /\ IF target = "oracle"
       THEN EmitType(t, c, type)
       ELSE Flag(t, c, {"type", "rewritten"}) /\ UNCHANGED shipped
    /\ Plain

(***************************************************************************)
(* PostgreSQL: ALTER COLUMN c SET / DROP NOT NULL.  Oracle gets MODIFY in  *)
(* a block that swallows the errors of a column already in that state;     *)
(* MySQL and SQL Server get the column's known type restated, or a carrier *)
(* (UNIQUE-1111).                                                          *)
(***************************************************************************)
OracleRefuses(column, null) == column.notNull = (null = "NOT NULL")

EmitNullability_NoHandler(t, c, null) ==
    IF target = "oracle"
    THEN /\ IF OracleRefuses(shipped[t][c], null)
            THEN refused' = refused \cup {t} /\ UNCHANGED shipped
            ELSE /\ Ship(t, c, [shipped[t][c] EXCEPT !.notNull = (null = "NOT NULL")])
                 /\ UNCHANGED refused
         /\ UNCHANGED flagged
    ELSE IF types[t][c] = None
         THEN Flag(t, c, {"notNull"}) /\ UNCHANGED <<shipped, refused>>
         ELSE /\ Ship(t, c, Retyped(target, shipped[t][c], types[t][c], null))
              /\ UNCHANGED <<flagged, refused>>
EmitNullability(t, c, null) ==
    IF target = "oracle"
    THEN /\ Ship(t, c, [shipped[t][c] EXCEPT !.notNull = (null = "NOT NULL")])
         /\ UNCHANGED <<flagged, refused>>
    ELSE IF types[t][c] = None
         THEN Flag(t, c, {"notNull"}) /\ UNCHANGED <<shipped, refused>>
         ELSE /\ Ship(t, c, Retyped(target, shipped[t][c], types[t][c], null))
              /\ UNCHANGED <<flagged, refused>>

SetNullability(t, c, null) ==
    /\ source = "postgresql" /\ Takes("SET NOT NULL") /\ Has(t, c)
    /\ schema' = [schema EXCEPT ![t][c].notNull = (null = "NOT NULL")]
    /\ FoldNullability(t, c, null)
    /\ UNCHANGED types
    /\ EmitNullability(t, c, null)
    /\ UNCHANGED <<fixed, script>>

(***************************************************************************)
(* MySQL: the bare MODIFY COLUMN c type, and CHANGE, which renames too and *)
(* which the fold does not read.  Both reset the nullability.              *)
(***************************************************************************)
Modify(t, c, type) ==
    /\ source = "mysql" /\ Takes("MODIFY") /\ Has(t, c)
    /\ schema' = [schema EXCEPT ![t][c] = Retyped(source, @, type, "unstated")]
    /\ FoldTypeChange(t, c, type, "unstated")
    /\ Ship(t, c, Retyped(target, shipped[t][c], type, "unstated"))
    /\ UNCHANGED flagged
    /\ Plain

Changed(engine, row, old, new, type) ==
    [Renamed(row, Absent, old, new) EXCEPT ![new] = Retyped(engine, row[old], type, "unstated")]

Change(t, old, new, type) ==
    /\ source = "mysql" /\ Takes("CHANGE")
    /\ old # new /\ Has(t, old) /\ ~Has(t, new)
    /\ schema' = [schema EXCEPT ![t] = Changed(source, @, old, new, type)]
    /\ shipped' = [shipped EXCEPT ![t] = Changed(target, @, old, new, type)]
    /\ flagged' = [flagged EXCEPT ![t] = Renamed(@, {}, old, new)]
    /\ UNCHANGED maps
    /\ Plain

(***************************************************************************)
(* Oracle: MODIFY (c [type] [NOT NULL | NULL]) is rewritten before the     *)
(* statement is parsed, so no fold sees it.  Oracle itself refuses the     *)
(* nullability a column already has.                                       *)
(***************************************************************************)
OracleModify(t, c, type, null) ==
    /\ source = "oracle" /\ Has(t, c)
    /\ Takes(IF type = None THEN "MODIFY NULL"
             ELSE IF null = "unstated" THEN "MODIFY" ELSE "MODIFY TYPE NULL")
    /\ null # "unstated" => ~OracleRefuses(schema[t][c], null)
    /\ type = None => null # "unstated" /\ target = "postgresql"
    /\ LET ty == IF type = None THEN schema[t][c].type ELSE type
           OnTarget == IF type = None THEN shipped[t][c].type ELSE type
       IN  /\ schema' = [schema EXCEPT ![t][c] = Retyped(source, @, ty, null)]
           /\ Ship(t, c, Retyped(target, shipped[t][c], OnTarget, null))
    /\ UNCHANGED <<flagged, maps>>
    /\ Plain

(***************************************************************************)
(* SQL Server: ALTER COLUMN c type [NOT NULL | NULL], a batch of its own,  *)
(* is answered before the statement is parsed as well.  Oracle gets no     *)
(* NULL (UNIQUE-1227), and refuses the NOT NULL a column already has.      *)
(***************************************************************************)
AlterColumn(t, c, type, null) ==
    /\ source = "tsql" /\ Has(t, c)
    /\ Takes(IF null = "unstated" THEN "ALTER COLUMN"
             ELSE IF null = "NULL" THEN "ALTER COLUMN NULL" ELSE "ALTER COLUMN NOT NULL")
    /\ schema' = [schema EXCEPT ![t][c] = Retyped(source, @, type, null)]
    /\ LET stated == IF target = "oracle" /\ null = "NULL" THEN "unstated" ELSE null
           fails == /\ target = "oracle" /\ stated = "NOT NULL"
                    /\ OracleRefuses(shipped[t][c], stated)
       IN  /\ IF fails THEN UNCHANGED shipped
              ELSE Ship(t, c, Retyped(target, shipped[t][c], type, stated))
           /\ refused' = IF fails THEN refused \cup {t} ELSE refused
           /\ Flag(t, c, IF stated # null THEN {"notNull"} ELSE {})
    /\ UNCHANGED <<fixed, script, maps>>

Next ==
    \E t \in Tables :
        \/ CreateTable(t) \/ DropTable(t)
        \/ \E c \in Columns :
            \/ DropColumn(t, c)
            \/ \E null \in {"NOT NULL", "NULL"} : SetNullability(t, c, null)
            \/ \E new \in Columns : RenameColumn(t, c, new)
            \/ \E type \in Types :
                \/ \E null \in Declared : AddColumn(t, c, type, null)
                \/ \E d \in Columns, first, second \in {"NOT NULL", "NULL"} :
                        AddColumns(t, c, d, type, first, second)
                \/ ChangeType(t, c, type)
                \/ ChangeTypeUsingCast(t, c, type)
                \/ ChangeTypeUsing(t, c, type)
                \/ Modify(t, c, type)
                \/ \E new \in Columns : Change(t, c, new, type)
                \/ \E null \in {"NOT NULL", "NULL", "unstated"} : AlterColumn(t, c, type, null)
            \/ \E type \in Types \cup {None}, null \in {"NOT NULL", "NULL", "unstated"} :
                    OracleModify(t, c, type, null)

Spec == Init /\ [][Next]_vars

(***************************************************************************)
(* Properties.                                                             *)
(***************************************************************************)

\* The emitted script leaves every column with the type, the nullability and
\* the values the source script leaves it with, up to what a carrier or a
\* warning hands to the reader: no ALTER resets a column's other half.
SchemaKept ==
    \A t \in Tables, c \in Columns :
        /\ "type" \notin flagged[t][c] => shipped[t][c].type = schema[t][c].type
        /\ "notNull" \notin flagged[t][c] => shipped[t][c].notNull = schema[t][c].notNull
        /\ "rewritten" \notin flagged[t][c] => shipped[t][c].rewritten = schema[t][c].rewritten

\* Between two statements the maps describe the columns of every tracked
\* table as they now are, for the dialects whose statements are read against
\* them: types for PostgreSQL and Oracle, nullability for PostgreSQL.
KnowledgeIsCurrent ==
    \A t \in inScript, c \in Columns : Has(t, c) =>
        /\ source \in {"postgresql", "oracle"} => types[t][c] = schema[t][c].type
        /\ source = "postgresql" =>
               notNull[t][c] = (IF schema[t][c].notNull THEN "NOT NULL" ELSE "NULL")

\* The target engine raises no error on an ALTER the source engine accepts.
TargetAccepts == refused = {}
=============================================================================
