-------------------------- MODULE LiveOutput_proofs --------------------------
(* Proofs about live validation, for outputs of any length and any texts:  *)
(* its typing, and which outputs it validates without a side effect, under *)
(* the time limit, and with the malformed statements and no others         *)
(* commented out.                                                          *)
EXTENDS LiveOutput, TLAPS

(* What an output must not hold, for a theorem below: a USE on MySQL, a    *)
(* ROLLBACK on PostgreSQL, a missing column on Oracle, one text twice or   *)
(* inside another.                                                         *)
StaysInDatabase ==
  \A o \in Outputs : o.target = "mysql" =>
    \A m \in DOMAIN o.statements : o.statements[m].kind # "use"

KeepsLimit ==
  \A o \in Outputs : o.target = "postgresql" =>
    \A m \in DOMAIN o.statements : o.statements[m].kind # "rollback"

ColumnsExist ==
  \A o \in Outputs : o.target = "oracle" =>
    \A m \in DOMAIN o.statements : o.statements[m].fault # "missing_column"

TextsApart ==
  /\ \A t \in Texts : Within[t] = {}
  /\ \A o \in Outputs : \A c, d \in DOMAIN o.statements :
       o.statements[c].text = o.statements[d].text => c = d

-----------------------------------------------------------------------------
(* Typing.                                                                 *)

(* An output and its current statement.                                    *)
LEMMA OutputIsTyped ==
  ASSUME output \in Outputs
  PROVE  /\ Target \in Targets
         /\ output.statements \in Seq(Statement)
         /\ Len(output.statements) \in Nat
         /\ DOMAIN output.statements = 1..Len(output.statements)
         /\ \A m \in 1..Len(output.statements) : output.statements[m] \in Statement
BY OutputsAssumption DEF Target

(* The engines keep the session's type.                                    *)
LEMMA EnginesKeepType ==
  ASSUME NEW s \in Session, NEW st \in Statement
  PROVE  /\ Committed(s) \in Session
         /\ RolledBack(s) \in Session
         /\ RolledBackToSavepoint(s) \in Session
         /\ After(s, st) \in Session
<1>1. Committed(s) \in Session /\ RolledBack(s) \in Session
      /\ RolledBackToSavepoint(s) \in Session
  BY DEF Session, Committed, RolledBack, RolledBackToSavepoint
<1>2. [database |-> s.database, text |-> st.text] \in Object
  BY DEF Session, Object, Statement
<1>3. Effect(s, st) \in Session
  BY <1>1, <1>2 DEF Effect, Session, Databases
<1>4. After(s, st) \in Session
  BY <1>3 DEF After, Session
<1>5. QED
  BY <1>1, <1>4

TypeInv == output \in Outputs /\ TypeOK

(* A validation starts typed.                                              *)
LEMMA InitIsTyped == Init => TypeInv
<1>1. SUFFICES ASSUME Init PROVE TypeInv
  OBVIOUS
<1>2. session \in Session
  BY <1>1 DEF Init, NewSession, Session, Databases
<1>3. QED
  BY <1>1, <1>2, OutputIsTyped DEF Init, TypeInv, TypeOK

(* Every step keeps the types.                                             *)
LEMMA StepKeepsType == TypeInv /\ [Next]_vars => TypeInv'
<1> SUFFICES ASSUME TypeInv, [Next]_vars PROVE TypeInv'
  OBVIOUS
<1> DEFINE L == Len(output.statements)
<1>0. L \in Nat /\ output \in Outputs
  BY OutputIsTyped DEF TypeInv
<1>1. CASE Connect
  <2>1. session' \in Session
    BY <1>1 DEF TypeInv, TypeOK, Connect, Setup, Session, Databases
  <2>2. QED
    BY <1>0, <1>1, <2>1 DEF TypeInv, TypeOK, Connect
<1>2. CASE Nothing \/ ConnectFails \/ Return
  BY <1>0, <1>2 DEF TypeInv, TypeOK, Nothing, ConnectFails, Return
<1>3. CASE Savepoint
  <2>1. session' \in Session
    BY <1>3 DEF TypeInv, TypeOK, Savepoint, Session
  <2>2. QED
    BY <1>0, <1>3, <2>1 DEF TypeInv, TypeOK, Savepoint
<1>4. CASE SkipDdl
  <2>1. verdicts' \in Seq(BOOLEAN) /\ Len(verdicts') = Len(verdicts) + 1
    BY <1>4 DEF TypeInv, TypeOK, SkipDdl
  <2>2. QED
    BY <1>0, <1>4, <2>1 DEF TypeInv, TypeOK, SkipDdl
<1>5. CASE Execute
  <2> DEFINE v == Fails(session, Current) /\ IsSyntaxError(session, Current)
  <2>1. v \in BOOLEAN
    OBVIOUS
  <2>2. verdicts' = Append(verdicts, v)
    BY <1>5 DEF Execute
  <2> HIDE DEF v
  <2>3. verdicts' \in Seq(BOOLEAN) /\ Len(verdicts') = Len(verdicts) + 1
    BY <2>1, <2>2 DEF TypeInv, TypeOK
  <2>4. Current \in Statement
    BY <1>0, <1>5, OutputIsTyped DEF TypeInv, TypeOK, Execute, Current
  <2>5. session' \in Session
    BY <1>5, <2>4, EnginesKeepType DEF TypeInv, TypeOK, Execute
  <2>6. QED
    BY <1>0, <1>5, <2>3, <2>5 DEF TypeInv, TypeOK, Execute
<1>6. CASE NextStatement
  <2>1. session' \in Session
    BY <1>6 DEF TypeInv, TypeOK, NextStatement, CleanUp, RolledBack, RolledBackToSavepoint,
                Session
  <2>2. QED
    BY <1>0, <1>6, <2>1 DEF TypeInv, TypeOK, NextStatement
<1>7. CASE Disconnect
  <2>1. session' \in Session
    BY <1>7 DEF TypeInv, TypeOK, Disconnect, Closed, RolledBack, Session
  <2>2. QED
    BY <1>0, <1>7, <2>1 DEF TypeInv, TypeOK, Disconnect
<1>8. CASE Degrade
  <2>1. cells' \in [DOMAIN output.statements -> {"sql", "comment", "cut"}]
    BY <1>8 DEF TypeInv, TypeOK, Degrade, Degraded
  <2>2. QED
    BY <1>0, <1>8, <2>1 DEF TypeInv, TypeOK, Degrade
<1>9. CASE UNCHANGED vars
  BY <1>9 DEF TypeInv, TypeOK, vars
<1>10. QED
  BY <1>1, <1>2, <1>3, <1>4, <1>5, <1>6, <1>7, <1>8, <1>9 DEF Next, Finished

(* A validation keeps its types, whatever the output and the engine.       *)
THEOREM ValidationIsTyped == Spec => []TypeOK
<1>1. TypeInv => TypeOK
  BY DEF TypeInv
<1>2. QED
  BY <1>1, InitIsTyped, StepKeepsType, PTL DEF Spec

-----------------------------------------------------------------------------
(* No side effect.                                                         *)

(* Only MySQL ever keeps an object, in its throwaway database; PostgreSQL  *)
(* alone has objects to commit, and only between a statement and its       *)
(* clean-up.                                                               *)
PersistInv ==
  /\ TypeInv
  /\ Target # "mysql" => session.persisted = {}
  /\ pc \in {"connect", "degrade", "done", "raised"} => session.persisted = {}
  /\ pc # "clean" \/ Target # "postgresql" => session.pending = {}
  /\ Target = "mysql" =>
       /\ \A o \in session.persisted : o.database = "throwaway"
       /\ pc \in {"try", "execute", "clean"} => session.database = "throwaway"

(* A statement that runs leaves at most objects to commit, or on MySQL     *)
(* objects in the throwaway database.                                      *)
LEMMA StatementLeavesNothing ==
  ASSUME StaysInDatabase, PersistInv, Execute
  PROVE  PersistInv'
<1>1. TypeInv'
  BY StepKeepsType DEF PersistInv, Next
<1>2. pc = "execute" /\ pc' = "clean" /\ UNCHANGED output /\ Target' = Target
  BY DEF Execute, Target
<1>3. Current \in Statement /\ session \in Session
  BY OutputIsTyped DEF PersistInv, TypeInv, TypeOK, Execute, Current
<1>4. session' = After(session, Current)
  BY DEF Execute
<1>5. session.pending = {} /\ (Target # "mysql" => session.persisted = {})
  BY <1>2 DEF PersistInv
<1>6. CASE Target = "mysql"
  <2>1. Current.kind # "use"
    BY <1>2, <1>6, OutputIsTyped DEF StaysInDatabase, PersistInv, TypeInv, TypeOK, Target,
                                      Current
  <2>2. session'.database = session.database
    BY <1>3, <1>4, <1>6, <2>1 DEF After, Effect, Session
  <2>3. \A o \in session'.persisted : o.database = "throwaway"
    BY <1>2, <1>3, <1>4, <1>6 DEF After, Effect, Session, PersistInv
  <2>4. session'.pending = {}
    BY <1>3, <1>4, <1>5, <1>6 DEF After, Effect, Session
  <2>5. QED
    BY <1>1, <1>2, <1>6, <2>2, <2>3, <2>4 DEF PersistInv
<1>7. CASE Target # "mysql"
  <2>1. session'.persisted = {}
    BY <1>3, <1>4, <1>5, <1>7 DEF After, Effect, Committed, RolledBack, Session
  <2>2. Target # "postgresql" => session'.pending = {}
    BY <1>3, <1>4, <1>5, <1>7 DEF After, Effect, Session
  <2>3. QED
    BY <1>1, <1>2, <1>7, <2>1, <2>2 DEF PersistInv
<1>8. QED
  BY <1>6, <1>7

(* Every step keeps the invariant: the clean-up empties the transaction on *)
(* both of its paths, and Disconnect drops the throwaway database.         *)
LEMMA StepLeavesNothing ==
  ASSUME StaysInDatabase
  PROVE  PersistInv /\ [Next]_vars => PersistInv'
<1> SUFFICES ASSUME PersistInv, [Next]_vars PROVE PersistInv'
  OBVIOUS
<1>0. TypeInv' /\ session \in Session
  BY StepKeepsType DEF PersistInv, TypeInv, TypeOK
<1>1. CASE Connect
  BY <1>0, <1>1 DEF PersistInv, Connect, Setup, Target, Session
<1>2. CASE Nothing \/ ConnectFails \/ Return \/ SkipDdl \/ Degrade
  BY <1>0, <1>2 DEF PersistInv, Nothing, ConnectFails, Return, SkipDdl, Degrade, Target
<1>3. CASE Savepoint
  BY <1>0, <1>3 DEF PersistInv, Savepoint, Target, Session
<1>4. CASE Execute
  BY <1>4, StatementLeavesNothing
<1>5. CASE NextStatement
  <2>1. CASE Target = "postgresql"
    BY <1>0, <1>5, <2>1 DEF PersistInv, NextStatement, CleanUp, RolledBack,
                            RolledBackToSavepoint, Target, Session
  <2>2. CASE Target # "postgresql"
    <3>1. UNCHANGED <<output, session>> /\ pc = "clean" /\ pc' = "try"
      BY <1>5, <2>2 DEF NextStatement
    <3>2. QED
      BY <1>0, <2>2, <3>1 DEF PersistInv, Target
  <2>3. QED
    BY <2>1, <2>2
<1>6. CASE Disconnect
  <2>1. session'.persisted = {} /\ session'.pending = {}
    BY <1>0, <1>6 DEF PersistInv, Disconnect, Closed, RolledBack, Target, Session
  <2>2. QED
    BY <1>0, <1>6, <2>1 DEF PersistInv, Disconnect, Target
<1>7. CASE UNCHANGED vars
  BY <1>0, <1>7 DEF PersistInv, vars, Target
<1>8. QED
  BY <1>1, <1>2, <1>3, <1>4, <1>5, <1>6, <1>7 DEF Next, Finished

(* Nothing the validated statements did outlives the session, on any of    *)
(* the four engines, when no statement changes the MySQL database.         *)
THEOREM ValidationLeavesNothing ==
  ASSUME StaysInDatabase
  PROVE  Spec => []NothingPersists
<1>1. Init => PersistInv
  BY InitIsTyped DEF Init, NewSession, PersistInv
<1>2. PersistInv /\ [Next]_vars => PersistInv'
  BY StepLeavesNothing
<1>3. PersistInv => NothingPersists
  BY DEF PersistInv, NothingPersists
<1>4. QED
  BY <1>1, <1>2, <1>3, PTL DEF Spec

-----------------------------------------------------------------------------
(* The time limit.                                                         *)

(* While statements are tried the limit is on, and the clean-up finds it   *)
(* again: at the savepoint, or as of the commit that took the savepoint.   *)
LimitInv ==
  /\ TypeInv
  /\ ~session.overran
  /\ Target = "postgresql" =>
       /\ pc \in {"try", "execute", "clean"} => session.limited
       /\ pc \in {"execute", "clean"} /\ session.savepoint => session.limitedAtSavepoint
       /\ pc = "execute" => session.savepoint
       /\ pc = "clean" => session.savepoint \/ session.limitedAtCommit

(* A statement keeps the limit where the clean-up can find it.             *)
LEMMA StatementKeepsLimit ==
  ASSUME KeepsLimit, LimitInv, Execute
  PROVE  LimitInv'
<1>1. TypeInv'
  BY StepKeepsType DEF LimitInv, Next
<1>2. pc = "execute" /\ pc' = "clean" /\ UNCHANGED output /\ Target' = Target
  BY DEF Execute, Target
<1>3. Current \in Statement /\ session \in Session
  BY OutputIsTyped DEF LimitInv, TypeInv, TypeOK, Execute, Current
<1>4. session' = After(session, Current)
  BY DEF Execute
<1>5. CASE Target = "postgresql"
  <2>1. Current.kind # "rollback"
    BY <1>2, <1>5, OutputIsTyped DEF KeepsLimit, LimitInv, TypeInv, TypeOK, Target, Current
  <2>2. session.limited /\ session.limitedAtSavepoint /\ session.savepoint
        /\ ~session.overran
    BY <1>2, <1>5 DEF LimitInv
  <2>3. Current.fault = "slow" => Fails(session, Current)
    BY <1>5, <2>2 DEF Fails
  <2>4. /\ ~session'.overran
        /\ session'.limited /\ session'.limitedAtSavepoint
        /\ session'.savepoint \/ session'.limitedAtCommit
    BY <1>3, <1>4, <1>5, <2>1, <2>2, <2>3 DEF After, Effect, Committed, Session
  <2>5. QED
    BY <1>1, <1>2, <2>4 DEF LimitInv
<1>6. CASE Target # "postgresql"
  <2>1. ~session'.overran
    BY <1>3, <1>4, <1>6 DEF After, Effect, Session, LimitInv
  <2>2. QED
    BY <1>1, <1>2, <1>6, <2>1 DEF LimitInv
<1>7. QED
  BY <1>5, <1>6

(* Every step keeps the limit.                                             *)
LEMMA StepKeepsLimit ==
  ASSUME KeepsLimit
  PROVE  LimitInv /\ [Next]_vars => LimitInv'
<1> SUFFICES ASSUME LimitInv, [Next]_vars PROVE LimitInv'
  OBVIOUS
<1>0. TypeInv' /\ session \in Session
  BY StepKeepsType DEF LimitInv, TypeInv, TypeOK
<1>1. CASE Connect
  BY <1>0, <1>1 DEF LimitInv, Connect, Setup, Target, Session
<1>2. CASE Nothing \/ ConnectFails \/ Return \/ Degrade
  BY <1>0, <1>2 DEF LimitInv, Nothing, ConnectFails, Return, Degrade, Target
<1>3. CASE Savepoint
  BY <1>0, <1>3 DEF LimitInv, Savepoint, Target, Session
<1>4. CASE SkipDdl
  BY <1>0, <1>4 DEF LimitInv, SkipDdl, Target
<1>5. CASE Execute
  BY <1>5, StatementKeepsLimit
<1>6. CASE NextStatement
  BY <1>0, <1>6 DEF LimitInv, NextStatement, CleanUp, RolledBack, RolledBackToSavepoint,
                    Target, Session
<1>7. CASE Disconnect
  BY <1>0, <1>7 DEF LimitInv, Disconnect, Closed, RolledBack, Target, Session
<1>8. CASE UNCHANGED vars
  BY <1>0, <1>8 DEF LimitInv, vars, Target
<1>9. QED
  BY <1>1, <1>2, <1>3, <1>4, <1>5, <1>6, <1>7, <1>8 DEF Next, Finished

(* Every statement runs under the time limit, commits included, when none  *)
(* rolls the validation transaction back.                                  *)
THEOREM ValidationIsLimited ==
  ASSUME KeepsLimit
  PROVE  Spec => []NothingOverruns
<1>1. Init => LimitInv
  BY InitIsTyped DEF Init, NewSession, LimitInv
<1>2. LimitInv /\ [Next]_vars => LimitInv'
  BY StepKeepsLimit
<1>3. LimitInv => NothingOverruns
  BY DEF LimitInv, NothingOverruns
<1>4. QED
  BY <1>1, <1>2, <1>3, PTL DEF Spec

-----------------------------------------------------------------------------
(* The malformed statements, and no others.                                *)

IsMalformed(st) == st.fault = "syntax" /\ ~IsSkipped(st)

(* No statement finds the transaction failed, so every verdict is about    *)
(* the statement it was reached on; each replacement hits that statement.  *)
VerdictInv ==
  /\ TypeInv
  /\ \/ pc \in {"connect", "try", "execute"}
     \/ pc = "clean" /\ Target # "postgresql"
     => ~session.failed
  /\ pc \in {"connect", "try", "execute", "clean", "degrade", "done"} =>
       \A m \in 1..Len(verdicts) : verdicts[m] = IsMalformed(output.statements[m])
  /\ pc \notin {"degrade", "done", "raised"} => \A c \in DOMAIN cells : cells[c] = "sql"
  /\ pc = "degrade" =>
       \A c \in DOMAIN cells :
         cells[c] = IF c < n /\ IsMalformed(output.statements[c]) THEN "comment" ELSE "sql"
  /\ MalformedAreCommented

(* A verdict tells whether the statement is malformed.                     *)
LEMMA VerdictIsRight ==
  ASSUME ColumnsExist, TypeInv, pc = "execute", ~session.failed, ~IsSkipped(Current)
  PROVE  (Fails(session, Current) /\ IsSyntaxError(session, Current)) = IsMalformed(Current)
<1>1. Current \in Statement /\ Target \in Targets
  BY OutputIsTyped DEF TypeInv, TypeOK, Current
<1>2. Target = "oracle" => Current.fault # "missing_column"
  BY OutputIsTyped DEF ColumnsExist, TypeInv, TypeOK, Target, Current
<1>3. QED
  BY <1>1, <1>2 DEF Fails, IsSyntaxError, IsMalformed, Statement, Faults, Targets

(* A replacement hits the statement it is for.                             *)
LEMMA ReplacementHits ==
  ASSUME TextsApart, TypeInv, n \in DOMAIN output.statements, cells[n] = "sql"
  PROVE  Degraded(Current.text) = [cells EXCEPT ![n] = "comment"]
<1>1. DOMAIN cells = DOMAIN output.statements
  BY DEF TypeInv, TypeOK
<1>2. \A c \in DOMAIN cells : output.statements[c].text \in Texts
  BY <1>1, OutputIsTyped DEF TypeInv, Statement
<1>3. Holders(Current.text) = {n}
  BY <1>1, <1>2 DEF Holders, Has, TextsApart, TypeInv, Current
<1>4. n \in Nat
  BY DEF TypeInv, TypeOK
<1> DEFINE first == CHOOSE c \in Holders(Current.text) :
                      \A d \in Holders(Current.text) : c <= d
<1>5. first = n
  BY <1>3, <1>4
<1>6. cells[first] # "comment" /\ cells[first] = "sql"
      /\ output.statements[first].text = Current.text
  BY <1>5 DEF Current
<1>7. Holders(Current.text) # {}
  BY <1>3
<1> HIDE DEF first
<1>8. QED
  BY <1>5, <1>6, <1>7 DEF Degraded, first

(* Every step keeps the verdicts and the cells right.                      *)
LEMMA StepKeepsVerdicts ==
  ASSUME ColumnsExist, TextsApart
  PROVE  VerdictInv /\ [Next]_vars => VerdictInv'
<1> SUFFICES ASSUME VerdictInv, [Next]_vars PROVE VerdictInv'
  OBVIOUS
<1>0. TypeInv /\ TypeInv' /\ session \in Session
  BY StepKeepsType DEF VerdictInv, TypeInv, TypeOK
<1>a. /\ Len(output.statements) \in Nat
      /\ DOMAIN cells = 1..Len(output.statements)
      /\ DOMAIN cells = DOMAIN output.statements
      /\ n \in 1..(Len(output.statements) + 1)
      /\ Len(verdicts) \in Nat
  BY <1>0, OutputIsTyped DEF TypeInv, TypeOK
<1>b. output' = output
  BY DEF Next, vars, Connect, Nothing, ConnectFails, Savepoint, SkipDdl, Execute,
         NextStatement, Disconnect, Degrade, Return, Finished
<1>c. \A st : IsMalformed(st)' = IsMalformed(st)
  BY <1>b DEF IsMalformed, IsSkipped, Target
<1>1. CASE Connect
  BY <1>0, <1>b, <1>c, <1>1
     DEF VerdictInv, Connect, Setup, Target, Session, MalformedAreCommented
<1>2. CASE Nothing
  BY <1>0, <1>a, <1>b, <1>c, <1>2 DEF VerdictInv, Nothing, MalformedAreCommented
<1>3. CASE ConnectFails
  BY <1>0, <1>b, <1>c, <1>3 DEF VerdictInv, ConnectFails, MalformedAreCommented
<1>4. CASE Savepoint
  BY <1>0, <1>b, <1>c, <1>4
     DEF VerdictInv, Savepoint, Target, Session, MalformedAreCommented
<1>5. CASE SkipDdl \/ Execute
  <2>1. pc = "execute" /\ pc' = "clean" /\ UNCHANGED <<n, cells>>
    BY <1>5 DEF SkipDdl, Execute
  <2>2. ~session.failed
    BY <2>1 DEF VerdictInv
  <2>3. PICK v \in BOOLEAN : verdicts' = Append(verdicts, v) /\ v = IsMalformed(Current)
    <3>1. CASE SkipDdl
      <4>1. FALSE = IsMalformed(Current)
        BY <3>1 DEF SkipDdl, IsMalformed
      <4>2. QED
        BY <3>1, <4>1 DEF SkipDdl
    <3>2. CASE Execute
      <4>1. ~IsSkipped(Current)
        BY <3>2 DEF Execute
      <4>2. QED
        BY <1>0, <2>1, <2>2, <3>2, <4>1, VerdictIsRight DEF Execute
    <3>3. QED
      BY <1>5, <3>1, <3>2
  <2>4. verdicts \in Seq(BOOLEAN) /\ Len(verdicts) = n - 1
    BY <1>0, <2>1 DEF TypeInv, TypeOK
  <2>5. \A m \in 1..Len(verdicts) : verdicts[m] = IsMalformed(output.statements[m])
    BY <2>1 DEF VerdictInv
  <2>6. Len(verdicts') = n /\ verdicts'[n] = v
        /\ \A m \in 1..(n - 1) : verdicts'[m] = verdicts[m]
    BY <1>a, <2>3, <2>4
  <2>7. ASSUME NEW m \in 1..Len(verdicts')
        PROVE  verdicts'[m] = IsMalformed(output.statements[m])
    <3>1. CASE m = n
      BY <2>3, <2>6, <3>1 DEF Current
    <3>2. CASE m # n
      <4>1. m \in 1..(n - 1)
        BY <1>a, <2>6, <3>2
      <4>2. QED
        BY <2>4, <2>5, <2>6, <4>1
    <3>3. QED
      BY <3>1, <3>2
  <2>8. Target # "postgresql" => ~session'.failed
    <3>1. CASE SkipDdl
      BY <2>2, <3>1 DEF SkipDdl
    <3>2. CASE Execute
      BY <1>0, <2>2, <3>2 DEF Execute, After, Effect, Executes, Target, Session
    <3>3. QED
      BY <1>5, <3>1, <3>2
  <2>9. \A c \in DOMAIN cells' : cells'[c] = "sql"
    BY <2>1 DEF VerdictInv
  <2>10. (\A m \in 1..Len(verdicts) : verdicts[m] = IsMalformed(output.statements[m]))'
    BY <1>b, <2>7 DEF IsMalformed, IsSkipped, Target
  <2>11. QED
    BY <1>0, <1>b, <2>1, <2>8, <2>9, <2>10 DEF VerdictInv, MalformedAreCommented, Target
<1>6. CASE NextStatement
  <2>1. pc = "clean" /\ pc' = "try" /\ UNCHANGED <<output, verdicts, cells>>
    BY <1>6 DEF NextStatement
  <2>2. ~session'.failed
    BY <1>0, <1>6 DEF VerdictInv, NextStatement, CleanUp, RolledBack, RolledBackToSavepoint,
                      Session
  <2>3. QED
    BY <1>0, <1>b, <1>c, <2>1, <2>2 DEF VerdictInv, MalformedAreCommented
<1>7. CASE Disconnect
  BY <1>0, <1>a, <1>b, <1>c, <1>7 DEF VerdictInv, Disconnect, MalformedAreCommented
<1>8. CASE Degrade
  <2>1. pc = "degrade" /\ pc' = "degrade" /\ n' = n + 1 /\ UNCHANGED verdicts
        /\ n \in 1..Len(output.statements)
    BY <1>a, <1>8 DEF Degrade
  <2>2. cells[n] = "sql" /\ \A c \in DOMAIN cells :
          cells[c] = IF c < n /\ IsMalformed(output.statements[c]) THEN "comment" ELSE "sql"
    BY <1>a, <2>1 DEF VerdictInv
  <2>3. verdicts[n] = IsMalformed(output.statements[n])
    BY <1>0, <2>1 DEF VerdictInv, TypeInv, TypeOK
  <2>4. cells' = IF IsMalformed(output.statements[n]) THEN [cells EXCEPT ![n] = "comment"]
                 ELSE cells
    BY <1>0, <1>8, <1>a, <2>1, <2>2, <2>3, ReplacementHits DEF Degrade
  <2>5. ASSUME NEW c \in DOMAIN cells'
        PROVE  cells'[c] = IF c < n' /\ IsMalformed(output.statements[c]) THEN "comment"
                           ELSE "sql"
    BY <1>0, <1>a, <2>1, <2>2, <2>4 DEF TypeInv, TypeOK
  <2>6. QED
    BY <1>0, <1>b, <1>c, <2>1, <2>5 DEF VerdictInv, MalformedAreCommented
<1>9. CASE Return
  <2>1. pc = "degrade" /\ pc' = "done" /\ UNCHANGED <<output, n, verdicts, session, cells>>
        /\ n > Len(output.statements)
    BY <1>9 DEF Return
  <2>2. \A c \in DOMAIN cells :
          cells[c] = IF IsMalformed(output.statements[c]) THEN "comment" ELSE "sql"
    BY <1>a, <2>1 DEF VerdictInv
  <2>3. MalformedAreCommented'
    BY <1>c, <2>1, <2>2 DEF MalformedAreCommented, IsMalformed
  <2>4. QED
    BY <1>0, <1>b, <1>c, <2>1, <2>3 DEF VerdictInv
<1>10. CASE UNCHANGED vars
  BY <1>0, <1>c, <1>10 DEF VerdictInv, vars, MalformedAreCommented, IsMalformed, IsSkipped, Target
<1>11. QED
  BY <1>1, <1>2, <1>3, <1>4, <1>5, <1>6, <1>7, <1>8, <1>9, <1>10 DEF Next, Finished

(* The statements with a syntax error, and no others, end as comments, on  *)
(* any engine and for any output with the hypotheses above.                *)
THEOREM MalformedEndAsComments ==
  ASSUME ColumnsExist, TextsApart
  PROVE  Spec => []MalformedAreCommented
<1>1. Init => VerdictInv
  BY InitIsTyped DEF Init, NewSession, VerdictInv, MalformedAreCommented
<1>2. VerdictInv /\ [Next]_vars => VerdictInv'
  BY StepKeepsVerdicts
<1>3. VerdictInv => MalformedAreCommented
  BY DEF VerdictInv
<1>4. QED
  BY <1>1, <1>2, <1>3, PTL DEF Spec
=============================================================================
