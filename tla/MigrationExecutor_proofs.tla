----------------------- MODULE MigrationExecutor_proofs -----------------------
(***************************************************************************)
(* Proofs about the migration executor: type correctness and the           *)
(* properties that hold for any number of runners; then, for one operator  *)
(* and a fixed migrations directory, that the history stays a prefix of    *)
(* the directory in applied_at order, implements MigrationLedger, and      *)
(* agrees with the schema except where a command was interrupted.          *)
(***************************************************************************)
EXTENDS MigrationExecutor, FiniteSetTheorems, TLAPS

\* What a command leaves behind when it returns is well typed.
LEMMA ReturnType ==
  ASSUME TypeOK, NEW r \in Runner,
         NEW res \in {"none", "ok", "error", "crash"}, Return(r, res)
  PROVE  /\ pc' \in [Runner -> {"idle", "planned", "next", "exec", "cancel", "record"}]
         /\ cmd' \in [Runner -> Command]
         /\ target' \in [Runner -> Version \union {0}]
         /\ todo' \in [Runner -> SUBSET Version]
         /\ disk' \in [Runner -> SUBSET Version]
         /\ seen' \in [Runner -> [Version -> Nat]]
         /\ cur' \in [Runner -> Version \union {0}]
         /\ at' \in [Runner -> 1..StmtCount + 1]
         /\ staged' \in [Runner -> SUBSET Stmt]
         /\ stamp' \in [Runner -> Nat]
         /\ result' \in [Runner -> {"none", "ok", "error", "crash"}]
         /\ \A q \in Runner : pc'[q] \in {"exec", "cancel", "record"} => cur'[q] \in todo'[q]
  BY BoundAssumption DEF TypeOK, Return, Command, Stmt

\* The plan of a command is well typed.
LEMMA PlannedType ==
  ASSUME TypeOK, NEW r \in Runner, NEW c \in Command, NEW t \in Version \union {0},
         NEW S \in SUBSET Version, NEW next \in {"planned", "next"},
         Planned(r, c, t, S, next), UNCHANGED <<database, files, clock, torn, faults>>,
         downs' \in Nat
  PROVE  TypeOK'
<1>1. CASE S = {}
  BY <1>1 DEF TypeOK, Planned, plan, progress, database
<1>2. CASE S # {}
  <2>. /\ cmd' = [cmd EXCEPT ![r] = c]
       /\ target' = [target EXCEPT ![r] = t]
       /\ disk' = [disk EXCEPT ![r] = files]
       /\ seen' = [seen EXCEPT ![r] = history]
       /\ todo' = [todo EXCEPT ![r] = S]
       /\ pc' = [pc EXCEPT ![r] = next]
       /\ result' = [result EXCEPT ![r] = "none"]
       /\ UNCHANGED <<cur, at, staged, tx, stamp>>
    BY <1>2 DEF Planned
  <2>. QED
    BY DEF TypeOK, database
<1>. QED
  BY <1>1, <1>2

\* A refused command changes only the result.
LEMMA RefusedType ==
  ASSUME TypeOK, NEW r \in Runner, Refused(r), UNCHANGED database,
         faults' \in Nat, downs' \in Nat
  PROVE  TypeOK'
  BY DEF TypeOK, Refused, plan, progress, database

\* The counts the starting actions range over are numbers.
LEMMA CountType == Cardinality(Version) \in Nat
  BY VersionAssumption, FS_CardinalityType

\* A database without history, transactions or commands is well typed.
LEMMA TypeInit == Init => TypeOK
  BY BoundAssumption, FilesAssumption DEF Init, TypeOK, Command, Stmt

\* Every step preserves the types.
LEMMA TypeStep == TypeOK /\ [Next]_vars => TypeOK'
<1> SUFFICES ASSUME TypeOK, [Next]_vars PROVE TypeOK'
  OBVIOUS
<1>1. ASSUME NEW v \in LateFiles, AddFile(v) \/ RemoveFile(v) PROVE TypeOK'
  BY <1>1, FilesAssumption DEF TypeOK, AddFile, RemoveFile, database, plan, progress
<1>2. ASSUME NEW r \in Runner, NEW n \in 0..Cardinality(Version), MigrateUp(r, n)
      PROVE TypeOK'
  <2>1. FirstSteps(Pending(files, history), n) \subseteq Version
    BY DEF FirstSteps, Pending, TypeOK
  <2>2. CASE ValidSet(files)
    BY <1>2, <2>1, <2>2, PlannedType DEF MigrateUp, Command, TypeOK, database
  <2>3. CASE ~ValidSet(files)
    BY <1>2, <2>3, RefusedType DEF MigrateUp, TypeOK
  <2>. QED
    BY <2>2, <2>3
<1>3. ASSUME NEW r \in Runner, NEW t \in Version \union {0},
             NEW n \in 0..Cardinality(Version), CliMigrateUp(r, t, n)
      PROVE TypeOK'
  <2> DEFINE pending == Pending(files, history)
             clamped == IF t = 0 THEN pending ELSE ClampToTarget(pending, t)
  <2>1. FirstSteps(clamped, n) \subseteq Version
    BY DEF FirstSteps, Pending, ClampToTarget, TypeOK
  <2>. QED
    BY <1>3, <2>1, PlannedType DEF CliMigrateUp, Command, TypeOK, database, environment
<1>4. ASSUME NEW r \in Runner, NEW n \in 0..Cardinality(Version), MigrateDown(r, n)
      PROVE TypeOK'
  <2>1. LastSteps(history, n) \subseteq Version
    BY DEF LastSteps, Applied
  <2>2. CASE n = 0
    BY <1>4, <2>2, RefusedType DEF MigrateDown, TypeOK
  <2>3. CASE n # 0
    <3>1. /\ Planned(r, "down", 0, LastSteps(history, n), "next")
          /\ UNCHANGED <<database, files, clock, torn, faults>>
          /\ downs' = downs + 1
      BY <1>4, <2>3 DEF MigrateDown
    <3>2. downs' \in Nat
      BY <3>1 DEF TypeOK
    <3>. QED
      BY <2>1, <3>1, <3>2, PlannedType DEF Command
  <2>. QED
    BY <2>2, <2>3
<1>5. ASSUME NEW r \in Runner, NEW t \in Version, PlanRollback(r, t) PROVE TypeOK'
  <2>1. RollbackRange(files, history, t) \subseteq Version
    BY DEF RollbackRange, TypeOK
  <2>2. CASE t \in files /\ Applied(history) # {}
    BY <1>5, <2>1, <2>2, PlannedType DEF PlanRollback, Command, TypeOK, database
  <2>3. CASE ~(t \in files /\ Applied(history) # {})
    BY <1>5, <2>3, RefusedType DEF PlanRollback, TypeOK
  <2>. QED
    BY <2>2, <2>3
<1>6. ASSUME NEW r \in Runner, ApprovePlan(r) PROVE TypeOK'
  BY <1>6 DEF TypeOK, ApprovePlan, database, environment, plan, progress
<1>7. ASSUME NEW r \in Runner, DropPlan(r) PROVE TypeOK'
  BY <1>7, ReturnType DEF TypeOK, DropPlan, database, environment
<1>8. ASSUME NEW r \in Runner, ReadFails(r) PROVE TypeOK'
  BY <1>8, RefusedType DEF TypeOK, ReadFails, Fault
<1>9. ASSUME NEW r \in Runner, Begin(r) PROVE TypeOK'
  BY <1>9, BoundAssumption DEF TypeOK, Begin, IsNext, Stmt, database, environment, plan
<1>10. ASSUME NEW r \in Runner, BeginFails(r) PROVE TypeOK'
  BY <1>10, ReturnType DEF TypeOK, BeginFails, Fault, database
<1>11. ASSUME NEW r \in Runner, MissingFile(r) PROVE TypeOK'
  BY <1>11, ReturnType DEF TypeOK, MissingFile, database, environment
<1>12. ASSUME NEW r \in Runner, Execute(r) PROVE TypeOK'
  BY <1>12, BoundAssumption DEF TypeOK, Execute, Count, Stmt, database, environment, plan
<1>13. ASSUME NEW r \in Runner, ExecuteFails(r) PROVE TypeOK'
  BY <1>13 DEF TypeOK, ExecuteFails, Fault, database, plan, progress
<1>14. ASSUME NEW r \in Runner, Rollback(r) PROVE TypeOK'
  <2>1. Return(r, "error") /\ UNCHANGED <<database, files, clock, torn, downs>>
    BY <1>14 DEF Rollback
  <2>2. \/ tx' = [tx EXCEPT ![r] = "rolled_back"] /\ UNCHANGED faults
        \/ tx' = [tx EXCEPT ![r] = "failed"] /\ faults' = faults + 1
    BY <1>14 DEF Rollback, Fault
  <2>3. /\ faults' \in Nat
        /\ tx' \in [Runner -> {"none", "active", "committed", "rolled_back", "failed"}]
    <3>1. faults \in Nat /\ tx \in [Runner -> {"none", "active", "committed", "rolled_back", "failed"}]
      BY DEF TypeOK
    <3>2. CASE tx' = [tx EXCEPT ![r] = "rolled_back"] /\ UNCHANGED faults
      BY <3>1, <3>2
    <3>3. CASE tx' = [tx EXCEPT ![r] = "failed"] /\ faults' = faults + 1
      BY <3>1, <3>3
    <3>. QED
      BY <2>2, <3>2, <3>3
  <2>4. UNCHANGED <<schema, history, files, clock, torn, downs>>
    BY <2>1 DEF database
  <2>. QED
    BY <2>1, <2>3, <2>4, ReturnType DEF TypeOK
<1>15. ASSUME NEW r \in Runner, Commit(r) PROVE TypeOK'
  BY <1>15 DEF TypeOK, Commit, Effect, plan
<1>16. ASSUME NEW r \in Runner, CommitFails(r) PROVE TypeOK'
  BY <1>16, ReturnType, SMTT(30) DEF TypeOK, CommitFails, Effect, Fault
<1>17. ASSUME NEW r \in Runner, Record(r) PROVE TypeOK'
  <2>1. /\ history' \in [Version -> Nat] /\ torn' \subseteq Version
        /\ UNCHANGED <<schema, files, clock, faults, downs, tx>>
    BY <1>17 DEF TypeOK, Record, Write
  <2>2. CASE todo[r] = {cur[r]}
    BY <1>17, <2>1, <2>2, ReturnType DEF Record, Advance, TypeOK
  <2>3. CASE todo[r] # {cur[r]}
    <3>1. /\ pc' = [pc EXCEPT ![r] = "next"]
          /\ todo' = [todo EXCEPT ![r] = @ \ {cur[r]}]
          /\ cur' = [cur EXCEPT ![r] = 0]
          /\ at' = [at EXCEPT ![r] = 1]
          /\ staged' = [staged EXCEPT ![r] = {}]
          /\ stamp' = [stamp EXCEPT ![r] = 0]
          /\ UNCHANGED <<cmd, target, disk, seen, result>>
      BY <1>17, <2>3 DEF Record, Advance, plan
    <3>. QED
      BY <2>1, <3>1, BoundAssumption DEF TypeOK
  <2>. QED
    BY <2>2, <2>3
<1>18. ASSUME NEW r \in Runner, RecordDuplicate(r) PROVE TypeOK'
  BY <1>18, ReturnType DEF TypeOK, RecordDuplicate, database, environment
<1>19. ASSUME NEW r \in Runner, RecordFails(r) PROVE TypeOK'
  <2>1. Return(r, "error") /\ UNCHANGED <<schema, files, clock, downs, tx>>
    BY <1>19 DEF RecordFails
  <2>2. torn' \subseteq Version /\ faults' \in Nat
    BY <1>19 DEF TypeOK, RecordFails, Fault
  <2>3. history' \in [Version -> Nat]
    BY <1>19 DEF TypeOK, RecordFails, Write
  <2>. QED
    BY <2>1, <2>2, <2>3, ReturnType DEF TypeOK
<1>20. ASSUME NEW r \in Runner, Crash(r) PROVE TypeOK'
  BY <1>20, ReturnType DEF TypeOK, Crash, Fault, database
<1>21. CASE UNCHANGED vars
  BY <1>21 DEF TypeOK, vars
<1>. QED
  BY <1>1, <1>2, <1>3, <1>4, <1>5, <1>6, <1>7, <1>8, <1>9, <1>10, <1>11, <1>12, <1>13,
     <1>14, <1>15, <1>16, <1>17, <1>18, <1>19, <1>20, <1>21
  DEF Next, StartUp, StartDown, Step

\* The types hold for any number of runners, versions and statements; in
\* particular ExecuteMigration never runs a statement beyond its section.
THEOREM TypeCorrect == Spec => []TypeOK
  BY TypeInit, TypeStep, PTL DEF Spec
-----------------------------------------------------------------------------
(* Transactions: any number of runners.                                    *)

\* Every open transaction is finalised: any number of runners.
THEOREM TransactionsFinalised == Spec => []NoTransactionLeak
<1>1. Init => NoTransactionLeak
  BY DEF Init, NoTransactionLeak
<1>2. TypeOK /\ NoTransactionLeak /\ [Next]_vars => NoTransactionLeak'
  <2> SUFFICES ASSUME TypeOK, NoTransactionLeak, [Next]_vars, NEW q \in Runner
               PROVE  tx'[q] = "active" => pc'[q] \in {"exec", "cancel"}
    BY DEF NoTransactionLeak
  <2>. USE DEF TypeOK, NoTransactionLeak
  <2>1. ASSUME NEW v \in LateFiles, AddFile(v) \/ RemoveFile(v)
        PROVE  UNCHANGED <<tx, pc>>
    BY <2>1 DEF AddFile, RemoveFile, progress
  <2>2. ASSUME NEW r \in Runner, StartUp(r) \/ StartDown(r) \/ ReadFails(r)
        PROVE  /\ pc[r] = "idle" /\ UNCHANGED tx
               /\ \A p \in Runner : pc'[p] = pc[p] \/ p = r
    BY <2>2
    DEF StartUp, StartDown, ReadFails, MigrateUp, CliMigrateUp, MigrateDown,
        PlanRollback, Planned, Refused, plan, progress
  <2>3. ASSUME NEW r \in Runner,
               ApprovePlan(r) \/ DropPlan(r) \/ BeginFails(r) \/ MissingFile(r)
        PROVE  /\ pc[r] \in {"planned", "next"} /\ UNCHANGED tx
               /\ \A p \in Runner : pc'[p] = pc[p] \/ p = r
    BY <2>3
    DEF ApprovePlan, DropPlan, BeginFails, MissingFile, Return, progress
  <2>4. ASSUME NEW r \in Runner,
               Begin(r) \/ Execute(r) \/ ExecuteFails(r)
        PROVE  /\ pc'[r] \in {"exec", "cancel"}
               /\ \A p \in Runner : p = r \/ (tx'[p] = tx[p] /\ pc'[p] = pc[p])
    BY <2>4 DEF Begin, Execute, ExecuteFails, progress
  <2>5. ASSUME NEW r \in Runner, Rollback(r) \/ Commit(r) \/ CommitFails(r) \/ Crash(r)
        PROVE  /\ tx'[r] # "active"
               /\ \A p \in Runner : p = r \/ (tx'[p] = tx[p] /\ pc'[p] = pc[p])
    BY <2>5 DEF Rollback, Commit, CommitFails, Crash, Return
  <2>6. ASSUME NEW r \in Runner, Record(r) \/ RecordDuplicate(r) \/ RecordFails(r)
        PROVE  /\ pc[r] = "record" /\ UNCHANGED tx
               /\ \A p \in Runner : p = r \/ pc'[p] = pc[p]
    BY <2>6 DEF Record, RecordDuplicate, RecordFails, Advance, Return
  <2>7. CASE UNCHANGED vars
    BY <2>7 DEF vars
  <2>. QED
    BY <2>1, <2>2, <2>3, <2>4, <2>5, <2>6, <2>7 DEF Next, Step
<1>. QED
  BY <1>1, <1>2, TypeCorrect, PTL DEF Spec

\* Only a history write changes the history.
LEMMA HistoryStep ==
  ASSUME [Next]_vars, history' # history
  PROVE  \E r \in Runner : pc[r] = "record" /\ ~Duplicate(r) /\ Write(r)
<1>1. PICK r \in Runner : Record(r) \/ RecordFails(r)
  BY DEF Next, StartUp, StartDown, Step, AddFile, RemoveFile, MigrateUp, CliMigrateUp,
         MigrateDown, PlanRollback, ApprovePlan, DropPlan, ReadFails, Begin, BeginFails,
         MissingFile, Execute, ExecuteFails, Rollback, Commit, CommitFails,
         RecordDuplicate, Crash, database, vars
<1>. QED
  BY <1>1 DEF Record, RecordFails

\* A history record is never rewritten: any number of runners.
THEOREM RecordsAreWrittenOnce == Spec => RecordOnce
<1>1. TypeOK /\ [Next]_vars =>
        [\A v \in Version : history[v] > 0 => history'[v] \in {0, history[v]}]_history
  <2> SUFFICES ASSUME TypeOK, [Next]_vars, history' # history,
                      NEW v \in Version, history[v] > 0
               PROVE  history'[v] \in {0, history[v]}
    OBVIOUS
  <2>1. PICK r \in Runner : ~Duplicate(r) /\ Write(r)
    BY HistoryStep
  <2>. QED
    BY <2>1 DEF Duplicate, Write, Up, TypeOK
<1>. QED
  BY <1>1, TypeCorrect, PTL DEF Spec, RecordOnce
-----------------------------------------------------------------------------
(* Atomicity of a migration: any number of runners.                        *)

\* What an open transaction holds: the statements before the next one, which
\* is at most one behind the last statement of the section.
StagedInv ==
  \A r \in Runner :
    pc[r] = "exec" => staged[r] = 1..(at[r] - 1) /\ at[r] <= Count(r) + 1

\* A runner that is at "exec" after the step was there before, in the same
\* command and version, or has just begun or executed a statement.
LEMMA ExecStep ==
  ASSUME TypeOK, [Next]_vars, NEW q \in Runner, pc'[q] = "exec"
  PROVE  \/ Begin(q) \/ Execute(q)
         \/ /\ pc[q] = "exec" /\ cmd'[q] = cmd[q] /\ cur'[q] = cur[q]
            /\ at'[q] = at[q] /\ staged'[q] = staged[q]
<1>. USE DEF TypeOK
<1>1. ASSUME NEW v \in LateFiles, AddFile(v) \/ RemoveFile(v)
      PROVE  UNCHANGED <<pc, cmd, cur, at, staged>>
  BY <1>1 DEF AddFile, RemoveFile, progress, plan
<1>2. ASSUME NEW r \in Runner, StartUp(r) \/ StartDown(r) \/ ReadFails(r)
      PROVE  /\ pc'[r] # "exec" /\ UNCHANGED <<cur, at, staged>>
             /\ \A p \in Runner \ {r} : pc'[p] = pc[p] /\ cmd'[p] = cmd[p]
  BY <1>2
  DEF StartUp, StartDown, ReadFails, MigrateUp, CliMigrateUp, MigrateDown,
      PlanRollback, Planned, Refused, plan, progress
<1>3. ASSUME NEW r \in Runner, ApprovePlan(r) \/ ExecuteFails(r) \/ Commit(r)
      PROVE  /\ pc'[r] # "exec" /\ UNCHANGED <<cmd, cur, at, staged>>
             /\ \A p \in Runner \ {r} : pc'[p] = pc[p]
  BY <1>3 DEF ApprovePlan, ExecuteFails, Commit, plan, progress
<1>4. ASSUME NEW r \in Runner, Begin(r) \/ Execute(r)
      PROVE  \A p \in Runner \ {r} : /\ pc'[p] = pc[p] /\ cmd'[p] = cmd[p]
                                     /\ cur'[p] = cur[p] /\ at'[p] = at[p]
                                     /\ staged'[p] = staged[p]
  BY <1>4 DEF Begin, Execute, plan
<1>5. ASSUME NEW r \in Runner,
             \E res \in {"none", "ok", "error", "crash"} : Return(r, res)
      PROVE  /\ pc'[r] # "exec"
             /\ \A p \in Runner \ {r} : /\ pc'[p] = pc[p] /\ cmd'[p] = cmd[p]
                                        /\ cur'[p] = cur[p] /\ at'[p] = at[p]
                                        /\ staged'[p] = staged[p]
  BY <1>5 DEF Return
<1>6. ASSUME NEW r \in Runner,
             \/ DropPlan(r) \/ BeginFails(r) \/ MissingFile(r) \/ Rollback(r) \/ CommitFails(r)
             \/ RecordDuplicate(r) \/ RecordFails(r) \/ Crash(r)
      PROVE  \E res \in {"none", "ok", "error", "crash"} : Return(r, res)
  BY <1>6 DEF DropPlan, BeginFails, MissingFile, Rollback, CommitFails, RecordDuplicate,
              RecordFails, Crash
<1>7. ASSUME NEW r \in Runner, Record(r)
      PROVE  /\ pc'[r] # "exec"
             /\ \A p \in Runner \ {r} : /\ pc'[p] = pc[p] /\ cmd'[p] = cmd[p]
                                        /\ cur'[p] = cur[p] /\ at'[p] = at[p]
                                        /\ staged'[p] = staged[p]
  BY <1>7 DEF Record, Advance, Return, plan
<1>8. CASE UNCHANGED vars
  BY <1>8 DEF vars
<1>. QED
  BY <1>1, <1>2, <1>3, <1>4, <1>5, <1>6, <1>7, <1>8 DEF Next, Step

\* No transaction is open at the start.
LEMMA StagedInit == Init => StagedInv
  BY DEF Init, StagedInv

\* Statements enter a transaction only in the order of ExecuteMigration's loop, so
\* what a transaction holds is always the executed part of its section.
LEMMA StagedStep == TypeOK /\ StagedInv /\ [Next]_vars => StagedInv'
<1> SUFFICES ASSUME TypeOK, StagedInv, [Next]_vars, NEW q \in Runner, pc'[q] = "exec"
             PROVE  staged'[q] = 1..(at'[q] - 1) /\ at'[q] <= Count(q)' + 1
  BY DEF StagedInv
<1>1. CASE Begin(q)
  BY <1>1, BoundAssumption DEF Begin, TypeOK, Count
<1>2. CASE Execute(q)
  <2>1. /\ staged'[q] = staged[q] \union {at[q]} /\ at'[q] = at[q] + 1
        /\ cmd'[q] = cmd[q] /\ cur'[q] = cur[q]
        /\ pc[q] = "exec" /\ at[q] <= Count(q) /\ at[q] \in 1..StmtCount + 1
    BY <1>2 DEF Execute, TypeOK, plan
  <2>2. staged[q] = 1..(at[q] - 1)
    BY <2>1 DEF StagedInv
  <2>. QED
    BY <2>1, <2>2, BoundAssumption DEF Count, Up
<1>3. CASE /\ pc[q] = "exec" /\ cmd'[q] = cmd[q] /\ cur'[q] = cur[q]
           /\ at'[q] = at[q] /\ staged'[q] = staged[q]
  BY <1>3 DEF StagedInv, Count, Up
<1>. QED
  BY <1>1, <1>2, <1>3, ExecStep

\* Only a commit changes the schema.
LEMMA SchemaStep ==
  ASSUME [Next]_vars, schema' # schema
  PROVE  \E r \in Runner : pc[r] = "exec" /\ at[r] > Count(r) /\ schema' = Effect(r)
<1>1. PICK r \in Runner : Commit(r) \/ CommitFails(r)
  BY DEF Next, StartUp, StartDown, Step, AddFile, RemoveFile, MigrateUp, CliMigrateUp,
         MigrateDown, PlanRollback, ApprovePlan, DropPlan, ReadFails, Begin, BeginFails,
         MissingFile, Execute, ExecuteFails, Rollback, Record, RecordFails,
         RecordDuplicate, Crash, database, vars
<1>. QED
  BY <1>1 DEF Commit, CommitFails

\* Migrations are atomic: any number of runners, versions and statements.
THEOREM MigrationsAreAtomic == Spec => []AllOrNothing
<1>1. Init => AllOrNothing
  BY DEF Init, AllOrNothing
<1>2. TypeOK /\ StagedInv /\ AllOrNothing /\ [Next]_vars => AllOrNothing'
  <2> SUFFICES ASSUME TypeOK, StagedInv, AllOrNothing, [Next]_vars, schema' # schema
               PROVE  AllOrNothing'
    BY DEF AllOrNothing
  <2>1. PICK r \in Runner : pc[r] = "exec" /\ at[r] > Count(r) /\ schema' = Effect(r)
    BY SchemaStep
  <2>2. cur[r] \in Version /\ at[r] \in 1..StmtCount + 1 /\ schema \in [Version -> SUBSET Stmt]
    BY <2>1 DEF TypeOK
  <2>3. staged[r] = 1..Count(r) /\ Count(r) \in {0, StmtCount}
    BY <2>1, <2>2, BoundAssumption DEF StagedInv, Count
  <2>4. staged[r] \in {{}, Stmt} /\ (Up(r) => staged[r] = Stmt)
    BY <2>3, BoundAssumption DEF Count, Stmt
  <2>5. schema'[cur[r]] \in {{}, Stmt}
    <3>1. schema[cur[r]] \in {{}, Stmt}
      BY <2>2 DEF AllOrNothing
    <3>2. CASE Up(r)
      BY <2>1, <2>2, <2>4, <3>1, <3>2 DEF Effect
    <3>3. CASE ~Up(r)
      BY <2>1, <2>2, <2>4, <3>1, <3>3 DEF Effect
    <3>. QED
      BY <3>2, <3>3
  <2>6. \A v \in Version \ {cur[r]} : schema'[v] = schema[v]
    BY <2>1, <2>2 DEF Effect
  <2>. QED
    BY <2>5, <2>6 DEF AllOrNothing
<1>. QED
  BY <1>1, <1>2, StagedInit, StagedStep, TypeCorrect, PTL DEF Spec
-----------------------------------------------------------------------------
(* One operator and a fixed directory.                                     *)

\* The applied migrations are a prefix of the directory, in version order.
Ordered(h) ==
  \A u, v \in Version : u < v /\ h[v] > 0 => 0 < h[u] /\ h[u] < h[v]

\* What an up plan is: pending versions, and every pending one below them.
UpPlan(h, S) ==
  \A v \in S : h[v] = 0 /\ \A u \in Version : u < v => u \in S \/ h[u] > 0

\* What a down or rollback plan is: applied versions, as the command has seen
\* them, and every applied one above them.
DownPlan(h, s, S) ==
  \A v \in S : /\ h[v] > 0 /\ s[v] = h[v]
               /\ \A u \in Version : v < u /\ h[u] > 0 => u \in S

\* A command that runs: its plan still fits the history, its version is the next
\* of the plan, and its stamp is later than every record.
PlanInv(r) ==
  /\ disk[r] = Version
  /\ IF Up(r) THEN UpPlan(history, todo[r]) ELSE DownPlan(history, seen[r], todo[r])
  /\ pc[r] \in {"exec", "cancel", "record"} => IsNext(r, cur[r])
  /\ pc[r] = "record" => stamp[r] <= clock /\ \A v \in Version : history[v] < stamp[r]

\* The inductive invariant of one runner and a fixed directory.
SoloInv ==
  /\ files = Version
  /\ \A v \in Version : history[v] <= clock
  /\ Ordered(history)
  /\ \A r \in Runner : pc[r] # "idle" => PlanInv(r)
-----------------------------------------------------------------------------
(* Planning.                                                               *)

\* A --steps prefix is closed downwards.
LEMMA FirstStepsClosed ==
  ASSUME NEW S \in SUBSET Version, NEW n \in Nat,
         NEW v \in FirstSteps(S, n), NEW u \in S, u < v
  PROVE  u \in FirstSteps(S, n)
<1> DEFINE Below(w) == {x \in S : x <= w}
<1>1. CASE n = 0
  BY <1>1 DEF FirstSteps
<1>2. CASE n # 0
  <2>1. IsFiniteSet(S)
    BY VersionAssumption, FS_Subset
  <2>2. IsFiniteSet(Below(u)) /\ IsFiniteSet(Below(v))
    BY <2>1, FS_Subset
  <2>3. Below(u) \subseteq Below(v)
    <3>1. u \in Nat /\ v \in Nat /\ S \subseteq Nat
      BY VersionAssumption DEF FirstSteps
    <3>2. ASSUME NEW x \in S, x <= u PROVE x <= v
      BY <3>1, <3>2
    <3>. QED
      BY <3>2
  <2>4. Cardinality(Below(u)) <= Cardinality(Below(v))
    BY <2>2, <2>3, FS_Subset
  <2>5. Cardinality(Below(u)) \in Nat /\ Cardinality(Below(v)) \in Nat
    BY <2>2, FS_CardinalityType
  <2>6. Cardinality(Below(v)) <= n
    BY <1>2 DEF FirstSteps
  <2>7. Cardinality(Below(u)) <= n
    BY <2>4, <2>5, <2>6
  <2>. QED
    BY <2>7 DEF FirstSteps
<1>. QED
  BY <1>1, <1>2

\* The up plans of the library.
LEMMA LibraryUpPlan ==
  ASSUME NEW h \in [Version -> Nat], NEW n \in Nat
  PROVE  UpPlan(h, FirstSteps(Pending(Version, h), n))
<1> DEFINE S == FirstSteps(Pending(Version, h), n)
<1> SUFFICES ASSUME NEW v \in S
             PROVE  h[v] = 0 /\ \A u \in Version : u < v => u \in S \/ h[u] > 0
  BY DEF UpPlan
<1>1. v \in Pending(Version, h)
  BY DEF FirstSteps
<1>2. h[v] = 0
  BY <1>1 DEF Pending, Applied
<1>3. ASSUME NEW u \in Version, u < v, ~(h[u] > 0) PROVE u \in S
  <2>1. u \in Pending(Version, h) /\ Pending(Version, h) \in SUBSET Version
    BY <1>3 DEF Pending, Applied
  <2>. QED
    BY <1>3, <2>1, FirstStepsClosed
<1>. QED
  BY <1>2, <1>3

\* The up plans of the command line.
LEMMA CliUpPlan ==
  ASSUME NEW h \in [Version -> Nat], NEW n \in Nat, NEW t \in Version \union {0}
  PROVE  LET pending == Pending(Version, h)
             clamped == IF t = 0 THEN pending ELSE ClampToTarget(pending, t)
         IN  UpPlan(h, FirstSteps(clamped, n))
<1> DEFINE pending == Pending(Version, h)
           clamped == IF t = 0 THEN pending ELSE ClampToTarget(pending, t)
           S == FirstSteps(clamped, n)
<1> SUFFICES ASSUME NEW v \in S
             PROVE  h[v] = 0 /\ \A u \in Version : u < v => u \in S \/ h[u] > 0
  BY DEF UpPlan
<1>1. v \in clamped /\ clamped \in SUBSET pending /\ pending \in SUBSET Version
  BY DEF FirstSteps, ClampToTarget, Pending
<1>2. h[v] = 0
  BY <1>1 DEF Pending, Applied
<1>3. ASSUME NEW u \in Version, u < v, ~(h[u] > 0) PROVE u \in S
  <2>1. u \in pending
    BY <1>3 DEF Pending, Applied
  <2>2. u \in clamped
    BY <1>1, <1>3, <2>1, VersionAssumption DEF ClampToTarget
  <2>. QED
    BY <1>1, <1>3, <2>2, FirstStepsClosed
<1>. QED
  BY <1>2, <1>3

\* The plans of MigrateDown.
LEMMA LastStepsPlan ==
  ASSUME NEW h \in [Version -> Nat], Ordered(h), NEW n \in Nat
  PROVE  DownPlan(h, h, LastSteps(h, n))
<1> DEFINE S == LastSteps(h, n)
           After(w) == {x \in Applied(h) : x = w \/ AppliedBefore(h, w, x)}
<1> SUFFICES ASSUME NEW v \in S, NEW u \in Version, v < u, h[u] > 0
             PROVE  u \in S
  BY DEF DownPlan, LastSteps, Applied
<1>1. IsFiniteSet(Applied(h))
  BY VersionAssumption, FS_Subset DEF Applied
<1>2. IsFiniteSet(After(u)) /\ IsFiniteSet(After(v))
  BY <1>1, FS_Subset
<1>3. v \in Version /\ h[v] < h[u]
  BY DEF LastSteps, Applied, Ordered
<1>4. After(u) \subseteq After(v)
  <2>1. ASSUME NEW x \in Applied(h), x = u \/ AppliedBefore(h, u, x)
        PROVE  AppliedBefore(h, v, x)
    BY <1>3, <2>1 DEF AppliedBefore, Applied
  <2>. QED
    BY <2>1
<1>5. Cardinality(After(u)) <= Cardinality(After(v))
  BY <1>2, <1>4, FS_Subset
<1>6. Cardinality(After(u)) \in Nat /\ Cardinality(After(v)) \in Nat
  BY <1>2, FS_CardinalityType
<1>7. Cardinality(After(v)) <= n
  BY DEF LastSteps
<1>8. Cardinality(After(u)) <= n
  BY <1>5, <1>6, <1>7
<1>. QED
  BY <1>8 DEF LastSteps, Applied

\* The plans of a rollback to a version.
LEMMA RollbackRangePlan ==
  ASSUME NEW h \in [Version -> Nat], Ordered(h), NEW t \in Version
  PROVE  DownPlan(h, h, RollbackRange(Version, h, t))
<1> DEFINE S == RollbackRange(Version, h, t)
<1> SUFFICES ASSUME NEW v \in S
             PROVE  h[v] > 0 /\ \A u \in Version : v < u /\ h[u] > 0 => u \in S
  BY DEF DownPlan
<1>1. PICK c \in Applied(h) :
        v <= c /\ \A u \in Applied(h) : u = c \/ AppliedBefore(h, u, c)
  BY DEF RollbackRange
<1>2. v \in Version /\ t < v /\ c \in Version /\ h[c] > 0
  BY <1>1, VersionAssumption DEF RollbackRange, Applied
<1>3. h[v] > 0
  BY <1>1, <1>2, VersionAssumption DEF Ordered
<1>4. ASSUME NEW u \in Version, v < u, h[u] > 0 PROVE u \in S
  <2>1. u <= c
    BY <1>1, <1>2, <1>4, VersionAssumption DEF Applied, AppliedBefore, Ordered
  <2>2. t < u
    BY <1>2, <1>4, VersionAssumption
  <2>. QED
    BY <1>1, <2>1, <2>2 DEF RollbackRange
<1>. QED
  BY <1>3, <1>4
-----------------------------------------------------------------------------
(* What the next version of a plan is.                                     *)

\* An up runs the least pending version.
LEMMA NextUp ==
  ASSUME TypeOK, NEW r \in Runner, PlanInv(r), Up(r),
         pc[r] \in {"exec", "cancel", "record"}
  PROVE  /\ cur[r] \in Version /\ history[cur[r]] = 0
         /\ \A u \in Version : u < cur[r] => history[u] > 0
<1>1. IsNext(r, cur[r]) /\ UpPlan(history, todo[r])
  BY DEF PlanInv
<1>2. cur[r] \in todo[r] /\ todo[r] \subseteq Version
  BY DEF TypeOK
<1>3. \A u \in todo[r] : cur[r] <= u
  BY <1>1 DEF IsNext, Up
<1>4. ASSUME NEW u \in Version, u < cur[r] PROVE history[u] > 0
  <2>1. u \notin todo[r]
    BY <1>2, <1>3, <1>4, VersionAssumption
  <2>. QED
    BY <1>1, <1>2, <1>4, <2>1 DEF UpPlan
<1>. QED
  BY <1>1, <1>2, <1>4 DEF UpPlan

\* A down or a rollback runs the greatest applied version, which is also the one
\* applied last.
LEMMA NextDown ==
  ASSUME TypeOK, NEW r \in Runner, Ordered(history), PlanInv(r), ~Up(r),
         pc[r] \in {"exec", "cancel", "record"}
  PROVE  /\ cur[r] \in Version /\ history[cur[r]] > 0
         /\ \A u \in Version : cur[r] < u => history[u] = 0
<1>1. IsNext(r, cur[r]) /\ DownPlan(history, seen[r], todo[r])
  BY DEF PlanInv
<1>2. cur[r] \in todo[r] /\ todo[r] \subseteq Version /\ history \in [Version -> Nat]
  BY DEF TypeOK
<1>3. ASSUME NEW u \in Version, cur[r] < u, history[u] > 0 PROVE FALSE
  <2>1. u \in todo[r] /\ history[cur[r]] < history[u]
    BY <1>1, <1>2, <1>3 DEF DownPlan, Ordered
  <2>2. CASE cmd[r] = "rollback"
    BY <1>1, <1>2, <1>3, <2>1, <2>2, VersionAssumption DEF IsNext
  <2>3. CASE cmd[r] = "down"
    <3>1. u = cur[r] \/ AppliedBefore(seen[r], u, cur[r])
      BY <1>1, <2>1, <2>3 DEF IsNext
    <3>2. seen[r][u] = history[u] /\ seen[r][cur[r]] = history[cur[r]]
      BY <1>1, <1>2, <2>1 DEF DownPlan
    <3>. QED
      BY <1>2, <1>3, <2>1, <3>1, <3>2, VersionAssumption DEF AppliedBefore
  <2>. QED
    BY <2>2, <2>3 DEF TypeOK, Command, Up
<1>. QED
  BY <1>1, <1>2, <1>3 DEF DownPlan

\* The history write of a command keeps the history ordered.
LEMMA WriteOrdered ==
  ASSUME TypeOK, SoloInv, NEW r \in Runner, pc[r] = "record", Write(r)
  PROVE  Ordered(history') /\ \A v \in Version : history'[v] <= clock
<1>1. /\ PlanInv(r) /\ Ordered(history) /\ history \in [Version -> Nat]
      /\ stamp[r] <= clock /\ stamp[r] \in Nat /\ clock \in Nat
      /\ \A v \in Version : history[v] < stamp[r] /\ history[v] <= clock
  BY DEF SoloInv, PlanInv, TypeOK
<1>2. CASE Up(r)
  <2>1. /\ cur[r] \in Version /\ history[cur[r]] = 0
        /\ \A u \in Version : u < cur[r] => history[u] > 0
    BY <1>1, <1>2, NextUp
  <2>2. /\ history'[cur[r]] = stamp[r]
        /\ \A v \in Version \ {cur[r]} : history'[v] = history[v]
    BY <1>1, <1>2, <2>1 DEF Write
  <2>3. ASSUME NEW u \in Version, NEW v \in Version, u < v, history'[v] > 0
        PROVE  0 < history'[u] /\ history'[u] < history'[v]
    <3>1. u # v
      BY <2>3, VersionAssumption
    <3>2. CASE v = cur[r]
      BY <1>1, <2>1, <2>2, <2>3, <3>1, <3>2
    <3>3. CASE v # cur[r]
      BY <1>1, <2>1, <2>2, <2>3, <3>3 DEF Ordered
    <3>. QED
      BY <3>2, <3>3
  <2>. QED
    BY <1>1, <2>2, <2>3 DEF Ordered
<1>3. CASE ~Up(r)
  <2>1. /\ cur[r] \in Version
        /\ \A u \in Version : cur[r] < u => history[u] = 0
    BY <1>1, <1>3, NextDown
  <2>2. /\ history'[cur[r]] = 0
        /\ \A v \in Version \ {cur[r]} : history'[v] = history[v]
    BY <1>1, <1>3, <2>1 DEF Write
  <2>3. ASSUME NEW u \in Version, NEW v \in Version, u < v, history'[v] > 0
        PROVE  0 < history'[u] /\ history'[u] < history'[v]
    <3>1. v # cur[r] /\ u # cur[r]
      BY <2>1, <2>2, <2>3
    <3>. QED
      BY <1>1, <2>2, <2>3, <3>1 DEF Ordered
  <2>. QED
    BY <1>1, <2>2, <2>3 DEF Ordered
<1>. QED
  BY <1>2, <1>3

\* The plan that is left fits the history the write leaves.
LEMMA WritePlan ==
  ASSUME TypeOK, SoloInv, NEW r \in Runner, pc[r] = "record", Write(r)
  PROVE  IF Up(r) THEN UpPlan(history', todo[r] \ {cur[r]})
                  ELSE DownPlan(history', seen[r], todo[r] \ {cur[r]})
<1>1. /\ PlanInv(r) /\ history \in [Version -> Nat] /\ stamp[r] \in Nat
      /\ \A v \in Version : history[v] < stamp[r]
      /\ cur[r] \in todo[r] /\ todo[r] \subseteq Version
  BY DEF SoloInv, PlanInv, TypeOK
<1>2. \A v \in Version \ {cur[r]} : history'[v] = history[v]
  BY <1>1 DEF Write
<1>3. CASE Up(r)
  <2>1. history'[cur[r]] = stamp[r] /\ stamp[r] > 0
    BY <1>1, <1>3 DEF Write
  <2>2. UpPlan(history, todo[r])
    BY <1>1, <1>3 DEF PlanInv
  <2>. QED
    BY <1>1, <1>2, <1>3, <2>1, <2>2 DEF UpPlan
<1>4. CASE ~Up(r)
  <2>1. history'[cur[r]] = 0
    BY <1>1, <1>4 DEF Write
  <2>2. DownPlan(history, seen[r], todo[r])
    BY <1>1, <1>4 DEF PlanInv
  <2>. QED
    BY <1>1, <1>2, <1>4, <2>1, <2>2 DEF DownPlan
<1>. QED
  BY <1>3, <1>4
-----------------------------------------------------------------------------
(* The inductive invariant.                                                *)

\* A step that changes none of what the invariant speaks of.
LEMMA KeepSolo ==
  ASSUME SoloInv,
         UNCHANGED <<files, history, clock, pc, cmd, disk, seen, todo, cur, stamp>>
  PROVE  SoloInv'
BY DEF SoloInv, PlanInv, Up, IsNext

\* The plan a command starts with fits the history it has read.
LEMMA PlannedSolo ==
  ASSUME TypeOK, SoloInv, NEW R, Runner = {R}, NEW c \in Command,
         NEW t \in Version \union {0}, NEW S \in SUBSET Version,
         NEW next \in {"planned", "next"},
         IF c = "up" THEN UpPlan(history, S) ELSE DownPlan(history, history, S),
         pc[R] = "idle", Planned(R, c, t, S, next), UNCHANGED <<database, files, clock>>
  PROVE  SoloInv'
<1>1. CASE S = {}
  BY <1>1 DEF SoloInv, Planned, plan, progress, database
<1>2. CASE S # {}
  <2>1. /\ cmd'[R] = c /\ disk'[R] = files /\ seen'[R] = history /\ todo'[R] = S
        /\ pc'[R] = next /\ history' = history
    BY <1>2 DEF Planned, TypeOK, database
  <2>2. PlanInv(R)'
    BY <2>1 DEF PlanInv, Up, SoloInv
  <2>. QED
    BY <2>2 DEF SoloInv, Ordered, database
<1>. QED
  BY <1>1, <1>2

\* A command that has returned has no plan to keep.
LEMMA ReturnSolo ==
  ASSUME TypeOK, SoloInv, NEW R, Runner = {R},
         NEW res \in {"none", "ok", "error", "crash"}, Return(R, res),
         UNCHANGED <<history, files>>, clock' = clock
  PROVE  SoloInv'
BY DEF TypeOK, SoloInv, Return

\* The invariant holds before the first command.
LEMMA SoloInit ==
  ASSUME LateFiles = {}
  PROVE  Init => SoloInv
BY VersionAssumption DEF Init, SoloInv, Ordered

\* Every step of the only runner preserves the invariant.
LEMMA SoloStep ==
  ASSUME NEW R, Runner = {R}, LateFiles = {}
  PROVE  TypeOK /\ SoloInv /\ [Next]_vars => SoloInv'
<1> SUFFICES ASSUME TypeOK, SoloInv, [Next]_vars PROVE SoloInv'
  OBVIOUS
<1>0. /\ files = Version /\ history \in [Version -> Nat] /\ Ordered(history)
      /\ (pc[R] # "idle" => PlanInv(R))
  BY DEF SoloInv, TypeOK
<1>1. ASSUME NEW n \in 0..Cardinality(Version), MigrateUp(R, n) PROVE SoloInv'
  <2> DEFINE S == FirstSteps(Pending(files, history), n)
  <2>1. S \subseteq Version
    BY <1>0 DEF FirstSteps, Pending
  <2>2. UpPlan(history, S)
    BY <1>0, CountType, LibraryUpPlan
  <2>3. CASE ValidSet(files)
    <3>1. /\ pc[R] = "idle" /\ Planned(R, "up", 0, S, "next")
          /\ UNCHANGED <<database, files, clock>>
      BY <1>1, <2>3 DEF MigrateUp
    <3>. QED
      BY <2>1, <2>2, <3>1, PlannedSolo DEF Command
  <2>4. CASE ~ValidSet(files)
    BY <1>1, <2>4, KeepSolo DEF MigrateUp, Refused, database, plan, progress
  <2>. QED
    BY <2>3, <2>4
<1>2. ASSUME NEW t \in Version \union {0}, NEW n \in 0..Cardinality(Version),
             CliMigrateUp(R, t, n)
      PROVE  SoloInv'
  <2> DEFINE pending == Pending(files, history)
             clamped == IF t = 0 THEN pending ELSE ClampToTarget(pending, t)
             S == FirstSteps(clamped, n)
  <2>1. S \subseteq Version
    BY <1>0 DEF FirstSteps, Pending, ClampToTarget
  <2>2. UpPlan(history, S)
    BY <1>0, CountType, CliUpPlan
  <2>3. /\ pc[R] = "idle" /\ Planned(R, "up", t, S, "next")
        /\ UNCHANGED <<database, files, clock>>
    BY <1>2 DEF CliMigrateUp, environment
  <2>. QED
    BY <2>1, <2>2, <2>3, PlannedSolo DEF Command
<1>3. ASSUME NEW n \in 0..Cardinality(Version), MigrateDown(R, n) PROVE SoloInv'
  <2> DEFINE S == LastSteps(history, n)
  <2>1. S \subseteq Version
    BY DEF LastSteps, Applied
  <2>2. DownPlan(history, history, S)
    BY <1>0, CountType, LastStepsPlan
  <2>3. CASE n = 0
    BY <1>3, <2>3, KeepSolo DEF MigrateDown, Refused, database, plan, progress
  <2>4. CASE n # 0
    <3>1. /\ pc[R] = "idle" /\ Planned(R, "down", 0, S, "next")
          /\ UNCHANGED <<database, files, clock>>
      BY <1>3, <2>4 DEF MigrateDown
    <3>. QED
      BY <2>1, <2>2, <3>1, PlannedSolo DEF Command
  <2>. QED
    BY <2>3, <2>4
<1>4. ASSUME NEW t \in Version, PlanRollback(R, t) PROVE SoloInv'
  <2> DEFINE S == RollbackRange(files, history, t)
  <2>1. S \subseteq Version
    BY <1>0 DEF RollbackRange
  <2>2. DownPlan(history, history, S)
    BY <1>0, RollbackRangePlan
  <2>3. CASE t \in files /\ Applied(history) # {}
    <3>1. /\ pc[R] = "idle" /\ Planned(R, "rollback", t, S, "planned")
          /\ UNCHANGED <<database, files, clock>>
      BY <1>4, <2>3 DEF PlanRollback
    <3>. QED
      BY <2>1, <2>2, <3>1, PlannedSolo DEF Command
  <2>4. CASE ~(t \in files /\ Applied(history) # {})
    BY <1>4, <2>4, KeepSolo DEF PlanRollback, Refused, database, plan, progress
  <2>. QED
    BY <2>3, <2>4
<1>5. ASSUME ReadFails(R) PROVE SoloInv'
  BY <1>5, KeepSolo DEF ReadFails, Refused, database, plan, progress
<1>6. ASSUME ApprovePlan(R) PROVE SoloInv'
  <2>1. /\ pc[R] = "planned" /\ pc'[R] = "next"
        /\ UNCHANGED <<files, history, clock, cmd, disk, seen, todo>>
    BY <1>6 DEF ApprovePlan, TypeOK, database, environment, plan, progress
  <2>2. PlanInv(R)'
    BY <1>0, <2>1 DEF PlanInv, Up
  <2>. QED
    BY <2>1, <2>2 DEF SoloInv
<1>7. ASSUME Begin(R) PROVE SoloInv'
  <2>1. /\ pc[R] = "next" /\ pc'[R] = "exec" /\ IsNext(R, cur'[R])
        /\ UNCHANGED <<files, history, clock, cmd, disk, seen, todo>>
    BY <1>7 DEF Begin, TypeOK, database, environment, plan
  <2>2. PlanInv(R)'
    BY <1>0, <2>1 DEF PlanInv, Up, IsNext
  <2>. QED
    BY <2>1, <2>2 DEF SoloInv
<1>8. ASSUME Execute(R) \/ ExecuteFails(R) PROVE SoloInv'
  <2>1. /\ pc[R] = "exec" /\ pc'[R] \in {"exec", "cancel"}
        /\ UNCHANGED <<files, history, clock, cmd, disk, seen, todo, cur>>
    BY <1>8 DEF Execute, ExecuteFails, TypeOK, database, environment, plan, progress
  <2>2. PlanInv(R)'
    BY <1>0, <2>1 DEF PlanInv, Up, IsNext
  <2>. QED
    BY <2>1, <2>2 DEF SoloInv
<1>9. ASSUME Commit(R) PROVE SoloInv'
  <2>1. /\ pc[R] = "exec" /\ pc'[R] = "record"
        /\ clock' = clock + 1 /\ stamp'[R] = clock + 1
        /\ UNCHANGED <<files, history, cmd, disk, seen, todo, cur>>
    BY <1>9 DEF Commit, TypeOK, plan
  <2>2. clock \in Nat /\ \A v \in Version : history[v] <= clock
    BY DEF SoloInv, TypeOK
  <2>3. \A v \in Version : history[v] < clock'
    BY <1>0, <2>1, <2>2
  <2>4. PlanInv(R)'
    <3>1. stamp'[R] <= clock' /\ \A v \in Version : history'[v] < stamp'[R]
      BY <2>1, <2>2, <2>3
    <3>2. IsNext(R, cur[R])'
      BY <1>0, <2>1 DEF PlanInv, IsNext
    <3>. QED
      BY <1>0, <2>1, <3>1, <3>2 DEF PlanInv, Up
  <2>. QED
    BY <1>0, <2>1, <2>2, <2>3, <2>4 DEF SoloInv
<1>10. ASSUME pc[R] = "record", Write(R), UNCHANGED <<files, clock>>,
              Advance(R) \/ Return(R, "error")
       PROVE  SoloInv'
  <2>1. Ordered(history') /\ \A v \in Version : history'[v] <= clock
    BY <1>10, WriteOrdered
  <2>2. CASE pc'[R] = "idle"
    BY <1>0, <1>10, <2>1, <2>2 DEF SoloInv
  <2>3. CASE pc'[R] # "idle"
    <3>1. /\ pc'[R] = "next" /\ todo'[R] = todo[R] \ {cur[R]}
          /\ UNCHANGED <<cmd, disk, seen>>
      BY <1>10, <2>3 DEF Advance, Return, TypeOK, plan
    <3>2. PlanInv(R)'
      BY <1>0, <1>10, <3>1, WritePlan DEF PlanInv, Up
    <3>. QED
      BY <1>0, <1>10, <2>1, <3>2 DEF SoloInv
  <2>. QED
    BY <2>2, <2>3
<1>11. ASSUME Record(R) \/ RecordFails(R) PROVE SoloInv'
  <2>1. CASE /\ pc[R] = "record" /\ Write(R) /\ UNCHANGED <<files, clock>>
             /\ Advance(R) \/ Return(R, "error")
    BY <1>10, <2>1
  <2>2. CASE Return(R, "error") /\ UNCHANGED <<history, files, clock>>
    BY <2>2, ReturnSolo
  <2>. QED
    BY <1>11, <2>1, <2>2 DEF Record, RecordFails
<1>12. ASSUME \E res \in {"none", "ok", "error", "crash"} : Return(R, res),
              UNCHANGED <<history, files, clock>>
       PROVE  SoloInv'
  BY <1>12, ReturnSolo
<1>13. ASSUME \/ DropPlan(R) \/ BeginFails(R) \/ MissingFile(R) \/ Rollback(R)
              \/ CommitFails(R) \/ RecordDuplicate(R) \/ Crash(R)
       PROVE  SoloInv'
  BY <1>12, <1>13
  DEF DropPlan, BeginFails, MissingFile, Rollback, CommitFails, RecordDuplicate, Crash,
      database, environment
<1>14. CASE UNCHANGED vars
  BY <1>14, KeepSolo DEF vars
<1>. QED
  BY <1>1, <1>2, <1>3, <1>4, <1>5, <1>6, <1>7, <1>8, <1>9, <1>11, <1>13, <1>14
  DEF Next, StartUp, StartDown, Step
-----------------------------------------------------------------------------
(* The theorems.                                                           *)

\* The invariant and the types hold of every behaviour of the only runner.
LEMMA SoloInvariant ==
  ASSUME NEW R, Runner = {R}, LateFiles = {}
  PROVE  Spec => []SoloInv
<1>1. Init => SoloInv
  BY SoloInit
<1>2. TypeOK /\ SoloInv /\ [Next]_vars => SoloInv'
  BY SoloStep
<1>. QED
  BY <1>1, <1>2, TypeCorrect, PTL DEF Spec

\* One operator, fixed directory: applied migrations form a prefix whose
\* applied_at order is the version order, whatever fails.
THEOREM HistoryStaysPrefix ==
  ASSUME NEW R, Runner = {R}, LateFiles = {}
  PROVE  Spec => []HistoryIsPrefix
<1>1. SoloInv => HistoryIsPrefix
  BY DEF SoloInv, Ordered, HistoryIsPrefix
<1>. QED
  BY <1>1, SoloInvariant, PTL

\* One operator, fixed directory: the executor implements the ledger.  A step
\* that writes the history applies the least pending or reverts the greatest
\* applied version; every other step is a stutter.
THEOREM ExecutorImplementsLedger ==
  ASSUME NEW R, Runner = {R}, LateFiles = {}
  PROVE  Spec => ImplementsLedger
<1>1. Init => Ledger!Init
  BY DEF Init, Ledger!Init, Applied
<1>2. TypeOK /\ SoloInv /\ [Next]_vars => [Ledger!Next]_(Applied(history))
  <2> SUFFICES ASSUME TypeOK, SoloInv, [Next]_vars, Applied(history') # Applied(history)
               PROVE  Ledger!Next
    OBVIOUS
  <2>1. PICK r \in Runner : pc[r] = "record" /\ Write(r)
    BY HistoryStep
  <2>2. /\ PlanInv(r) /\ Ordered(history) /\ cur[r] \in Version
        /\ history \in [Version -> Nat]
    BY <2>1 DEF SoloInv, TypeOK
  <2>3. \A v \in Version \ {cur[r]} : history'[v] = history[v]
    BY <2>1, <2>2 DEF Write
  <2>4. CASE Up(r)
    <3>1. /\ cur[r] \notin Applied(history)
          /\ \A u \in Version : u < cur[r] => u \in Applied(history)
      BY <2>1, <2>2, <2>4, NextUp DEF Applied
    <3>2. Applied(history') = Applied(history) \union {cur[r]}
      <4>1. history'[cur[r]] > 0
        BY <2>1, <2>2, <2>4 DEF Write, PlanInv, TypeOK
      <4>. QED
        BY <2>2, <2>3, <4>1 DEF Applied
    <3>. QED
      BY <2>2, <3>1, <3>2 DEF Ledger!Next, Ledger!Apply
  <2>5. CASE ~Up(r)
    <3>1. /\ cur[r] \in Applied(history)
          /\ \A u \in Applied(history) : u <= cur[r]
      <4>1. /\ history[cur[r]] > 0
            /\ \A u \in Version : cur[r] < u => history[u] = 0
        BY <2>1, <2>2, <2>5, NextDown
      <4>2. ASSUME NEW u \in Version, history[u] > 0 PROVE u <= cur[r]
        <5>1. cur[r] \in Nat /\ u \in Nat
          BY <2>2, VersionAssumption
        <5>2. CASE cur[r] < u
          <6>1. history[u] = 0
            BY <4>1, <5>2
          <6>. QED
            BY <4>2, <6>1
        <5>. QED
          BY <5>1, <5>2
      <4>. QED
        BY <2>2, <4>1, <4>2 DEF Applied
    <3>2. Applied(history') = Applied(history) \ {cur[r]}
      <4>1. history'[cur[r]] = 0
        BY <2>1, <2>2, <2>5 DEF Write
      <4>. QED
        BY <2>2, <2>3, <4>1 DEF Applied
    <3>. QED
      BY <2>2, <3>1, <3>2 DEF Ledger!Next, Ledger!Revert
  <2>. QED
    BY <2>4, <2>5
<1>. QED
  BY <1>1, <1>2, TypeCorrect, SoloInvariant, PTL DEF Spec, ImplementsLedger, Ledger!Spec
-----------------------------------------------------------------------------
(* History and schema.                                                     *)

\* Between commit and history write the schema is what the record will say.
CommittedInv ==
  \A r \in Runner : pc[r] = "record" =>
    /\ Up(r) => schema[cur[r]] = Stmt
    /\ ~Up(r) /\ cur[r] \in Reversible => schema[cur[r]] = {}

\* What a commit makes of the schema of its version.
LEMMA CommitEffect ==
  ASSUME TypeOK, StagedInv, NEW r \in Runner, pc[r] = "exec", at[r] > Count(r),
         schema' = Effect(r)
  PROVE  /\ Up(r) => schema'[cur[r]] = Stmt
         /\ ~Up(r) /\ cur[r] \in Reversible => schema'[cur[r]] = {}
         /\ \A v \in Version \ {cur[r]} : schema'[v] = schema[v]
<1>1. /\ cur[r] \in Version /\ at[r] \in 1..StmtCount + 1
      /\ schema \in [Version -> SUBSET Stmt]
  BY DEF TypeOK
<1>2. Up(r) \/ cur[r] \in Reversible => staged[r] = Stmt
  BY <1>1, BoundAssumption DEF StagedInv, Count, Stmt
<1>. QED
  BY <1>1, <1>2 DEF Effect

\* Every step of the only runner keeps history and schema in agreement: a commit
\* opens the window in which they may differ, the history write closes it.
LEMMA AgreeStep ==
  ASSUME NEW R, Runner = {R},
         TypeOK, StagedInv, SoloInv, CommittedInv, HistoryMatchesSchema, [Next]_vars
  PROVE  CommittedInv' /\ HistoryMatchesSchema'
<1>0. /\ schema \in [Version -> SUBSET Stmt] /\ history \in [Version -> Nat]
      /\ Reversible \subseteq Version /\ Stmt # {}
  BY FilesAssumption, BoundAssumption DEF TypeOK, Stmt
<1>1. CASE /\ UNCHANGED <<schema, history, torn>>
           /\ pc[R] # "record" /\ pc'[R] # "record"
  BY <1>1 DEF CommittedInv, HistoryMatchesSchema, InWindow
<1>2. CASE Commit(R)
  <2>1. /\ pc[R] = "exec" /\ at[R] > Count(R) /\ schema' = Effect(R)
        /\ pc'[R] = "record" /\ UNCHANGED <<history, torn, cmd, cur>>
    BY <1>2 DEF Commit, TypeOK, plan
  <2>2. CommittedInv'
    BY <2>1, CommitEffect DEF CommittedInv, Up
  <2>3. ASSUME NEW v \in Reversible \ torn', ~InWindow(v)'
        PROVE  history'[v] > 0 <=> schema'[v] = Stmt
    <3>1. v # cur[R] /\ ~InWindow(v)
      BY <2>1, <2>3 DEF InWindow
    <3>2. schema'[v] = schema[v]
      BY <1>0, <2>1, <3>1, CommitEffect
    <3>. QED
      BY <2>1, <2>3, <3>1, <3>2 DEF HistoryMatchesSchema
  <2>. QED
    BY <2>2, <2>3 DEF HistoryMatchesSchema
<1>3. CASE CommitFails(R)
  <2>1. /\ pc[R] = "exec" /\ at[R] > Count(R) /\ pc'[R] = "idle" /\ UNCHANGED history
        /\ \/ UNCHANGED <<schema, torn>>
           \/ schema' = Effect(R) /\ torn' = torn \union {cur[R]}
    BY <1>3 DEF CommitFails, Return, TypeOK
  <2>2. CASE UNCHANGED <<schema, torn>>
    BY <1>1, <2>1, <2>2
  <2>3. CASE schema' = Effect(R) /\ torn' = torn \union {cur[R]}
    <3>1. \A v \in Version \ {cur[R]} : schema'[v] = schema[v]
      BY <2>1, <2>3, CommitEffect
    <3>2. ASSUME NEW v \in Reversible \ torn' PROVE history'[v] > 0 <=> schema'[v] = Stmt
      BY <1>0, <2>1, <2>3, <3>1 DEF HistoryMatchesSchema, InWindow
    <3>. QED
      BY <2>1, <3>2 DEF CommittedInv, HistoryMatchesSchema
  <2>. QED
    BY <2>1, <2>2, <2>3
<1>4. ASSUME pc[R] = "record", pc'[R] # "record", UNCHANGED schema,
             \/ Write(R) /\ torn' = torn \ {cur[R]}
             \/ UNCHANGED history /\ torn' = torn \union {cur[R]}
      PROVE  CommittedInv' /\ HistoryMatchesSchema'
  <2>1. /\ cur[R] \in Version
        /\ Up(R) => schema[cur[R]] = Stmt
        /\ ~Up(R) /\ cur[R] \in Reversible => schema[cur[R]] = {}
    BY <1>4 DEF CommittedInv, TypeOK
  <2>2. ASSUME NEW v \in Reversible \ torn' PROVE history'[v] > 0 <=> schema'[v] = Stmt
    <3>1. CASE v # cur[R]
      <4>1. v \notin torn /\ history'[v] = history[v]
        BY <1>0, <1>4, <2>2, <3>1 DEF Write
      <4>. QED
        BY <1>4, <3>1, <4>1 DEF HistoryMatchesSchema, InWindow
    <3>2. CASE v = cur[R]
      <4>1. Write(R)
        BY <1>4, <3>2
      <4>2. CASE Up(R)
        <5>1. history'[v] = stamp[R] /\ stamp[R] \in Nat
          BY <1>0, <2>1, <3>2, <4>1, <4>2 DEF Write, TypeOK
        <5>2. history[v] < stamp[R]
          BY <1>4, <2>1, <3>2 DEF SoloInv, PlanInv
        <5>. QED
          BY <1>0, <1>4, <2>1, <3>2, <4>2, <5>1, <5>2
      <4>3. CASE ~Up(R)
        BY <1>0, <1>4, <2>1, <3>2, <4>1, <4>3 DEF Write
      <4>. QED
        BY <4>2, <4>3
    <3>. QED
      BY <3>1, <3>2
  <2>. QED
    BY <1>4, <2>2 DEF CommittedInv, HistoryMatchesSchema
<1>5. CASE Record(R) \/ RecordFails(R)
  <2>1. /\ pc[R] = "record" /\ pc'[R] # "record" /\ UNCHANGED schema
        /\ \/ Write(R) /\ torn' = torn \ {cur[R]}
           \/ UNCHANGED history /\ torn' = torn \union {cur[R]}
    BY <1>5 DEF Record, RecordFails, Advance, Return, TypeOK
  <2>. QED
    BY <1>4, <2>1
<1>6. CASE RecordDuplicate(R)
  <2>1. pc[R] = "record" /\ Up(R) /\ history[cur[R]] > 0
    BY <1>6 DEF RecordDuplicate, Duplicate
  <2>2. PlanInv(R)
    BY <2>1 DEF SoloInv
  <2>. QED
    BY <2>1, <2>2, NextUp
<1>7. CASE Crash(R)
  <2>1. /\ UNCHANGED <<schema, history>> /\ pc'[R] = "idle"
        /\ torn' = IF pc[R] = "record" THEN torn \union {cur[R]} ELSE torn
    BY <1>7 DEF Crash, Return, database, TypeOK
  <2>. QED
    BY <1>1, <1>4, <2>1
<1>8. ASSUME \E v \in LateFiles : AddFile(v) \/ RemoveFile(v)
      PROVE  UNCHANGED <<schema, history, torn, pc, cmd, cur>>
  BY <1>8 DEF AddFile, RemoveFile, database, plan, progress
<1>9. CASE \/ StartUp(R) \/ StartDown(R) \/ ReadFails(R) \/ ApprovePlan(R) \/ DropPlan(R)
           \/ Begin(R) \/ BeginFails(R) \/ MissingFile(R) \/ Execute(R) \/ ExecuteFails(R)
           \/ Rollback(R)
  <2>1. UNCHANGED <<schema, history, torn>> /\ pc[R] # "record"
    BY <1>9
    DEF StartUp, StartDown, MigrateUp, CliMigrateUp, MigrateDown, PlanRollback, ReadFails,
        ApprovePlan, DropPlan, Begin, BeginFails, MissingFile, Execute, ExecuteFails,
        Rollback, Refused, database, environment
  <2>2. pc'[R] # "record"
    BY <1>9
    DEF StartUp, StartDown, MigrateUp, CliMigrateUp, MigrateDown, PlanRollback, ReadFails,
        ApprovePlan, DropPlan, Begin, BeginFails, MissingFile, Execute, ExecuteFails,
        Rollback, Refused, Planned, Return, TypeOK
  <2>. QED
    BY <1>1, <2>1, <2>2
<1>10. CASE UNCHANGED <<schema, history, torn, pc, cmd, cur>>
  BY <1>10 DEF CommittedInv, HistoryMatchesSchema, InWindow, Up
<1>. QED
  BY <1>2, <1>3, <1>5, <1>6, <1>7, <1>8, <1>9, <1>10 DEF Next, Step, vars

\* One operator, fixed directory: outside the window between commit and history
\* write, history and schema agree on every reversible version whose last run was
\* not interrupted in that window.
THEOREM HistoryAgreesWithSchema ==
  ASSUME NEW R, Runner = {R}, LateFiles = {}
  PROVE  Spec => []HistoryMatchesSchema
<1>1. Init => CommittedInv /\ HistoryMatchesSchema
  BY FilesAssumption, BoundAssumption
  DEF Init, CommittedInv, HistoryMatchesSchema, Stmt
<1>2. TypeOK /\ StagedInv /\ SoloInv /\ CommittedInv /\ HistoryMatchesSchema /\ [Next]_vars
        => CommittedInv' /\ HistoryMatchesSchema'
  BY AgreeStep
<1>3. Spec => []StagedInv
  BY StagedInit, StagedStep, TypeCorrect, PTL DEF Spec
<1>. QED
  BY <1>1, <1>2, <1>3, TypeCorrect, SoloInvariant, PTL DEF Spec
-----------------------------------------------------------------------------
(* Action properties.                                                      *)

\* One operator, fixed directory: `down` removes the record with the latest
\* applied_at.
THEOREM DownIsLifo ==
  ASSUME NEW R, Runner = {R}, LateFiles = {}
  PROVE  Spec => DownRemovesNewest
<1> DEFINE Newest ==
      \A r \in Runner, v \in Version :
        cmd[r] = "down" /\ history[v] > 0 /\ history'[v] = 0
          => \A u \in Version : history[u] <= history[v]
<1>1. TypeOK /\ SoloInv /\ [Next]_vars => [Newest]_vars
  <2> SUFFICES ASSUME TypeOK, SoloInv, [Next]_vars, NEW v \in Version, NEW u \in Version,
                      cmd[R] = "down", history[v] > 0, history'[v] = 0
               PROVE  history[u] <= history[v]
    OBVIOUS
  <2>1. pc[R] = "record" /\ Write(R)
    <3>1. history' # history
      OBVIOUS
    <3>. QED
      BY <3>1, HistoryStep
  <2>2. /\ ~Up(R) /\ PlanInv(R) /\ Ordered(history) /\ history \in [Version -> Nat]
        /\ v = cur[R]
    BY <2>1 DEF SoloInv, TypeOK, Up, Write
  <2>3. v < u => history[u] = 0
    BY <2>1, <2>2, NextDown
  <2>4. u < v => history[u] < history[v]
    BY <2>2 DEF Ordered
  <2>5. u = v \/ u < v \/ v < u
    BY VersionAssumption
  <2>. QED
    BY <2>2, <2>3, <2>4, <2>5
<1>. QED
  BY <1>1, TypeCorrect, SoloInvariant, PTL DEF Spec, DownRemovesNewest

\* One operator, fixed directory: an up that reports success has left no
\* migration unrecorded up to the last one it ran.
THEOREM SuccessMeansComplete ==
  ASSUME NEW R, Runner = {R}, LateFiles = {}
  PROVE  Spec => OkUpIsComplete
<1> DEFINE Complete ==
      \A r \in Runner :
        cmd[r] = "up" /\ pc[r] = "record" /\ result'[r] = "ok" /\ pc'[r] = "idle"
          => \A v \in disk[r] : v <= cur[r] => history'[v] > 0
<1>1. TypeOK /\ SoloInv /\ [Next]_vars => [Complete]_vars
  <2> SUFFICES ASSUME TypeOK, SoloInv, [Next]_vars, cmd[R] = "up", pc[R] = "record",
                      result'[R] = "ok", pc'[R] = "idle"
               PROVE  \A v \in disk[R] : v <= cur[R] => history'[v] > 0
    OBVIOUS
  <2>1. /\ Up(R) /\ PlanInv(R) /\ disk[R] = Version /\ cur[R] \in Version
        /\ history \in [Version -> Nat] /\ stamp[R] \in Nat
        /\ \A v \in Version : history[v] < stamp[R]
        /\ \A v \in Version : v < cur[R] => history[v] > 0
    BY NextUp DEF SoloInv, PlanInv, TypeOK, Up
  <2>2. Write(R)
    BY DEF Next, StartUp, StartDown, Step, AddFile, RemoveFile, MigrateUp, CliMigrateUp,
           MigrateDown, PlanRollback, ApprovePlan, DropPlan, ReadFails, Begin, BeginFails,
           MissingFile, Execute, ExecuteFails, Rollback, Commit, CommitFails, Record,
           RecordFails, RecordDuplicate, Crash, Return, TypeOK, vars
  <2>3. /\ history'[cur[R]] = stamp[R]
        /\ \A v \in Version \ {cur[R]} : history'[v] = history[v]
    BY <2>1, <2>2 DEF Write
  <2>4. ASSUME NEW v \in Version, v <= cur[R] PROVE history'[v] > 0
    <3>1. CASE v = cur[R]
      <4>1. history[cur[R]] \in Nat /\ history[cur[R]] < stamp[R]
        BY <2>1
      <4>2. stamp[R] > 0
        BY <2>1, <4>1
      <4>. QED
        BY <2>3, <3>1, <4>2
    <3>2. CASE v # cur[R]
      <4>1. v < cur[R]
        <5>1. v \in Nat /\ cur[R] \in Nat
          BY <2>1, VersionAssumption
        <5>. QED
          BY <2>4, <3>2, <5>1
      <4>2. history[v] > 0 /\ history'[v] = history[v]
        BY <2>1, <2>3, <3>2, <4>1
      <4>. QED
        BY <4>2
    <3>. QED
      BY <3>1, <3>2
  <2>. QED
    BY <2>1, <2>4
<1>. QED
  BY <1>1, TypeCorrect, SoloInvariant, PTL DEF Spec, OkUpIsComplete
=============================================================================
