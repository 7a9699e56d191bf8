-------------------------- MODULE MigrationExecutor --------------------------
(***************************************************************************)
(* The migration executor (pkg/surql/migration/executor.go, rollback.go,   *)
(* history.go) as the CLI drives it (internal/cli/migrate.go).             *)
(*                                                                         *)
(* A Runner is a process that runs one command after another: `up` through *)
(* the library or the CLI, `down`, or a rollback to a target.  A command   *)
(* reads the migrations directory and the history table once, plans a set  *)
(* of versions, and runs ExecuteMigration on them one by one; every RPC of *)
(* ExecuteMigration is a step of its own.  The statements of a migration   *)
(* run in a transaction; the history table is written after the commit,    *)
(* outside it.                                                             *)
(*                                                                         *)
(* Versions are integers: the code only compares the version strings.      *)
(* Statement k of a version's up section puts effect k in place, statement *)
(* k of its down section takes it away.                                    *)
(***************************************************************************)
EXTENDS Integers, FiniteSets

CONSTANTS
  Runner,      \* processes that run migration commands against one database
  Version,     \* the versions of all migration files that ever exist
  LateFiles,   \* versions whose file may be added or removed while we look
  StmtCount,   \* statements in an up section (and in a down section)
  Reversible,  \* versions whose file has a down section
  Rerunnable,  \* versions whose statements also succeed a second time
  DependsOn,   \* the depends_on metadata: a set of versions for each version
  MaxFaults,   \* bound: RPC failures, lost answers and crashes
  MaxDowns     \* bound: down and rollback commands

ASSUME VersionAssumption == Version \subseteq Nat \ {0} /\ IsFiniteSet(Version)
ASSUME FilesAssumption == LateFiles \subseteq Version /\ Reversible \subseteq Version
ASSUME BoundAssumption == StmtCount \in Nat \ {0} /\ MaxFaults \in Nat /\ MaxDowns \in Nat
ASSUME DependsOnAssumption == DependsOn \in [Version -> SUBSET Version]

VARIABLES
  files,     \* versions whose file is in the migrations directory
  schema,    \* schema[v]: the statements of v in effect in the database
  history,   \* history[v]: applied_at of v's history record, 0 if there is none
  clock,     \* wall clock of the operators' machine; ticks at every stamp
  torn,      \* history variable: versions whose commit and history write parted
  faults,    \* faults so far (bounded by MaxFaults)
  downs,     \* down and rollback commands so far (bounded by MaxDowns)
  pc,        \* pc[r]: where runner r is in its command
  cmd,       \* cmd[r]: its command: "up", "down" or "rollback"
  target,    \* target[r]: the --target of the command, 0 if it has none
  todo,      \* todo[r]: planned versions not executed yet
  disk,      \* disk[r]: the directory as discovered by the command
  seen,      \* seen[r]: the history as read by the command
  cur,       \* cur[r]: the version ExecuteMigration is running, 0 if none
  at,        \* at[r]: the statement to execute next
  staged,    \* staged[r]: statements executed in the open transaction
  tx,        \* tx[r]: Transaction.state of the last transaction
  stamp,     \* stamp[r]: appliedAt taken after the commit
  result     \* result[r]: how the last command ended

environment == <<files, clock, torn, faults, downs>>
database == <<schema, history>>
plan == <<cmd, target, disk, seen>>
progress == <<todo, cur, at, staged, tx, stamp>>
vars == <<files, schema, history, clock, torn, faults, downs, pc, cmd, target,
          todo, disk, seen, cur, at, staged, tx, stamp, result>>

Stmt == 1..StmtCount
Command == {"up", "down", "rollback"}
-----------------------------------------------------------------------------
(* Planning: what a command decides to run from the directory d and the    *)
(* history h it has read.                                                  *)

\* The versions with a history record.
Applied(h) == {v \in Version : h[v] > 0}

\* pendingMigrations: the files without a record.
Pending(d, h) == d \ Applied(h)

\* validateMigrationSet: every dependency has a file.
ValidSet(d) == \A v \in d : DependsOn[v] \subseteq d

\* Mutant: --steps 0 applies nothing.
FirstStepsZeroIsNone(S, n) == {v \in S : Cardinality({u \in S : u <= v}) <= n}

\* The --steps prefix of the pending migrations in version order; 0 is no limit.
FirstSteps(S, n) ==
  {v \in S : n = 0 \/ Cardinality({u \in S : u <= v}) <= n}

\* clampPendingToTarget: the prefix that ends with t, or everything.
ClampToTarget(S, t) == IF t \in S THEN {v \in S : v <= t} ELSE S

\* Mutant: the history is read newest first.
AppliedAfter(h, u, v) == h[u] > h[v] \/ (h[u] = h[v] /\ u > v)

\* GetAppliedMigrationsOrdered: u comes before v in AppliedAt order.
AppliedBefore(h, u, v) == h[u] < h[v] \/ (h[u] = h[v] /\ u < v)

\* Mutant: the first n applied migrations.
FirstApplied(h, n) ==
  {v \in Applied(h) :
     Cardinality({u \in Applied(h) : u = v \/ AppliedBefore(h, u, v)}) <= n}

\* MigrateDown: the last n applied migrations.
LastSteps(h, n) ==
  {v \in Applied(h) :
     Cardinality({u \in Applied(h) : u = v \/ AppliedBefore(h, v, u)}) <= n}

\* CreateRollbackPlan: the files above t and up to the last applied version.
RollbackRange(d, h, t) ==
  {v \in d : v > t /\ \E c \in Applied(h) :
               /\ v <= c
               /\ \A u \in Applied(h) : u = c \/ AppliedBefore(h, u, c)}

\* Mutant: the plan is visited in the order of a map.
IsAny(r, v) == v \in todo[r]

\* The order in which a command's loop visits its plan.
IsNext(r, v) ==
  /\ v \in todo[r]
  /\ \A u \in todo[r] :
       CASE cmd[r] = "up" -> v <= u
         [] cmd[r] = "rollback" -> u <= v
         [] cmd[r] = "down" -> u = v \/ AppliedBefore(seen[r], u, v)
-----------------------------------------------------------------------------
Init ==
  /\ files = Version \ LateFiles
  /\ schema = [v \in Version |-> {}]
  /\ history = [v \in Version |-> 0]
  /\ clock = 0 /\ torn = {} /\ faults = 0 /\ downs = 0
  /\ pc = [r \in Runner |-> "idle"]
  /\ cmd = [r \in Runner |-> "up"]
  /\ target = [r \in Runner |-> 0]
  /\ todo = [r \in Runner |-> {}]
  /\ disk = [r \in Runner |-> {}]
  /\ seen = [r \in Runner |-> [v \in Version |-> 0]]
  /\ cur = [r \in Runner |-> 0]
  /\ at = [r \in Runner |-> 1]
  /\ staged = [r \in Runner |-> {}]
  /\ tx = [r \in Runner |-> "none"]
  /\ stamp = [r \in Runner |-> 0]
  /\ result = [r \in Runner |-> "none"]

\* A developer adds or removes a migration file.
AddFile(v) ==
  /\ v \in LateFiles \ files
  /\ files' = files \union {v}
  /\ UNCHANGED <<database, clock, torn, faults, downs, pc, plan, progress, result>>

RemoveFile(v) ==
  /\ v \in LateFiles \intersect files
  /\ files' = files \ {v}
  /\ UNCHANGED <<database, clock, torn, faults, downs, pc, plan, progress, result>>

\* An RPC fails, its answer is lost, or the process dies.
Fault == faults < MaxFaults /\ faults' = faults + 1

\* The command returns, whatever is left to do; its locals go out of scope.
Return(r, res) ==
  /\ pc' = [pc EXCEPT ![r] = "idle"]
  /\ result' = [result EXCEPT ![r] = res]
  /\ cmd' = [cmd EXCEPT ![r] = "up"]
  /\ target' = [target EXCEPT ![r] = 0]
  /\ disk' = [disk EXCEPT ![r] = {}]
  /\ seen' = [seen EXCEPT ![r] = [v \in Version |-> 0]]
  /\ todo' = [todo EXCEPT ![r] = {}]
  /\ cur' = [cur EXCEPT ![r] = 0]
  /\ at' = [at EXCEPT ![r] = 1]
  /\ staged' = [staged EXCEPT ![r] = {}]
  /\ stamp' = [stamp EXCEPT ![r] = 0]
-----------------------------------------------------------------------------
(* Commands: one atomic read of directory and history, then a plan.        *)

\* Command c with target t has planned the versions S; next is where it goes on.
\* An empty plan succeeds at once.
Planned(r, c, t, S, next) ==
  IF S = {}
  THEN /\ result' = [result EXCEPT ![r] = "ok"]
       /\ UNCHANGED <<pc, plan, progress>>
  ELSE /\ cmd' = [cmd EXCEPT ![r] = c]
       /\ target' = [target EXCEPT ![r] = t]
       /\ disk' = [disk EXCEPT ![r] = files]
       /\ seen' = [seen EXCEPT ![r] = history]
       /\ todo' = [todo EXCEPT ![r] = S]
       /\ pc' = [pc EXCEPT ![r] = next]
       /\ result' = [result EXCEPT ![r] = "none"]
       /\ UNCHANGED <<cur, at, staged, tx, stamp>>

\* A command that ends before it has a plan.
Refused(r) ==
  /\ result' = [result EXCEPT ![r] = "error"]
  /\ UNCHANGED <<files, clock, torn, pc, plan, progress>>

\* MigrateUp(steps = n): validates the directory, then plans.
MigrateUp(r, n) ==
  /\ pc[r] = "idle"
  /\ IF ValidSet(files)
     THEN /\ Planned(r, "up", 0, FirstSteps(Pending(files, history), n), "next")
          /\ UNCHANGED <<files, clock, torn>>
     ELSE Refused(r)
  /\ UNCHANGED <<database, faults, downs>>

\* `surql migrate up --target t --steps n`: no validation, clamp, then plan.
CliMigrateUp(r, t, n) ==
  /\ pc[r] = "idle"
  /\ LET pending == Pending(files, history)
         clamped == IF t = 0 THEN pending ELSE ClampToTarget(pending, t)
     IN  Planned(r, "up", t, FirstSteps(clamped, n), "next")
  /\ UNCHANGED <<database, environment>>

\* MigrateDown(steps = n).
MigrateDown(r, n) ==
  /\ pc[r] = "idle"
  /\ downs < MaxDowns /\ downs' = downs + 1
  /\ IF n = 0
     THEN Refused(r)
     ELSE /\ Planned(r, "down", 0, LastSteps(history, n), "next")
          /\ UNCHANGED <<files, clock, torn>>
  /\ UNCHANGED <<database, faults>>

\* PlanRollbackToVersion(t); the plan is shown before it is executed.
PlanRollback(r, t) ==
  /\ pc[r] = "idle"
  /\ downs < MaxDowns /\ downs' = downs + 1
  /\ IF t \in files /\ Applied(history) # {}
     THEN /\ Planned(r, "rollback", t, RollbackRange(files, history, t), "planned")
          /\ UNCHANGED <<files, clock, torn>>
     ELSE Refused(r)
  /\ UNCHANGED <<database, faults>>

\* The operator accepts the plan (ExecuteRollback) or drops it.
ApprovePlan(r) ==
  /\ pc[r] = "planned"
  /\ pc' = [pc EXCEPT ![r] = "next"]
  /\ UNCHANGED <<database, environment, plan, progress, result>>

DropPlan(r) ==
  /\ pc[r] = "planned"
  /\ Return(r, "none")
  /\ UNCHANGED <<database, environment, tx>>

\* Discovery or the history read fails.
ReadFails(r) ==
  /\ pc[r] = "idle"
  /\ Fault
  /\ Refused(r)
  /\ UNCHANGED <<database, downs>>
-----------------------------------------------------------------------------
(* ExecuteMigration on the next version of the plan.                       *)

Up(r) == cmd[r] = "up"

\* The number of statements of the section that runs.
Count(r) == IF Up(r) \/ cur[r] \in Reversible THEN StmtCount ELSE 0

\* The database accepts the next statement: a DEFINE without IF NOT EXISTS
\* fails when the effect is there, a REMOVE without IF EXISTS when it is not.
Accepts(r) ==
  cur[r] \in Rerunnable \/ (Up(r) <=> at[r] \notin schema[cur[r]])

Begin(r) ==
  /\ pc[r] = "next"
  /\ \E v \in disk[r] :
       /\ IsNext(r, v)
       /\ cur' = [cur EXCEPT ![r] = v]
  /\ pc' = [pc EXCEPT ![r] = "exec"]
  /\ tx' = [tx EXCEPT ![r] = "active"]
  /\ at' = [at EXCEPT ![r] = 1]
  /\ staged' = [staged EXCEPT ![r] = {}]
  /\ UNCHANGED <<database, environment, plan, todo, stamp, result>>

BeginFails(r) ==
  /\ pc[r] = "next"
  /\ Fault
  /\ Return(r, "error")
  /\ UNCHANGED <<database, files, clock, torn, downs, tx>>

\* MigrateDown finds no file for an applied version.
MissingFile(r) ==
  /\ pc[r] = "next"
  /\ \E v \in todo[r] \ disk[r] : IsNext(r, v)
  /\ Return(r, "error")
  /\ UNCHANGED <<database, environment, tx>>

Execute(r) ==
  /\ pc[r] = "exec" /\ at[r] <= Count(r)
  /\ Accepts(r)
  /\ staged' = [staged EXCEPT ![r] = @ \union {at[r]}]
  /\ at' = [at EXCEPT ![r] = @ + 1]
  /\ UNCHANGED <<database, environment, plan, pc, todo, cur, tx, stamp, result>>

\* Mutant: a failed statement is skipped.
ExecuteFailsSkipping(r) ==
  /\ pc[r] = "exec" /\ at[r] <= Count(r)
  /\ Fault
  /\ at' = [at EXCEPT ![r] = @ + 1]
  /\ UNCHANGED <<database, files, clock, torn, downs, plan, pc, todo, cur, staged, tx, stamp, result>>

\* Mutant: the transaction is not rolled back.
ExecuteFailsReturning(r) ==
  /\ pc[r] = "exec" /\ at[r] <= Count(r)
  /\ Fault
  /\ Return(r, "error")
  /\ UNCHANGED <<database, files, clock, torn, downs, tx>>

ExecuteFails(r) ==
  /\ pc[r] = "exec" /\ at[r] <= Count(r)
  /\ \/ Fault
     \/ ~Accepts(r) /\ UNCHANGED faults
  /\ pc' = [pc EXCEPT ![r] = "cancel"]
  /\ UNCHANGED <<database, files, clock, torn, downs, plan, progress, result>>

\* tx.Rollback; its error is dropped, the command returns the statement's.
Rollback(r) ==
  /\ pc[r] = "cancel"
  /\ \/ tx' = [tx EXCEPT ![r] = "rolled_back"] /\ UNCHANGED faults
     \/ tx' = [tx EXCEPT ![r] = "failed"] /\ Fault
  /\ Return(r, "error")
  /\ UNCHANGED <<database, files, clock, torn, downs>>

\* What a commit does to the effects of the version.
Effect(r) ==
  [schema EXCEPT ![cur[r]] = IF Up(r) THEN @ \union staged[r] ELSE @ \ staged[r]]

\* tx.Commit succeeds and appliedAt is taken.
Commit(r) ==
  /\ pc[r] = "exec" /\ at[r] > Count(r)
  /\ schema' = Effect(r)
  /\ clock' = clock + 1
  /\ stamp' = [stamp EXCEPT ![r] = clock + 1]
  /\ tx' = [tx EXCEPT ![r] = "committed"]
  /\ pc' = [pc EXCEPT ![r] = "record"]
  /\ UNCHANGED <<history, files, torn, faults, downs, plan, todo, cur, at, staged, result>>

\* Mutant: a commit error is taken for a success.
CommitFailsUnnoticed(r) ==
  /\ pc[r] = "exec" /\ at[r] > Count(r)
  /\ Fault
  /\ clock' = clock + 1
  /\ stamp' = [stamp EXCEPT ![r] = clock + 1]
  /\ tx' = [tx EXCEPT ![r] = "failed"]
  /\ pc' = [pc EXCEPT ![r] = "record"]
  /\ UNCHANGED <<database, files, torn, downs, plan, todo, cur, at, staged, result>>

\* tx.Commit returns an error: nothing was committed, or only the answer was lost.
CommitFails(r) ==
  /\ pc[r] = "exec" /\ at[r] > Count(r)
  /\ Fault
  /\ \/ UNCHANGED <<schema, torn>>
     \/ schema' = Effect(r) /\ torn' = torn \union {cur[r]}
  /\ tx' = [tx EXCEPT ![r] = "failed"]
  /\ Return(r, "error")
  /\ UNCHANGED <<history, files, clock, downs>>
-----------------------------------------------------------------------------
(* The history write, after and outside the transaction.                   *)

\* ExecuteMigration returns without error and the loop goes on.
Advance(r) ==
  IF todo[r] = {cur[r]}
  THEN Return(r, "ok")
  ELSE /\ pc' = [pc EXCEPT ![r] = "next"]
       /\ todo' = [todo EXCEPT ![r] = @ \ {cur[r]}]
       /\ cur' = [cur EXCEPT ![r] = 0]
       /\ at' = [at EXCEPT ![r] = 1]
       /\ staged' = [staged EXCEPT ![r] = {}]
       /\ stamp' = [stamp EXCEPT ![r] = 0]
       /\ UNCHANGED <<plan, result>>

\* Effect of the CREATE (up) or DELETE (down) on the history table.
Write(r) ==
  history' = [history EXCEPT ![cur[r]] = IF Up(r) THEN stamp[r] ELSE 0]

\* Mutant: no UNIQUE index on version.
NeverDuplicate(r) == FALSE

\* RecordMigration is rejected by the UNIQUE index on version.
Duplicate(r) == Up(r) /\ history[cur[r]] > 0

Record(r) ==
  /\ pc[r] = "record" /\ ~Duplicate(r)
  /\ Write(r)
  /\ torn' = torn \ {cur[r]}
  /\ Advance(r)
  /\ UNCHANGED <<schema, files, clock, faults, downs, tx>>

RecordDuplicate(r) ==
  /\ pc[r] = "record" /\ Duplicate(r)
  /\ Return(r, "error")
  /\ UNCHANGED <<database, environment, tx>>

\* Mutant: the loop goes on after a failed history write.
RecordFailsUnnoticed(r) ==
  /\ pc[r] = "record" /\ ~Duplicate(r)
  /\ Fault
  /\ torn' = torn \union {cur[r]}
  /\ Advance(r)
  /\ UNCHANGED <<database, files, clock, downs, tx>>

\* The write fails, or succeeds and only its answer is lost.
RecordFails(r) ==
  /\ pc[r] = "record" /\ ~Duplicate(r)
  /\ Fault
  /\ \/ Write(r) /\ torn' = torn \ {cur[r]}
     \/ UNCHANGED history /\ torn' = torn \union {cur[r]}
  /\ Return(r, "error")
  /\ UNCHANGED <<schema, files, clock, downs, tx>>

\* The process dies; the server drops a transaction that is still open.
Crash(r) ==
  /\ pc[r] # "idle"
  /\ Fault
  /\ torn' = IF pc[r] = "record" THEN torn \union {cur[r]} ELSE torn
  /\ tx' = [tx EXCEPT ![r] = "none"]
  /\ Return(r, "crash")
  /\ UNCHANGED <<database, files, clock, downs>>
-----------------------------------------------------------------------------
StartUp(r) ==
  \/ \E n \in 0..Cardinality(Version) : MigrateUp(r, n)
  \/ \E t \in Version \union {0}, n \in 0..Cardinality(Version) : CliMigrateUp(r, t, n)

StartDown(r) ==
  \/ \E n \in 0..Cardinality(Version) : MigrateDown(r, n)
  \/ \E t \in Version : PlanRollback(r, t)

\* What a command does by itself once it runs.
Step(r) ==
  \/ Begin(r) \/ BeginFails(r) \/ MissingFile(r)
  \/ Execute(r) \/ ExecuteFails(r) \/ Rollback(r)
  \/ Commit(r) \/ CommitFails(r)
  \/ Record(r) \/ RecordDuplicate(r) \/ RecordFails(r)

Next ==
  \/ \E v \in LateFiles : AddFile(v) \/ RemoveFile(v)
  \/ \E r \in Runner :
       \/ StartUp(r) \/ StartDown(r)
       \/ ApprovePlan(r) \/ DropPlan(r) \/ ReadFails(r)
       \/ Step(r) \/ Crash(r)

Spec == Init /\ [][Next]_vars

\* The process keeps running and its RPCs return; the operator answers a shown
\* plan and keeps running `migrate up` (a deploy pipeline does).
Fairness ==
  \A r \in Runner :
    /\ WF_vars(Step(r))
    /\ WF_vars(ApprovePlan(r) \/ DropPlan(r))
    /\ WF_vars(MigrateUp(r, 0))

FairSpec == Spec /\ Fairness
-----------------------------------------------------------------------------
(* Properties.                                                             *)

\* Types, and where each local is meaningful.  In particular the statement
\* index stays inside the section of the file (executor.go:109).
TypeOK ==
  /\ files \subseteq Version
  /\ schema \in [Version -> SUBSET Stmt]
  /\ history \in [Version -> Nat]
  /\ clock \in Nat /\ torn \subseteq Version /\ faults \in Nat /\ downs \in Nat
  /\ pc \in [Runner -> {"idle", "planned", "next", "exec", "cancel", "record"}]
  /\ cmd \in [Runner -> Command]
  /\ target \in [Runner -> Version \union {0}]
  /\ todo \in [Runner -> SUBSET Version]
  /\ disk \in [Runner -> SUBSET Version]
  /\ seen \in [Runner -> [Version -> Nat]]
  /\ cur \in [Runner -> Version \union {0}]
  /\ at \in [Runner -> 1..StmtCount + 1]
  /\ staged \in [Runner -> SUBSET Stmt]
  /\ tx \in [Runner -> {"none", "active", "committed", "rolled_back", "failed"}]
  /\ stamp \in [Runner -> Nat]
  /\ result \in [Runner -> {"none", "ok", "error", "crash"}]
  /\ \A r \in Runner : pc[r] \in {"exec", "cancel", "record"} => cur[r] \in todo[r]

\* A migration is in effect entirely or not at all, whatever fails and whoever
\* else runs (the transaction of ExecuteMigration).
AllOrNothing == \A v \in Version : schema[v] \in {{}, Stmt}

\* Every transaction ExecuteMigration opens has been committed, rolled back or
\* has failed by the time it returns ("must be finalised exactly once").
NoTransactionLeak ==
  \A r \in Runner : tx[r] = "active" => pc[r] \in {"exec", "cancel"}

\* The commit of v is done and its history write is under way.
InWindow(v) == \E r \in Runner : pc[r] = "record" /\ cur[r] = v

\* One runner: history and schema agree on every reversible version, unless the
\* command that ran it was interrupted between commit and history write.
HistoryMatchesSchema ==
  \A v \in Reversible \ torn :
    ~InWindow(v) => (history[v] > 0 <=> schema[v] = Stmt)

\* One runner, fixed directory: the applied migrations are a prefix of the
\* directory and were applied in version order, so the LIFO order of MigrateDown
\* (by applied_at) and that of a rollback plan (by version) are the same.
HistoryIsPrefix ==
  \A u, v \in files :
    u < v /\ history[v] > 0 => 0 < history[u] /\ history[u] < history[v]

\* One runner, fixed directory: the history table is a ledger.
Ledger == INSTANCE MigrationLedger WITH applied <- Applied(history)

\* Commands apply the least pending and revert the last applied migration only,
\* one at a time, whatever fails in between.
ImplementsLedger == Ledger!Spec

\* A history record is written once: applying the version again never moves its
\* applied_at, which orders the rollbacks (the UNIQUE index of history.go).
RecordOnce ==
  [][\A v \in Version : history[v] > 0 => history'[v] \in {0, history[v]}]_history

\* One runner: `down` removes records newest first (executor.go:241).
DownRemovesNewest ==
  [][\A r \in Runner, v \in Version :
       cmd[r] = "down" /\ history[v] > 0 /\ history'[v] = 0
         => \A u \in Version : history[u] <= history[v]]_vars

\* One runner: an `up` that reports success has recorded every migration of the
\* directory up to the last one it ran (executor.go:199 halts on an error).
OkUpIsComplete ==
  [][\A r \in Runner :
       cmd[r] = "up" /\ pc[r] = "record" /\ result'[r] = "ok" /\ pc'[r] = "idle"
         => \A v \in disk[r] : v <= cur[r] => history'[v] > 0]_vars

\* One runner: once the faults are over, repeating `migrate up` records every
\* migration and leaves it in effect, if all statements can run twice.  A rollback
\* whose commit and record removal parted is not repaired: its version keeps its
\* record, so no `up` plans it again.
Converges ==
  <>[](\A v \in files : history[v] > 0 /\ (schema[v] = Stmt \/ v \in torn))
=============================================================================
