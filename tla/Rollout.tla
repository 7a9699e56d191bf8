------------------------------- MODULE Rollout -------------------------------
(***************************************************************************)
(* One call of MigrationCoordinator.DeployToEnvironments                   *)
(* (pkg/surql/orchestration): resolve the environments, probe their        *)
(* health, deploy the migrations by one of the four strategies, and roll   *)
(* back the successful environments when one has failed.                   *)
(*                                                                         *)
(* Every strategy deploys consecutive batches of the environment list and  *)
(* stops at a batch with a failure; the environments of a batch run in     *)
(* goroutines of their own.  One ExecuteMigration is one step here, with   *)
(* the ways module MigrationExecutor shows it can end.                     *)
(***************************************************************************)
EXTENDS Integers, Sequences, FiniteSets

CONSTANTS
  Name,        \* environment names, each with its own database
  Registered,  \* the names the registry knows
  Migrations,  \* length of the migration list; migrations are 1..Migrations
  Reversible,  \* those whose file has a down section
  Plans,       \* the calls: records of environment list and DeployOptions
  MaxFaults    \* bound: failed or unanswered RPCs, and cancellation

ASSUME RegisteredAssumption == Registered \subseteq Name
ASSUME CountAssumption == Migrations \in Nat /\ MaxFaults \in Nat
ASSUME ReversibleAssumption == Reversible \subseteq 1..Migrations
ASSUME PlansAssumption ==
  Plans \subseteq [envs : Seq(Name), strategy : {"sequential", "parallel", "rolling", "canary"},
                   size : Nat, pct : Nat, verify : BOOLEAN, autoRollback : BOOLEAN,
                   dryRun : BOOLEAN]

VARIABLES
  plan,      \* the call that runs
  db,        \* db[e]: migrations in effect and migrations recorded in e's database
  initial,   \* history variable: db at the start of the call
  faults,    \* faults so far (bounded by MaxFaults)
  canceled,  \* the caller's context is done
  phase,     \* where DeployToEnvironments is
  outcome,   \* how it returned: with results or with an error
  health,    \* health[e]: verdict of the last probe of e, "none" before it
  probed,    \* positions of the environment list whose probe is done
  lo, hi,    \* positions of the batch that runs
  stage,     \* stage[i]: the goroutine of position i
  applied,   \* applied[i]: migrations executed at position i
  report,    \* the result map: status by environment name
  back,      \* position the rollback loop is at
  undo       \* migration it reverts next, 0 before it has a connection

vars == <<plan, db, initial, faults, canceled, phase, outcome, health, probed,
          lo, hi, stage, applied, report, back, undo>>
call == <<plan, initial>>
deploy == <<lo, hi, stage, applied>>
rollback == <<back, undo>>

Mig == 1..Migrations
Lasting == Mig \ Reversible
Count == Len(plan.envs)
Position == 1..Count
Running == {i \in Position : stage[i] = "running"}
Failed == {i \in Position : stage[i] = "failed"}
-----------------------------------------------------------------------------
(* The shape of the strategies.                                            *)

\* Mutant: no default for an unset limit.
LimitUnset == IF plan.strategy = "parallel" THEN plan.size ELSE Count

\* The semaphore of ParallelStrategy; the other strategies have none.
Limit ==
  IF plan.strategy = "parallel"
  THEN IF plan.size = 0 THEN 5 ELSE plan.size
  ELSE Count

BatchSize == IF plan.size = 0 THEN 1 ELSE plan.size

Percentage == IF plan.pct = 0 THEN 10 ELSE plan.pct

ValidPercentage == Percentage \in 1..50

CanaryCount ==
  IF (Count * Percentage) \div 100 = 0 THEN 1 ELSE (Count * Percentage) \div 100

\* The last position of the batch that starts at i.
BatchEnd(i) ==
  CASE plan.strategy = "sequential" -> i
    [] plan.strategy = "parallel" -> Count
    [] plan.strategy = "rolling" ->
         IF i + BatchSize - 1 > Count THEN Count ELSE i + BatchSize - 1
    [] plan.strategy = "canary" -> IF i = 1 THEN CanaryCount ELSE Count
-----------------------------------------------------------------------------
\* A database holds the migrations in effect and the recorded ones.
Database == [schema : SUBSET Mig, history : SUBSET Mig]

\* Databases earlier deployments may have left: a prefix of the migrations, and
\* what a rollback did not take back of those behind it.
Left(k, n) == [schema |-> 1..k \union (1..n \intersect Lasting), history |-> 1..k]

Init ==
  /\ plan \in Plans
  /\ db \in [Name -> {Left(k, n) : k, n \in 0..Migrations}]
  /\ \A e \in Name \ Registered : db[e] = Left(0, 0)   \* out of the call's reach
  /\ initial = db
  /\ faults = 0 /\ canceled = FALSE
  /\ phase = "resolve" /\ outcome = "none"
  /\ health = [e \in Name |-> "none"] /\ probed = {}
  /\ lo = 1 /\ hi = 0
  /\ stage = [i \in Position |-> "idle"]
  /\ applied = [i \in Position |-> 0]
  /\ report = [e \in Name |-> "none"]
  /\ back = 1 /\ undo = 0

\* An RPC fails or is never answered.
Fault == faults < MaxFaults /\ faults' = faults + 1

\* An RPC fails, or the canceled context refuses it.
CallFails ==
  \/ Fault
  \/ canceled /\ UNCHANGED faults

Cancel ==
  /\ phase # "done" /\ ~canceled
  /\ Fault
  /\ canceled' = TRUE
  /\ UNCHANGED <<call, db, phase, outcome, health, probed, deploy, report, rollback>>

\* DeployToEnvironments returns an error and no results.
Refuse == phase' = "done" /\ outcome' = "error"

\* Environment names are looked up before anything else.
Resolve ==
  /\ phase = "resolve"
  /\ IF Count = 0 \/ \E i \in Position : plan.envs[i] \notin Registered
     THEN Refuse
     ELSE /\ phase' = IF plan.verify /\ ~plan.dryRun THEN "health" ELSE "strategy"
          /\ UNCHANGED outcome
  /\ UNCHANGED <<call, db, faults, canceled, health, probed, deploy, report, rollback>>
-----------------------------------------------------------------------------
(* Health: one goroutine for each position, one verdict for each name.     *)

Probe(i) ==
  /\ phase = "health" /\ i \notin probed
  /\ \/ health' = [health EXCEPT ![plan.envs[i]] = "healthy"] /\ ~canceled /\ UNCHANGED faults
     \/ health' = [health EXCEPT ![plan.envs[i]] = "unhealthy"] /\ CallFails
  /\ probed' = probed \union {i}
  /\ UNCHANGED <<call, db, canceled, phase, outcome, deploy, report, rollback>>

VerifyHealth ==
  /\ phase = "health" /\ probed = Position
  /\ IF \E i \in Position : health[plan.envs[i]] # "healthy"
     THEN Refuse
     ELSE phase' = "strategy" /\ UNCHANGED outcome
  /\ UNCHANGED <<call, db, faults, canceled, health, probed, deploy, report, rollback>>
-----------------------------------------------------------------------------
(* Deployment.                                                             *)

\* The goroutines of the batch that starts at i are started.
StartBatch(i) ==
  /\ lo' = i /\ hi' = BatchEnd(i)
  /\ stage' = [j \in Position |-> IF j \in i..BatchEnd(i) THEN "queued" ELSE stage[j]]

DeployAll ==
  /\ phase = "strategy"
  /\ IF plan.strategy = "canary" /\ ~ValidPercentage
     THEN Refuse /\ UNCHANGED <<lo, hi, stage>>
     ELSE StartBatch(1) /\ phase' = "deploy" /\ UNCHANGED outcome
  /\ UNCHANGED <<call, db, faults, canceled, health, probed, applied, report, rollback>>

Acquire(i) ==
  /\ phase = "deploy" /\ stage[i] = "queued"
  /\ Cardinality(Running) < Limit
  /\ stage' = [stage EXCEPT ![i] = "running"]
  /\ UNCHANGED <<call, db, faults, canceled, phase, outcome, health, probed, lo, hi, applied, report, rollback>>

\* executeOnEnvironment at position i ends with status s.
Finish(i, s) == stage' = [stage EXCEPT ![i] = s]

\* A dry run does no RPC: its timer fires, or the context is done.
DryRun(i) ==
  /\ stage[i] = "running" /\ plan.dryRun
  /\ \/ Finish(i, "success")
     \/ canceled /\ Finish(i, "failed")
  /\ UNCHANGED <<call, db, faults, canceled, phase, outcome, health, probed, lo, hi, applied, report, rollback>>

ConnectFails(i) ==
  /\ stage[i] = "running" /\ ~plan.dryRun /\ applied[i] = 0
  /\ CallFails
  /\ Finish(i, "failed")
  /\ UNCHANGED <<call, db, canceled, phase, outcome, health, probed, lo, hi, applied, report, rollback>>

\* The migration position i executes next, and its database.
Current(i) == applied[i] + 1
Target(i) == plan.envs[i]

Applies(i) == stage[i] = "running" /\ ~plan.dryRun /\ applied[i] < Migrations

\* ExecuteMigration UP succeeds: the version had no history record yet, and where
\* its effect was there already its statements bear that (IF NOT EXISTS).
Apply(i) ==
  /\ Applies(i) /\ ~canceled
  /\ Current(i) \notin db[Target(i)].history
  /\ db' = [db EXCEPT ![Target(i)] = [schema |-> @.schema \union {Current(i)},
                                      history |-> @.history \union {Current(i)}]]
  /\ applied' = [applied EXCEPT ![i] = @ + 1]
  /\ UNCHANGED <<call, faults, canceled, phase, outcome, health, probed, lo, hi, stage, report, rollback>>

\* Mutant: a failed migration is counted and the loop goes on.
ApplyFailsCounted(i) ==
  /\ Applies(i)
  /\ \/ CallFails
     \/ Current(i) \in db[Target(i)].history /\ UNCHANGED faults
  /\ applied' = [applied EXCEPT ![i] = @ + 1]
  /\ UNCHANGED <<call, db, canceled, phase, outcome, health, probed, lo, hi, stage, report, rollback>>

\* ExecuteMigration UP fails: nothing committed, as happens without any fault
\* when a statement defines what is there; committed and not recorded, as happens
\* when the version is recorded already; or done and the answer lost.
ApplyFails(i) ==
  /\ Applies(i)
  /\ \/ /\ UNCHANGED db
        /\ \/ CallFails
           \/ Current(i) \in db[Target(i)].schema \union db[Target(i)].history /\ UNCHANGED faults
     \/ /\ db' = [db EXCEPT ![Target(i)].schema = @ \union {Current(i)}]
        /\ CallFails \/ (Current(i) \in db[Target(i)].history /\ UNCHANGED faults)
     \/ /\ db' = [db EXCEPT ![Target(i)] = [schema |-> @.schema \union {Current(i)},
                                            history |-> @.history \union {Current(i)}]]
        /\ CallFails
  /\ Finish(i, "failed")
  /\ UNCHANGED <<call, canceled, phase, outcome, health, probed, lo, hi, applied, report, rollback>>

Succeed(i) ==
  /\ stage[i] = "running" /\ ~plan.dryRun /\ applied[i] = Migrations
  /\ Finish(i, "success")
  /\ UNCHANGED <<call, db, faults, canceled, phase, outcome, health, probed, lo, hi, applied, report, rollback>>

\* wg.Wait of the batch.
BatchDone == phase = "deploy" /\ \A i \in lo..hi : stage[i] \in {"success", "failed"}

\* The strategy returns: results keyed by name, the later position winning, and
\* the decision to roll back.
Collect ==
  /\ report' = [e \in Name |->
       LET last == {i \in 1..hi : /\ plan.envs[i] = e
                                  /\ \A j \in i + 1..hi : plan.envs[j] # e}
       IN  IF last = {} THEN "none" ELSE stage[CHOOSE i \in last : TRUE]]
  /\ phase' = IF plan.autoRollback /\ ~plan.dryRun /\ Failed # {} THEN "rollback" ELSE "done"
  /\ outcome' = IF phase' = "done" THEN "results" ELSE outcome
  /\ UNCHANGED <<lo, hi, stage>>

\* Mutant: the next batch starts whatever the last one did.
EndBatchAnyway ==
  /\ BatchDone
  /\ IF hi = Count THEN Collect
     ELSE StartBatch(hi + 1) /\ UNCHANGED <<phase, outcome, report>>
  /\ UNCHANGED <<call, db, faults, canceled, health, probed, applied, rollback>>

EndBatch ==
  /\ BatchDone
  /\ IF hi = Count \/ Failed # {} THEN Collect
     ELSE StartBatch(hi + 1) /\ UNCHANGED <<phase, outcome, report>>
  /\ UNCHANGED <<call, db, faults, canceled, health, probed, applied, rollback>>

\* RollingStrategy: the context is done during the pause after a batch.
StopBetweenBatches ==
  /\ BatchDone /\ plan.strategy = "rolling" /\ canceled
  /\ hi < Count /\ Failed = {}
  /\ Collect
  /\ UNCHANGED <<call, db, faults, canceled, health, probed, applied, rollback>>
-----------------------------------------------------------------------------
(* Auto-rollback: one environment after the other, in list order.          *)

\* The environment at the cursor was deployed successfully.
Reverts == report[Target(back)] = "success"

\* Not a success, or no connection: the environment is left as it is.
SkipEnvironment ==
  /\ phase = "rollback" /\ back <= Count /\ undo = 0
  /\ \/ ~Reverts /\ UNCHANGED faults
     \/ Reverts /\ CallFails
  /\ back' = back + 1
  /\ UNCHANGED <<call, db, canceled, phase, outcome, health, probed, deploy, report, undo>>

\* Mutant: the last migration is not reverted.
RevertFromNextToLast ==
  /\ phase = "rollback" /\ back <= Count /\ undo = 0
  /\ Reverts /\ ~canceled
  /\ undo' = Migrations - 1
  /\ report' = [report EXCEPT ![Target(back)] = "rolled_back"]
  /\ back' = IF undo' = 0 THEN back + 1 ELSE back
  /\ UNCHANGED <<call, db, faults, canceled, phase, outcome, health, probed, deploy>>

\* The connection is open; the environment counts as rolled back when the loop
\* over its migrations has ended.
RevertEnvironment ==
  /\ phase = "rollback" /\ back <= Count /\ undo = 0
  /\ Reverts /\ ~canceled
  /\ undo' = Migrations
  /\ report' = IF Migrations = 0 THEN [report EXCEPT ![Target(back)] = "rolled_back"] ELSE report
  /\ back' = IF Migrations = 0 THEN back + 1 ELSE back
  /\ UNCHANGED <<call, db, faults, canceled, phase, outcome, health, probed, deploy>>

\* What the down section of a migration takes out of a schema.
Undone(m) == {m} \intersect Reversible

\* One ExecuteMigration DOWN, which removes the history record even where there is
\* no statement to run; its error is dropped.
RevertMigration ==
  /\ phase = "rollback" /\ undo > 0
  /\ \/ /\ db' = [db EXCEPT ![Target(back)] = [schema |-> @.schema \ Undone(undo),
                                               history |-> @.history \ {undo}]]
        /\ ~canceled /\ UNCHANGED faults
     \/ UNCHANGED db /\ CallFails
     \/ db' = [db EXCEPT ![Target(back)].schema = @ \ Undone(undo)] /\ CallFails
  /\ undo' = undo - 1
  /\ report' = IF undo = 1 THEN [report EXCEPT ![Target(back)] = "rolled_back"] ELSE report
  /\ back' = IF undo = 1 THEN back + 1 ELSE back
  /\ UNCHANGED <<call, canceled, phase, outcome, health, probed, deploy>>

EndRollback ==
  /\ phase = "rollback" /\ back > Count
  /\ phase' = "done" /\ outcome' = "results"
  /\ UNCHANGED <<call, db, faults, canceled, health, probed, deploy, report, rollback>>
-----------------------------------------------------------------------------
Worker(i) ==
  Acquire(i) \/ DryRun(i) \/ ConnectFails(i) \/ Apply(i) \/ ApplyFails(i) \/ Succeed(i)

Coordinator ==
  \/ Resolve \/ VerifyHealth \/ DeployAll \/ EndBatch \/ StopBetweenBatches
  \/ SkipEnvironment \/ RevertEnvironment \/ RevertMigration \/ EndRollback

\* The call has returned.
Returned == phase = "done" /\ UNCHANGED vars

Next ==
  \/ Cancel \/ Coordinator \/ Returned
  \/ \E i \in Position : Probe(i) \/ Worker(i)

Spec == Init /\ [][Next]_vars

\* The goroutines run and their RPCs return; nobody has to cancel.
FairSpec ==
  /\ Spec
  /\ WF_vars(Coordinator)
  /\ WF_vars(\E i \in Position : Probe(i) \/ Worker(i))
-----------------------------------------------------------------------------
(* Properties.                                                             *)

\* Types; the current batch lies within the environment list.
TypeOK ==
  /\ plan \in Plans
  /\ db \in [Name -> Database] /\ initial \in [Name -> Database]
  /\ faults \in Nat /\ canceled \in BOOLEAN
  /\ phase \in {"resolve", "health", "strategy", "deploy", "rollback", "done"}
  /\ outcome \in {"none", "results", "error"}
  /\ health \in [Name -> {"none", "healthy", "unhealthy"}]
  /\ probed \subseteq Position
  /\ lo \in Nat /\ hi \in 0..Count
  /\ stage \in [Position -> {"idle", "queued", "running", "success", "failed"}]
  /\ applied \in [Position -> 0..Migrations]
  /\ report \in [Name -> {"none", "success", "failed", "rolled_back"}]
  /\ back \in 1..Count + 1 /\ undo \in 0..Migrations

\* The batch position i belongs to, told from the documented strategy alone.
BatchOf(i) ==
  CASE plan.strategy = "sequential" -> i
    [] plan.strategy = "parallel" -> 1
    [] plan.strategy = "rolling" -> (i - 1) \div BatchSize
    [] plan.strategy = "canary" -> IF i <= CanaryCount THEN 1 ELSE 2

\* Nothing is deployed beyond a batch that has not succeeded entirely: sequential
\* stops at the first failure, rolling at the first bad batch, and the remainder
\* waits for the canary.  The parallel strategy never has more than MaxConcurrent
\* environments in flight.
BatchGate ==
  /\ \A i, j \in Position :
       BatchOf(j) < BatchOf(i) /\ stage[i] # "idle" => stage[j] = "success"
  /\ plan.strategy = "parallel" /\ plan.size > 0 => Cardinality(Running) <= plan.size

\* A call that ends with an error has touched no database, and while an
\* environment is known to be unhealthy none is touched.
RefusalTouchesNothing ==
  \/ phase = "done" /\ outcome = "error"
  \/ /\ plan.verify /\ ~plan.dryRun
     /\ \E i \in Position : health[plan.envs[i]] # "healthy"
  \/ plan.dryRun
  => db = initial

\* Unless the context is canceled, results without a failure cover every
\* requested environment.
NoSilentGap ==
  outcome = "results" /\ ~canceled /\ Failed = {} =>
    \A i \in Position : report[plan.envs[i]] = "success"

\* What the call reports is so: a success means that all migrations are in effect
\* and recorded there, results without a failure leave no environment out, an error
\* means that nothing was touched (DeployToEnvironments, coordinator.go:84-184).
ReportMatchesDatabase ==
  /\ phase = "done" /\ ~plan.dryRun =>
       \A e \in Name : report[e] = "success" => Mig = db[e].schema /\ Mig = db[e].history
  /\ NoSilentGap
  /\ RefusalTouchesNothing

\* The database of e as the call found it, and what has no way back.
Restored(e) ==
  [schema |-> initial[e].schema \union Lasting, history |-> initial[e].history]

\* What was in effect or recorded before this deployment survives it, auto-rollback
\* and its faults included: only environments that recorded every migration anew are
\* rolled back.  Without faults an auto-rollback leaves no success behind, and an
\* environment it reports as rolled back has the history it had, and of this
\* deployment just the effect of the migrations without a down section
\* (rollback, coordinator.go:212-240; executor.go:84-88).
CleanRollback ==
  /\ \A e \in Name : /\ initial[e].history \subseteq db[e].history
                      /\ initial[e].schema \subseteq db[e].schema
  /\ phase = "done" /\ faults = 0 /\ plan.autoRollback /\ ~plan.dryRun /\ Failed # {} =>
       \A e \in Name :
         /\ report[e] # "success"
         /\ report[e] = "rolled_back" => db[e] = Restored(e)

\* The call returns: no strategy waits for a goroutine that waits for it.
Finishes == <>(phase = "done")
=============================================================================
