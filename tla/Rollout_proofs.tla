------------------------------ MODULE Rollout_proofs ------------------------------
(***************************************************************************)
(* Proofs about a deployment: for any calls, environments, migrations and   *)
(* faults, no batch overtakes another, what the call reports is so, and a   *)
(* rollback takes back what this call did and nothing else.                 *)
(***************************************************************************)
EXTENDS Rollout, FiniteSetTheorems, WellFoundedInduction, TLAPS

\* A strategy has begun to deploy.
Started == phase \in {"deploy", "rollback"} \/ outcome = "results"

\* What holds of a call by where it is.  In particular nothing has happened
\* before a strategy starts, and a strategy starts only on healthy environments.
PhaseInv ==
  /\ phase = "done" <=> outcome # "none"
  /\ phase \in {"health", "strategy"} => Count > 0
  /\ ~Started => /\ db = initial
                 /\ \A i \in Position : stage[i] = "idle" /\ applied[i] = 0
  /\ phase = "strategy" \/ Started =>
       (plan.verify /\ ~plan.dryRun => \A i \in Position : health[Target(i)] = "healthy")
  /\ phase = "rollback" => plan.autoRollback /\ ~plan.dryRun /\ Failed # {}
  /\ plan.dryRun => db = initial
  /\ canceled => faults > 0

\* A batch of the strategy begins at position i.
Begins(i) ==
  /\ plan.strategy = "parallel" => i = 1
  /\ plan.strategy = "rolling" => \E k \in Nat : i = BatchSize * k + 1
  /\ plan.strategy = "canary" => ValidPercentage /\ i \in {1, CanaryCount + 1}

\* The current batch is one of the strategy's; all before it has succeeded, and
\* nothing behind it has begun.
BatchInv ==
  Started =>
    /\ lo \in Position /\ hi = BatchEnd(lo) /\ Begins(lo)
    /\ \A i \in Position :
         /\ i < lo => stage[i] = "success"
         /\ i > hi => stage[i] = "idle"
         /\ i \in lo..hi => stage[i] # "idle" /\ (phase # "deploy" => stage[i] \in {"success", "failed"})

\* The semaphore.
LimitInv == plan.strategy = "parallel" => Cardinality(Running) <= Limit

\* What was in effect or recorded in e before stays so, and all of it was recorded
\* but for what has no way back.
Kept(e) ==
  /\ initial[e].schema \subseteq initial[e].history \union Lasting
  /\ initial[e].history \subseteq db[e].history
  /\ initial[e].schema \subseteq db[e].schema

\* What a position has executed was new to its database's history and is there as
\* long as the strategy runs.
AppliedInv ==
  /\ \A e \in Name : Kept(e)
  /\ \A i \in Position : \A m \in 1..applied[i] :
       /\ m \notin initial[Target(i)].history
       /\ phase = "deploy" => m \in db[Target(i)].schema /\ m \in db[Target(i)].history
  /\ \A i \in Position : stage[i] = "success" /\ ~plan.dryRun => applied[i] = Migrations

\* The first n migrations in effect and recorded, of the others what has no way back.
After(n) == [schema |-> 1..n \union Lasting, history |-> 1..n]

\* An environment reported as a success had nothing before the call and has
\* everything now, but for the one whose rollback is under way.
ReportInv ==
  /\ phase \notin {"rollback", "done"} => undo = 0 /\ back = 1 /\ \A e \in Name : report[e] = "none"
  /\ undo > 0 => phase = "rollback" /\ back <= Count /\ report[Target(back)] = "success"
  /\ \A e \in Name : report[e] = "success" => \E i \in Position : Target(i) = e
  /\ ~plan.dryRun => \A e \in Name : report[e] = "success" =>
       /\ initial[e].history = {}
       /\ undo = 0 \/ e # Target(back) => db[e] = After(Migrations)

\* Without faults the rollback removes the migrations one by one, and leaves no
\* success behind it.
UndoInv ==
  faults = 0 =>
    /\ undo > 0 => db[Target(back)] = After(undo)
    /\ \A e \in Name : report[e] = "rolled_back" => db[e] = Restored(e)
    /\ phase = "rollback" => \A i \in 1..back - 1 : report[Target(i)] # "success"
    /\ phase = "done" /\ plan.autoRollback /\ ~plan.dryRun /\ Failed # {} =>
         \A i \in Position : report[Target(i)] # "success"

\* The environments and options of a call are well typed.
LEMMA PlanType ==
  ASSUME TypeOK
  PROVE  /\ Count \in Nat /\ \A i \in Position : Target(i) \in Name
         /\ plan.strategy \in {"sequential", "parallel", "rolling", "canary"}
         /\ plan.size \in Nat /\ plan.pct \in Nat
         /\ plan.verify \in BOOLEAN /\ plan.autoRollback \in BOOLEAN /\ plan.dryRun \in BOOLEAN
BY PlansAssumption DEF TypeOK, Count, Position, Target

\* Everything that is computed from the call stays as it is.
LEMMA PlanStays ==
  ASSUME plan' = plan
  PROVE  /\ Count' = Count /\ Position' = Position /\ Limit' = Limit
         /\ \A i : Target(i)' = Target(i) /\ BatchEnd(i)' = BatchEnd(i) /\ Begins(i)' = Begins(i)
BY DEF Count, Position, Limit, Target, BatchEnd, Begins, BatchSize, CanaryCount, Percentage, ValidPercentage
-----------------------------------------------------------------------------
(* The shape of the batches.                                               *)

\* The canary has at least one environment and no more than there are.
LEMMA CanaryFits ==
  ASSUME TypeOK, ValidPercentage, Count > 0
  PROVE  CanaryCount \in Position
<1>1. Percentage \in 1..50 /\ Count \in Nat \ {0}
  BY PlanType DEF ValidPercentage
<1>2. \A n \in Nat \ {0}, p \in 1..50 : (n * p) \div 100 \in 0..n
  OBVIOUS
<1>. QED
  <2>1. (Count * Percentage) \div 100 \in 0..Count
    BY <1>1, <1>2
  <2>. QED
    BY <1>1, <2>1 DEF CanaryCount, Position

\* A batch that begins at a position ends there or later, within the list.
LEMMA BatchFits ==
  ASSUME TypeOK, NEW i \in Position, Begins(i)
  PROVE  BatchEnd(i) \in i..Count
<1>1. i \in 1..Count /\ Count \in Nat \ {0}
  BY PlanType DEF Position
<1>2. CASE plan.strategy \in {"sequential", "parallel"}
  BY <1>1, <1>2 DEF BatchEnd
<1>3. CASE plan.strategy = "rolling"
  BY <1>1, <1>3, PlanType DEF BatchEnd, BatchSize
<1>4. CASE plan.strategy = "canary"
  BY <1>1, <1>4, CanaryFits DEF BatchEnd, Begins, Position
<1>. QED
  BY <1>2, <1>3, <1>4, PlanType

\* The first batch begins at the first position.
LEMMA FirstBatch ==
  ASSUME TypeOK, Count > 0, plan.strategy = "canary" => ValidPercentage
  PROVE  1 \in Position /\ Begins(1)
<1>1. 1 \in Position
  BY PlanType DEF Position
<1>2. ASSUME plan.strategy = "rolling" PROVE 1 = BatchSize * 0 + 1
  BY PlanType DEF BatchSize
<1>. QED
  BY <1>1, <1>2 DEF Begins

\* Behind a batch begins the next.
LEMMA BatchesFollow ==
  ASSUME TypeOK, NEW i \in Position, Begins(i), BatchEnd(i) < Count
  PROVE  BatchEnd(i) + 1 \in Position /\ Begins(BatchEnd(i) + 1)
<1>1. BatchEnd(i) + 1 \in Position
  BY BatchFits, PlanType DEF Position
<1>2. plan.strategy # "parallel"
  BY PlanType DEF BatchEnd
<1>3. CASE plan.strategy = "sequential"
  BY <1>1, <1>3 DEF Begins
<1>4. CASE plan.strategy = "rolling"
  <2>1. BatchSize \in Nat /\ BatchEnd(i) = i + BatchSize - 1
    BY <1>4, PlanType DEF BatchEnd, BatchSize, Position
  <2>2. PICK k \in Nat : i = BatchSize * k + 1
    BY <1>4 DEF Begins
  <2>3. BatchEnd(i) + 1 = BatchSize * (k + 1) + 1
    BY <2>1, <2>2
  <2>. QED
    BY <1>1, <1>4, <2>3 DEF Begins
<1>5. CASE plan.strategy = "canary"
  BY <1>1, <1>5, CanaryFits, PlanType DEF BatchEnd, Begins, Position
<1>. QED
  BY <1>1, <1>2, <1>3, <1>4, <1>5, PlanType

\* A number between two multiples has the lower one's quotient.
LEMMA Quotient ==
  ASSUME NEW b \in Nat \ {0}, NEW k \in Nat, NEW a \in Nat
  PROVE  /\ a >= b * k => a \div b >= k
         /\ a < b * k + b => a \div b <= k
<1>. DEFINE q == a \div b
<1>1. q \in Nat /\ b * q <= a /\ a < b * q + b
  OBVIOUS
<1>. HIDE DEF q
<1>2. ASSUME a >= b * k, q < k PROVE FALSE
  <2>1. b * (q + 1) <= b * k
    BY <1>1, <1>2
  <2>. QED
    BY <1>1, <1>2, <2>1
<1>3. ASSUME a < b * k + b, q > k PROVE FALSE
  <2>1. b * (k + 1) <= b * q
    BY <1>1, <1>3
  <2>. QED
    BY <1>1, <1>3, <2>1
<1>. QED
  BY <1>1, <1>2, <1>3 DEF q

\* By the documented strategy a position from the beginning of a batch on is in no
\* earlier batch than a position before its end.
LEMMA BatchesAgree ==
  ASSUME TypeOK, NEW first \in Position, Begins(first),
         NEW i \in Position, NEW j \in Position, first <= j, i <= BatchEnd(first)
  PROVE  ~(BatchOf(j) < BatchOf(i))
<1>1. CASE plan.strategy = "sequential"
  BY <1>1, PlanType DEF BatchOf, BatchEnd, Position
<1>2. CASE plan.strategy = "parallel"
  BY <1>2 DEF BatchOf
<1>3. CASE plan.strategy = "canary"
  BY <1>3, CanaryFits, PlanType DEF BatchOf, BatchEnd, Begins, Position
<1>4. CASE plan.strategy = "rolling"
  <2>1. BatchSize \in Nat \ {0}
    BY PlanType DEF BatchSize
  <2>2. PICK k \in Nat : first = BatchSize * k + 1
    BY <1>4 DEF Begins
  <2>3. i <= first + BatchSize - 1
    BY <1>4, <2>1, PlanType DEF BatchEnd, Position
  <2>4. (j - 1) \div BatchSize >= k /\ (i - 1) \div BatchSize <= k
    <3>1. BatchSize * k \in Nat
      BY <2>1
    <3>2. i - 1 \in Nat /\ j - 1 \in Nat /\ j - 1 >= BatchSize * k /\ i - 1 < BatchSize * k + BatchSize
      BY <2>1, <2>2, <2>3, <3>1, PlanType DEF Position
    <3>. QED
      BY <2>1, <3>2, Quotient
  <2>5. (j - 1) \div BatchSize \in Int /\ (i - 1) \div BatchSize \in Int
    BY <2>1, PlanType DEF Position
  <2>. QED
    BY <1>4, <2>4, <2>5 DEF BatchOf
<1>. QED
  BY <1>1, <1>2, <1>3, <1>4, PlanType

\* A call and what it found never change.
LEMMA CallStays ==
  ASSUME [Next]_vars
  PROVE  /\ plan' = plan /\ initial' = initial /\ Count' = Count /\ Position' = Position /\ Limit' = Limit
         /\ \A i : Target(i)' = Target(i) /\ BatchEnd(i)' = BatchEnd(i) /\ Begins(i)' = Begins(i)
         /\ \A e : Restored(e)' = Restored(e) /\ (UNCHANGED db => Kept(e)' = Kept(e))
<1>1. plan' = plan /\ initial' = initial
  BY DEF Next, Coordinator, Worker, Cancel, Resolve, Probe, VerifyHealth, DeployAll, Acquire, DryRun, ConnectFails,
         Apply, ApplyFails, Succeed, EndBatch, StopBetweenBatches, SkipEnvironment, RevertEnvironment,
         RevertMigration, EndRollback, Returned, call, vars
<1>2. \A e : Restored(e)' = Restored(e) /\ (UNCHANGED db => Kept(e)' = Kept(e))
  BY <1>1 DEF Restored, Kept
<1>. QED
  BY <1>1, <1>2, PlanStays
-----------------------------------------------------------------------------
\* Of the positions up to n with one environment there is a last.
LEMMA LastPosition ==
  ASSUME NEW n \in Nat, NEW i \in 1..n
  PROVE  \E k \in 1..n : Target(k) = Target(i) /\ \A j \in k + 1..n : Target(j) # Target(i)
<1>. DEFINE Same == {k \in 1..n : Target(k) = Target(i)}
            Behind == {n - k : k \in Same}
<1>1. Behind \subseteq Nat /\ n - i \in Behind
  OBVIOUS
<1>2. PICK x \in Behind : \A y \in Behind : ~(<<y, x>> \in OpToRel(<, Nat))
  BY <1>1, NatLessThanWellFounded, WFMin
<1>3. \A y \in Behind : ~(y < x)
  BY <1>1, <1>2 DEF OpToRel
<1>4. PICK k \in Same : x = n - k
  BY <1>2
<1>5. ASSUME NEW j \in k + 1..n, j \in Same PROVE FALSE
  <2>1. n - j \in Behind /\ n - j < x
    BY <1>4, <1>5
  <2>. QED
    BY <1>3, <2>1
<1>. QED
  BY <1>4, <1>5

\* A position runs only while the strategy does.
LEMMA RunningDeploys ==
  ASSUME TypeOK, PhaseInv, BatchInv, NEW i \in Position, stage[i] = "running"
  PROVE  phase = "deploy"
<1>1. Started
  BY DEF PhaseInv
<1>2. i \in lo..hi
  BY <1>1, BatchFits, PlanType DEF BatchInv, TypeOK, Position
<1>. QED
  BY <1>1, <1>2 DEF BatchInv

\* ExecuteMigration UP takes nothing from its database, whatever it answers.
LEMMA Grows ==
  ASSUME TypeOK, NEW i \in Position, Apply(i) \/ ApplyFails(i)
  PROVE  /\ db' \in [Name -> Database]
         /\ \A e \in Name : db[e].schema \subseteq db'[e].schema /\ db[e].history \subseteq db'[e].history
<1>. DEFINE e0 == Target(i)
            m == Current(i)
<1>1. e0 \in Name /\ m \in Mig /\ db[e0] \in Database /\ db \in [Name -> Database]
  BY PlanType, CountAssumption DEF TypeOK, Apply, ApplyFails, Applies, Current, Mig
<1>2. \/ db' = db
      \/ db' = [db EXCEPT ![e0].schema = @ \union {m}]
      \/ db' = [db EXCEPT ![e0] = [schema |-> @.schema \union {m}, history |-> @.history \union {m}]]
  BY DEF Apply, ApplyFails
<1>. HIDE DEF e0, m
<1>. QED
  BY <1>1, <1>2 DEF Database

\* What the strategy returns for an environment is what a position of it came to.
LEMMA Collected ==
  ASSUME TypeOK, PhaseInv, BatchInv, BatchDone, Collect
  PROVE  /\ report' \in [Name -> {"none", "success", "failed"}]
         /\ \A e \in Name : report'[e] # "none" => \E k \in 1..hi : Target(k) = e /\ report'[e] = stage[k]
         /\ \A i \in 1..hi : \E k \in 1..hi : Target(k) = Target(i) /\ report'[Target(i)] = stage[k]
<1>1. hi \in 1..Count /\ 1..hi \subseteq Position /\ \A k \in 1..hi : stage[k] \in {"success", "failed"}
  <2>1. Started
    BY DEF BatchDone, Started
  <2>2. hi \in lo..Count /\ lo \in Position
    BY <2>1, BatchFits DEF BatchInv
  <2>. QED
    BY <2>1, <2>2, PlanType DEF BatchInv, BatchDone, Position
<1>. DEFINE last(e) == {i \in 1..hi : Target(i) = e /\ \A j \in i + 1..hi : Target(j) # e}
<1>2. report' = [e \in Name |-> IF last(e) = {} THEN "none" ELSE stage[CHOOSE i \in last(e) : TRUE]]
  BY DEF Collect, Target
<1>3. \A e \in Name : last(e) # {} => (CHOOSE i \in last(e) : TRUE) \in last(e)
  OBVIOUS
<1>4. \A e \in Name : last(e) # {} => \E k \in 1..hi : Target(k) = e /\ report'[e] = stage[k]
  BY <1>2, <1>3
<1>5. ASSUME NEW i \in 1..hi PROVE last(Target(i)) # {} /\ Target(i) \in Name
  <2>1. PICK k \in 1..hi : Target(k) = Target(i) /\ \A j \in k + 1..hi : Target(j) # Target(i)
    <3>1. hi \in Nat
      BY <1>1, PlanType
    <3>. QED
      BY <3>1, LastPosition
  <2>2. k \in last(Target(i))
    BY <2>1
  <2>. QED
    BY <1>1, <2>2, PlanType
<1>. QED
  BY <1>1, <1>2, <1>4, <1>5

\* An environment deployed successfully had none of the migrations and has all.
LEMMA SuccessIsFull ==
  ASSUME TypeOK, AppliedInv, phase = "deploy", ~plan.dryRun, NEW k \in Position, stage[k] = "success"
  PROVE  db[Target(k)] = After(Migrations) /\ initial[Target(k)].history = {}
<1>1. Target(k) \in Name /\ db[Target(k)] \in Database /\ initial[Target(k)] \in Database
  BY PlanType DEF TypeOK
<1>2. \A m \in Mig : /\ m \notin initial[Target(k)].history
                     /\ m \in db[Target(k)].schema /\ m \in db[Target(k)].history
  BY DEF AppliedInv, Mig
<1>. QED
  BY <1>1, <1>2 DEF Database, After, Mig, Lasting
-----------------------------------------------------------------------------

\* The end of the strategy: the report holds, and the rollback has all before it.
LEMMA CollectReport ==
  ASSUME TypeOK, PhaseInv, BatchInv, AppliedInv, ReportInv, BatchDone, Collect,
         plan' = plan, UNCHANGED <<db, initial, rollback>>
  PROVE  ReportInv'
<1>1. phase = "deploy" /\ phase' \in {"rollback", "done"} /\ undo' = 0 /\ Position' = Position
      /\ \A i : Target(i)' = Target(i)
  BY PlanStays DEF BatchDone, Collect, ReportInv, rollback
<1>2. \A e \in Name : report'[e] = "success" => \E k \in Position : Target(k) = e /\ stage[k] = "success"
  <2>1. 1..hi \subseteq Position
    BY PlanType DEF TypeOK, Position
  <2>. QED
    BY <2>1, Collected
<1>. QED
  BY <1>1, <1>2, SuccessIsFull DEF ReportInv

LEMMA CollectUndo ==
  ASSUME TypeOK, PhaseInv, BatchInv, ReportInv, BatchDone, Collect,
         plan' = plan, UNCHANGED <<db, initial, rollback>>
  PROVE  UndoInv'
<1>1. undo' = 0 /\ back' = 1 /\ \A e \in Name : report'[e] # "rolled_back"
  BY Collected DEF BatchDone, ReportInv, rollback
<1>2. phase' = "done" => ~(plan'.autoRollback /\ ~plan'.dryRun /\ Failed' # {})
  BY DEF Collect, Failed, Position, Count
<1>. QED
  BY <1>1, <1>2 DEF UndoInv

\* There are finitely many positions.
LEMMA PositionsFinite ==
  ASSUME TypeOK
  PROVE  IsFiniteSet(Running)
<1>1. IsFiniteSet(Position)
  BY PlanType, FS_Interval DEF Position
<1>2. Running \in SUBSET Position
  BY DEF Running
<1>. QED
  BY <1>1, <1>2, FS_Subset

\* The semaphore is never fuller than before when no position begins to run.
LEMMA FewerRun ==
  ASSUME TypeOK, LimitInv, plan' = plan, Running' \subseteq Running
  PROVE  LimitInv'
<1>1. IsFiniteSet(Running)
  BY PositionsFinite
<1>2. IsFiniteSet(Running') /\ Cardinality(Running') <= Cardinality(Running)
  BY <1>1, FS_Subset
<1>3. Cardinality(Running') \in Nat /\ Cardinality(Running) \in Nat /\ Limit \in Nat
  BY <1>1, <1>2, FS_CardinalityType, PlanType DEF Limit
<1>. QED
  BY <1>2, <1>3, PlanStays DEF LimitInv
-----------------------------------------------------------------------------
\* Types are kept; above all the batch stays within the list.
LEMMA TypeStep ==
  ASSUME TypeOK, PhaseInv, BatchInv, ReportInv, [Next]_vars
  PROVE  TypeOK'
<1>. USE CallStays, PlanType, CountAssumption DEF TypeOK
<1>1. CASE Cancel
  <2>1. faults' \in Nat
    BY <1>1 DEF Cancel, Fault
  <2>2. canceled' \in BOOLEAN
    BY <1>1 DEF Cancel
  <2>. QED
    BY <1>1, <2>1, <2>2 DEF Cancel, call, deploy, rollback
<1>2. CASE Resolve
  BY <1>2 DEF Resolve, Refuse, call, deploy, rollback, vars
<1>3. ASSUME NEW i \in Position, Probe(i) PROVE TypeOK'
  BY <1>3 DEF Probe, CallFails, Fault, call, deploy, rollback, vars
<1>4. CASE VerifyHealth
  BY <1>4 DEF VerifyHealth, Refuse, call, deploy, rollback, vars
<1>5. CASE DeployAll
  <2>1. CASE Refuse /\ UNCHANGED <<lo, hi, stage>>
    BY <1>5, <2>1 DEF DeployAll, Refuse, call, rollback
  <2>2. CASE StartBatch(1) /\ phase' = "deploy" /\ UNCHANGED outcome /\ (plan.strategy = "canary" => ValidPercentage)
    <3>1. 1 \in Position /\ Begins(1)
      BY <1>5, <2>2, FirstBatch DEF DeployAll, PhaseInv
    <3>2. BatchEnd(1) \in 0..Count
      BY <3>1, BatchFits
    <3>3. lo' \in Nat /\ hi' \in 0..Count /\ stage' \in [Position -> {"idle", "queued", "running", "success", "failed"}]
      BY <2>2, <3>2 DEF StartBatch
    <3>. QED
      BY <1>5, <2>2, <3>3 DEF DeployAll, call, rollback
  <2>. QED
    BY <1>5, <2>1, <2>2 DEF DeployAll
<1>6. ASSUME NEW i \in Position, Acquire(i) PROVE TypeOK'
  BY <1>6 DEF Acquire, call, deploy, rollback, vars
<1>7. ASSUME NEW i \in Position, DryRun(i) PROVE TypeOK'
  BY <1>7 DEF DryRun, Finish, call, deploy, rollback, vars
<1>8. ASSUME NEW i \in Position, ConnectFails(i) PROVE TypeOK'
  BY <1>8 DEF ConnectFails, Finish, CallFails, Fault, call, deploy, rollback, vars
<1>9. ASSUME NEW i \in Position, Apply(i) PROVE TypeOK'
  <2>1. db' \in [Name -> Database]
    BY <1>9, Grows
  <2>. QED
    BY <1>9, <2>1 DEF Apply, Applies, call, rollback
<1>10. ASSUME NEW i \in Position, ApplyFails(i) PROVE TypeOK'
  <2>1. db' \in [Name -> Database]
    BY <1>10, Grows
  <2>2. faults' \in Nat
    BY <1>10 DEF ApplyFails, CallFails, Fault
  <2>. QED
    BY <1>10, <2>1, <2>2 DEF ApplyFails, Finish, call, rollback
<1>11. ASSUME NEW i \in Position, Succeed(i) PROVE TypeOK'
  BY <1>11 DEF Succeed, Finish, call, deploy, rollback, vars
<1>12. CASE EndBatch
  <2>1. CASE Collect
    <3>1. report' \in [Name -> {"none", "success", "failed", "rolled_back"}]
      BY <1>12, <2>1, Collected DEF EndBatch
    <3>2. phase' \in {"rollback", "done"} /\ outcome' \in {"none", "results", "error"} /\ UNCHANGED <<lo, hi, stage>>
      BY <2>1 DEF Collect
    <3>. QED
      BY <1>12, <3>1, <3>2 DEF EndBatch, call, rollback
  <2>2. CASE hi # Count /\ Failed = {} /\ StartBatch(hi + 1) /\ UNCHANGED <<phase, outcome, report>>
    <3>1. hi = BatchEnd(lo) /\ lo \in Position /\ Begins(lo) /\ hi < Count
      BY <1>12, <2>2 DEF EndBatch, BatchDone, BatchInv, Started
    <3>2. BatchEnd(hi + 1) \in 0..Count
      BY <3>1, BatchesFollow, BatchFits
    <3>3. lo' \in Nat /\ hi' \in 0..Count /\ stage' \in [Position -> {"idle", "queued", "running", "success", "failed"}]
      BY <2>2, <3>2 DEF StartBatch
    <3>. QED
      BY <1>12, <2>2, <3>3 DEF EndBatch, call, rollback
  <2>. QED
    BY <1>12, <2>1, <2>2 DEF EndBatch
<1>13. CASE StopBetweenBatches
  <2>1. report' \in [Name -> {"none", "success", "failed", "rolled_back"}]
    BY <1>13, Collected DEF StopBetweenBatches
  <2>2. phase' \in {"rollback", "done"} /\ outcome' \in {"none", "results", "error"} /\ UNCHANGED <<lo, hi, stage>>
    BY <1>13 DEF StopBetweenBatches, Collect
  <2>. QED
    BY <1>13, <2>1, <2>2 DEF StopBetweenBatches, call, rollback
<1>14. CASE SkipEnvironment
  BY <1>14 DEF SkipEnvironment, CallFails, Fault, Reverts, call, deploy, rollback, vars
<1>15. CASE RevertEnvironment
  <2>1. Target(back) \in Name
    BY <1>15 DEF RevertEnvironment, Position
  <2>2. report' \in [Name -> {"none", "success", "failed", "rolled_back"}] /\ back' \in 1..Count + 1
    BY <1>15, <2>1 DEF RevertEnvironment
  <2>. QED
    BY <1>15, <2>2 DEF RevertEnvironment, call, deploy
<1>16. CASE RevertMigration
  <2>1. Target(back) \in Name /\ db[Target(back)] \in Database
    BY <1>16 DEF RevertMigration, Position, ReportInv
  <2>2. \/ db' = db
        \/ db' = [db EXCEPT ![Target(back)].schema = @ \ Undone(undo)]
        \/ db' = [db EXCEPT ![Target(back)] = [schema |-> @.schema \ Undone(undo), history |-> @.history \ {undo}]]
    BY <1>16 DEF RevertMigration
  <2>3. db' \in [Name -> Database]
    BY <2>1, <2>2 DEF Database
  <2>4. report' \in [Name -> {"none", "success", "failed", "rolled_back"}]
    BY <1>16, <2>1 DEF RevertMigration
  <2>6. back' \in 1..Count + 1
    BY <1>16 DEF RevertMigration, ReportInv
  <2>7. undo' \in 0..Migrations
    BY <1>16 DEF RevertMigration
  <2>5. faults' \in Nat
    BY <1>16 DEF RevertMigration, CallFails, Fault
  <2>. QED
    BY <1>16, <2>3, <2>4, <2>5, <2>6, <2>7 DEF RevertMigration, call, deploy
<1>17. CASE EndRollback
  BY <1>17 DEF EndRollback, call, deploy, rollback, vars
<1>18. CASE Returned \/ UNCHANGED vars
  BY <1>18 DEF Returned, call, deploy, rollback, vars
<1>. QED
  BY <1>1, <1>2, <1>3, <1>4, <1>5, <1>6, <1>7, <1>8, <1>9, <1>10, <1>11, <1>12, <1>13, <1>14, <1>15, <1>16, <1>17, <1>18
  DEF Next, Coordinator, Worker

\* The phases follow one another: what a phase relies on, the one before has left.
LEMMA PhaseStep ==
  ASSUME TypeOK, PhaseInv, BatchInv, [Next]_vars
  PROVE  PhaseInv'
<1>. USE CallStays, PlanType DEF TypeOK, PhaseInv, Started, Failed
<1>1. CASE Cancel
  <2>1. faults' > 0
    BY <1>1 DEF Cancel, Fault
  <2>. QED
    BY <1>1, <2>1 DEF Cancel, call, deploy, rollback
<1>2. CASE Resolve
  BY <1>2 DEF Resolve, Refuse, call, deploy, rollback, vars
<1>3. ASSUME NEW i \in Position, Probe(i) PROVE PhaseInv'
  BY <1>3 DEF Probe, CallFails, Fault, call, deploy, rollback, vars
<1>4. CASE VerifyHealth
  <2>1. CASE Refuse
    BY <1>4, <2>1 DEF VerifyHealth, Refuse, call, deploy, rollback
  <2>2. CASE /\ \A i \in Position : health[Target(i)] = "healthy"
             /\ phase' = "strategy" /\ UNCHANGED outcome
    <3>1. phase = "health" /\ UNCHANGED <<db, initial, plan, health, stage, applied, faults, canceled>>
      BY <1>4 DEF VerifyHealth, call, deploy
    <3>2. outcome = "none" /\ outcome' = "none"
      BY <2>2, <3>1
    <3>3. Count > 0
      BY <3>1
    <3>. QED
      BY <2>2, <3>1, <3>2, <3>3
  <2>. QED
    BY <1>4, <2>1, <2>2 DEF VerifyHealth, Target
<1>5. CASE DeployAll
  BY <1>5 DEF DeployAll, Refuse, StartBatch, call, deploy, rollback, vars
<1>6. ASSUME NEW i \in Position, Acquire(i) PROVE PhaseInv'
  BY <1>6 DEF Acquire, call, deploy, rollback, vars
<1>7. ASSUME NEW i \in Position, DryRun(i) PROVE PhaseInv'
  BY <1>7 DEF DryRun, Finish, call, deploy, rollback, vars
<1>8. ASSUME NEW i \in Position, ConnectFails(i) PROVE PhaseInv'
  BY <1>8 DEF ConnectFails, Finish, CallFails, Fault, call, deploy, rollback, vars
<1>9. ASSUME NEW i \in Position, Apply(i) PROVE PhaseInv'
  BY <1>9 DEF Apply, Applies, Current, call, deploy, rollback, vars
<1>10. ASSUME NEW i \in Position, ApplyFails(i) PROVE PhaseInv'
  BY <1>10 DEF ApplyFails, Applies, Current, Finish, CallFails, Fault, call, deploy, rollback, vars
<1>11. ASSUME NEW i \in Position, Succeed(i) PROVE PhaseInv'
  BY <1>11 DEF Succeed, Finish, call, deploy, rollback, vars
<1>12. CASE EndBatch
  BY <1>12 DEF EndBatch, BatchDone, Collect, StartBatch, call, deploy, rollback, vars
<1>13. CASE StopBetweenBatches
  BY <1>13 DEF StopBetweenBatches, BatchDone, Collect, call, deploy, rollback, vars
<1>14. CASE SkipEnvironment
  BY <1>14 DEF SkipEnvironment, CallFails, Fault, Reverts, call, deploy, rollback, vars
<1>15. CASE RevertEnvironment
  BY <1>15 DEF RevertEnvironment, Reverts, call, deploy, rollback, vars
<1>16. CASE RevertMigration
  BY <1>16 DEF RevertMigration, CallFails, Fault, call, deploy, rollback, vars
<1>17. CASE EndRollback
  BY <1>17 DEF EndRollback, call, deploy, rollback, vars
<1>18. CASE Returned \/ UNCHANGED vars
  BY <1>18 DEF Returned, call, deploy, rollback, vars
<1>. QED
  BY <1>1, <1>2, <1>3, <1>4, <1>5, <1>6, <1>7, <1>8, <1>9, <1>10, <1>11, <1>12, <1>13, <1>14, <1>15, <1>16, <1>17, <1>18
  DEF Next, Coordinator, Worker

\* The next batch begins behind one that has succeeded; a position leaves idle with
\* its batch.
LEMMA BatchStep ==
  ASSUME TypeOK, PhaseInv, BatchInv, [Next]_vars
  PROVE  BatchInv'
<1>. USE CallStays, PlanType DEF TypeOK, PhaseInv, BatchInv, Started
<1>1. CASE Cancel
  BY <1>1 DEF Cancel, Fault, call, deploy, rollback, vars
<1>2. CASE Resolve
  BY <1>2 DEF Resolve, Refuse, call, deploy, rollback, vars
<1>3. ASSUME NEW i \in Position, Probe(i) PROVE BatchInv'
  BY <1>3 DEF Probe, CallFails, Fault, call, deploy, rollback, vars
<1>4. CASE VerifyHealth
  BY <1>4 DEF VerifyHealth, Refuse, call, deploy, rollback, vars
<1>5. CASE DeployAll
  <2>1. CASE Refuse /\ UNCHANGED <<lo, hi, stage>>
    BY <1>5, <2>1 DEF DeployAll, Refuse
  <2>2. CASE StartBatch(1) /\ phase' = "deploy" /\ UNCHANGED outcome /\ (plan.strategy = "canary" => ValidPercentage)
    <3>1. 1 \in Position /\ Begins(1) /\ BatchEnd(1) \in 1..Count /\ phase = "strategy" /\ ~Started
      BY <1>5, <2>2, FirstBatch, BatchFits DEF DeployAll
    <3>2. /\ lo' = 1 /\ hi' = BatchEnd(1)
          /\ stage' = [j \in Position |-> IF j \in 1..BatchEnd(1) THEN "queued" ELSE stage[j]]
      BY <2>2 DEF StartBatch
    <3>3. lo' \in Position' /\ hi' = BatchEnd(lo)' /\ Begins(lo)'
      BY <3>1, <3>2
    <3>4. \A i \in Position :
            /\ ~(i < lo')
            /\ i > hi' => stage'[i] = "idle"
            /\ i \in lo'..hi' => stage'[i] = "queued"
      BY <3>1, <3>2 DEF Position
    <3>. QED
      BY <2>2, <3>3, <3>4
  <2>. QED
    BY <1>5, <2>1, <2>2 DEF DeployAll
<1>6. ASSUME NEW i \in Position, Acquire(i) PROVE BatchInv'
  BY <1>6 DEF Acquire, call, deploy, rollback, vars
<1>7. ASSUME NEW i \in Position, DryRun(i) PROVE BatchInv'
  BY <1>7 DEF DryRun, Finish, call, deploy, rollback, vars
<1>8. ASSUME NEW i \in Position, ConnectFails(i) PROVE BatchInv'
  BY <1>8 DEF ConnectFails, Finish, CallFails, Fault, call, deploy, rollback, vars
<1>9. ASSUME NEW i \in Position, Apply(i) PROVE BatchInv'
  BY <1>9 DEF Apply, Applies, Current, call, deploy, rollback, vars
<1>10. ASSUME NEW i \in Position, ApplyFails(i) PROVE BatchInv'
  BY <1>10 DEF ApplyFails, Applies, Current, Finish, CallFails, Fault, call, deploy, rollback, vars
<1>11. ASSUME NEW i \in Position, Succeed(i) PROVE BatchInv'
  BY <1>11 DEF Succeed, Finish, call, deploy, rollback, vars
<1>12. CASE EndBatch
  <2>1. CASE Collect
    BY <1>12, <2>1 DEF EndBatch, BatchDone, Collect
  <2>2. CASE hi # Count /\ Failed = {} /\ StartBatch(hi + 1) /\ UNCHANGED <<phase, outcome, report>>
    <3>1. hi = BatchEnd(lo) /\ lo \in Position /\ Begins(lo) /\ hi < Count /\ Started
      BY <1>12, <2>2 DEF EndBatch, BatchDone
    <3>2. hi + 1 \in Position /\ Begins(hi + 1) /\ BatchEnd(hi + 1) \in hi + 1..Count
      BY <3>1, BatchesFollow, BatchFits
    <3>3. \A i \in Position : i < hi + 1 => stage[i] = "success"
      <4>1. \A i \in lo..hi : stage[i] \in {"success", "failed"}
        BY <1>12 DEF EndBatch, BatchDone
      <4>2. \A i \in Position : stage[i] # "failed"
        BY <2>2 DEF Failed
      <4>3. \A i \in Position : i < lo => stage[i] = "success"
        BY <3>1
      <4>. QED
        BY <3>1, <4>1, <4>2, <4>3 DEF Position
    <3>4. /\ lo' = hi + 1 /\ hi' = BatchEnd(hi + 1)
          /\ stage' = [j \in Position |-> IF j \in hi + 1..BatchEnd(hi + 1) THEN "queued" ELSE stage[j]]
      BY <2>2 DEF StartBatch
    <3>5. \A i \in Position : i > hi => stage[i] = "idle"
      BY <3>1
    <3>6. lo' \in Position' /\ hi' = BatchEnd(lo)' /\ Begins(lo)'
      BY <3>2, <3>4
    <3>7. \A i \in Position :
            /\ i < lo' => stage'[i] = "success"
            /\ i > hi' => stage'[i] = "idle"
            /\ i \in lo'..hi' => stage'[i] = "queued"
      BY <3>2, <3>3, <3>4, <3>5 DEF Position
    <3>8. phase' = "deploy"
      BY <1>12, <2>2 DEF EndBatch, BatchDone
    <3>. QED
      BY <3>6, <3>7, <3>8
  <2>. QED
    BY <1>12, <2>1, <2>2 DEF EndBatch
<1>13. CASE StopBetweenBatches
  BY <1>13 DEF StopBetweenBatches, BatchDone, Collect, call, deploy, rollback, vars
<1>14. CASE SkipEnvironment
  BY <1>14 DEF SkipEnvironment, CallFails, Fault, Reverts, call, deploy, rollback, vars
<1>15. CASE RevertEnvironment
  BY <1>15 DEF RevertEnvironment, Reverts, call, deploy, rollback, vars
<1>16. CASE RevertMigration
  BY <1>16 DEF RevertMigration, CallFails, Fault, call, deploy, rollback, vars
<1>17. CASE EndRollback
  BY <1>17 DEF EndRollback, call, deploy, rollback, vars
<1>18. CASE Returned \/ UNCHANGED vars
  BY <1>18 DEF Returned, call, deploy, rollback, vars
<1>. QED
  BY <1>1, <1>2, <1>3, <1>4, <1>5, <1>6, <1>7, <1>8, <1>9, <1>10, <1>11, <1>12, <1>13, <1>14, <1>15, <1>16, <1>17, <1>18
  DEF Next, Coordinator, Worker

\* The UNIQUE index makes a position stop at a version its database has; the rollback
\* reverts where nothing was before.
LEMMA AppliedStep ==
  ASSUME TypeOK, PhaseInv, BatchInv, AppliedInv, ReportInv, [Next]_vars
  PROVE  AppliedInv'
<1>. USE CallStays, PlanType DEF TypeOK, PhaseInv, BatchInv, AppliedInv, Started, Database
<1>1. CASE Cancel
  <2>1. UNCHANGED <<initial, plan, db, phase, stage, applied>>
    BY <1>1 DEF Cancel, call, deploy
  <2>. QED
    BY <2>1
<1>2. CASE Resolve
  BY <1>2 DEF Resolve, Refuse, call, deploy, rollback, vars
<1>3. ASSUME NEW i \in Position, Probe(i) PROVE AppliedInv'
  BY <1>3 DEF Probe, CallFails, Fault, call, deploy, rollback, vars
<1>4. CASE VerifyHealth
  BY <1>4 DEF VerifyHealth, Refuse, call, deploy, rollback, vars
<1>5. CASE DeployAll
  BY <1>5 DEF DeployAll, Refuse, StartBatch, call, deploy, rollback, vars
<1>6. ASSUME NEW i \in Position, Acquire(i) PROVE AppliedInv'
  BY <1>6 DEF Acquire, call, deploy, rollback, vars
<1>7. ASSUME NEW i \in Position, DryRun(i) PROVE AppliedInv'
  BY <1>7 DEF DryRun, Finish, call, deploy, rollback, vars
<1>8. ASSUME NEW i \in Position, ConnectFails(i) PROVE AppliedInv'
  BY <1>8 DEF ConnectFails, Finish, CallFails, Fault, call, deploy, rollback, vars
<1>9. ASSUME NEW i \in Position, Apply(i) PROVE AppliedInv'
  <2>. DEFINE e0 == Target(i)
              m0 == Current(i)
  <2>1. e0 \in Name /\ db \in [Name -> Database] /\ applied[i] \in Nat /\ m0 = applied[i] + 1 /\ m0 \notin db[e0].history
    BY <1>9, CountAssumption DEF Apply, Applies, Current
  <2>2. /\ db' = [db EXCEPT ![e0] = [schema |-> @.schema \union {m0}, history |-> @.history \union {m0}]]
        /\ applied' = [applied EXCEPT ![i] = @ + 1] /\ UNCHANGED <<phase, stage>>
        /\ stage[i] = "running"
    BY <1>9 DEF Apply, Applies
  <2>3. \A e \in Name : db[e].schema \subseteq db'[e].schema /\ db[e].history \subseteq db'[e].history
    BY <1>9, Grows
  <2>4. m0 \in db'[e0].schema /\ m0 \in db'[e0].history
    BY <2>1, <2>2
  <2>5. m0 \notin initial[e0].history
    BY <2>1 DEF Kept
  <2>. HIDE DEF e0, m0
  <2>6. \A e \in Name : Kept(e)'
    BY <2>3 DEF Kept
  <2>7. ASSUME NEW k \in Position, NEW m \in 1..applied'[k]
        PROVE  /\ m \notin initial[Target(k)].history
               /\ phase' = "deploy" => m \in db'[Target(k)].schema /\ m \in db'[Target(k)].history
    <3>1. CASE k = i /\ m = m0
      BY <2>4, <2>5, <3>1 DEF e0
    <3>2. CASE m \in 1..applied[k]
      BY <2>2, <2>3, <3>2
    <3>. QED
      BY <2>1, <2>2, <2>7, <3>1, <3>2
  <2>8. \A k \in Position : stage'[k] = "success" /\ ~plan.dryRun => applied'[k] = Migrations
    BY <2>2
  <2>. QED
    BY <2>6, <2>7, <2>8
<1>10. ASSUME NEW i \in Position, ApplyFails(i) PROVE AppliedInv'
  <2>1. \A e \in Name : db[e].schema \subseteq db'[e].schema /\ db[e].history \subseteq db'[e].history
    BY <1>10, Grows
  <2>2. stage' = [stage EXCEPT ![i] = "failed"] /\ UNCHANGED <<applied, phase>>
    BY <1>10 DEF ApplyFails, Finish
  <2>3. \A e \in Name : Kept(e)'
    BY <2>1 DEF Kept
  <2>. QED
    BY <2>1, <2>2, <2>3
<1>11. ASSUME NEW i \in Position, Succeed(i) PROVE AppliedInv'
  BY <1>11 DEF Succeed, Finish, call, deploy, rollback, vars
<1>12. CASE EndBatch
  BY <1>12 DEF EndBatch, BatchDone, Collect, StartBatch, call, deploy, rollback, vars
<1>13. CASE StopBetweenBatches
  BY <1>13 DEF StopBetweenBatches, BatchDone, Collect, call, deploy, rollback, vars
<1>14. CASE SkipEnvironment
  BY <1>14 DEF SkipEnvironment, CallFails, Fault, Reverts, call, deploy, rollback, vars
<1>15. CASE RevertEnvironment
  BY <1>15 DEF RevertEnvironment, Reverts, call, deploy, rollback, vars
<1>16. CASE RevertMigration
  <2>. DEFINE e0 == Target(back)
  <2>1. e0 \in Name /\ initial[e0].history = {}
    BY <1>16 DEF RevertMigration, ReportInv, Position
  <2>2. \A e \in Name \ {e0} : db'[e] = db[e]
    BY <1>16 DEF RevertMigration
  <2>3. UNCHANGED <<applied, stage, phase>> /\ phase # "deploy"
    BY <1>16 DEF RevertMigration, deploy
  <2>. HIDE DEF e0
  <2>4. \A e \in Name : Kept(e)'
    <3>1. initial[e0].schema \subseteq Lasting
      BY <2>1 DEF Kept
    <3>2. \A m \in db[e0].schema : m \in Lasting => m \in db'[e0].schema
      <4>1. db \in [Name -> Database] /\ \A m \in Lasting : m \notin Undone(undo)
        BY DEF Lasting, Undone
      <4>2. \/ db' = db
            \/ db' = [db EXCEPT ![e0] = [schema |-> @.schema \ Undone(undo), history |-> @.history \ {undo}]]
            \/ db' = [db EXCEPT ![e0].schema = @ \ Undone(undo)]
        BY <1>16 DEF RevertMigration, e0
      <4>. QED
        BY <2>1, <4>1, <4>2
    <3>. QED
      BY <2>1, <2>2, <3>1, <3>2 DEF Kept
  <2>5. \A k \in Position : \A m \in 1..applied[k] : m \notin initial[Target(k)].history
    OBVIOUS
  <2>6. \A k \in Position : stage[k] = "success" /\ ~plan.dryRun => applied[k] = Migrations
    OBVIOUS
  <2>. QED
    BY <2>3, <2>4, <2>5, <2>6
<1>17. CASE EndRollback
  BY <1>17 DEF EndRollback, call, deploy, rollback, vars
<1>18. CASE Returned \/ UNCHANGED vars
  BY <1>18 DEF Returned, call, deploy, rollback, vars
<1>. QED
  BY <1>1, <1>2, <1>3, <1>4, <1>5, <1>6, <1>7, <1>8, <1>9, <1>10, <1>11, <1>12, <1>13, <1>14, <1>15, <1>16, <1>17, <1>18
  DEF Next, Coordinator, Worker

\* The report tells of the database; the rollback takes an environment's success
\* back once it has reverted it.
LEMMA ReportStep ==
  ASSUME TypeOK, PhaseInv, BatchInv, AppliedInv, ReportInv, [Next]_vars
  PROVE  ReportInv'
<1>. USE CallStays, PlanType DEF TypeOK, PhaseInv, ReportInv, Started
<1>1. CASE Cancel
  BY <1>1 DEF Cancel, call, deploy, rollback
<1>2. CASE Resolve
  BY <1>2 DEF Resolve, Refuse, call, deploy, rollback, vars
<1>3. ASSUME NEW i \in Position, Probe(i) PROVE ReportInv'
  BY <1>3 DEF Probe, CallFails, Fault, call, deploy, rollback, vars
<1>4. CASE VerifyHealth
  BY <1>4 DEF VerifyHealth, Refuse, call, deploy, rollback, vars
<1>5. CASE DeployAll
  BY <1>5 DEF DeployAll, Refuse, StartBatch, call, deploy, rollback, vars
<1>6. ASSUME NEW i \in Position, Acquire(i) PROVE ReportInv'
  BY <1>6 DEF Acquire, call, deploy, rollback, vars
<1>7. ASSUME NEW i \in Position, DryRun(i) PROVE ReportInv'
  BY <1>7 DEF DryRun, Finish, call, deploy, rollback, vars
<1>8. ASSUME NEW i \in Position, ConnectFails(i) PROVE ReportInv'
  BY <1>8 DEF ConnectFails, Finish, CallFails, Fault, call, deploy, rollback, vars
<1>9. ASSUME NEW i \in Position, Apply(i) PROVE ReportInv'
  BY <1>9, RunningDeploys DEF Apply, Applies, rollback
<1>10. ASSUME NEW i \in Position, ApplyFails(i) PROVE ReportInv'
  BY <1>10, RunningDeploys DEF ApplyFails, Applies, rollback
<1>11. ASSUME NEW i \in Position, Succeed(i) PROVE ReportInv'
  BY <1>11 DEF Succeed, Finish, call, deploy, rollback, vars
<1>12. CASE EndBatch
  <2>1. CASE Collect
    BY <1>12, <2>1, CollectReport DEF EndBatch
  <2>2. CASE UNCHANGED <<phase, outcome, report>>
    BY <1>12, <2>2 DEF EndBatch, BatchDone, rollback
  <2>. QED
    BY <1>12, <2>1, <2>2 DEF EndBatch
<1>13. CASE StopBetweenBatches
  BY <1>13, CollectReport DEF StopBetweenBatches
<1>14. CASE SkipEnvironment
  BY <1>14 DEF SkipEnvironment, CallFails, Fault, Reverts, call, deploy, rollback, vars
<1>15. CASE RevertEnvironment
  BY <1>15 DEF RevertEnvironment, Reverts, call, deploy, rollback, vars
<1>16. CASE RevertMigration
  BY <1>16 DEF RevertMigration, CallFails, Fault, call, deploy, rollback, vars
<1>17. CASE EndRollback
  BY <1>17 DEF EndRollback, call, deploy, rollback, vars
<1>18. CASE Returned \/ UNCHANGED vars
  BY <1>18 DEF Returned, call, deploy, rollback, vars
<1>. QED
  BY <1>1, <1>2, <1>3, <1>4, <1>5, <1>6, <1>7, <1>8, <1>9, <1>10, <1>11, <1>12, <1>13, <1>14, <1>15, <1>16, <1>17, <1>18
  DEF Next, Coordinator, Worker

\* Without faults the rollback reaches every success and takes all of it back.
LEMMA UndoStep ==
  ASSUME TypeOK, PhaseInv, BatchInv, AppliedInv, ReportInv, UndoInv, [Next]_vars
  PROVE  UndoInv'
<1>. USE CallStays, PlanType DEF TypeOK, PhaseInv, UndoInv, ReportInv, Started, Failed, After
<1>1. CASE Cancel
  BY <1>1 DEF Cancel, Fault, call, deploy, rollback, vars
<1>2. CASE Resolve
  BY <1>2 DEF Resolve, Refuse, call, deploy, rollback, vars
<1>3. ASSUME NEW i \in Position, Probe(i) PROVE UndoInv'
  BY <1>3 DEF Probe, CallFails, Fault, call, deploy, rollback, vars
<1>4. CASE VerifyHealth
  BY <1>4 DEF VerifyHealth, Refuse, call, deploy, rollback, vars
<1>5. CASE DeployAll
  BY <1>5 DEF DeployAll, Refuse, StartBatch, call, deploy, rollback, vars
<1>6. ASSUME NEW i \in Position, Acquire(i) PROVE UndoInv'
  BY <1>6 DEF Acquire, call, deploy, rollback, vars
<1>7. ASSUME NEW i \in Position, DryRun(i) PROVE UndoInv'
  BY <1>7 DEF DryRun, Finish, call, deploy, rollback, vars
<1>8. ASSUME NEW i \in Position, ConnectFails(i) PROVE UndoInv'
  BY <1>8 DEF ConnectFails, Finish, CallFails, Fault, call, deploy, rollback, vars
<1>9. ASSUME NEW i \in Position, Apply(i) PROVE UndoInv'
  BY <1>9, RunningDeploys DEF Apply, Applies, rollback
<1>10. ASSUME NEW i \in Position, ApplyFails(i) PROVE UndoInv'
  <2>1. phase = "deploy" /\ phase' = "deploy" /\ UNCHANGED <<undo, report, back>>
    BY <1>10, RunningDeploys DEF ApplyFails, Applies, rollback
  <2>. QED
    BY <2>1
<1>11. ASSUME NEW i \in Position, Succeed(i) PROVE UndoInv'
  BY <1>11 DEF Succeed, Finish, call, deploy, rollback, vars
<1>12. CASE EndBatch
  <2>1. CASE Collect
    BY <1>12, <2>1, CollectUndo DEF EndBatch
  <2>2. CASE UNCHANGED <<phase, outcome, report>>
    BY <1>12, <2>2 DEF EndBatch, BatchDone, rollback
  <2>. QED
    BY <1>12, <2>1, <2>2 DEF EndBatch
<1>13. CASE StopBetweenBatches
  BY <1>13, CollectUndo DEF StopBetweenBatches
<1>14. CASE SkipEnvironment
  BY <1>14 DEF SkipEnvironment, CallFails, Fault, Reverts, call, deploy, rollback, vars
<1>15. CASE RevertEnvironment
  <2>. DEFINE e0 == Target(back)
  <2>1. /\ e0 \in Name /\ phase = "rollback" /\ undo = 0 /\ report[e0] = "success" /\ back \in Nat /\ Migrations \in Nat
        /\ UNCHANGED <<db, faults, phase, stage>> /\ undo' = Migrations
    BY <1>15, CountAssumption DEF RevertEnvironment, Reverts, deploy, Position
  <2>2. db[e0] = After(Migrations) /\ initial[e0].history = {} /\ initial[e0] \in Database
    BY <2>1 DEF ReportInv
  <2>3. CASE Migrations = 0
    <3>1. report' = [report EXCEPT ![e0] = "rolled_back"] /\ back' = back + 1
      BY <1>15, <2>3 DEF RevertEnvironment
    <3>2. db[e0] = Restored(e0)
      <4>1. db[e0] = [schema |-> Lasting, history |-> {}]
        BY <2>2, <2>3
      <4>2. Restored(e0) = [schema |-> Lasting, history |-> {}]
        BY <2>1, <2>2 DEF Restored, AppliedInv, Kept
      <4>. QED
        BY <4>1, <4>2
    <3>. HIDE DEF e0
    <3>3. \A i \in 1..back' - 1 : i \in 1..back - 1 \/ i = back
      BY <2>1, <3>1
    <3>. QED
      BY <2>1, <2>3, <3>1, <3>2, <3>3 DEF e0
  <2>4. CASE Migrations # 0
    <3>1. UNCHANGED <<report, back>>
      BY <1>15, <2>4 DEF RevertEnvironment
    <3>. QED
      BY <2>1, <2>2, <3>1
  <2>. QED
    BY <2>3, <2>4
<1>16. CASE RevertMigration
  <2>. DEFINE e0 == Target(back)
  <2>1. /\ e0 \in Name /\ phase = "rollback" /\ undo \in 1..Migrations /\ report[e0] = "success" /\ back \in Nat
        /\ UNCHANGED <<phase, stage>> /\ undo' = undo - 1 /\ initial[e0].history = {} /\ initial[e0] \in Database
    <3>1. /\ phase = "rollback" /\ undo > 0 /\ undo' = undo - 1 /\ UNCHANGED <<phase, stage>>
      BY <1>16 DEF RevertMigration, deploy
    <3>2. undo \in 0..Migrations /\ Migrations \in Nat /\ back \in Nat
      BY CountAssumption DEF Position
    <3>3. undo \in 1..Migrations
      BY <3>1, <3>2
    <3>4. back <= Count /\ back \in 1..Count + 1 /\ Count \in Nat
      BY <3>1, <3>3 DEF Position
    <3>5. back \in Position
      BY <3>4 DEF Position
    <3>6. e0 \in Name
      BY <3>5, PlanType
    <3>7. report[e0] = "success"
      BY <3>1, <3>3
    <3>8. initial[e0].history = {} /\ initial[e0] \in Database
      BY <3>1, <3>6, <3>7
    <3>. QED
      BY <3>1, <3>2, <3>3, <3>6, <3>7, <3>8
  <2>2. \A e \in Name \ {e0} : db'[e] = db[e]
    BY <1>16 DEF RevertMigration
  <2>3. ASSUME faults' = 0 PROVE faults = 0 /\ ~canceled /\ db' = [db EXCEPT ![e0] = [schema |-> @.schema \ Undone(undo), history |-> @.history \ {undo}]]
    BY <1>16, <2>3 DEF RevertMigration, CallFails, Fault, PhaseInv
  <2>4. ASSUME faults' = 0 PROVE db'[e0] = After(undo - 1)
    <3>1. db[e0] = After(undo)
      BY <2>1, <2>3, <2>4
    <3>2. (1..undo) \ {undo} = 1..undo - 1
      BY <2>1
    <3>3. (1..undo \union Lasting) \ Undone(undo) = 1..undo - 1 \union Lasting
      BY <2>1, <3>2 DEF Lasting, Undone, Mig
    <3>4. db' = [db EXCEPT ![e0] = [schema |-> (1..undo \union Lasting) \ Undone(undo), history |-> (1..undo) \ {undo}]]
      BY <2>3, <2>4, <3>1
    <3>. QED
      BY <2>1, <3>2, <3>3, <3>4
  <2>5. CASE undo = 1
    <3>1. report' = [report EXCEPT ![e0] = "rolled_back"] /\ back' = back + 1
      BY <1>16, <2>5 DEF RevertMigration
    <3>2. ASSUME faults' = 0 PROVE db'[e0] = Restored(e0)
      <4>1. db'[e0] = [schema |-> Lasting, history |-> {}]
        BY <2>4, <2>5, <3>2
      <4>2. Restored(e0) = [schema |-> Lasting, history |-> {}]
        BY <2>1 DEF Restored, AppliedInv, Kept
      <4>. QED
        BY <4>1, <4>2
    <3>. HIDE DEF e0
    <3>3. \A i \in 1..back' - 1 : i \in 1..back - 1 \/ i = back
      BY <2>1, <3>1
    <3>. QED
      BY <2>1, <2>2, <2>3, <2>5, <3>1, <3>2, <3>3 DEF e0
  <2>6. CASE undo # 1
    <3>1. UNCHANGED <<report, back>>
      BY <1>16, <2>6 DEF RevertMigration
    <3>2. \A e \in Name : report[e] = "rolled_back" => e # e0
      BY <2>1
    <3>3. ASSUME faults' = 0 PROVE db'[Target(back)'] = After(undo')
      BY <2>1, <2>4, <3>1, <3>3
    <3>4. ASSUME faults' = 0, NEW e \in Name, report'[e] = "rolled_back" PROVE db'[e] = Restored(e)'
      <4>1. e \in Name \ {e0} /\ report[e] = "rolled_back" /\ faults = 0
        BY <2>3, <3>1, <3>2, <3>4
      <4>2. db[e] = Restored(e)
        BY <4>1
      <4>. QED
        BY <2>2, <4>1, <4>2
    <3>5. ASSUME faults' = 0, NEW i \in 1..back' - 1 PROVE report'[Target(i)'] # "success"
      BY <2>1, <2>3, <3>1, <3>5
    <3>6. phase' = "rollback" /\ undo' > 0
      BY <2>1, <2>6
    <3>. HIDE DEF e0
    <3>. QED
      BY <3>3, <3>4, <3>5, <3>6
  <2>. QED
    BY <2>5, <2>6
<1>17. CASE EndRollback
  <2>1. UNCHANGED <<db, faults, report, stage, undo, back>> /\ phase = "rollback" /\ phase' = "done" /\ back > Count
    BY <1>17 DEF EndRollback, deploy, rollback
  <2>2. undo = 0
    BY <2>1
  <2>3. \A i \in Position : i \in 1..back - 1
    BY <2>1 DEF Position
  <2>. QED
    BY <2>1, <2>2, <2>3
<1>18. CASE Returned \/ UNCHANGED vars
  <2>1. UNCHANGED <<plan, db, faults, phase, stage, report, back, undo>>
    BY <1>18 DEF Returned, vars
  <2>. QED
    BY <2>1
<1>. QED
  BY <1>1, <1>2, <1>3, <1>4, <1>5, <1>6, <1>7, <1>8, <1>9, <1>10, <1>11, <1>12, <1>13, <1>14, <1>15, <1>16, <1>17, <1>18
  DEF Next, Coordinator, Worker

\* Only Acquire takes a place of the semaphore, and it takes a free one.
LEMMA LimitStep ==
  ASSUME TypeOK, PhaseInv, BatchInv, LimitInv, [Next]_vars
  PROVE  LimitInv'
<1>. USE CallStays, PlanType, FewerRun DEF TypeOK, Running
<1>1. CASE Cancel
  BY <1>1 DEF Cancel, Fault, call, deploy, rollback, vars
<1>2. CASE Resolve
  BY <1>2 DEF Resolve, Refuse, call, deploy, rollback, vars
<1>3. ASSUME NEW i \in Position, Probe(i) PROVE LimitInv'
  BY <1>3 DEF Probe, CallFails, Fault, call, deploy, rollback, vars
<1>4. CASE VerifyHealth
  BY <1>4 DEF VerifyHealth, Refuse, call, deploy, rollback, vars
<1>5. CASE DeployAll
  <2>1. \A j \in Position : stage[j] = "idle"
    BY <1>5 DEF DeployAll, PhaseInv, Started
  <2>2. Running' \subseteq Running
    BY <1>5, <2>1 DEF DeployAll, StartBatch
  <2>. QED
    BY <2>2
<1>6. ASSUME NEW i \in Position, Acquire(i) PROVE LimitInv'
  <2>1. IsFiniteSet(Running)
    BY PositionsFinite
  <2>2. Running' = Running \union {i}
    BY <1>6 DEF Acquire
  <2>3. Cardinality(Running') <= Cardinality(Running) + 1
    <3>. HIDE DEF Running
    <3>1. Cardinality(Running \union {i}) = IF i \in Running THEN Cardinality(Running) ELSE Cardinality(Running) + 1
      BY <2>1, FS_AddElement
    <3>2. Cardinality(Running) \in Nat
      BY <2>1, FS_CardinalityType
    <3>. QED
      BY <2>2, <3>1, <3>2
  <2>4. Cardinality(Running) < Limit /\ Cardinality(Running) \in Nat /\ Cardinality(Running') \in Nat /\ Limit \in Nat
    <3>. HIDE DEF Running
    <3>1. IsFiniteSet(Running')
      BY <2>1, <2>2, FS_AddElement
    <3>. QED
      BY <1>6, <2>1, <3>1, FS_CardinalityType DEF Acquire, Limit
  <2>. QED
    BY <2>3, <2>4 DEF LimitInv
<1>7. ASSUME NEW i \in Position, DryRun(i) PROVE LimitInv'
  BY <1>7 DEF DryRun, Finish, call, deploy, rollback, vars
<1>8. ASSUME NEW i \in Position, ConnectFails(i) PROVE LimitInv'
  BY <1>8 DEF ConnectFails, Finish, CallFails, Fault, call, deploy, rollback, vars
<1>9. ASSUME NEW i \in Position, Apply(i) PROVE LimitInv'
  BY <1>9 DEF Apply, Applies, Current, call, deploy, rollback, vars
<1>10. ASSUME NEW i \in Position, ApplyFails(i) PROVE LimitInv'
  BY <1>10 DEF ApplyFails, Applies, Current, Finish, CallFails, Fault, call, deploy, rollback, vars
<1>11. ASSUME NEW i \in Position, Succeed(i) PROVE LimitInv'
  BY <1>11 DEF Succeed, Finish, call, deploy, rollback, vars
<1>12. CASE EndBatch
  <2>1. Running' \subseteq Running
    BY <1>12 DEF EndBatch, Collect, StartBatch
  <2>. QED
    BY <2>1
<1>13. CASE StopBetweenBatches
  BY <1>13 DEF StopBetweenBatches, BatchDone, Collect, call, deploy, rollback, vars
<1>14. CASE SkipEnvironment
  BY <1>14 DEF SkipEnvironment, CallFails, Fault, Reverts, call, deploy, rollback, vars
<1>15. CASE RevertEnvironment
  BY <1>15 DEF RevertEnvironment, Reverts, call, deploy, rollback, vars
<1>16. CASE RevertMigration
  BY <1>16 DEF RevertMigration, CallFails, Fault, call, deploy, rollback, vars
<1>17. CASE EndRollback
  BY <1>17 DEF EndRollback, call, deploy, rollback, vars
<1>18. CASE Returned \/ UNCHANGED vars
  BY <1>18 DEF Returned, call, deploy, rollback, vars
<1>. QED
  BY <1>1, <1>2, <1>3, <1>4, <1>5, <1>6, <1>7, <1>8, <1>9, <1>10, <1>11, <1>12, <1>13, <1>14, <1>15, <1>16, <1>17, <1>18
  DEF Next, Coordinator, Worker

\* Results come from the end of the last batch, from a failure or from a canceled pause.
LEMMA GapStep ==
  ASSUME TypeOK, PhaseInv, BatchInv, NoSilentGap, [Next]_vars
  PROVE  NoSilentGap'
<1>. USE CallStays, PlanType DEF TypeOK, PhaseInv, NoSilentGap, Failed, Started
<1>1. CASE Cancel
  BY <1>1 DEF Cancel, Fault, call, deploy, rollback, vars
<1>2. CASE Resolve
  BY <1>2 DEF Resolve, Refuse, call, deploy, rollback, vars
<1>3. ASSUME NEW i \in Position, Probe(i) PROVE NoSilentGap'
  BY <1>3 DEF Probe, CallFails, Fault, call, deploy, rollback, vars
<1>4. CASE VerifyHealth
  BY <1>4 DEF VerifyHealth, Refuse, call, deploy, rollback, vars
<1>5. CASE DeployAll
  BY <1>5 DEF DeployAll, Refuse, StartBatch, call, deploy, rollback, vars
<1>6. ASSUME NEW i \in Position, Acquire(i) PROVE NoSilentGap'
  BY <1>6 DEF Acquire, call, deploy, rollback, vars
<1>7. ASSUME NEW i \in Position, DryRun(i) PROVE NoSilentGap'
  BY <1>7 DEF DryRun, Finish, call, deploy, rollback, vars
<1>8. ASSUME NEW i \in Position, ConnectFails(i) PROVE NoSilentGap'
  BY <1>8 DEF ConnectFails, Finish, CallFails, Fault, call, deploy, rollback, vars
<1>9. ASSUME NEW i \in Position, Apply(i) PROVE NoSilentGap'
  BY <1>9 DEF Apply, Applies, Current, call, deploy, rollback, vars
<1>10. ASSUME NEW i \in Position, ApplyFails(i) PROVE NoSilentGap'
  BY <1>10 DEF ApplyFails, Applies, Current, Finish, CallFails, Fault, call, deploy, rollback, vars
<1>11. ASSUME NEW i \in Position, Succeed(i) PROVE NoSilentGap'
  BY <1>11 DEF Succeed, Finish, call, deploy, rollback, vars
<1>12. CASE EndBatch
  <2>1. CASE Collect
    <3>1. SUFFICES ASSUME Failed = {}, outcome' = "results" PROVE \A i \in Position : report'[Target(i)] = "success"
      <4>1. Failed' = Failed
        BY <2>1 DEF Collect
      <4>. QED
        BY <4>1 DEF Target
    <3>2. hi = Count /\ phase = "deploy"
      BY <1>12, <2>1, <3>1 DEF EndBatch, BatchDone, Collect, StartBatch
    <3>3. \A k \in Position : stage[k] = "success"
      <4>1. \A k \in lo..hi : stage[k] \in {"success", "failed"}
        BY <1>12 DEF EndBatch, BatchDone
      <4>2. \A k \in Position : k < lo => stage[k] = "success"
        BY <3>2 DEF BatchInv
      <4>3. lo \in Position
        BY <3>2 DEF BatchInv
      <4>. QED
        BY <3>1, <3>2, <4>1, <4>2, <4>3 DEF Position
    <3>4. \A i \in 1..hi : \E k \in 1..hi : report'[Target(i)] = stage[k]
      <4>1. BatchDone
        BY <1>12 DEF EndBatch
      <4>. QED
        BY <2>1, <4>1, Collected
    <3>5. Position = 1..hi
      BY <3>2 DEF Position
    <3>6. ASSUME NEW i \in Position PROVE report'[Target(i)] = "success"
      <4>1. PICK k \in 1..hi : report'[Target(i)] = stage[k]
        BY <3>4, <3>5
      <4>. QED
        BY <3>3, <3>5, <4>1
    <3>. QED
      BY <3>6
  <2>2. CASE UNCHANGED <<phase, outcome, report>>
    BY <1>12, <2>2 DEF EndBatch, BatchDone
  <2>. QED
    BY <1>12, <2>1, <2>2 DEF EndBatch
<1>13. CASE StopBetweenBatches
  BY <1>13 DEF StopBetweenBatches
<1>14. CASE SkipEnvironment
  BY <1>14 DEF SkipEnvironment, CallFails, Fault, Reverts, call, deploy, rollback, vars
<1>15. CASE RevertEnvironment
  BY <1>15 DEF RevertEnvironment, Reverts, call, deploy, rollback, vars
<1>16. CASE RevertMigration
  BY <1>16 DEF RevertMigration, CallFails, Fault, call, deploy, rollback, vars
<1>17. CASE EndRollback
  BY <1>17 DEF EndRollback, call, deploy, rollback, vars
<1>18. CASE Returned \/ UNCHANGED vars
  BY <1>18 DEF Returned, call, deploy, rollback, vars
<1>. QED
  BY <1>1, <1>2, <1>3, <1>4, <1>5, <1>6, <1>7, <1>8, <1>9, <1>10, <1>11, <1>12, <1>13, <1>14, <1>15, <1>16, <1>17, <1>18
  DEF Next, Coordinator, Worker

-----------------------------------------------------------------------------
(* The theorems.                                                           *)

\* The inductive invariant: where the call is and what its batch, its semaphore,
\* its databases and its report are then.
IInv ==
  /\ TypeOK /\ PhaseInv /\ BatchInv /\ LimitInv
  /\ AppliedInv /\ ReportInv /\ UndoInv /\ NoSilentGap

LEMMA InitInv ==
  ASSUME Init
  PROVE  IInv
<1>1. \A k \in 0..Migrations : 1..k \subseteq Mig
  BY CountAssumption DEF Mig
<1>2. TypeOK
  <2>1. db \in [Name -> Database]
    <3>1. \A k, n \in 0..Migrations : Left(k, n) \in Database
      BY <1>1 DEF Left, Database, Lasting
    <3>. QED
      BY <3>1 DEF Init
  <2>2. plan \in Plans /\ Count \in Nat
    BY PlansAssumption DEF Init, Count
  <2>3. stage \in [Position -> {"idle", "queued", "running", "success", "failed"}]
    BY DEF Init
  <2>4. applied \in [Position -> 0..Migrations]
    BY CountAssumption DEF Init
  <2>5. report \in [Name -> {"none", "success", "failed", "rolled_back"}]
        /\ health \in [Name -> {"none", "healthy", "unhealthy"}]
    BY DEF Init
  <2>6. back \in 1..Count + 1 /\ undo \in 0..Migrations /\ lo \in Nat /\ hi \in 0..Count
    BY <2>2, CountAssumption DEF Init
  <2>. QED
    BY <2>1, <2>2, <2>3, <2>4, <2>5, <2>6 DEF Init, TypeOK
<1>3. \A i \in Position : Target(i) \in Name
  BY <1>2, PlanType
<1>4. \A e \in Name : Kept(e)
  BY DEF Init, Left, Kept
<1>5. phase = "resolve" /\ outcome = "none" /\ ~Started /\ db = initial /\ canceled = FALSE /\ undo = 0 /\ back = 1
      /\ \A i \in Position : stage[i] = "idle" /\ applied[i] = 0
  BY DEF Init, Started
<1>6. \A e \in Name : report[e] = "none"
  BY DEF Init
<1>7. PhaseInv
  BY <1>5 DEF PhaseInv
<1>8. BatchInv /\ NoSilentGap
  BY <1>5 DEF BatchInv, NoSilentGap
<1>9. LimitInv
  <2>1. Running = {} /\ Limit \in Nat
    BY <1>2, <1>5, PlanType DEF Running, Limit
  <2>. QED
    BY <2>1, FS_EmptySet DEF LimitInv
<1>10. AppliedInv
  BY <1>4, <1>5 DEF AppliedInv
<1>11. ReportInv
  BY <1>5, <1>6 DEF ReportInv
<1>12. UndoInv
  BY <1>5, <1>6 DEF UndoInv
<1>. QED
  BY <1>2, <1>7, <1>8, <1>9, <1>10, <1>11, <1>12 DEF IInv

\* Spec keeps the inductive invariant.
THEOREM Invariant ==
  Spec => []IInv
<1>1. Init => IInv
  BY InitInv
<1>2. IInv /\ [Next]_vars => IInv'
  BY TypeStep, PhaseStep, BatchStep, LimitStep, AppliedStep, ReportStep, UndoStep, GapStep DEF IInv
<1>. QED
  BY <1>1, <1>2, PTL DEF Spec

\* The variables keep their types, and the batch that runs lies within the list
\* of environments (DeployToEnvironments, coordinator.go:84-184).
THEOREM TypeCorrect ==
  Spec => []TypeOK
BY Invariant, PTL DEF IInv

\* No batch overtakes another, whatever the strategy and the number of
\* environments: a position leaves idle only when every position of an earlier
\* batch of the documented strategy has succeeded, and the semaphore of the parallel
\* strategy is never overfull (the DeployAll methods of strategies.go).
THEOREM NoBatchOvertakes ==
  Spec => []BatchGate
<1>1. IInv => BatchGate
  <2>. SUFFICES ASSUME IInv PROVE BatchGate
    OBVIOUS
  <2>. USE DEF IInv
  <2>1. ASSUME NEW i \in Position, NEW j \in Position, BatchOf(j) < BatchOf(i), stage[i] # "idle"
        PROVE  stage[j] = "success"
    <3>1. Started
      BY <2>1 DEF PhaseInv
    <3>2. lo \in Position /\ hi = BatchEnd(lo) /\ Begins(lo) /\ ~(i > hi)
      BY <2>1, <3>1 DEF BatchInv
    <3>3. hi \in lo..Count
      BY <3>2, BatchFits
    <3>4. i <= BatchEnd(lo)
      BY <3>2, <3>3, PlanType DEF Position
    <3>5. ~(lo <= j)
      BY <2>1, <3>2, <3>4, BatchesAgree
    <3>6. j < lo
      BY <3>2, <3>5, PlanType DEF Position
    <3>. QED
      BY <3>1, <3>6 DEF BatchInv
  <2>2. ASSUME plan.strategy = "parallel", plan.size > 0 PROVE Cardinality(Running) <= plan.size
    BY <2>2, PlanType DEF LimitInv, Limit
  <2>. QED
    BY <2>1, <2>2 DEF BatchGate
<1>. QED
  BY <1>1, Invariant, PTL

\* What the call reports is so, whatever fails on the way: a success has every
\* migration in effect and recorded, results without a failure leave nobody out, and
\* an error comes before anything was touched (DeployToEnvironments, coordinator.go:84-184).
THEOREM ReportIsTrue ==
  Spec => []ReportMatchesDatabase
<1>1. IInv => ReportMatchesDatabase
  <2>. SUFFICES ASSUME IInv PROVE ReportMatchesDatabase
    OBVIOUS
  <2>. USE DEF IInv
  <2>1. ASSUME phase = "done", ~plan.dryRun, NEW e \in Name, report[e] = "success"
        PROVE  Mig = db[e].schema /\ Mig = db[e].history
    <3>1. undo = 0
      BY <2>1 DEF ReportInv, TypeOK
    <3>2. db[e] = After(Migrations)
      BY <2>1, <3>1 DEF ReportInv
    <3>. QED
      BY <3>2 DEF After, Mig, Lasting
  <2>2. ASSUME phase = "done", outcome = "error" PROVE db = initial
    BY <2>2 DEF PhaseInv, Started
  <2>3. ASSUME plan.verify, ~plan.dryRun, NEW i \in Position, health[Target(i)] # "healthy" PROVE db = initial
    BY <2>3 DEF PhaseInv
  <2>4. RefusalTouchesNothing
    BY <2>2, <2>3 DEF RefusalTouchesNothing, PhaseInv, Target
  <2>. QED
    BY <2>1, <2>4 DEF ReportMatchesDatabase
<1>. QED
  BY <1>1, Invariant, PTL

\* A deployment and its auto-rollback take nothing away that was in effect or recorded
\* before, whatever fails; without faults the rollback leaves no success, and what it
\* reports as rolled back is as it was but for the effect of migrations without a down
\* section (rollback, coordinator.go:212-240; executor.go:84-88).
THEOREM RollbackIsClean ==
  Spec => []CleanRollback
<1>1. IInv => CleanRollback
  <2>. SUFFICES ASSUME IInv PROVE CleanRollback
    OBVIOUS
  <2>. USE DEF IInv
  <2>1. \A e \in Name : initial[e].history \subseteq db[e].history /\ initial[e].schema \subseteq db[e].schema
    BY DEF AppliedInv, Kept
  <2>2. ASSUME phase = "done", faults = 0, plan.autoRollback, ~plan.dryRun, Failed # {}, NEW e \in Name
        PROVE  report[e] # "success" /\ (report[e] = "rolled_back" => db[e] = Restored(e))
    <3>1. \A i \in Position : report[Target(i)] # "success"
      BY <2>2 DEF UndoInv
    <3>2. report[e] = "rolled_back" => db[e] = Restored(e)
      BY <2>2 DEF UndoInv
    <3>. QED
      BY <3>1, <3>2 DEF ReportInv
  <2>. QED
    BY <2>1, <2>2 DEF CleanRollback
<1>. QED
  BY <1>1, Invariant, PTL
=============================================================================
