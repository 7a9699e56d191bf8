-------------------------- MODULE MCMigrationShared --------------------------
\* Two operators share a database, and a migration file comes and goes.
EXTENDS MigrationExecutor, TLC

MCVersion == 1..2
MCLateFiles == {1}
MCReversible == {1}
MCRerunnable == {2}
MCDependsOn == [v \in MCVersion |-> IF v = 2 THEN {1} ELSE {}]
MCSymmetry == Permutations(Runner)
=============================================================================
