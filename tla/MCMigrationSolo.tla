--------------------------- MODULE MCMigrationSolo ---------------------------
\* One operator and a fixed directory of three migrations.
EXTENDS MigrationExecutor

MCVersion == 1..3
MCDependsOn == [v \in MCVersion |-> IF v = 3 THEN {2} ELSE {}]
=============================================================================
