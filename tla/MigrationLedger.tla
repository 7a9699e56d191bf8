--------------------------- MODULE MigrationLedger ---------------------------
(***************************************************************************)
(* What a migration history promises: the applied versions grow by the     *)
(* least version that is missing and shrink by the greatest that is there. *)
(***************************************************************************)
EXTENDS Integers

CONSTANT Version  \* the versions of the migrations directory

VARIABLE applied  \* the versions with a history record

Init == applied = {}

\* The next migration in version order is recorded as applied.
Apply(v) ==
  /\ v \notin applied
  /\ \A u \in Version : u < v => u \in applied
  /\ applied' = applied \union {v}

\* The last applied migration is rolled back and its record removed.
Revert(v) ==
  /\ v \in applied
  /\ \A u \in applied : u <= v
  /\ applied' = applied \ {v}

Next == \E v \in Version : Apply(v) \/ Revert(v)

Spec == Init /\ [][Next]_applied
=============================================================================
