SPECIFICATION Spec
CONSTANTS
  Runner = {r1, r2}
  Version <- MCVersion
  LateFiles <- MCLateFiles
  StmtCount = 2
  Reversible <- MCReversible
  Rerunnable <- MCRerunnable
  DependsOn <- MCDependsOn
  MaxFaults = 1
  MaxDowns = 1
INVARIANTS AllOrNothing NoTransactionLeak
PROPERTIES RecordOnce
SYMMETRY MCSymmetry
