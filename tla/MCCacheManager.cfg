SPECIFICATION Spec
CONSTANTS
  c1 = c1
  c2 = c2
  k1 = k1
  k2 = k2
  t1 = t1
  t2 = t2
  Client <- MCClient
  Key <- MCKey
  Table <- MCTable
  Value = {v}
  TTL <- MCTTL
  Absent = Absent
  Patterns <- MCPatterns
  MaxTime = 1
  MaxFaults = 1
INVARIANTS Covered
SYMMETRY MCSymmetry
