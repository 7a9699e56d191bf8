SPECIFICATION Spec
CONSTANTS
  k1 = k1
  k2 = k2
  k3 = k3
  v1 = v1
  v2 = v2
  Key <- MCKey
  Value <- MCValue
  TTL <- MCTTL
  Absent = Absent
  DefaultTTL = 2
  Capacity = 2
  Patterns <- MCPatterns
  MaxTime = 3
PROPERTIES EvictsLeastRecent ImplementsBackend
