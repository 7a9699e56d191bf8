SPECIFICATION FairSpec
CONSTANTS
  a = a
  s = s
  x = x
  Path <- MCPath
  SchemaFile <- MCSchemaFile
  Below <- MCBelow
  EventBuffer = 1
  ReportBufferSize = 1
  MaxChanges = 2
  MaxPending = 2
INVARIANT NoChangeLost
PROPERTIES ChangesAreChecked StopEnds
CHECK_DEADLOCK FALSE
