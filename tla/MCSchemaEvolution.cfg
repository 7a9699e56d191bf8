SPECIFICATION EvolutionSpec
CONSTANTS
  plain = plain
  other = other
  filled = filled
  cut = cut
  bad = bad
  full = full
  less = less
  relation = relation
  on = on
  NoText = NoText
  Refused <- MCRefused
  Backfilled <- MCBackfilled
  Semicolon <- MCSemicolon
  Snapshot <- MCSnapshot
INVARIANTS DatabaseFollows PlanRuns
PROPERTY DownIsInverse
