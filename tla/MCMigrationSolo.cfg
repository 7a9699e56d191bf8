SPECIFICATION FairSpec
CONSTANTS
  Runner = {r1}
  Version <- MCVersion
  LateFiles = {}
  StmtCount = 2
  Reversible <- MCVersion
  Rerunnable <- MCVersion
  DependsOn <- MCDependsOn
  MaxFaults = 2
  MaxDowns = 2
INVARIANTS HistoryMatchesSchema HistoryIsPrefix
PROPERTIES ImplementsLedger DownRemovesNewest OkUpIsComplete Converges
