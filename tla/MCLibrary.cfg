SPECIFICATION Spec
CONSTANTS
  FieldTypes <- MCFieldTypes
  Numerals <- MCNumerals
  Looks <- MCLooks
  Misnamed <- MCMisnamed
  Reserved <- MCReserved
  Illegible <- MCIllegible
  Version <- MCVersion
  Taker = {w1, w2}
  MaxSecond = 2
  MaxTables = 1
  Call <- MCCall
  Start <- MCStart
  Room = 1
  MaxQueries = 4
  Meaning <- MCMeaning
  Subjects <- MCSubjects
INVARIANTS ReadsBack ValidSchemaLands SyncOnlyAdds DriftIsSeen GraphSound SnapshotsStand SquashKeepsSchema QueriesStayApart PagesTile BatchTellsTruth
PROPERTIES LinesAreKept
