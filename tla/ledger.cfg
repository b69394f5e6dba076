SPECIFICATION FairSpec
CONSTANTS
  i1 = i1
  i2 = i2
  a = a
  b = b
  Instance = {i1, i2}
  LastDate = 2
  Digest = {a, b}
  None = None
  Window = 1
  Unfillable = {2}
  Schemas = {"experimental", "unknown"}
  Markets = {"blank"}
  MaxLegacy = 2
  MaxAbandoned = 1
INVARIANTS
  RowsFromLedger
  NewestWins
  BookShowsAccepted
  Retryable
  LegacyNotReplaced
PROPERTIES
  RecordsKept
  RetryResolves
CHECK_DEADLOCK FALSE
