SPECIFICATION FairSpec
CONSTANTS
  m1 = m1
  s1 = s1
  s2 = s2
  Caller = {m1}
  Status = {s1, s2}
  None = None
  MaxGeneration = 2
  MaxTables = 2
  MaxRows = 2
  MaxChecks = 2
INVARIANTS
  WaitingIsServed
  StoppedForCause
  ReportsAreConsistent
  StatusHistory
PROPERTIES
  Settles
  RunEnds
CHECK_DEADLOCK FALSE
