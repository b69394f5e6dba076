SPECIFICATION FairSpec
CONSTANT MaxStarts = 3
INVARIANTS
  OneOperation
  SignalsAreCurrent
  CompletedMeansStored
  ClosedWaits
PROPERTIES
  WorkEnds
  CloseEnds
CHECK_DEADLOCK FALSE
