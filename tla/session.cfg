SPECIFICATION FairSpec
CONSTANTS
  MaxPolls = 2
  MaxAttempts = 2
INVARIANTS
  SubmittedOnce
  SourceIsWhole
  RetryIsClean
PROPERTIES
  SessionEnds
  ImplementsDelivery
CHECK_DEADLOCK FALSE
