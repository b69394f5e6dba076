SPECIFICATION FairSpec
CONSTANTS
  Launch = {p1, p2, p3}
  Crashed = {p3}
  None = None
  ArtifactCount = 2
  Legacy = {1}
  MayFail = TRUE
  MaySuspend = TRUE
INVARIANTS
  ExclusiveUnlessReckless
  LegacyMigrated
PROPERTIES
  DestinationKept
  LaunchEnds
CHECK_DEADLOCK FALSE
