SPECIFICATION Spec
CONSTANTS
  Launch = {p1, p2, p3}
  Crashed = {p3}
  None = None
  ArtifactCount = 0
  Legacy = {}
  MayFail = FALSE
  MaySuspend = FALSE
INVARIANT
  Exclusive
CHECK_DEADLOCK FALSE
