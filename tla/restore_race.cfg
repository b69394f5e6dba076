SPECIFICATION Spec
CONSTANTS
  i1 = i1
  i2 = i2
  k1 = k1
  k2 = k2
  v1 = v1
  v2 = v2
  Instances = {i1, i2}
  Key = {k1, k2}
  Value = {v1, v2}
  NoLock = NoLock
  Stray = Stray
  MaxOperations = 2
  Sources <- TwoSources
PROPERTY FailureKeepsResult
