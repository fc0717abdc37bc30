SPECIFICATION FairSpec
CONSTANTS
  w1 = w1
  w2 = w2
  Wave <- MCWave
  ReopenAt <- MCReopenAt
  N = 3
  Chunk = 2
  Scope = FALSE
  Warmup = FALSE
  HalfOpen = TRUE
  QualityLimit = 2
  RecoverAt = 2
  RecoveryLimit = 1
  FaultCap = 2
  MaxStops = 1
  MaxFileChanges = 0

  
PROPERTIES
  BrokenBenchStops
