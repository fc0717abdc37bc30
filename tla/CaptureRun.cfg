SPECIFICATION Spec
CONSTANTS
  w1 = w1
  w2 = w2
  Wave <- MCOneWave
  ReopenAt <- MCReopenAt
  N = 3
  Chunk = 2
  Scope = TRUE
  Warmup = TRUE
  HalfOpen = FALSE
  QualityLimit = 2
  RecoverAt = 2
  RecoveryLimit = 1
  FaultCap = 2
  MaxStops = 1
  MaxFileChanges = 1
INVARIANTS
  
  ClaimIsTrue
PROPERTIES
  FaultsNeverForgotten
  ImplementsLog
