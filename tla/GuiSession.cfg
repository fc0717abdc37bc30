SPECIFICATION FairSpec
CONSTANTS
  Free = Free
  MaxAsks = 3
  MaxLoads = 2
  Traces = 2
  MaxConnects = 2
  MaxCli = 1
CHECK_DEADLOCK FALSE
INVARIANTS
  PortHasOneOwner
  AlignedUntilFirstFailure
  
  ClosesCleanly
PROPERTIES
  AnswersReachTheirAskers
  JobsEnd
