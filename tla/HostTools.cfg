SPECIFICATION HostSpec
CONSTANTS
  None = None
  Free = Free
  ChunkRows = 2
  Expected <- MCExpected
  MaxRows = 3
  MaxFiles = 4
  MaxNotes = 2
  MaxFaults = 2
  Plans <- MCPlans
  Rows = 2
  SaveEvery = 2
  Orders <- MCOrders
  RunCount = 3
  Checkups <- MCCheckups
  DeadCores <- MCDeadCores
  MaxFed = 4
  IdleFlush = 3
  MaxBuffer = 2
  Campaigns <- MCCampaigns
  Warmups = 2
  Tests = 3
  MaxAsks = 15
  MaxLoads = 1
  MaxInputs = 4
  MaxTroubles = 1
CHECK_DEADLOCK FALSE
INVARIANTS
  TraceStoreIsSound
  ResultsAreTrue
  SelfCheckIsTrue
  
  DevicesReleased
PROPERTIES
  ImplementsLog
  MonitorShowsAll
  ProgramsEnd
