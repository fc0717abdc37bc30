SPECIFICATION Spec
CONSTANTS
  Free = Free
  MaxAsks = 3
  MaxLoads = 2
  Traces = 2
  MaxConnects = 2
  MaxCli = 1
INVARIANTS
  RowsIndexAligned
CHECK_DEADLOCK FALSE
