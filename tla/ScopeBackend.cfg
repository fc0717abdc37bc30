SPECIFICATION FairSpec
CONSTANTS
  Kinds <- MCKinds
  Warm = 2
  Checks = 1
  Rows = 2
  MaxDisturbances = 2
CHECK_DEADLOCK FALSE
INVARIANTS
  RecordIsOfThisRow
  MeasuresAsSetUp
PROPERTIES
  NoFalseAlarm
  SessionEnds
