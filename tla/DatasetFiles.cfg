SPECIFICATION Spec
CONSTANTS
  Process <- MCProcess
  Fields <- MCFields
  N = 2
  MaxCommands = 3
  MaxStops = 2
CHECK_DEADLOCK FALSE
INVARIANTS
  DatasetIsTrue
  CertificatesAreTrue
PROPERTIES
  CapturedRowsStay
  RefusalsAreEarned
