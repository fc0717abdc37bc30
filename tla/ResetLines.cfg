SPECIFICATION Spec
CONSTANTS
  Jobs <- MCOrdered
  MaxFaults = 2
INVARIANTS
  NeverWedged
  LoaderNeverDisturbs
PROPERTIES
  JobsReachTheirLevels
