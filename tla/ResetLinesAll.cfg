SPECIFICATION Spec
CONSTANTS
  Jobs <- MCAllJobs
  MaxFaults = 2
INVARIANTS
  NeverWedged
