SPECIFICATION Spec
CONSTANTS
  Campaigns <- MCCampaigns
  Records <- MCRecords
  Scores <- MCScores
  Truth = 1
  NCheck = 3
  Threshold = 1
  Chunks = {1, 4}
  MaxDamage = 2
CHECK_DEADLOCK FALSE
INVARIANTS
  StatisticsAreDirect
  
PROPERTIES
  LabelsAreTrue
