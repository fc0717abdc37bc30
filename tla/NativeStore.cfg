SPECIFICATION FairSpec
CONSTANTS
  trace = trace
  side = side
  a = a
  b = b
  none = none
  N = 3
  Chunk = 2
  Fields <- MCFields
  Val <- MCVal
  Zero = a
  Nothing = none
  InterruptPoints <- MCPointsNoDigest
  MaxStops = 2
INVARIANTS
  TypeOK
  PublishedDigestBindsRows
  DurableDigestBindsRows
  LossBounded
PROPERTIES
  EventuallyComplete
  ImplementsLog
