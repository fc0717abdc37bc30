SPECIFICATION Spec
CONSTANTS
  trace = trace
  side = side
  a = a
  b = b
  none = none
  N = 2
  Chunk = 2
  Fields <- MCFields
  Val <- MCVal
  Zero = a
  Nothing = none
  InterruptPoints <- MCPointsAll
  MaxStops = 2
INVARIANTS
  PublishedDigestBindsRows
