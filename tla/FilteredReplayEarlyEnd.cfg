\* A run without END event.
CONSTANTS
  Events <- MCEvents
  MAX_REALLYBIGBUFFER = 20
  Digits = 1
  MaxSegments = 0
  MaxEvents = 4
  Enabled = {5}
  Threshold = 1
SPECIFICATION ReplaySpec
INVARIANT
  SuspectNeverAnalyzed
\* The system stops: a run ends.
CHECK_DEADLOCK FALSE
