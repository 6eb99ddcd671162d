\* Runs of up to six events, of which the first beam event is passed over and
\* the second is the last.
CONSTANTS
  Events <- MCEvents
  Enabled <- MCEnabled
  Threshold = 1
  StartingEvent = 1
  StoppingEvent = 2
  DumpInterval = 1
  PreprocOn = FALSE
  MaxEvents = 6
SPECIFICATION Spec
INVARIANTS
  Accounted
  RangeRespected
  ReadingsSorted
\* The system stops: a run ends.
CHECK_DEADLOCK FALSE
