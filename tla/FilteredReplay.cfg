\* Runs of up to five events: a first reading, then an interval of its own.  Four
\* events in one interval do not fit the filter's buffer.  Runs of up to three
\* segments, of which two can be named.
CONSTANTS
  Events <- MCEvents
  MAX_REALLYBIGBUFFER = 7
  Digits = 2
  MaxSegments = 3
  MaxEvents = 5
  Enabled = {5}
  Threshold = 1
SPECIFICATION ReplaySpec
CONSTRAINT RunsAreSmall
INVARIANTS
  CopiedOnce
  FlagsAreRight
  OrderKept
  OverflowWithholdsOneInterval
  AnalyzedAsCharged
  ChargeIsSound
\* The system stops: a run ends.
CHECK_DEADLOCK FALSE
