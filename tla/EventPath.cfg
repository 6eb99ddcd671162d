CONSTANTS
  MapLines <- MCMapLines
  Detectors = {0, 1, 2}
  UNINST_ID = 0
  MaxHits <- MCMaxHits
  SignalCount <- MCSignalCount
  Events <- MCEvents
  Overflow = 65535
  Runs <- MCRuns
  NoFile <- Absent
  TooLong <- Long
  Blocks = {"wc", "hodo"}
  Titles <- MCTitles
  Junk = {0, 33}
  WC = 1
  SCIN = 2
  GoodTimes <- MCGoodTimes
  Pedestal = 15
SPECIFICATION PathSpec
INVARIANTS
  HitListsSorted
  AllDecoded
  SegmentsInOrder
  ValuesFollowTitles
PROPERTY
  DecodeEnds
\* The system stops: a run ends.
CHECK_DEADLOCK FALSE
