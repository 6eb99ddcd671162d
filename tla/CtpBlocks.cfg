CONSTANTS
  TestBlocks <- MCTestBlocks
  HistBlocks <- MCHistBlocks
  Titles <- MCTitles
  Inputs <- MCInputs
  MaxLoads = 4
  MaxEvents = 2
SPECIFICATION Spec
INVARIANTS
  ScalersCount
  HistogramsCount
  ReadsAreCurrent
\* The system stops: loads and events come to an end.
CHECK_DEADLOCK FALSE
