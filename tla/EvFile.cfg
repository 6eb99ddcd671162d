\* A pipe or a file between a writer and a reader: events shorter than, equal
\* to and longer than a block's three data words.
CONSTANTS
  EV_HDSIZ = 2
  BlkSiz = 5
  BufLen = 9
  Lens = {1, 2, 4}
  MaxEvents = 4
SPECIFICATION FairSpec
INVARIANTS
  OnlyLastBlockShort
  EndIsComplete
  FlushedSurvive
PROPERTIES
  QueueSpec
  ReaderEnds
\* The system stops: the writer and the reader end.
CHECK_DEADLOCK FALSE
