\* Two requests, and a run of three events that may end before they are answered.
CONSTANTS
  Lens = {1, 2}
  Waits = {0, 2}
  Controls <- MCControls
  MaxRequests = 2
  MaxEvents = 3
SPECIFICATION FairSpec
\* The system stops: events and requests come to an end.
CHECK_DEADLOCK FALSE
INVARIANTS
  FirstMatch
  WaitBounded
  OneAnswer
  NeverBlocksWaiter
PROPERTIES
  BlocksOnRpc
  ClientReturns
