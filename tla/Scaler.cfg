\* A register that rolls over or clears itself, at most twice, and is read at
\* some of five scaler events.
CONSTANTS
  W = 16
  FalseClear = 4
  gscalweirdcorrect_flag = TRUE
  MaxFirst = 3
  MinDelta = 1
  MaxDelta = 4
  MaxClears = 2
  MaxReadings = 5
SPECIFICATION Spec
INVARIANTS
  RolloversRecorded
  SumsRight
\* The system stops: readings come to an end.
CHECK_DEADLOCK FALSE
