SPECIFICATION Spec
CONSTANTS
  Procs = {p1, p2}
  Scheduled = {p2}
  IsWindows = FALSE
  MaxCrashes = 1
  NoOne = NoOne
INVARIANT OneBatchAtATime
CHECK_DEADLOCK FALSE
