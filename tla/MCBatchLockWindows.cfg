SPECIFICATION Spec
CONSTANTS
  Procs = {p1, p2, p3}
  Scheduled = {p3}
  IsWindows = TRUE
  MaxCrashes = 2
  NoOne = NoOne
INVARIANTS TypeOK OneBatchAtATime HolderIsReachable
PROPERTIES InfoStaysTheHolders MutexSpec WaitersGetTheBatch
CHECK_DEADLOCK FALSE
