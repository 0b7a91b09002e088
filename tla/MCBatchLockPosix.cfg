SPECIFICATION Spec
CONSTANTS
  Procs = {p1, p2, p3}
  Scheduled = {p3}
  IsWindows = FALSE
  MaxCrashes = 2
  NoOne = NoOne
PROPERTIES SafeUnlessContended WaitersGetTheBatch
CHECK_DEADLOCK FALSE
