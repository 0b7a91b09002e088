SPECIFICATION Spec
CONSTANTS
  Grace = 0
  Schedules = {"daily", "fresh"}
  Ticks = {"t1", "t2"}
  FiringsOf <- MCFiringsOf
  CatchUp = {"daily"}
  Invalid = {}
  AtFirst = {"daily"}
  MaxTime = 2
  MaxDeferrals = 1
  Events = {"edit"}
  MaxEvents = 1
  MaxManualRuns = 1
  MayHang = FALSE
PROPERTY NoRecordIsLost
CHECK_DEADLOCK FALSE
