SPECIFICATION Spec
CONSTANTS
  Grace = 0
  Schedules = {"daily", "fresh"}
  Ticks = {"t1", "t2"}
  FiringsOf <- MCFiringsOf
  CatchUp = {"daily"}
  Invalid = {}
  AtFirst = {"daily"}
  MaxTime = 2
  MaxDeferrals = 1
  Events = {"setBack"}
  MaxEvents = 1
  MaxManualRuns = 0
  MayHang = FALSE
PROPERTY NoOccurrenceIsPassedOver
CHECK_DEADLOCK FALSE
