SPECIFICATION Spec
CONSTANTS
  Grace = 0
  Schedules = {"daily", "fresh"}
  Ticks = {"t1", "t2"}
  FiringsOf <- MCFiringsOf
  CatchUp = {"daily"}
  Invalid = {}
  AtFirst = {"daily"}
  MaxTime = 2
  MaxDeferrals = 1
  Events = {"setBack", "crash", "edit"}
  MaxEvents = 1
  MaxManualRuns = 1
  MayHang = TRUE
INVARIANT TypeOK
PROPERTIES OccurrenceRunsOnce NoneIsPassedOverByASteadyClock NoKnownRecordIsLost DeferralsAreCounted OccurrencesAreSettled
CHECK_DEADLOCK FALSE
