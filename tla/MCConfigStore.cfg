SPECIFICATION Spec
CONSTANTS
  Procs = {"p1", "p2"}
  NoLock = "nobody"
  MaxAttempts = 2
  IsWindows = TRUE
  MaxFaults = 2
  Sections = {"interface", "schedules"}
  Updated = {"schedules"}
  NewerOf = {"interface"}
  Disabled = {}
  MaxSaves = 3
INVARIANTS TypeOK OneHolder FileHoldsEverySave SpoiltFilesAreKept
PROPERTY NewerSectionsStay
CHECK_DEADLOCK FALSE
