SPECIFICATION Spec
CONSTANTS
  N = 3
  Platforms = {"windows", "posix"}
  MayKill = {"posix", "windows"}
  MayCrash = TRUE
INVARIANTS TypeOK OutcomesAreTruthful NoInstallOutsideBatch
PROPERTIES NothingStartsAfterTheAnswer ElevatedStepEnds
CHECK_DEADLOCK FALSE
