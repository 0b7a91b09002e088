SPECIFICATION Spec
CONSTANTS
  Packages <- MCPackages
  ProviderOf <- MCProviderOf
  AdminPackages <- MCAdminPackages
  Unknown <- MCUnknown
  Requests <- MixedRequests
  Drivers = {"console", "auto", "runView", "scheduled"}
  TimeoutOn = TRUE
  MaxInstalls = 2
INVARIANTS TypeOK BatchHeldWhileInstalling ReleasedAtEnd AccountedFor
PROPERTIES SkipMeansInterrupted NoPackageStartsAfterStop FinalOutcomesStay TierOncePerItem
CHECK_DEADLOCK FALSE
