SPECIFICATION ViewSpec
CONSTANTS
  Packages <- MCPackages
  ProviderOf <- MCProviderOf
  AdminPackages <- MCAdminPackages
  Unknown <- MCUnknown
  Requests <- ViewRequests
  Drivers = {"console", "auto", "runView", "scheduled"}
  TimeoutOn = TRUE
  MaxInstalls = 2
INVARIANTS ScreenTellsTheRun
PROPERTIES LeversActOnTheRun UnattendedRunsEnd StopEndsTheRun
CHECK_DEADLOCK FALSE
