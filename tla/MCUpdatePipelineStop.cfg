SPECIFICATION Spec
CONSTANTS
  Packages <- MCPackages
  ProviderOf <- MCProviderOf
  AdminPackages <- MCAdminPackages
  Unknown <- MCUnknown
  Requests <- SmallRequests
  Drivers = {"runView"}
  TimeoutOn = TRUE
  MaxInstalls = 1
PROPERTY StopMeansNothingNewStarts
CHECK_DEADLOCK FALSE
