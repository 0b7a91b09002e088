SPECIFICATION Spec
CONSTANTS
  Schedules = {"s1", "s2"}
  Terminals = {"t1", "t2"}
  Gups <- MCGups
  PackageOf <- MCPackageOf
  Unregistrable = {"npx"}
  Mechanism = "launchd"
  None = "none"
  MaxCommands = 3
  MaxFaults = 1
INVARIANT TypeOK
PROPERTIES CommandsAgreeWithTheSystem RecordNamesTheTrigger NobodyTakesTheTrigger
CHECK_DEADLOCK FALSE
