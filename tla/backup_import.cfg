CONSTANTS
  MaxRows = 2
  MaxThreads = 1
  MaxVersions = 2
  MaxClock = 0
  MaxRemote = 0
  NoCron = NoCron
  Faults = {}
  Fires <- EarlyFires
  CatchUp = 1
  Settings <- OperatorSettings
SPECIFICATION Spec
CHECK_DEADLOCK FALSE
PROPERTY AcceptedImportsLand
