CONSTANTS
  MaxRows = 2
  MaxThreads = 2
  MaxVersions = 2
  MaxClock = 1
  MaxRemote = 1
  NoCron = NoCron
  Faults = {"job", "remote", "import", "crash"}
  Fires <- EarlyFires
  CatchUp = 1
  Settings <- OperatorSettings
SPECIFICATION Spec
CHECK_DEADLOCK FALSE
INVARIANTS TypeOK 
 
