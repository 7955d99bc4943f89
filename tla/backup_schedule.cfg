CONSTANTS
  MaxRows = 2
  MaxThreads = 2
  MaxVersions = 1
  MaxClock = 3
  MaxRemote = 0
  NoCron = NoCron
  Faults = {"job", "crash"}
  Fires <- LateFires
  CatchUp = 1
  Settings <- OperatorSettings
SPECIFICATION FairSpec
CHECK_DEADLOCK FALSE
PROPERTIES  DueWindowsAreTaken
