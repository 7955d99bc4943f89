CONSTANTS
  MaxJobs = 4
  MaxVersions = 3
  PortRange = {1, 2}
  Limits = {0, 1}
  DefaultLimit = 1
  Overlap = {}
  Faults = {"badapp"}
SPECIFICATION Spec
CHECK_DEADLOCK FALSE
INVARIANTS
  TypeOK
  SettledStack
  ArchivedWithinLimit
PROPERTIES
  ServesUntilSwitch
  RestartRunsActive
