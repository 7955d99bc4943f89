CONSTANTS
  MaxJobs = 3
  MaxVersions = 3
  PortRange = {1, 2}
  Limits = {0, 1}
  DefaultLimit = 1
  Overlap = {"limit", "restart", "restore"}
  Faults = {"abort", "badapp"}
SPECIFICATION Spec
CHECK_DEADLOCK FALSE
INVARIANTS
  
  FailedDeployLeavesNothing
  
