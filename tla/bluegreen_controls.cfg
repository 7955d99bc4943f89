CONSTANTS
  MaxJobs = 4
  MaxVersions = 3
  PortRange = {1, 2, 3, 4}
  Limits = {0, 1}
  DefaultLimit = 1
  Overlap = {"restart", "stop"}
  Faults = {"abort", "badapp"}
SPECIFICATION Spec
CHECK_DEADLOCK FALSE
INVARIANTS
  TypeOK
  VersionTiers
  ArchivedWithinLimit
  RecordedImages
  SettledSite
  FailedDeployLeavesNothing
  
PROPERTY
  ZeroDowntime
