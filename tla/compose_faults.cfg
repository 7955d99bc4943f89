CONSTANTS
  MaxJobs = 3
  MaxVersions = 2
  PortRange = {1}
  Limits = {0, 1}
  DefaultLimit = 1
  Overlap = {}
  Faults = {"crash", "docker", "lock", "neighbours", "vhost"}
SPECIFICATION FairSpec
CHECK_DEADLOCK FALSE
 
PROPERTIES
  ImplementsReleaseHistory
  EveryJobEnds
