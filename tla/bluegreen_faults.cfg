CONSTANTS
  MaxJobs = 3
  MaxVersions = 3
  PortRange = {1, 2, 3}
  Limits = {0, 1}
  DefaultLimit = 1
  Overlap = {}
  Faults = {"abort", "crash", "lock", "orphan", "vhost"}
SPECIFICATION FairSpec
CHECK_DEADLOCK FALSE
INVARIANT LaunchedPortIsFree
PROPERTIES
  CounterNeverGoesBack
  ImplementsReleaseHistory
  EveryJobEnds
