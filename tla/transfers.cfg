CONSTANTS
  MaxTransfers = 2
  MaxChunks = 2
  MaxMeasurers = 2
  Kinds = {"deploy", "restore", "import", "volume", "backup"}
  Faults = {"client", "request", "docker", "import"}
SPECIFICATION FairSpec
CHECK_DEADLOCK FALSE
INVARIANTS TypeOK 
PROPERTIES SizesGetMeasured
