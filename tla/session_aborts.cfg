CONSTANTS
  MaxJobs = 2
  MaxLog = 1
  Clients = {c1, c2}
  NoClient = NoClient
  Faults = {"abort", "send"}
SPECIFICATION Spec
SYMMETRY ClientSymmetry
CHECK_DEADLOCK FALSE
INVARIANTS
  TypeOK
  StreamIsComplete
  
  
  InstallsHoldTheSlot
  
