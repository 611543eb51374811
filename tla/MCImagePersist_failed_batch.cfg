SPECIFICATION Spec
CONSTANTS
  Align = 2
  Inodes = {1, 2}
  Contents <- Short
  Callers = {"winfsp"}
  Targets = {}
  Avoid = {"stale_descriptors"}
  MaxOps = 3
  MaxPersists = 4
  MaxLost = 2
  MaxFaults = 1
INVARIANTS
  PersistedLoads
CHECK_DEADLOCK FALSE
