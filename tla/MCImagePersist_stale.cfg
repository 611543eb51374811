SPECIFICATION Spec
CONSTANTS
  Align = 2
  Inodes = {1, 2}
  Contents <- Short
  Callers = {"winfsp"}
  Targets = {}
  Avoid = {"failed_batch", "unsaved_bytes"}
  MaxOps = 3
  MaxPersists = 4
  MaxLost = 2
  MaxFaults = 0
INVARIANTS
  PersistedLoads
CHECK_DEADLOCK FALSE
