SPECIFICATION Spec
CONSTANTS
  Align = 2
  Inodes = {1, 2}
  Contents <- Short
  Callers = {"whole"}
  Targets = {"SUP2"}
  Avoid = {}
  MaxOps = 2
  MaxPersists = 3
  MaxLost = 0
  MaxFaults = 1
INVARIANTS
  RepairKeepsBytes
CHECK_DEADLOCK FALSE
