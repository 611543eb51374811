SPECIFICATION Spec
CONSTANTS
  Align = 2
  Inodes = {1, 2}
  Contents <- Short
  Callers = {"fuse"}
  Targets = {}
  Avoid = {}
  MaxOps = 2
  MaxPersists = 3
  MaxLost = 2
  MaxFaults = 1
INVARIANTS
  SurvivesPowerLoss
CHECK_DEADLOCK FALSE
