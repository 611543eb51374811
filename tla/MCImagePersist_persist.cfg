SPECIFICATION Spec
CONSTANTS
  Align = 2
  Inodes = {1, 2}
  Contents <- Short
  Callers = {"winfsp", "fuse", "device", "whole", "session"}
  Targets = {"head", "SUPR", "SUP2", "BLKD"}
  Avoid = {"stale_descriptors", "failed_batch", "unsaved_bytes"}
  MaxOps = 3
  MaxPersists = 4
  MaxLost = 2
  MaxFaults = 1
INVARIANTS
  PersistedLoads
  AcceptedIsWhole
  CacheTrue
  RepairRecoversInodes
CHECK_DEADLOCK FALSE
