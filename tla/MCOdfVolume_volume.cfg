SPECIFICATION Spec
CONSTANTS
  FormatBlocks = 16
  Sizes = {16, 20}
  InodeCount = 4
  JournalBlocks = 1
  BitsPerBlock = 32
  InodesPerBlock = 16
  FirstUser = 2
  Files = {f1, f2}
  f1 = f1
  f2 = f2
  MaxLen = 3
  Lens = {0, 2}
  Trim = TRUE
  Avoid = {"large_payload", "converted", "handed_on", "unpinned", "occupied_middle", "damaged_grow", "inode_bits", "half_saved"}
  MaxSaves = 2
  MaxRepairs = 1
  MaxFaults = 1
INVARIANTS
  RepairRestores
  SavedLoads
  TornIsWhole
  CheckTells
SYMMETRY Swap
CHECK_DEADLOCK FALSE
