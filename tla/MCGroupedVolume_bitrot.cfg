SPECIFICATION Spec
CONSTANTS
  Total = 25
  GroupCount = 2
  InodeCount = 4
  JournalBlocks = 8
  FirstUser = 2
  Files = {f1, f2}
  Root = Root
  f1 = f1
  f2 = f2
  AncSizes = {1, 4}
  Avoid = {"unmarked"}
  MaxSaves = 2
  MaxFaults = 1
INVARIANTS
  BitRotRefused
CHECK_DEADLOCK FALSE
