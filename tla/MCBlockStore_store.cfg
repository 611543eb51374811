SPECIFICATION Spec
CONSTANTS
    Inodes = {1, 2}
    Values = {a, b}
    Zero = zero
    Data <- AllData
    BlockSize = 1
    MaxSize = 2
    MaxBlocks = 4
    Policies <- BothPolicies
    Ops = {"write", "append", "range", "resize", "remove", "clone", "dedup",
           "defragment", "optimize", "policy", "reload", "wdev", "wat",
           "truncate", "ioerror", "empty", "drain"}
    Avoid = {"appended", "empty", "hot"}
    TrackTrims = FALSE
SYMMETRY ValueSymmetry
INVARIANT NoBlockTakenTwice
INVARIANT ReadsBack
INVARIANT FreeSpaceExact
INVARIANT NeverOvercounted
INVARIANT ImageLoads
VIEW View
