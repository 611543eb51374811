CONSTANTS
    b1 = b1
    b2 = b2
    v0 = v0
    v1 = v1
    v2 = v2
    MetaBlocks <- TwoBlocks
    Vals <- ThreeVals
    InitVal = v0
    Torn = Torn
    Slots = 4
    ZeroSlots = 1
    MaxOps = 1
    MaxTxn = 2
    MaxCrash = 1
    MaxErr = 0
    OfflineRepair = TRUE
SPECIFICATION Spec
INVARIANTS
    AtomicCommit
