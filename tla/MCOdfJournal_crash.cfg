CONSTANTS
    b1 = b1
    b2 = b2
    v0 = v0
    v1 = v1
    v2 = v2
    MetaBlocks <- TwoBlocks
    Vals <- ThreeVals
    InitVal = v0
    Torn = Torn
    Slots = 3
    ZeroSlots = 1
    MaxOps = 2
    MaxTxn = 2
    MaxCrash = 2
    MaxErr = 0
    OfflineRepair = FALSE
SPECIFICATION Spec
INVARIANTS
    AtomicCommit
    PointersBehindData
    ClosedLog
