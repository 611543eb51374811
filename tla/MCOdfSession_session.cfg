SPECIFICATION Spec
CONSTANTS
    c1 = c1
    c2 = c2
    Contents = {c1, c2}
    SizeOf <- Sizes12
    Empty = Empty
    NoRec = NoRec
    Ids = {1, 2}
    Metas = {1, 2}
    NBlocks = 12
    Reserved = {3}
    NSlots = 2
    Ops <- AllCalls
    Avoid = {"reappear", "retry"}
    MaxGen = 3
    MaxOpen = 1
    MaxErr = 0
    MaxCrash = 0
INVARIANTS
    DisjointOwners
    CacheHolds
    FlushedReloads

