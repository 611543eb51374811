SPECIFICATION Spec
CONSTANTS
    c1 = c1
    c2 = c2
    Contents = {c1, c2}
    SizeOf <- Sizes11
    Empty = Empty
    NoRec = NoRec
    Ids = {1}
    Metas = {1}
    NBlocks = 8
    Reserved = {3}
    NSlots = 2
    Ops <- RewriteCalls
    Avoid = {"reappear", "retry"}
    MaxGen = 3
    MaxOpen = 0
    MaxErr = 0
    MaxCrash = 1
INVARIANTS
    NewestSuperblock

