SPECIFICATION FairSpec
CONSTANTS
    t1 = t1
    t2 = t2
    t3 = t3
    Tools = {t1, t2, t3}
    NoTool = NoTool
    MayUnmount = TRUE
PROPERTIES
    KeepsPromise
    EveryToolAnswered
