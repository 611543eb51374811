SPECIFICATION FairSpec
CONSTANTS
    c1 = c1
    c2 = c2
    Clients = {c1}
    Flusher = Flusher
    Main = Main
    NoOne = NoOne
    Modes = {TRUE, FALSE}
    MayStop = TRUE
    MaxVersion = 2
    MaxErr = 2
INVARIANTS
    NothingForgotten
    SyncPending
    UnmountPersists
PROPERTIES
    EventuallyStored
