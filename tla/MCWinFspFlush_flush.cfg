SPECIFICATION Spec
CONSTANTS
    c1 = c1
    c2 = c2
    Clients = {c1}
    Flusher = Flusher
    Main = Main
    NoOne = NoOne
    Modes = {TRUE}
    MayStop = FALSE
    MaxVersion = 2
    MaxErr = 0
INVARIANTS
    StrictFlush
