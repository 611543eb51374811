SPECIFICATION Spec
CONSTANTS
    PathSeq <- TreePaths
    KeepLatest = 3
    MaxVersionBytes = 99
    MaxFiles = 2
    MaxBytes = 3
    MinCompress = 9
    Compress = TRUE
    EncryptAtRest = TRUE
    CopyOnWrite = TRUE
    Journaling = TRUE
    NoTxn = NoTxn
    NoWal = NoWal
    Torn = Torn
    Bytes = {1}
    MaxLen = 2
    Handles = {1, 2}
    Threshold = 1
    Backing = "file"
    Avoid = {"reuse", "shared", "stream_again", "stream_resize", "copy", "rename_open", "unsettled", "streamed_snapshot"}
    MaxCalls = 5
    MaxInode = 2
    MaxFaults = 1
INVARIANTS
    FsyncedSurvives
    ReadYourWrites
    FlushedReaches
    ViewsTrue
CHECK_DEADLOCK FALSE
