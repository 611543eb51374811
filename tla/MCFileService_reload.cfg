SPECIFICATION Spec
CONSTANTS
    PathSeq <- TreePaths
    KeepLatest = 1
    MaxVersionBytes = 2
    MaxFiles = 2
    MaxBytes = 3
    MinCompress = 2
    Compress = TRUE
    EncryptAtRest = TRUE
    CopyOnWrite = TRUE
    Journaling = TRUE
    NoTxn = NoTxn
    NoWal = NoWal
    Bytes = {1}
    Contents <- ShortAndLong
    MaxLen = 2
    Ops = {"create", "mkdir", "symlink", "write", "range", "truncate", "extend", "delete", "secure", "restore", "expunge", "chmod", "rename", "snapshot", "drop_snapshot", "rollback", "clone", "clone_tree", "save", "repair"}
    Avoid = {"secure_dir", "mixed_form", "rewrite"}
    MaxCalls = 3
    MaxInode = 3
INVARIANT
    ReloadKeeps
CHECK_DEADLOCK FALSE
