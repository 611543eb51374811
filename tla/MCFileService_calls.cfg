SPECIFICATION Spec
CONSTANTS
    PathSeq <- TreePaths
    KeepLatest = 1
    MaxVersionBytes = 2
    MaxFiles = 2
    MaxBytes = 3
    MinCompress = 2
    Compress = TRUE
    EncryptAtRest = TRUE
    CopyOnWrite = TRUE
    Journaling = TRUE
    NoTxn = NoTxn
    NoWal = NoWal
    Bytes = {1}
    Contents <- ShortAndLong
    MaxLen = 2
    Ops = {"create", "mkdir", "symlink", "write", "range", "truncate", "extend", "delete", "secure", "restore", "expunge", "chmod", "rename", "snapshot", "drop_snapshot", "rollback", "clone", "clone_tree", "save", "repair"}
    Avoid = {"reuse", "secure_dir", "mixed_form", "rewrite", "loaded_tombstone"}
    MaxCalls = 4
    MaxInode = 4
INVARIANTS
    ReloadKeeps
    CatalogSound
    SnapshotComesBack
    DirtyCoversChanges
PROPERTIES
    NothingVanishes
CHECK_DEADLOCK FALSE
