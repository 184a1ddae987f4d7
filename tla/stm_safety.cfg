SPECIFICATION Spec
CONSTANTS
    Txn = {t1, t2}
    Key = {k1, k2}
    None = None
    Levels = {"SerializableSnapshot", "Serializable", "RepeatableReads", "ReadCommitted"}
    Retries = 1
    MaxOps = 2
    MaxLost = 1
INVARIANTS
    TypeOK
    ReadsStillCurrent
    SnapshotReads
    NoWriteConflict
    SerializableConflictIsReal
    AppliedOnceUnlessResent
SYMMETRY Interchangeable
CHECK_DEADLOCK FALSE
