CONSTANTS
    Lock = {l1, l2}
    Shared = {l2}
    MaxAttempts = 2
    MaxErrors = 3
    None = None
SPECIFICATION FairSpec
INVARIANTS TypeOK MutualExclusion
PROPERTIES LostOnlyByOwner OwnLockLetsGo
CHECK_DEADLOCK FALSE
