SPECIFICATION FairSpec
CONSTANTS
    MaxRev = 4
    MaxBreaks = 2
    BreakInReplay = FALSE
INVARIANTS
    TypeOK
    NothingLost
    EmittedOnce
PROPERTY EventuallyEmitted
CHECK_DEADLOCK FALSE
