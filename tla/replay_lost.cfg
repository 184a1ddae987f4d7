SPECIFICATION FairSpec
CONSTANTS
    MaxRev = 3
    MaxBreaks = 1
    BreakInReplay = TRUE
INVARIANT NothingLost
CHECK_DEADLOCK FALSE
