SPECIFICATION FairSpec
CONSTANTS
    Watcher = {w1, w2}
    Stream = {s1}
    None = None
    FaultKinds = {"openFail", "fail", "end", "drop"}
    MaxFaults = 2
    AttachInGap = FALSE
INVARIANTS
    AttachInFlight
PROPERTIES
    EventuallySubscribed
    CancelResolves
CHECK_DEADLOCK FALSE
