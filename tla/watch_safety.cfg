SPECIFICATION Spec
CONSTANTS
    Watcher = {w1, w2, w3}
    Stream = {s1, s2}
    None = None
    FaultKinds = {"openFail", "fail", "end", "refuse", "drop"}
    MaxFaults = 2
    AttachInGap = FALSE
INVARIANTS
    TypeOK
    SingleStream
    RoutedToOwner
    OneAttachAtATime
    ReconnectScheduled
PROPERTIES
    ImplementsLifecycle
SYMMETRY Interchangeable
CHECK_DEADLOCK FALSE
