SPECIFICATION FairSpec
CONSTANTS
    Beat = 1
    Delay = 1
    Stream = {s1, s2}
    None = None
    Off = Off
    MaxFails = 1
    MaxDowns = 1
INVARIANTS
    TypeOK
    OneLoop
    LeaseKept
PROPERTIES
    LossNoticed
