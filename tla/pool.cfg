CONSTANTS
    Calls = 2
    Hosts = 2
    Retries = 1
    Threshold = 2
    MaxFaults = 3
    MaxExpiries = 1
SPECIFICATION FairSpec
INVARIANTS
    TypeOK
    ErrorIsTheCause
    TokenReplaced
PROPERTIES
    NoCallOnceClosed
    CallsEnd
CHECK_DEADLOCK FALSE
