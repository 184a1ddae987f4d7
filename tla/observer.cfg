SPECIFICATION ObservedFairSpec
CONSTANTS
    Candidate = {a, b}
    None = None
    Unset = Unset
    MaxTurns = 2
INVARIANTS
    ProclaimedIsStored
    FollowsKey
PROPERTIES
    EventuallyElected
    NeverStaleForGood
CHECK_DEADLOCK FALSE
