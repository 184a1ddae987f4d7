SPECIFICATION Spec
CONSTANTS
    Candidate = {a, b, c}
    None = None
    MaxTurns = 2
INVARIANTS
    LeaderIsFirst
SYMMETRY Interchangeable
CHECK_DEADLOCK FALSE
