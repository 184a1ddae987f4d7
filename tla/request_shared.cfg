CONSTANTS
    MaxByte = 1
    Value = {a, b}
    noValue = noValue
    Prefix <- MCNoPrefix
    UserKey <- MCUserKey
    UserRange <- MCUserRange
    Present <- MCPresent
    Call = {c1}
    MaxBuilds = 2
    MaxRetries = 1
    MaxOthers = 1
SPECIFICATION Spec
CHECK_DEADLOCK FALSE
INVARIANT SentAsBuilt
