CONSTANTS
    MaxByte = 1
    Value = {a, b}
    noValue = noValue
    Prefix <- MCPrefix
    UserKey <- MCUserKey
    UserRange <- MCUserRange
    Present <- MCPresent
    Call = {c1}
    MaxBuilds = 2
    MaxRetries = 1
    MaxOthers = 1
SPECIFICATION Spec
PROPERTIES StaysInside ImplementsPrivateStore
CHECK_DEADLOCK FALSE
SYMMETRY Interchangeable
