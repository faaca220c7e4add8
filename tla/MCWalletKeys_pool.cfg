CONSTANTS
    nKeyPool = 1
    MaxKeys = 4
    MaxEncryptions = 2
    MaxCrashes = 3
    NULL = NULL
SPECIFICATION Spec
CHECK_DEADLOCK FALSE
INVARIANT KeysSurvive
INVARIANT PoolReadable
INVARIANT KeyGivenOnce
