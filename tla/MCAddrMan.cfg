CONSTANTS
    h1 = h1
    h2 = h2
    h3 = h3
    h4 = h4
    Services <- MCServices
    Sources <- MCSources
    NewBuckets = {1, 2}
    TriedBuckets = {1}
    GetNewBucket <- MCGetNewBucket
    GetTriedBucket <- MCGetTriedBucket
    NewBucketSize = 1
    TriedBucketSize = 2
    NewBucketsPerAddress = 2
    InspectOnEvict = 2
    GetAddrMaxPct = 34
    Times = {1}
    MaxId = 4
    NULL = NULL
SPECIFICATION Spec
INVARIANT CheckPasses
INVARIANT BucketsLimited
INVARIANT SurvivesRestart
PROPERTY TriedNeverDeleted
SYMMETRY Interchangeable
CHECK_DEADLOCK FALSE
