CONSTANTS
    Peers <- OnePeer
    NULL = NULL
    StartHeight = 5
    MaxHeight = 6
    nLimit = 2
    nMaxKnown = 4
    nStakeMinAge = 2
    nOneDay = 2
    StakeOf <- TipStake
    TotalBlocksEstimate = 1
    MaxConnections = 2
SPECIFICATION FairSpec
CHECK_DEADLOCK FALSE
PROPERTY CatchesUp
PROPERTY ComesToRest
