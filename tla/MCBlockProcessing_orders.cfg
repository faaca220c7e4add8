CONSTANTS
    Blocks <- MCBlocks
    GenesisBlock = "g"
    NULL = NULL
    pprev <- MCpprev
    nHeight <- MCnHeight
    nChainTrust <- MCnChainTrust
    stake <- MCstake
    Accepts <- NotC2
    Connects <- NotD1
    PendingCheckpoint = "c2"
SPECIFICATION FairSpec
CHECK_DEADLOCK FALSE
INVARIANT OrphanMapsAgree
INVARIANT NoStrandedOrphan
PROPERTY OrphanStakeLimited
PROPERTY EveryChainIndexed
