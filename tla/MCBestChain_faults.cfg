CONSTANTS
    NULL = NULL
    Blocks <- MCBlocks
    GenesisBlock = "g"
    pprev <- MCpprev
    nHeight <- MCnHeight
    nChainTrust <- MCnChainTrust
    Connects <- TipRefused
    MasterCheckpoints <- FaultCheckpoints
    LastHardened = "g"
    Strict = FALSE
    IOErrors = TRUE
    Rollback = TRUE
    MaxCrashes = 1
SPECIFICATION FairSpec
INVARIANT SyncCheckpointAccepted
PROPERTY CheckpointOnlyAdvances
PROPERTY HandlerEnds
CHECK_DEADLOCK FALSE
