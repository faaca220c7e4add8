CONSTANTS
    NULL = NULL
    Blocks <- MCBlocks
    GenesisBlock = "g"
    pprev <- MCpprev
    nHeight <- MCnHeight
    nChainTrust <- MCnChainTrust
    Connects <- TipRefused
    MasterCheckpoints <- TwoBranches
    LastHardened = "g"
    Strict = TRUE
    IOErrors = FALSE
    Rollback = FALSE
    MaxCrashes = 0
SPECIFICATION FairSpec
INVARIANT BestChainConnected
CHECK_DEADLOCK FALSE
