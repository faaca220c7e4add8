CONSTANTS
    NULL = NULL
    Blocks <- MCBlocks
    GenesisBlock = "g"
    pprev <- MCpprev
    nHeight <- MCnHeight
    nChainTrust <- MCnChainTrust
    Connects <- SomeRefused
    MasterCheckpoints <- TwoBranches
    LastHardened = "b3"
    Strict = TRUE
    IOErrors = FALSE
    Rollback = FALSE
    MaxCrashes = 2
SPECIFICATION FairSpec
INVARIANT DiskIsLoadable
INVARIANT MemoryMatchesDisk
INVARIANT CheckpointOnMainChain
INVARIANT PendingCheckpointTaken
INVARIANT HeaviestValidChain
PROPERTY TrustOnlyGrows
CHECK_DEADLOCK FALSE
