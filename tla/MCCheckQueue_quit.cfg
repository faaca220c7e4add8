CONSTANTS
    Workers <- MCWorkers
    Master = "m"
    Checks <- MCChecks
    Bad <- MCBad
    nBatchSize = 2
    MaxBlocks = 1
SPECIFICATION FairSpec
PROPERTY QuitBlocksUntilAllGone
CHECK_DEADLOCK FALSE
