CONSTANTS
    Workers <- MCWorkers
    Master = "m"
    Checks <- MCChecks
    Bad <- MCBad
    nBatchSize = 2
    MaxBlocks = 2
SPECIFICATION FairSpec
INVARIANT TodoIsExact
INVARIANT FinishedBeforeContinuing
INVARIANT VerdictIsExact
INVARIANT IdleBetweenBlocks
INVARIANT SuccessIsSound
PROPERTY WaitReturns
PROPERTY QuitReturns
CHECK_DEADLOCK FALSE
