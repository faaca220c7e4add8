CONSTANTS
    Blocks <- MCBlocks
    GenesisBlock = "g"
    NULL = NULL
    pprev <- MCpprev
    nHeight <- MCnHeight
    nChainTrust <- MCnChainTrust
    Txs <- MCTxs
    vtx <- MCvtx
    vin <- MCvin
    vout <- MCvout
    CoinBases <- MCCoinBases
    CoinStakes <- MCCoinStakes
    nReward = 6
    Standard <- Loose
    Verifies <- MCTxs
    nCoinbaseMaturity = 0
    MaxOutputs = 3
    IOErrors = TRUE
    MaxCrashes = 1
    HashOrder <- MCHashOrder
    FromPeers <- Foreign
    BigTxs = {}
    MAX_ORPHAN_TRANSACTIONS = 1
    Mine <- MCMine
    Sends <- TwoSends
    nMaturityMargin = 1
    COPY_DEPTH = 3
SPECIFICATION WalletSpec
CHECK_DEADLOCK FALSE
INVARIANT CommitNeverFails
