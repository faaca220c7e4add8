CONSTANTS
    Blocks <- MCBlocks
    GenesisBlock = "g"
    NULL = NULL
    pprev <- MCpprev
    nHeight <- MCnHeight
    nChainTrust <- MCnChainTrust
    Txs <- MCTxs
    vtx <- MCvtx
    vin <- MCvin
    vout <- MCvout
    CoinBases <- MCCoinBases
    CoinStakes <- MCCoinStakes
    nReward = 6
    Standard <- Loose
    Verifies <- MCTxs
    nCoinbaseMaturity = 1
    MaxOutputs = 3
    IOErrors = TRUE
    MaxCrashes = 1
    FromPeers <- Foreign
    HashOrder <- MCHashOrder
    BigTxs = {}
    MAX_ORPHAN_TRANSACTIONS = 2
SPECIFICATION RelaySpec
CHECK_DEADLOCK FALSE
INVARIANT IndexIsLedger
INVARIANT SupplyIsUnspent
INVARIANT PoolSpendsOnce
INVARIANT PoolOutsideChain
PROPERTY ImplementsBestChain

INVARIANT OrphanTxMapsAgree
PROPERTY ReleasesOrphans
