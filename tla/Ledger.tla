------------------------------- MODULE Ledger -------------------------------
(***************************************************************************)
(* The transaction index of the block database (which outputs exist and    *)
(* which transaction spent them) and the memory pool, as ConnectBlock,     *)
(* DisconnectBlock, SetBestChain, Reorganize and CTxMemPool::accept        *)
(* (main.cpp) keep them while branches overtake each other.  The module    *)
(* computes what BestChain takes as a parameter: whether a block connects. *)
(*                                                                         *)
(* Everything here runs under cs_main.  A step ends at a commit of the     *)
(* database; a database transaction that is aborted leaves txindex alone.  *)
(***************************************************************************)
EXTENDS BlockTree, FiniteSets, SequencesExt

CONSTANTS
    Txs,                \* every transaction, of blocks and loose
    vtx,                \* CBlock::vtx, a sequence for each block
    vin,                \* the outpoints <<tx, n>> a transaction spends
    vout,               \* the values of its outputs
    CoinBases,          \* the first transaction of each block
    CoinStakes,         \* the second transaction of a proof-of-stake block
    nReward,            \* GetProofOfWorkReward without fees, and the coinstake's allowance
    Standard,           \* transactions the pool's own policy lets in
    Verifies,           \* transactions whose scripts and times verify
    nCoinbaseMaturity,
    MaxOutputs,         \* a transaction has no more outputs than its size allows
    IOErrors,           \* may a block not be read back, or a reorganisation not be committed?
    MaxCrashes          \* bound on the number of restarts

Outpoints == {<<t, n>> : t \in Txs, n \in 1..MaxOutputs}

ASSUME LedgerAssumption ==
    /\ NULL \notin Txs /\ NULL \notin [pos : Blocks, vSpent : Seq(Txs \cup {NULL})]
    /\ vtx \in [Blocks -> Seq(Txs)]
    /\ vin \in [Txs -> SUBSET Outpoints]
    /\ vout \in [Txs -> Seq(Nat)] /\ \A t \in Txs : Len(vout[t]) <= MaxOutputs
    /\ CoinBases \subseteq Txs /\ CoinStakes \subseteq Txs /\ CoinBases \cap CoinStakes = {}
    /\ \A t \in CoinBases : vin[t] = {}
    /\ \A b \in Blocks \ {GenesisBlock} :
          \A i \in 1..Len(vtx[b]) : (i = 1) <=> (vtx[b][i] \in CoinBases)
    /\ nReward \in Nat /\ nCoinbaseMaturity \in Nat /\ IOErrors \in BOOLEAN
    /\ MaxOutputs \in Nat /\ MaxCrashes \in Nat

(***************************************************************************)
(* What CheckTransaction, CheckBlock and AcceptBlock refuse before a block *)
(* is indexed: a transaction without inputs, a block with the same         *)
(* transaction twice, and a coinbase that does not begin with the height   *)
(* of its block.                                                           *)
(***************************************************************************)
ASSUME CheckedBlocks ==
    /\ \A b \in Blocks \ {GenesisBlock} : \A i \in 2..Len(vtx[b]) : vin[vtx[b][i]] # {}
    /\ \A b \in Blocks \ {GenesisBlock} : \A i, j \in 1..Len(vtx[b]) : vtx[b][i] = vtx[b][j] => i = j
    /\ \A b, c \in Blocks \ {GenesisBlock} :
          nHeight[b] # nHeight[c] => ToSet(vtx[b]) \cap ToSet(vtx[c]) \cap CoinBases = {}

VARIABLES
    \* the block database
    txindex,            \* CTxIndex of each transaction, or NULL
    hashBestChain,      \* the block the database stands at
    \* memory
    mapBlockIndex, pnext, pindexBest, nBestInvalidTrust,
    nMoneySupply,       \* CBlockIndex::nMoneySupply
    mapTx, mapNextTx,   \* CTxMemPool
    \* the handler that is running, as in BestChain
    pc, pindexNew, vpindexSecondary,
    broken,             \* history: a postponed block could not be read or connected
    nCrashes            \* restarts so far

pool    == <<mapTx, mapNextTx>>
handler == <<pc, pindexNew, vpindexSecondary>>
vars    == <<txindex, hashBestChain, mapBlockIndex, pnext, pindexBest, nBestInvalidTrust,
             nMoneySupply, pool, handler, broken, nCrashes>>

CTxIndexes == [pos : Blocks, vSpent : Seq(Txs \cup {NULL})]

TypeOK ==
    /\ \A t \in Txs : txindex[t] = NULL \/ txindex[t] \in CTxIndexes
    /\ hashBestChain \in Blocks
    /\ mapBlockIndex \subseteq Blocks
    /\ pnext \in [Blocks -> BlockOrNull]
    /\ pindexBest \in Blocks
    /\ nBestInvalidTrust \in Nat
    /\ nMoneySupply \in [Blocks -> Int]
    /\ mapTx \subseteq Txs
    /\ mapNextTx \in [Outpoints -> Txs \cup {NULL}]
    /\ pc \in {"idle", "set", "secondary", "pending"}
    /\ pindexNew \in Blocks
    /\ vpindexSecondary \subseteq Blocks
    /\ broken \in BOOLEAN
    /\ nCrashes \in 0..MaxCrashes

\* The genesis block is best; its transactions are never connected.
Init ==
    /\ txindex = [t \in Txs |-> NULL]
    /\ hashBestChain = GenesisBlock
    /\ mapBlockIndex = {GenesisBlock}
    /\ pnext = [b \in Blocks |-> NULL]
    /\ pindexBest = GenesisBlock
    /\ nBestInvalidTrust = 0
    /\ nMoneySupply = [b \in Blocks |-> 0]
    /\ mapTx = {}
    /\ mapNextTx = [o \in Outpoints |-> NULL]
    /\ pc = "idle"
    /\ pindexNew = GenesisBlock
    /\ vpindexSecondary = {}
    /\ broken = FALSE
    /\ nCrashes = 0

-----------------------------------------------------------------------------
\* Sums over the outputs of transactions.
SumOver(f(_), S) == FoldFunction(+, 0, [x \in S |-> f(x)])
Value(o)         == vout[o[1]][o[2]]
GetValueOut      == [t \in Txs |-> SumOver(LAMBDA n : vout[t][n], 1..Len(vout[t]))]
GetValueIn       == [t \in Txs |-> SumOver(Value, vin[t])]

Minted(t) == t \in CoinBases \cup CoinStakes
Prevs(t)  == {o[1] : o \in vin[t]}

(***************************************************************************)
(* FetchInputs: every input names an output of an indexed transaction.     *)
(***************************************************************************)
FetchInputs(idx, t) ==
    \A o \in vin[t] : idx[o[1]] # NULL /\ o[2] \in 1..Len(vout[o[1]])

(***************************************************************************)
(* The walk back from the block at hand finds no block with the output of  *)
(* a coinbase or coinstake within the maturity.                            *)
(***************************************************************************)
IsMature(entry, prev, b) ==
    Minted(prev) => ~ \E c \in Chain[b] :
                        c = entry.pos /\ nHeight[b] - nHeight[c] < nCoinbaseMaturity

ConnectInputsUnchecked(idx, t, b) ==
    /\ \A o \in vin[t] : IsMature(idx[o[1]], o[1], b)
    /\ t \in Verifies
    /\ IF t \in CoinStakes THEN GetValueOut[t] - GetValueIn[t] <= nReward
                           ELSE GetValueIn[t] >= GetValueOut[t]

\* ConnectInputs: the checks that depend on the index.
ConnectInputs(idx, t, b) ==
    /\ \A o \in vin[t] : /\ IsMature(idx[o[1]], o[1], b)
                         /\ idx[o[1]].vSpent[o[2]] = NULL
    /\ t \in Verifies
    /\ IF t \in CoinStakes THEN GetValueOut[t] - GetValueIn[t] <= nReward
                           ELSE GetValueIn[t] >= GetValueOut[t]

\* The index with the outputs t spends marked, and the entry of t itself added.
MarkSpent(idx, t) ==
    [u \in Txs |-> IF u \notin Prevs(t) THEN idx[u]
                   ELSE [idx[u] EXCEPT !.vSpent = [n \in DOMAIN @ |->
                            IF <<u, n>> \in vin[t] THEN t ELSE @[n]]]]

NewEntry(t, b) == [pos |-> b, vSpent |-> [n \in 1..Len(vout[t]) |-> NULL]]

\* BIP30: a transaction may not overwrite one that is not completely spent.
MayOverwrite(db, t) ==
    db[t] # NULL => \A n \in DOMAIN db[t].vSpent : db[t].vSpent[n] # NULL

(***************************************************************************)
(* ConnectBlock(b) on the index db: the transactions in order, each on the *)
(* changes queued by those before it, then the reward of the coinbase.     *)
(***************************************************************************)
ConnectTx(db, b, s, t) ==
    IF s.ok /\ MayOverwrite(db, t) /\ FetchInputs(s.idx, t) /\
          (t \in CoinBases \/ ConnectInputs(s.idx, t, b))
    THEN [ok   |-> TRUE,
          idx  |-> [MarkSpent(s.idx, t) EXCEPT ![t] = NewEntry(t, b)],
          mint |-> s.mint + GetValueOut[t] - GetValueIn[t],
          fees |-> IF Minted(t) THEN s.fees ELSE s.fees + GetValueIn[t] - GetValueOut[t]]
    ELSE [s EXCEPT !.ok = FALSE]

IsProofOfWork(b) == \A i \in 1..Len(vtx[b]) : vtx[b][i] \notin CoinStakes

ConnectBlock(db, b) ==
    LET s == FoldLeft(LAMBDA r, t : ConnectTx(db, b, r, t),
                      [ok |-> TRUE, idx |-> db, mint |-> 0, fees |-> 0], vtx[b])
    IN  [s EXCEPT !.ok = @ /\ (IsProofOfWork(b) =>
                                  GetValueOut[vtx[b][1]] <= nReward + s.fees)]

(***************************************************************************)
(* DisconnectBlock(b): the transactions in reverse order give back what    *)
(* they spent, and are erased.                                             *)
(***************************************************************************)
GiveBack(idx, t) ==
    [u \in Txs |-> IF u \notin Prevs(t) THEN idx[u]
                   ELSE [idx[u] EXCEPT !.vSpent = [n \in DOMAIN @ |->
                            IF <<u, n>> \in vin[t] THEN NULL ELSE @[n]]]]

DisconnectInputs(s, t) ==
    IF s.ok /\ FetchInputs(s.idx, t)
    THEN [s EXCEPT !.idx = [GiveBack(s.idx, t) EXCEPT ![t] = NULL]]
    ELSE [s EXCEPT !.ok = FALSE]

DisconnectInOrder(b) == vtx[b]

\* "Disconnect in reverse order"
DisconnectOrder(b) == Reverse(vtx[b])

DisconnectBlock(s, b) == FoldLeft(DisconnectInputs, s, DisconnectOrder(b))

-----------------------------------------------------------------------------
(***************************************************************************)
(* CTxMemPool.  accept(t) for a transaction that stands alone; without     *)
(* fCheckInputs (a resurrected one) the inputs are not looked at.          *)
(***************************************************************************)
Conflicts(p, t) == \E o \in vin[t] : p.mapNextTx[o] # NULL

\* The index the pool's FetchInputs sees: an unindexed parent in the pool is all unspent.
PoolView(p) ==
    [u \in Txs |-> IF u \in p.mapTx /\ txindex[u] = NULL THEN NewEntry(u, GenesisBlock)
                   ELSE txindex[u]]

AcceptsIgnoringConflicts(p, t, fCheckInputs) ==
    /\ t \in Standard /\ ~Minted(t)
    /\ t \notin p.mapTx
    /\ fCheckInputs => /\ txindex[t] = NULL
                       /\ FetchInputs(PoolView(p), t)
                       /\ ConnectInputs(PoolView(p), t, pindexBest)

accept(p, t, fCheckInputs) ==
    /\ t \in Standard /\ ~Minted(t)
    /\ t \notin p.mapTx
    /\ ~Conflicts(p, t)
    /\ fCheckInputs => /\ txindex[t] = NULL
                       /\ FetchInputs(PoolView(p), t)
                       /\ ConnectInputs(PoolView(p), t, pindexBest)

addUnchecked(p, t) ==
    [mapTx |-> p.mapTx \cup {t},
     mapNextTx |-> [o \in Outpoints |-> IF o \in vin[t] THEN t ELSE p.mapNextTx[o]]]

remove(p, t) ==
    IF t \notin p.mapTx THEN p
    ELSE [mapTx |-> p.mapTx \ {t},
          mapNextTx |-> [o \in Outpoints |-> IF o \in vin[t] THEN NULL ELSE p.mapNextTx[o]]]

ThePool == [mapTx |-> mapTx, mapNextTx |-> mapNextTx]

SetPool(p) == mapTx' = p.mapTx /\ mapNextTx' = p.mapNextTx

\* CTransaction::AcceptToMemoryPool for a transaction from a peer, the wallet or RPC.
AcceptToMemoryPool(t) ==
    /\ pc = "idle"
    /\ accept(ThePool, t, TRUE)
    /\ SetPool(addUnchecked(ThePool, t))
    /\ UNCHANGED <<txindex, hashBestChain, mapBlockIndex, pnext, pindexBest,
                   nBestInvalidTrust, nMoneySupply, handler, broken, nCrashes>>

\* The pool after a block is connected: its transactions are redundant.
RemoveBlock(p, b) == FoldLeft(remove, p, vtx[b])

Resurrect(p, t) == IF ~Minted(t) /\ accept(p, t, FALSE) THEN addUnchecked(p, t) ELSE p

ResurrectBlock(p, b) == FoldLeft(Resurrect, p, vtx[b])

-----------------------------------------------------------------------------
(***************************************************************************)
(* AcceptBlock up to the decision of AddToBlockIndex, as in BestChain.     *)
(***************************************************************************)
HigherThanBest(b) == nHeight[b] > nHeight[pindexBest]

HeavierThanBest(b) == nChainTrust[b] > nChainTrust[pindexBest]

AcceptBlock(b) ==
    /\ pc = "idle"
    /\ b \notin mapBlockIndex
    /\ pprev[b] \in mapBlockIndex
    /\ mapBlockIndex' = mapBlockIndex \cup {b}
    /\ IF HeavierThanBest(b) THEN pc' = "set" /\ pindexNew' = b
                             ELSE pc' = "pending" /\ UNCHANGED pindexNew
    /\ UNCHANGED <<txindex, hashBestChain, pnext, pindexBest, nBestInvalidTrust,
                   nMoneySupply, pool, vpindexSecondary, broken, nCrashes>>

InvalidChainFound(b) ==
    nBestInvalidTrust' = IF nChainTrust[b] > nBestInvalidTrust
                         THEN nChainTrust[b] ELSE nBestInvalidTrust

WithSupplyForgetsParent(supply, b, r) ==
    IF r.ok THEN [supply EXCEPT ![b] = r.mint] ELSE supply

\* The money supply of b, which ConnectBlock records before the commit.
WithSupply(supply, b, r) ==
    IF r.ok THEN [supply EXCEPT ![b] = supply[pprev[b]] + r.mint] ELSE supply

\* SetBestChainInner(b) succeeds: the block is connected on top of the database.
SetBestChainInner(b) ==
    LET r == ConnectBlock(txindex, b)
    IN  /\ r.ok
        /\ txindex' = r.idx
        /\ hashBestChain' = b
        /\ nMoneySupply' = WithSupply(nMoneySupply, b, r)
        /\ pnext' = [pnext EXCEPT ![pprev[b]] = b]
        /\ SetPool(RemoveBlock(ThePool, b))

ExtendBest ==
    /\ pc = "set"
    /\ pprev[pindexNew] = pindexBest
    /\ SetBestChainInner(pindexNew)
    /\ pindexBest' = pindexNew
    /\ pc' = "pending"
    /\ UNCHANGED <<mapBlockIndex, nBestInvalidTrust, pindexNew, vpindexSecondary, broken, nCrashes>>

ExtendBestFails ==
    /\ pc = "set"
    /\ pprev[pindexNew] = pindexBest
    /\ ~ConnectBlock(txindex, pindexNew).ok
    /\ InvalidChainFound(pindexNew)
    /\ pc' = "idle"
    /\ UNCHANGED <<txindex, hashBestChain, mapBlockIndex, pnext, pindexBest, nMoneySupply,
                   pool, pindexNew, vpindexSecondary, broken, nCrashes>>

-----------------------------------------------------------------------------
(***************************************************************************)
(* Reorganize(x).  vDisconnect lists the blocks from the best one down to  *)
(* the fork, vConnect those of the new branch upwards.                     *)
(***************************************************************************)
pindexIntermediate ==
    CHOOSE x \in Chain[pindexNew] :
        /\ x # pindexNew => nChainTrust[x] > nChainTrust[pindexBest]
        /\ x # GenesisBlock => nChainTrust[pprev[x]] <= nChainTrust[pindexBest]

vDisconnect == Reverse(Branch(pindexBest, pindexIntermediate))
vConnect    == Branch(pindexIntermediate, pindexBest)

DisconnectedUpTo(d) ==
    FoldLeft(DisconnectBlock, [ok |-> TRUE, idx |-> txindex], SubSeq(vDisconnect, 1, d))

Disconnected == DisconnectedUpTo(Len(vDisconnect))

ConnectNext(s, b) ==
    LET r == ConnectBlock(s.idx, b)
    IN  IF s.ok THEN [ok |-> r.ok, idx |-> r.idx, supply |-> WithSupply(s.supply, b, r)] ELSE s

ReconnectedUpTo(k) ==
    FoldLeft(ConnectNext,
             [ok |-> Disconnected.ok, idx |-> Disconnected.idx, supply |-> nMoneySupply],
             SubSeq(vConnect, 1, k))

Reconnected == ReconnectedUpTo(Len(vConnect))

\* What the disconnected blocks held goes back to the pool, then what is now in blocks leaves it.
ResurrectAfterDelete ==
    FoldLeft(ResurrectBlock, FoldLeft(RemoveBlock, ThePool, vConnect), vDisconnect)

ReorganizedPool ==
    FoldLeft(RemoveBlock, FoldLeft(ResurrectBlock, ThePool, vDisconnect), vConnect)

HasChildIn(S, b) == \E c \in S : pprev[c] = b

Reorganize ==
    /\ pc = "set"
    /\ pprev[pindexNew] # pindexBest
    /\ LET r            == Reconnected
           connected    == ToSet(vConnect)
           disconnected == ToSet(vDisconnect)
       IN  /\ r.ok
           /\ txindex' = r.idx
           /\ nMoneySupply' = r.supply
           /\ pnext' = [b \in Blocks |->
                            IF HasChildIn(connected, b)
                            THEN CHOOSE c \in connected : pprev[c] = b
                            ELSE IF HasChildIn(disconnected, b) THEN NULL ELSE pnext[b]]
    /\ hashBestChain' = pindexIntermediate
    /\ SetPool(ReorganizedPool)
    /\ vpindexSecondary' = Chain[pindexNew] \ Chain[pindexIntermediate]
    /\ pc' = "secondary"
    /\ UNCHANGED <<mapBlockIndex, pindexBest, nBestInvalidTrust, pindexNew, broken, nCrashes>>

(***************************************************************************)
(* A block does not connect or cannot be read, or the commit fails, after  *)
(* d blocks have been disconnected and k connected: the database           *)
(* transaction is aborted.                                                 *)
(***************************************************************************)
StopsAt(d, k) ==
    \/ /\ d < Len(vDisconnect) /\ k = 0
       /\ DisconnectedUpTo(d).ok
       /\ IOErrors \/ ~DisconnectedUpTo(d + 1).ok
    \/ /\ d = Len(vDisconnect)
       /\ ReconnectedUpTo(k).ok
       /\ IOErrors \/ (k < Len(vConnect) /\ ~ReconnectedUpTo(k + 1).ok)

ReorganizeFails(d, k) ==
    /\ pc = "set"
    /\ pprev[pindexNew] # pindexBest
    /\ StopsAt(d, k)
    /\ nMoneySupply' = ReconnectedUpTo(k).supply
    /\ InvalidChainFound(pindexNew)
    /\ pc' = "idle"
    /\ UNCHANGED <<txindex, hashBestChain, mapBlockIndex, pnext, pindexBest, pool,
                   pindexNew, vpindexSecondary, broken, nCrashes>>

\* The postponed blocks, lowest first, each in a database transaction of its own.
NextSecondary == CHOOSE y \in vpindexSecondary : pprev[y] \notin vpindexSecondary

ConnectSecondary ==
    /\ pc = "secondary"
    /\ vpindexSecondary # {}
    /\ SetBestChainInner(NextSecondary)
    /\ vpindexSecondary' = vpindexSecondary \ {NextSecondary}
    /\ UNCHANGED <<mapBlockIndex, pindexBest, nBestInvalidTrust, pc, pindexNew, broken, nCrashes>>

BreakSecondary ==
    /\ pc = "secondary"
    /\ vpindexSecondary # {}
    /\ \/ ~ConnectBlock(txindex, NextSecondary).ok /\ InvalidChainFound(NextSecondary)
       \/ IOErrors /\ UNCHANGED nBestInvalidTrust
    /\ vpindexSecondary' = {}
    /\ broken' = TRUE
    /\ UNCHANGED <<txindex, hashBestChain, mapBlockIndex, pnext, pindexBest, nMoneySupply,
                   pool, pc, pindexNew, nCrashes>>

NewBest ==
    /\ pc = "secondary"
    /\ vpindexSecondary = {}
    /\ pindexBest' = pindexNew
    /\ pc' = "pending"
    /\ UNCHANGED <<txindex, hashBestChain, mapBlockIndex, pnext, nBestInvalidTrust,
                   nMoneySupply, pool, pindexNew, vpindexSecondary, broken, nCrashes>>

\* AcceptPendingSyncCheckpoint, with no checkpoint pending, ends AcceptBlock.
NoPending ==
    /\ pc = "pending"
    /\ pc' = "idle"
    /\ UNCHANGED <<txindex, hashBestChain, mapBlockIndex, pnext, pindexBest,
                   nBestInvalidTrust, nMoneySupply, pool, pindexNew, vpindexSecondary, broken, nCrashes>>

(***************************************************************************)
(* The process dies at any point and is started again: LoadBlockIndex      *)
(* takes the best chain from the database and the pool is empty, but for   *)
(* what a wallet puts back.                                                *)
(***************************************************************************)
EmptyPool == [mapTx |-> {}, mapNextTx |-> [o \in Outpoints |-> NULL]]

RestartWith(p) ==
    /\ nCrashes < MaxCrashes
    /\ nCrashes' = nCrashes + 1
    /\ pindexBest' = hashBestChain
    /\ SetPool(p)
    /\ vpindexSecondary' = {}
    /\ pc' = "idle"
    /\ UNCHANGED <<txindex, hashBestChain, mapBlockIndex, pnext, nBestInvalidTrust,
                   nMoneySupply, pindexNew, broken>>

BlockStep ==
    \/ \E b \in Blocks : AcceptBlock(b)
    \/ ExtendBest \/ ExtendBestFails
    \/ Reorganize
    \/ pc = "set" /\ \E d \in 0..Len(vDisconnect), k \in 0..Len(vConnect) : ReorganizeFails(d, k)
    \/ ConnectSecondary \/ BreakSecondary \/ NewBest
    \/ NoPending

Next ==
    \/ BlockStep
    \/ \E t \in Txs : AcceptToMemoryPool(t)
    \/ RestartWith(EmptyPool)

Spec == Init /\ [][Next]_vars

-----------------------------------------------------------------------------
(***************************************************************************)
(* What the ledger of a chain is, without replaying it: the transactions   *)
(* of its blocks, and for each output whoever spends it.                   *)
(***************************************************************************)
BlockTxs(b)   == ToSet(vtx[b])
ChainTxs(b)   == UNION {BlockTxs(c) : c \in Chain[b] \ {GenesisBlock}}
HomeOf(t, b)  == CHOOSE c \in Chain[b] \ {GenesisBlock} : t \in BlockTxs(c)
SpendersOf(o, b) == {t \in ChainTxs(b) : o \in vin[t]}

LedgerOf(b) ==
    [t \in Txs |->
        IF t \notin ChainTxs(b) THEN NULL
        ELSE [pos    |-> HomeOf(t, b),
              vSpent |-> [n \in 1..Len(vout[t]) |->
                  IF SpendersOf(<<t, n>>, b) = {} THEN NULL
                  ELSE CHOOSE u \in SpendersOf(<<t, n>>, b) : TRUE]]]

\* Position of t in the block b.
PositionIn(t, b) == CHOOSE i \in 1..Len(vtx[b]) : vtx[b][i] = t

(***************************************************************************)
(* The consensus rule: b may follow its parent when each input is an       *)
(* output created before it, mature and spent by nobody else, values are   *)
(* covered, scripts verify and the coinbase takes no more than its due.    *)
(***************************************************************************)
CreatedBefore(o, t, b) ==
    /\ o[2] \in 1..Len(vout[o[1]])
    /\ \/ o[1] \in ChainTxs(pprev[b])
       \/ o[1] \in BlockTxs(b) /\ PositionIn(o[1], b) < PositionIn(t, b)

Fees(b) == SumOver(LAMBDA t : GetValueIn[t] - GetValueOut[t],
                   {t \in BlockTxs(b) : ~Minted(t)})

ValidBlock(b) ==
    /\ BlockTxs(b) \cap ChainTxs(pprev[b]) = {}
    /\ \A t \in BlockTxs(b) :
          /\ t \in Verifies \cup CoinBases
          /\ \A o \in vin[t] :
                /\ CreatedBefore(o, t, b)
                /\ SpendersOf(o, b) = {t}
                /\ Minted(o[1]) => nHeight[b] - nHeight[HomeOf(o[1], b)] >= nCoinbaseMaturity
          /\ t \in CoinStakes => GetValueOut[t] <= GetValueIn[t] + nReward
          /\ ~Minted(t) => GetValueOut[t] <= GetValueIn[t]
    /\ IsProofOfWork(b) => GetValueOut[vtx[b][1]] <= nReward + Fees(b)

ValidBlocks == {b \in Blocks : b # GenesisBlock => ValidBlock(b)}

(***************************************************************************)
(* Whatever branches were connected, disconnected, refused or postponed on *)
(* the way, the transaction index is exactly the ledger of the chain the   *)
(* database stands at: nothing of a disconnected branch is left, nothing   *)
(* is spent twice and nothing spent is spendable (ConnectBlock,            *)
(* DisconnectBlock, Reorganize).  And whenever SetBestChain looks at a     *)
(* heavier branch, the blocks above the fork can be taken back, and that   *)
(* leaves the ledger of the fork, also when they spend their own           *)
(* transactions.  After SetBestChain has given up on a postponed block the *)
(* database may lack it for ever, so this and the next property end there. *)
(***************************************************************************)
IndexIsLedger ==
    ~broken => /\ txindex = LedgerOf(hashBestChain)
               /\ \A o \in Outpoints : Cardinality(SpendersOf(o, hashBestChain)) <= 1
               /\ pc = "set" => Disconnected =
                      [ok |-> TRUE, idx |-> LedgerOf(Fork[pindexIntermediate][pindexBest])]

(***************************************************************************)
(* The money supply recorded for the best block is the value of all        *)
(* outputs nobody has spent: reorganisations create and destroy nothing    *)
(* (nMoneySupply in ConnectBlock).                                         *)
(***************************************************************************)
Unspent == {o \in Outpoints : /\ txindex[o[1]] # NULL
                              /\ o[2] \in DOMAIN txindex[o[1]].vSpent
                              /\ txindex[o[1]].vSpent[o[2]] = NULL}

SupplyIsUnspent == ~broken => nMoneySupply[hashBestChain] = SumOver(Value, Unspent)

(***************************************************************************)
(* mapNextTx of the pool names exactly the inputs of its transactions, so  *)
(* two of them never spend the same output, through resurrections and      *)
(* removals in any order.                                                  *)
(***************************************************************************)
PoolSpendsOnce ==
    \A o \in Outpoints : \A t \in Txs :
        mapNextTx[o] = t <=> t \in mapTx /\ o \in vin[t]

(***************************************************************************)
(* No transaction is both in the pool and in the chain: a reorganisation   *)
(* resurrects what it disconnects and deletes what it connects, also when  *)
(* a transaction is in both branches.                                      *)
(***************************************************************************)
PoolOutsideChain == \A t \in mapTx : txindex[t] = NULL

(***************************************************************************)
(* The ledger decides as BestChain assumes: a block connects on its        *)
(* parent's state exactly when it is valid for its chain, so every step of *)
(* this module is one of BestChain's, crashes and restarts included, until *)
(* SetBestChain has given up on a postponed block.                         *)
(***************************************************************************)
Abstract == INSTANCE BestChain WITH
    Connects              <- ValidBlocks,
    MasterCheckpoints     <- {},
    LastHardened          <- GenesisBlock,
    Strict                <- FALSE,
    Rollback              <- FALSE,
    hashSyncCheckpoint    <- GenesisBlock,
    hashPendingCheckpoint <- NULL,
    hashInvalidCheckpoint <- NULL,
    dbIndex               <- mapBlockIndex,
    dbNext                <- pnext,
    dbBest                <- hashBestChain,
    dbSyncCheckpoint      <- GenesisBlock,
    caller                <- "accept"

ImplementsBestChain == Abstract!Init /\ [][broken \/ Abstract!Next]_(Abstract!vars)

=============================================================================
