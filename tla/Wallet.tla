------------------------------- MODULE Wallet -------------------------------
(***************************************************************************)
(* The transactions of the wallet (CWallet::mapWallet, wallet.cpp) beside  *)
(* the ledger, the pool and the relay of transactions: how the wallet is   *)
(* told of transactions and blocks (SyncWithWallets), what it believes to  *)
(* be spent, what it counts as its balance, and how it spends.             *)
(*                                                                         *)
(* Each change of a CWalletTx is written to wallet.dat at once, so memory  *)
(* and file differ only in what is not stored: the cached amounts.         *)
(***************************************************************************)
EXTENDS TxRelay

CONSTANTS
    Mine,               \* outpoints the keys of the wallet can spend
    Sends,              \* transactions the user may ask the wallet to create
    nMaturityMargin,    \* GetBlocksToMaturity asks for 20 blocks more than consensus
    COPY_DEPTH          \* AddSupportingTransactions copies what is less deep than 3

ASSUME WalletAssumption ==
    /\ Mine \subseteq Outpoints /\ Sends \subseteq Txs
    /\ nMaturityMargin \in Nat /\ COPY_DEPTH \in Nat
    /\ \A o \in Mine : o[2] <= Len(vout[o[1]]) /\ Value(o) > 0
    \* the genesis block holds one coinbase
    /\ \A i \in 1..Len(vtx[GenesisBlock]) : vin[vtx[GenesisBlock][i]] = {}

VARIABLES
    mapWallet,          \* CWalletTx of each transaction of the wallet
    suspect             \* history: what an abandoned reorganisation may have left wrong

walletVars == <<relayVars, mapWallet, suspect>>

(***************************************************************************)
(* hashBlock is the block the wallet last saw the transaction in, vfSpent  *)
(* the outputs marked as spent, credit the cached available credit, and    *)
(* vtxPrev the copies of supporting transactions with their hashBlock.     *)
(***************************************************************************)
CWalletTx(b) == [hashBlock |-> b, vfSpent |-> {}, credit |-> NULL, vtxPrev |-> <<>>]

WalletInit ==
    /\ RelayInit
    /\ mapWallet = <<>>
    /\ suspect = {}

-----------------------------------------------------------------------------
SetSpentKeepsCredit(wtx, spent) == [wtx EXCEPT !.vfSpent = spent]

\* Marking outputs forgets the cached credit if a flag changes.
SetSpent(wtx, spent) ==
    [wtx EXCEPT !.vfSpent = spent, !.credit = IF spent = wtx.vfSpent THEN @ ELSE NULL]

MyInputs(w, t)   == {o \in vin[t] : o[1] \in DOMAIN w /\ o \in Mine}
IsFromMe(w, t)   == MyInputs(w, t) # {}
PaysMe(t)        == \E n \in 1..Len(vout[t]) : <<t, n>> \in Mine
OutputsOf(O, t)  == {o[2] : o \in {x \in O : x[1] = t}}

MarkSpent2(w, O) ==
    [t \in DOMAIN w |-> LET wtx == w[t] IN SetSpent(wtx, wtx.vfSpent \cup OutputsOf(O, t))]

MarkUnspent(w, O) ==
    [t \in DOMAIN w |-> LET wtx == w[t] IN SetSpent(wtx, wtx.vfSpent \ OutputsOf(O, t))]

(***************************************************************************)
(* WalletUpdateSpent: the inputs of t are spent; if t is in a block, its   *)
(* own outputs are not.                                                    *)
(***************************************************************************)
WalletUpdateSpent(w, t, fBlock) ==
    LET spent == MarkSpent2(w, MyInputs(w, t))
    IN  IF fBlock THEN MarkUnspent(spent, {o \in Mine : o[1] = t}) ELSE spent

\* mapWallet with an entry for t.
Put(w, t, wtx) ==
    IF t \in DOMAIN w THEN [w EXCEPT ![t] = wtx]
    ELSE [u \in DOMAIN w \cup {t} |-> IF u = t THEN wtx ELSE w[u]]

AddToWalletKeepsBlock(w, t, b) ==
    LET wtx == IF t \in DOMAIN w THEN [w[t] EXCEPT !.credit = NULL] ELSE CWalletTx(b)
    IN  WalletUpdateSpent(Put(w, t, wtx), t, b # NULL)

\* Inserted or merged; BindWallet drops the cached amounts.
AddToWallet(w, t, b) ==
    LET wtx == IF t \in DOMAIN w
               THEN [w[t] EXCEPT !.hashBlock = IF b = NULL THEN @ ELSE b, !.credit = NULL]
               ELSE CWalletTx(b)
    IN  WalletUpdateSpent(Put(w, t, wtx), t, b # NULL)

AddToWalletIfFromMe(w, t, b, fUpdate) ==
    IF t \in DOMAIN w /\ ~fUpdate THEN w
    ELSE IF t \in DOMAIN w \/ IsFromMe(w, t)
    THEN AddToWallet(w, t, b)
    ELSE WalletUpdateSpent(w, t, FALSE)

AddToWalletIfInvolvingMe(w, t, b, fUpdate) ==
    IF t \in DOMAIN w /\ ~fUpdate THEN w
    ELSE IF t \in DOMAIN w \/ PaysMe(t) \/ IsFromMe(w, t)
    THEN AddToWallet(w, t, b)
    ELSE WalletUpdateSpent(w, t, FALSE)

DisableNothing(w, t) == w

\* "wallets need to refund inputs when disconnecting coinstake"
DisableTransaction(w, t) ==
    IF t \in CoinStakes THEN MarkUnspent(w, MyInputs(w, t)) ELSE w

SyncBlock(w, b) == FoldLeft(LAMBDA x, t : AddToWalletIfInvolvingMe(x, t, b, TRUE), w, vtx[b])

DisableBlock(w, b) == FoldLeft(DisableTransaction, w, vtx[b])

-----------------------------------------------------------------------------
(***************************************************************************)
(* What the wallet makes of its transactions.                              *)
(***************************************************************************)
IsInMainChain(b) == pnext[b] # NULL \/ b = pindexBest

GetDepthInMainChain(b) ==
    IF b = NULL \/ ~IsInMainChain(b) THEN 0 ELSE nHeight[pindexBest] - nHeight[b] + 1

Matured(w, t) ==
    Minted(t) => GetDepthInMainChain(w[t].hashBlock) >= nCoinbaseMaturity + nMaturityMargin

\* The transactions t rests on, followed through those less deep than the given depth.
Supporting(depthOf, depth, t) ==
    FoldLeft(LAMBDA S, i : S \cup UNION {Prevs(u) : u \in {x \in S : depthOf[x] < depth}},
             Prevs(t), [i \in 1..Cardinality(Txs) |-> i])

(***************************************************************************)
(* IsTrusted: confirmed, or made here of transactions that are, by what    *)
(* the copies in vtxPrev say.                                              *)
(***************************************************************************)
IsTrusted(w, t) ==
    LET copies   == w[t].vtxPrev
        depthOf  == [u \in Txs |-> IF u \in DOMAIN copies
                                   THEN GetDepthInMainChain(copies[u]) ELSE 0]
        restsOn  == Supporting(depthOf, 1, t)
    IN  \/ GetDepthInMainChain(w[t].hashBlock) >= 1
        \/ /\ IsFromMe(w, t)
           /\ restsOn \subseteq DOMAIN copies
           /\ \A u \in restsOn : depthOf[u] >= 1 \/ IsFromMe(w, u)

UnspentOf(w, t) == {o \in Mine : o[1] = t /\ o[2] \notin w[t].vfSpent}

InWallet == DOMAIN mapWallet

AvailableCoins ==
    UNION {UnspentOf(mapWallet, t) :
              t \in {x \in InWallet : IsTrusted(mapWallet, x) /\ Matured(mapWallet, x)}}

CreditOf(w, t) == SumOver(Value, UnspentOf(w, t))

\* GetBalance fills the cached credit of each trusted and mature transaction.
GetBalance ==
    /\ pc = "idle"
    /\ mapWallet' = [t \in InWallet |->
          IF IsTrusted(mapWallet, t) /\ Matured(mapWallet, t) /\ mapWallet[t].credit = NULL
          THEN [mapWallet[t] EXCEPT !.credit = CreditOf(mapWallet, t)]
          ELSE mapWallet[t]]
    /\ UNCHANGED <<vars, orphanTxs, released, suspect>>

-----------------------------------------------------------------------------
(***************************************************************************)
(* CreateTransaction of t from coins the user has selected (coin control); *)
(* the automatic selection takes some of the same coins.  The transaction  *)
(* is a new one: its time and its signatures are.                          *)
(***************************************************************************)
CreateTransaction(t) ==
    /\ t \in Sends /\ t \notin InWallet
    /\ vin[t] # {} /\ vin[t] \subseteq AvailableCoins

\* AddSupportingTransactions: copies from the wallet or the chain, with the block they are in.
AddSupportingTransactions(t) ==
    LET inBlock   == [u \in Txs |-> IF txindex[u] # NULL THEN txindex[u].pos
                                    ELSE IF u \in InWallet THEN mapWallet[u].hashBlock
                                    ELSE NULL]
        depthOf   == [u \in Txs |-> IF txindex[u] = NULL THEN 0 ELSE GetDepthInMainChain(inBlock[u])]
        supported == {u \in Supporting(depthOf, COPY_DEPTH, t) :
                         u \in InWallet \/ txindex[u] # NULL}
    IN  [u \in supported |-> inBlock[u]]

(***************************************************************************)
(* CommitTransaction: first into the pool, then into the wallet; the coins *)
(* it spends are marked.                                                   *)
(***************************************************************************)
SendMoney(t) ==
    LET added == AddToWallet(mapWallet, t, NULL)
    IN  /\ pc = "idle"
        /\ CreateTransaction(t)
        /\ AcceptToMemoryPool(t)
        /\ mapWallet' = [MarkSpent2(added, vin[t]) EXCEPT
                            ![t] = [@ EXCEPT !.vtxPrev = AddSupportingTransactions(t)]]
        /\ UNCHANGED <<orphanTxs, released, suspect>>

-----------------------------------------------------------------------------
(***************************************************************************)
(* The steps of the node, with what the wallet is told at each.  A block   *)
(* is told to the wallet before the database transaction that connects or  *)
(* disconnects it is committed.                                            *)
(***************************************************************************)
KeepWallet == UNCHANGED <<orphanTxs, released, mapWallet, suspect>>

ReceiveTx(t) ==
    /\ AcceptTx(t)
    /\ mapWallet' = AddToWalletIfInvolvingMe(mapWallet, t, NULL, TRUE)
    /\ UNCHANGED suspect

ReceiveOrphan(t) == KeepOrphan(t) /\ UNCHANGED <<mapWallet, suspect>>

ConnectTip ==
    /\ \/ ExtendBest /\ mapWallet' = SyncBlock(mapWallet, pindexNew)
       \/ ConnectSecondary /\ mapWallet' = SyncBlock(mapWallet, NextSecondary)
    /\ StillReleased
    /\ UNCHANGED <<orphanTxs, suspect>>

\* What the wallet has been told when d blocks are disconnected and k connected.
ToldOf(d, k) ==
    FoldLeft(SyncBlock, FoldLeft(DisableBlock, mapWallet, SubSeq(vDisconnect, 1, d)),
             SubSeq(vConnect, 1, k))

SwitchBranch ==
    /\ Reorganize
    /\ mapWallet' = ToldOf(Len(vDisconnect), Len(vConnect))
    /\ StillReleased
    /\ UNCHANGED <<orphanTxs, suspect>>

\* The database transaction is aborted, what the wallet was told is not taken back.
Misled(w) == IF w = mapWallet THEN suspect ELSE {"spent", "place"}

AbandonBranch(d, k) ==
    /\ ReorganizeFails(d, k)
    /\ mapWallet' = ToldOf(d, k)
    /\ suspect' = Misled(mapWallet')
    /\ UNCHANGED <<orphanTxs, released>>

OtherBlockStep ==
    /\ \/ \E b \in Blocks : AcceptBlock(b)
       \/ ExtendBestFails \/ BreakSecondary \/ NewBest \/ NoPending
    /\ KeepWallet

-----------------------------------------------------------------------------
(***************************************************************************)
(* Scanning the main chain from a height on, and taking the wallet's       *)
(* unconfirmed transactions back into the pool.                            *)
(***************************************************************************)
ScanForWalletTransactions(w, height, fUpdate) ==
    FoldLeft(LAMBDA x, b : FoldLeft(LAMBDA y, t : AddToWalletIfInvolvingMe(y, t, b, fUpdate),
                                    x, vtx[b]),
             w, UpFrom[hashBestChain][height])

\* vtxPrev first, then the transaction itself; the inputs are not checked (as Resurrect does).
AcceptWalletTransaction(p, t, wtx) ==
    LET missing == {u \in DOMAIN wtx.vtxPrev : ~Minted(u) /\ txindex[u] = NULL}
    IN  Resurrect(FoldLeft(Resurrect, p, InHashOrder(missing)), t)

SpentInChain(t) == {n \in 1..Len(vout[t]) : txindex[t].vSpent[n] # NULL /\ <<t, n>> \in Mine}

ReacceptTx(s, t) ==
    LET wtx == s.w[t]
    IN  IF t \notin DOMAIN s.w \/ (t \in CoinBases /\ 1 \in wtx.vfSpent)
                      \/ (t \in CoinStakes /\ 2 \in wtx.vfSpent)
        THEN s
        ELSE IF txindex[t] # NULL
        THEN [s EXCEPT !.w = [@ EXCEPT ![t] = SetSpent(wtx, wtx.vfSpent \cup SpentInChain(t))],
                       !.missing = @ \/ ~(SpentInChain(t) \subseteq wtx.vfSpent)]
        ELSE IF Minted(t) THEN s
        ELSE [s EXCEPT !.p = AcceptWalletTransaction(@, t, wtx)]

(***************************************************************************)
(* ReacceptWalletTransactions: if the chain has spent what the wallet did  *)
(* not know of, the chain is scanned for what the wallet does not have,    *)
(* and all is done again as long as the scan finds something.              *)
(***************************************************************************)
ReacceptOnce(s) ==
    LET r     == FoldLeft(ReacceptTx, [s EXCEPT !.missing = FALSE], HashOrder)
        found == ScanForWalletTransactions(r.w, 0, FALSE)
    IN  IF ~r.missing THEN [r EXCEPT !.fRepeat = FALSE]
        ELSE [r EXCEPT !.w = found,
                       !.fRepeat = DOMAIN found # DOMAIN r.w]

ReacceptWalletTransactions(w, p) ==
    FoldLeft(LAMBDA s, t : IF s.fRepeat THEN ReacceptOnce(s) ELSE s,
             [w |-> w, p |-> p, missing |-> FALSE, fRepeat |-> TRUE], HashOrder)

(***************************************************************************)
(* The process dies, possibly with the wallet already told of blocks that  *)
(* are never committed, and starts again: the wallet is read from its      *)
(* file, scanned from the last block it knows of if the chain went on, and *)
(* its transactions return to the pool.                                    *)
(***************************************************************************)
ToldBeforeDeath ==
    {mapWallet} \cup
    IF pc = "set" /\ pprev[pindexNew] # pindexBest
    THEN {ToldOf(d, 0) : d \in {i \in 0..Len(vDisconnect) : DisconnectedUpTo(i).ok}}
         \cup {ToldOf(Len(vDisconnect), k) :
                  k \in {i \in 0..Len(vConnect) : ReconnectedUpTo(i).ok}}
    ELSE IF pc = "set" /\ ConnectBlock(txindex, pindexNew).ok
    THEN {SyncBlock(mapWallet, pindexNew)}
    ELSE IF pc = "secondary" /\ vpindexSecondary # {} /\ ConnectBlock(txindex, NextSecondary).ok
    THEN {SyncBlock(mapWallet, NextSecondary)}
    ELSE {}

MarkDirty(w) == [t \in DOMAIN w |-> [w[t] EXCEPT !.credit = NULL]]

\* What is read from the file has no cached amounts.
LoadWallet(w) == MarkDirty(w)

\* The block of the wallet's locator that is highest on the main chain.
pindexRescan == Fork[pindexBest][hashBestChain]

RescanOnStart(w) ==
    IF nHeight[hashBestChain] > nHeight[pindexRescan]
    THEN ScanForWalletTransactions(w, nHeight[pindexRescan], TRUE)
    ELSE w

RestartWallet(told) ==
    LET s == ReacceptWalletTransactions(RescanOnStart(LoadWallet(told)), EmptyPool)
    IN  /\ RestartWith(s.p)
        /\ mapWallet' = s.w
        /\ ForgetOrphans
        /\ suspect' = Misled(told)

\* importprivkey: the whole chain is scanned, known transactions are updated.
Rescan ==
    LET scanned == ScanForWalletTransactions(MarkDirty(mapWallet), 0, TRUE)
        s       == ReacceptWalletTransactions(scanned, ThePool)
    IN  /\ pc = "idle"
        /\ SetPool(s.p)
        /\ mapWallet' = s.w
        /\ suspect' = {}
        /\ UNCHANGED <<txindex, hashBestChain, mapBlockIndex, pnext, pindexBest, nBestInvalidTrust,
                       nMoneySupply, handler, broken, nCrashes, orphanTxs, released>>

(***************************************************************************)
(* FixSpentCoins (repairwallet): the flags of confirmed transactions are   *)
(* set as the chain has them; a minted one it has but the wallet sees      *)
(* nowhere is erased.                                                      *)
(***************************************************************************)
Unseen(t) == Minted(t) /\ GetDepthInMainChain(mapWallet[t].hashBlock) = 0

FixSpentCoins ==
    /\ pc = "idle"
    /\ mapWallet' = [t \in {x \in InWallet : ~(txindex[x] # NULL /\ PaysMe(x) /\ Unseen(x))} |->
          IF txindex[t] = NULL THEN mapWallet[t] ELSE SetSpent(mapWallet[t], SpentInChain(t))]
    /\ suspect' = suspect \ {"spent"}
    /\ UNCHANGED <<vars, orphanTxs, released>>

\* ClearOrphans (from the graphical wallet): minted transactions of lost branches.
ClearOrphans ==
    /\ pc = "idle"
    /\ mapWallet' = [t \in {x \in InWallet : ~Unseen(x)} |-> mapWallet[t]]
    /\ UNCHANGED <<vars, orphanTxs, released, suspect>>

WalletNext ==
    \/ \E t \in Txs : ReceiveTx(t) \/ ReceiveOrphan(t) \/ SendMoney(t)
    \/ ConnectTip \/ SwitchBranch \/ OtherBlockStep
    \/ pc = "set" /\ \E d \in 0..Len(vDisconnect), k \in 0..Len(vConnect) : AbandonBranch(d, k)
    \/ \E told \in ToldBeforeDeath : RestartWallet(told)
    \/ GetBalance \/ Rescan \/ FixSpentCoins \/ ClearOrphans

WalletSpec == WalletInit /\ [][WalletNext]_walletVars

-----------------------------------------------------------------------------
Settled == pc = "idle" /\ ~broken

(***************************************************************************)
(* The wallet has seen the chain: whenever no handler runs, each confirmed *)
(* transaction that pays it is in mapWallet at the block that holds it,    *)
(* and no coin the chain has spent counts as unspent.  Reorganisations to  *)
(* and fro, a death between any two blocks, a rescan or a repair change    *)
(* nothing of that; only a branch that was abandoned after the wallet had  *)
(* been told of it does, until the wallet is repaired or rescanned.        *)
(***************************************************************************)
WalletFollowsChain ==
    Settled => \A t \in Txs : txindex[t] # NULL /\ PaysMe(t) =>
        /\ "place" \notin suspect =>
              t \in InWallet /\ mapWallet[t].hashBlock = txindex[t].pos
        /\ suspect = {} => SpentInChain(t) \subseteq mapWallet[t].vfSpent

(***************************************************************************)
(* A coin of the chain marked as spent is spent by something: by a         *)
(* transaction of the chain, or by an ordinary one that the wallet still   *)
(* has to see confirmed.  A coinstake of a lost branch gives its coins     *)
(* back, whatever order blocks were disconnected and connected in          *)
(* (DisableTransaction), so that the wallet never loses sight of money it  *)
(* could spend.  The coins of an abandoned branch that the same branch has *)
(* staked keep their marks, also through a rescan, until they are in a     *)
(* block again.                                                            *)
(***************************************************************************)
StakeIsReturned ==
    Settled /\ suspect = {} =>
        \A t \in InWallet : txindex[t] # NULL =>
            \A n \in mapWallet[t].vfSpent :
                \E u \in Txs : /\ <<t, n>> \in vin[u]
                               /\ txindex[u] # NULL \/ (u \notin CoinStakes /\ u \in InWallet)

(***************************************************************************)
(* The cached credit of a wallet transaction is what its unspent outputs   *)
(* are worth now: every path that changes a spent flag, also from within   *)
(* the connection of a block, drops the cached amount.                     *)
(***************************************************************************)
BalanceIsFresh ==
    \A t \in InWallet : mapWallet[t].credit # NULL => mapWallet[t].credit = CreditOf(mapWallet, t)

(***************************************************************************)
(* The wallet knows each unconfirmed transaction that pays it, also after  *)
(* the block that held it was disconnected and after a restart; only an    *)
(* orphan released by another transaction goes unnoticed, because the      *)
(* wallet is told of the other one (SyncWithWallets in the "tx" message).  *)
(***************************************************************************)
WalletKnowsPool ==
    Settled => \A t \in mapTx \ released : PaysMe(t) => t \in InWallet

(***************************************************************************)
(* "This must not fail. The transaction has already been signed.": what    *)
(* CreateTransaction could make of available coins, the pool accepts.      *)
(***************************************************************************)
CommitNeverFails ==
    Settled /\ suspect = {} => \A t \in Sends : CreateTransaction(t) => accept(ThePool, t, TRUE)

=============================================================================
