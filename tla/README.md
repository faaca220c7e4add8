# Biocoin in TLA+

Biocoin is a proof-of-work and proof-of-stake currency node, a descendant of
Bitcoin 0.6, PPCoin and NovaCoin, written in C++ (`src/src`). This directory
holds TLA+ modules that model the parts of the node that decide which blocks
and transactions it believes, TLC configurations that check them on small
instances, and theorems about them that TLAPS checks for every instance.

`PROJECT.json` lists the components, the runs, the source lines behind every
definition, the hazards of the code, the mutants that show that each property
can fail, and the theorems. Paths below are relative to `src/src`.

    cd tla
    tlc -workers 2 -config MCBestChain_crash.cfg MCBestChain
    tlapm BestChainProofs.tla

## 1. The system

### Parts, state, operations

| part | source | state | operations |
|---|---|---|---|
| block tree and best chain | `main.cpp` 1350-2170 | `mapBlockIndex`, `pnext`, `pindexBest`, `nBestInvalidTrust` | AddToBlockIndex, SetBestChain, SetBestChainInner, Reorganize, InvalidChainFound |
| synchronized checkpoints | `checkpoints.cpp` | `hashSyncCheckpoint`, `hashPendingCheckpoint`, `hashInvalidCheckpoint` | ProcessSyncCheckpoint, ValidateSyncCheckpoint, AcceptPendingSyncCheckpoint, CheckSync, WriteSyncCheckpoint, ResetSyncCheckpoint |
| transaction index | `main.cpp` 1080-1340, 1600-1790 | `CTxIndex` records with `vSpent`, `nMoneySupply` | ConnectBlock, DisconnectBlock, ConnectInputs, DisconnectInputs, FetchInputs |
| memory pool | `main.cpp` 590-870 | `mapTx`, `mapNextTx` | accept, addUnchecked, remove |
| block processing | `main.cpp` 2170-2600 | `mapOrphanBlocks`, `mapOrphanBlocksByPrev`, `setStakeSeen`, `setStakeSeenOrphan` | ProcessBlock, AcceptBlock |
| script check queue | `checkqueue.h` | `queue`, `nIdle`, `nTotal`, `nTodo`, `fAllOk`, `fQuit`, three condition variables | Loop, Add, Wait, Quit, IsIdle |
| block database | `txdb-leveldb.*` | key-value store, open batch | TxnBegin, TxnCommit, LoadBlockIndex |
| address manager | `addrman.*` | `mapInfo`, `mapAddr`, `vRandom`, `vvTried`, `vvNew` | Add_, Good_, Attempt_, Select_, GetAddr_, peers.dat |
| transaction relay | `main.cpp` 200-265, 3512-3577 | `mapOrphanTransactions`, `mapOrphanTransactionsByPrev` | the `tx` message, AddOrphanTx, EraseOrphanTx, LimitOrphanTxSize |
| peers, messages | `net.cpp`, `main.cpp` 2900-3990 | `vNodes`, `mapAlreadyAskedFor`, `setBanned`, per-node queues | connect, disconnect, ProcessMessages, SendMessages |
| wallet | `wallet.cpp` 479-2060, 2525-2603 | `mapWallet` with spent flags, cached credit and supporting transactions | AddToWallet, WalletUpdateSpent, DisableTransaction, GetBalance, CreateTransaction, CommitTransaction, rescan, reaccept, repair |
| keys and wallet file | `wallet.cpp` 35-440, 2239-2390, `keystore.*`, `crypter.*`, `walletdb.*`, `db.*` | `mapKeys`, `mapCryptedKeys`, `vMasterKey`, `setKeyPool`, `wallet.dat` | TopUpKeyPool, ReserveKeyFromKeyPool, KeepKey, ReturnKey, NewKeyPool, EncryptWallet, DecryptWallet, Lock, Unlock, LoadWallet |
| kernel, difficulty, rewards | `kernel.cpp`, `main.cpp` 880-1100 | none besides the index | ComputeNextStakeModifier, GetNextTargetRequired, rewards |
| script | `script.cpp` | stack of one evaluation | EvalScript, Solver, SignSignature |
| miner and minter | `miner.cpp` | extra nonce, last search time | CreateNewBlock, CheckWork, CheckStake, ThreadStakeMiner |
| alerts, network time | `alert.cpp`, `util.cpp`, `ntp.cpp` | `mapAlerts`, time offsets | ProcessAlert, AddTimeData |
| start, shutdown, RPC, GUI | `init.cpp`, `bitcoinrpc.cpp`, `rpc*.cpp`, `qt/` | flags, threads | AppInit2, Shutdown, commands |

### How they interact

A message thread takes blocks, transactions and checkpoints from peers and
calls ProcessBlock, CTxMemPool::accept and ProcessSyncCheckpoint under the lock
`cs_main`. ProcessBlock parks a block without a parent among the orphans or
calls AcceptBlock, which writes the block to a file, adds it to the index
(first commit) and, if it is heavier than the best block, calls SetBestChain.
That connects one block (one commit) or reorganises: Reorganize disconnects one
branch and connects the part of the other that is needed to exceed the old
trust (one commit); the remaining blocks are postponed and connected one commit
at a time. ConnectBlock hands the script checks of a block to the check queue,
whose worker threads run beside the master without `cs_main`. Every AcceptBlock
ends with AcceptPendingSyncCheckpoint, which may call SetBestChain again. At
start LoadBlockIndex rebuilds memory from the database and, when it finds a
damaged block, calls SetBestChain to go back. The wallet is told of each
transaction that a block connects or that a peer sent to the pool, before the
commit that makes it true, and writes what it learns to its own file; what it
sends goes into the pool first. The miner calls ProcessBlock like a peer does.

### What is hard about it

* **Crashes.** One logical change of the best chain is several commits, and the
  process may end between any two of them.
* **Partial failure.** A block in the middle of a reorganisation may not connect
  or not be readable, with part of the work committed.
* **Order.** Blocks, checkpoints and transactions arrive in any order and more
  than once; whether a proof of stake counts as a duplicate depends on it.
* **Concurrency.** Almost everything holds `cs_main`; the check queue, the
  sockets, the RPC threads and the wallet flush do not.
* **Suppressed messages.** A download goes on only while each side still has
  something to ask or to tell; three filters suppress what was asked or told
  before, and connections break.
* **Two stores.** The wallet's file and the block database are written in turn and
  never in one transaction.
* **Long sequences.** The address manager and the memory pool are several maps
  that must describe the same set after any sequence of calls.

The hazards are listed line by line in `PROJECT.json`, each with the properties
that would catch it or a note on why there is none yet.

## 2. The modules

| module | role |
|---|---|
| `BlockTree` | the tree of all blocks that exist: parents, heights, trust; `Chain[b]`, the ancestors of `b` |
| `BestChain` | choice of the best chain, checkpoints, the database, crashes and restarts |
| `Ledger` | transaction index, money supply, memory pool and restarts; implements `BestChain` |
| `TxRelay` | `Ledger` with the `tx` message and the orphan transactions |
| `Wallet` | `TxRelay` with the transactions of the wallet |
| `WalletKeys` | the key pool, reserved keys, encryption and the key records of the wallet's file |
| `BlockProcessing` | orphan blocks, duplicate stakes, the work queue |
| `CheckQueue` | threads that check scripts |
| `AddrMan` | the tables of known addresses and their file |
| `BlockDownload` | the messages by which a node that is behind gets blocks |
| `BlockTreeProofs` | lemmas on chains and branches |
| `FoldInduction` | the rule for loops: an invariant of `FoldLeft` |
| `BestChainProofs`, `LedgerProofs`, `WalletProofs`, `WalletKeysProofs`, `BlockProcessingProofs`, `CheckQueueProofs` | theorems |
| `MC...` | instances for TLC |

Each component module states a definition per C++ function and keeps its name.
Operators that stand just before a definition and share its parameters, such as
`RelinkMemoryForgetsOld` before `RelinkMemory`, are variants with a plausible
mistake; nothing uses them but the list of mutants, which shows that each
property notices such a mistake.

### BlockTree

The set of blocks with `pprev`, `nHeight` and `nChainTrust` is a constant: blocks
are immutable. `TreeAssumption` says that there is one root, heights grow by
one and trust strictly grows along a branch (GetBlockTrust is positive).
`Chain[b]` is the least set that holds `b` and is closed under `pprev`, which
needs no recursion and can be reasoned about. `Fork[b][c]` is the block where two
chains part, `UpFrom[b][h]` the blocks of a chain from a height upwards and
`Branch(b, c)` those above the fork: the lists that Reorganize and the wallet's
rescan walk.

### BestChain

Memory (`mapBlockIndex`, `pnext`, `pindexBest`, checkpoints) and database
(`dbIndex`, `dbNext`, `dbBest`, `dbSyncCheckpoint`) are separate variables. A
handler runs under `cs_main`, so handlers do not interleave; what can interrupt
one is a crash, hence **a step ends at each commit**. `pc` says where the
handler is and `caller` who called SetBestChain.

| action | code |
|---|---|
| `AcceptBlock` | the checkpoint tests of AcceptBlock, AddToBlockIndex up to its commit |
| `ExtendBest`, `ExtendBestFails` | SetBestChain when the parent is the best block: SetBestChainInner |
| `Reorganize`, `ReorganizeFails` | the intermediate block is chosen, Reorganize to it |
| `ConnectSecondary`, `BreakSecondary`, `NewBest` | the loop over the postponed blocks and the assignments after it |
| `KeepAsPending`, `IgnoreCheckpoint`, `AcceptCheckpoint` | ProcessSyncCheckpoint by case |
| `NoPending`, `RejectPending`, `AcceptPending` | AcceptPendingSyncCheckpoint |
| `WriteSyncCheckpoint` | the commit of a checkpoint |
| `Restart`, `RestartDamaged` | a crash anywhere followed by LoadBlockIndex |

Whether ConnectBlock accepts a block is the constant `Connects`; `Ledger` shows
that this is a function of the block, as `BestChain` supposes. `IOErrors` lets
ReadFromDisk fail, `Rollback` lets the start find a damaged block, `Strict` is the
checkpoint policy, `MaxCrashes` bounds the restarts.

### Ledger

The same handler with the transaction index in the place of `Connects`. The
index maps a transaction to its block and the spender of each output; the
database view is passed through ConnectBlock and DisconnectBlock as a value, and
an aborted database transaction leaves the variable alone. ConnectBlock checks
inputs, maturity, double spends, values, the coinbase and the reuse of an
unspent transaction hash (BIP30) in the order of the code. Reorganize
disconnects from the tip down, connects upwards, then resurrects what it
disconnected into the pool and removes what it connected. `LedgerOf(b)` and
`ValidBlock(b)` are the reference: what the index and the verdict should be,
computed from the chain without replay. `CheckedBlocks` states what the code has
checked of a block before it is indexed: every transaction has inputs
(CheckTransaction, `main.cpp:519`) and a coinbase begins with the height of its block
(AcceptBlock, `main.cpp:2333`), so that coinbases of different heights differ. `ImplementsBestChain` is the refinement
`Abstract!Spec` with `Connects <- ValidBlocks`.

`broken` is a history variable: it becomes true when SetBestChain gives up on a
postponed block, after which the code itself leaves memory and database apart
(finding 1). A crash (`RestartWith`) loses the pool and all of memory; it may come
between any two commits of a reorganisation.

### TxRelay

`AcceptTx` is the whole `tx` message for a transaction that the pool accepts: the
work queue over the orphans that wait for it, each accepted, dropped as invalid
or left, and the erasures at the end. `KeepOrphan` is the other branch:
`fMissingInputs`, AddOrphanTx and the random eviction of LimitOrphanTxSize. Both
maps are variables, because one is walked while the other is looked up. Sets are
walked in the order of hashes (`HashOrder`). `released` is a history variable, the
pool transactions that came out of the orphans.

### Wallet

`mapWallet` is a partial function, as the C++ map is: for each transaction of the
wallet (`InWallet`, its domain) the block it was last seen in, the spent flags, the
cached credit and the copies of supporting transactions. Each step
of the node is conjoined with what the wallet is told in it:

| action | code |
|---|---|
| `ReceiveTx`, `ReceiveOrphan` | the `tx` message with SyncWithWallets |
| `ConnectTip` | ConnectBlock's SyncWithWallets for one block |
| `SwitchBranch` | Reorganize: DisableTransaction for coinstakes going down, SyncWithWallets going up |
| `AbandonBranch` | the same, up to the block that fails; the database transaction is aborted, the wallet is not |
| `RestartWallet` | death with any part of a branch told, then LoadWallet, the rescan from the locator, ReacceptWalletTransactions |
| `SendMoney` | CreateTransaction from selected coins, CommitTransaction |
| `GetBalance` | fills the cached credit |
| `Rescan`, `FixSpentCoins`, `ClearOrphans` | importprivkey, repairwallet, the button of the graphical wallet |

`suspect` is a history variable: an abandoned or uncommitted branch has been told
to the wallet, and neither a rescan nor a repair has come since.

### WalletKeys

Whoever takes a key holds `cs_wallet` until it is kept or returned, so `pc` is the
one call that is in the code of the pool, with its step, its caller, its index
and its key; a step ends at each write to the file. Beside it run `Lock`, which
the timer of walletpassphrase calls without `cs_wallet`, and the death of the
process (`LoadWallet`). The file is a record of plain keys, encrypted keys with the
master key each is under, master keys and pool records; a key is its number in
the order of generation. `GenerateNewKey` and `AddToPool` are the two writes of
TopUpKeyPool and of NewKeyPool, `EraseOld` and `Erased` the first half of the latter.
`SendTransaction` and `CommitTransaction` are the two halves of CommitTransaction as
far as keys go: sent, then kept. EncryptWallet and DecryptWallet are one step up
to their commit, because nothing of them is permanent before it and a failure
ends the process. `halfKept`, `mined`, `late` and `uses` are history variables.

### BlockProcessing

ProcessBlock with both orphan maps, both stake sets and the work queue, one
step per orphan. The contextual checks of AcceptBlock are the constant
`Accepts`; `pindexBest` is kept because a block that is indexed but does not
connect makes AcceptBlock return false, on which the work queue depends.
`Reorganized` is what SetBestChain must connect to answer true: the blocks up to the
first that is heavier than the best one. It postpones the others and forgives
them; `BestIsHeaviest` shows that here none of those is refused once the first part
connects, since there are no unreadable blocks in this module.
`dropped` is a history variable: the orphans that were processed and not indexed.

### CheckQueue

Workers and the master, each with a position in Loop; a critical section of
the C++ code is a step and the execution of a batch is another. Condition
variables are modelled as a position that a notification, or a spurious wakeup,
changes. StopNode sets `fShutdown` at any moment and calls Quit when it gets
`cs_main`, that is, when no block is being connected, and holds it until it returns;
after that the message thread may connect blocks again. A thread tests
`fShutdown` without the lock. `cutShort` is a history variable: `fShutdown` was
set while a block was being checked.

### AddrMan

CAddrMan is one value with a field per C++ member, and the operations are
functions on it, composed as the code composes them: Add_ (Find, Create,
ShrinkNew), Good_ (MakeTried with eviction), GetAddr_ (the random order) and the
file (Serialize, Deserialize). The bucket of an address is a constant function
in the place of the keyed hash. Random choices are nondeterministic.

### BlockDownload

A node downloads from peers that share one chain without forks, so a block is its
height and a locator leads to its first block. For each peer there is what the
node's CNode holds (`mapAskFor`, the last getblocks, `fStartSync`), what the peer's
CNode holds (`setInventoryKnown`, `vInventoryToSend`, `hashContinue`) and the messages
in flight in both directions; `mapAlreadyAskedFor` outlives connections, as in the
code. `ProcessMessage` is the node's handler of inv and block (ProcessBlock by
case: `DropBlock`, `StoreOrphan`, `AcceptNext`), `SendMessages` its getblocks and getdata,
`Serve` and `SendInventory` are the same two functions at the peer, for getblocks and
getdata. `Connect`, `Disconnect` and `StartSync` are the version message,
CloseSocketDisconnect and the choice of a node to load from. Time is abstracted: a
retry is due now or later, `nStakeMinAge` and a day are numbers of blocks, and
IsInitialBlockDownload is any answer that the age of the best block allows.
`setDropped` and `fSentBefore` are history variables. A peer does not announce a
block to the node that sent it, so that with one peer the node has nothing to
announce but orphans of an earlier connection; these announcements are left out.

## 3. The runs

| run | what it shows | states |
|---|---|---|
| `best_chain_crash` | a crash after any commit, two blocks that never connect, checkpoints under the strict policy: the database is always loadable, memory agrees with it between handlers, the chain is the heaviest valid one and its trust never falls, the checkpoint is on it and none stays pending for nothing | 17 292 |
| `best_chain_faults` | unreadable blocks, refused blocks, damaged chains at start, a crash, the advisory policy: the checkpoint is an accepted block and only advances, every handler ends | 119 200 |
| `best_chain_break` | **violation**, finding 1 | |
| `ledger_branches` | two branches with conflicting, shared, minted and immature spends, orphan transactions, unreadable blocks and a crash: index, supply, pool, orphan maps, release of orphans, refinement | 43 979 |
| `block_processing_orders` | three branches that share stakes and one that does not connect, any order, repeated sending: orphan maps, orphans left behind, stake limit, every chain is indexed in the end | 6 198 |
| `wallet_sync` | a stake on one branch, a payment of the same coin on the other, gifts through orphans, abandoned reorganisations, a crash, rescan and repair: places, spent flags, cached balance, unconfirmed receipts | 72 699 |
| `wallet_commit` | **violation**, finding 3 | |
| `wallet_keys` | addresses, payments, mined blocks, refill, reset, encryption, decryption, locking by the timer, three crashes at any write: no key lost, the pool readable, no key given out twice | 1 500 400 |
| `check_queue_blocks` | two workers and a master, two blocks, good and bad checks, spurious wakeups, shutdown at any moment: counts, verdicts, liveness | 381 393 |
| `check_queue_quit` | **violation**, finding 2 | |
| `address_manager` | full buckets, eviction, restart: Check_ never fails, limits hold, no tried address is lost, the file is exact | 235 933 |
| `block_download` | a chain that grows is downloaded in batches over a connection that may break: every block comes, but for two causes that the property names; the messages end | 596 991 |

`TypeOK` of each component module holds too; `TypeCorrect` and `KeysTypeCorrect` prove that
of `BestChain` and `WalletKeys`, and the invariants of the other proofs include their modules' types.

### Bounds and why they are enough

* `MCBestChain`: nine blocks in three branches. The `a` and `b` branches overtake
  each other at each height (trust 4, 2, 6, 5, 9, 8, 10), so reorganisations of
  one to three blocks happen, with a postponed part, from either side; `c2` makes
  a fork inside a branch. A longer tree repeats these cases.
* Two restarts (`best_chain_crash`): a crash during the handler that follows a
  restart is the case that differs from one crash; a third starts from a state of
  the same kind, and the theorem `CrashSafe` has no bound. With faults, one
  restart: the product of all faults is what that run is about.
* `MCLedger`: `pay` and `steal` conflict across branches, `change` spends `pay` in the
  same block, `third` spends both and is never confirmed, `burn` is in both
  branches, `stake` spends a minted output, `ax` takes too much and `bx` spends
  twice. `pay`, `change` and `third` come from peers in any order, so an orphan waits
  for an orphan and for two parents. Maturity is one block, so that immature and
  mature spends both occur. Two orphans at most, so that eviction happens; at most
  three outputs per transaction (`MaxOutputs`, any number in the theorems).
* `MCWallet`: `stake` and `pay` spend the same coin of the wallet on the two branches,
  `stake` one more coin, so that partial refunds show; `again` and `other` spend the
  change of `pay` before it is confirmed; `gift` spends `pay` too, pays the wallet, may
  come as an orphan that `pay` releases and is confirmed in `b3`. The `b` branch
  overtakes at `b2`; when that attempt was abandoned, `b3` is the postponed block of
  the next. One crash, at any point of a reorganisation.
* `MCWalletKeys`: `-keypool=1`, so that a top-up makes one or two keys; four keys are
  enough for each of address, payment and reset to meet a pool with old and new
  records. Two encryptions allow encrypt, decrypt, restart, encrypt; three crashes
  allow one in each. With five keys, two encryptions and two crashes (8 821 114
  states, not among the runs) the properties hold as well.
* `MCBlockProcessing`: `b1`, `b2` and `c2` use the stakes of `a1` and `a2` again, and the
  pending checkpoint is `c2`, so each exception to the rule on duplicate stakes
  decides some order. `c2` is not acceptable: processed while `a2` waits, it makes the
  node forget the stake that both have, and `b2` is stored too. `d1` does not connect:
  when it comes before `a2` and `b2` it is the heaviest block and refused, and `d2`, if it
  waits, is left behind; when it comes later it is indexed in silence and the chain
  above it is refused at `d2` or `d3`.
* `MCCheckQueue`: four checks and batches of two, so that a block needs several
  batches from different threads; two blocks, so that a bad block is followed by
  another. The theorems have no such bounds.
* `MCAddrMan`: four hosts, one on two ports, two sources, new buckets of one entry
  and one tried bucket of two; `MaxId` bounds the ids that are given out. The
  three hosts with one port are interchangeable (symmetry); all properties are
  safety properties, for which symmetry is sound.
* `MCBlockDownload`: batches of two and a chain of five or six blocks, so that a
  download takes three batches, the last one not full; `nMaxKnown` is 4, so that the
  peer forgets what it announced; the tip stakes an output two blocks below it.
  One peer and two connections: the second connection finds requests and orphans
  of the first, which is what makes blocks come out of order. With six and seven
  blocks (1 031 589 states, not among the runs) the properties
  hold as well. Both causes that `CatchesUp` excepts occur within the bounds:
  without either exception TLC finds a counterexample.

Deadlock checking is off in every run, because a node to which nobody sends
anything rests; in `wallet_keys` also because no key is left to generate.

### Fairness

* `BestChain`: weak fairness of the handler's steps. A handler is straight-line
  code with loops over finite sets that holds `cs_main`, so it continues unless
  the process ends. Neither the arrival of messages nor crashes are fair.
* `CheckQueue`: weak fairness of each thread, of Wait and of Quit: a runnable
  thread gets the mutex eventually. Blocks need not arrive and spurious wakeups
  need not happen.
* `BlockProcessing`: weak fairness of the work queue (the same reason) and of
  each block's arrival. The latter is an assumption about peers: someone
  has the block and sends it again after getblocks or getdata, which
  `EveryChainIndexed` is conditional upon.
* `BlockDownload`: weak fairness of the disjunction of what both message threads
  do, of time, and of connecting when there is no connection
  (ThreadOpenConnections). No fairness for a new block, for a lost connection or
  for a second one. The last of the connections that the bound allows does not
  break.
* `Ledger`, `TxRelay`, `Wallet`, `WalletKeys` and `AddrMan` have safety properties only:
  that an orphan transaction is released is an action property, because the code
  releases it in the handler that accepts its parent or not at all.

## 4. The theorems

Assumptions on the constants are `TreeAssumption`, `ParameterAssumption`,
`ProcessingAssumption`, `QueueAssumption`, `KeysAssumption`, `LedgerAssumption`,
`CheckedBlocks`, `TxRelayAssumption` and `WalletAssumption`; TLC evaluates them in the runs. They are about
constants of any size: the bounds of the runs on blocks, branches,
transactions, keys, threads and crashes are not bounds of the theorems.

**BlockTreeProofs** has the lemmas on chains: least closed set, transitivity,
heights and trust below the tip, linearity, at most one child of a block on a
chain. They replace induction: to show that all of `Chain[b]` is in a set it is
enough that the set holds `b` and is closed under `pprev`. The tree may be infinite;
that every chain reaches the genesis block, that it has a block at each height,
that two chains part somewhere and that a set of blocks has a lowest one
follows from the natural numbers being well-founded (`LeastOf`).

**FoldInduction** makes loops provable. Its constants are an operator `Op(e, s, x)`
and a predicate `Good(e, k, s)`, and `FoldInvariant` says that if `Good(e, 0, s)` holds
and the k-th element takes `Good` from `k - 1` to `k`, then `Good` holds of `Loop`, which
is `FoldLeft` written out, with the length of the sequence. A module that needs it
for a loop of the code instantiates it with the loop's body and invariant (`e` is
what the loop leaves alone), because the provers cannot instantiate a lemma that
has an operator as a parameter, and a substitution can.

**BestChainProofs**

* `TypeCorrect`: `Spec => []TypeOK`.
* `SyncCheckpointAlwaysAccepted`: the assertion of CheckSync never fails, whatever
  connects, fails to be read or crashes. The property is not inductive: the
  checkpoint is written from `pindexNew`, so `CheckpointInv` adds that the block
  of a running handler is indexed on disk, that both indexes are closed under
  `pprev`, that links lead to indexed blocks (LoadBlockIndex makes entries of
  them) and that while a checkpoint is enforced the old checkpoint is an ancestor
  of the new one.
* `CheckpointAdvances`: in memory and on disk the checkpoint moves only to its own
  descendants; from the same invariant.
* `TrustAlwaysGrows`: nothing but a checkpoint or the repair of a damaged chain
  commits a best chain with less trust, not even between the commits of one
  reorganisation. No condition: `BestInv` says that while postponed blocks are
  connected the database is on the new chain and otherwise on the chain of
  `pindexBest`, which is ahead of it once the loop was broken.

The other theorems about `BestChain` have the hypothesis
`NeverBroken == [][~BreakSecondary]_vars`: SetBestChain has not given up on a postponed
block. It cannot be dropped, because of finding 1; blocks that do not connect,
failed reorganisations, damaged chains and crashes are all allowed.
`AllConnectNeverBroken` shows that it is met when every block connects and can be read.

* `CrashSafe`, `MemoryAgreesWithDisk`: the database is loadable at every instant and
  memory agrees with it between handlers. `LinkInv`
  says that the links of the database trace the chain of its best block, that
  memory's best block is the database's unless postponed blocks remain, and that
  those are exactly the blocks between the database's best block and the new tip.
* `ConnectedUnlessBroken`: every block of memory's best chain has connected. This
  is the property that `best_chain_break` violates, so the step the finding names
  is the only one that can violate it.
* `CheckpointStaysOnMainChain`: with the strict policy and no damaged chain found at
  start, the checkpoint is on the best chain between handlers (`SyncChainInv`).
* `PendingCheckpointAlwaysTaken`: if blocks can be read, no checkpoint stays
  pending whose block has arrived and whose branch connects (`PendingInv`).
* `AlwaysHeaviestValidChain`: if blocks can be read, no branch that connects is
  heavier than the best chain when AcceptBlock is done, until a checkpoint is
  enforced or the node killed. `HeavyInv` says that a heavier one is the block
  SetBestChain is working on, and follows a checkpoint that makes a lighter branch
  the best one until it is written.

**LedgerProofs**, of `RelaySpec`, which is `Ledger` with the `tx` message

* `IndexIsAlwaysLedger`: the transaction index is the ledger of the chain the database
  stands at and nothing on it is spent twice, for every tree, every content of
  blocks and reorganisations of any depth and number; and while a heavier branch is
  tried, the blocks above the fork can be disconnected, down to the ledger of the
  fork (`DisconnectedLedger`). `Table(T, home)` is the index that a set `T` of
  transactions should have; `AddTx` and `RemoveTx` show that MarkSpent and GiveBack
  take it to that of one more and one less. Loop invariants carry this over a block
  (`ConnectBlockLedger`, `DisconnectBlockLedger`) and over a branch (`ConnectBranchLedger`,
  `DisconnectBranchLedger`). The inductive invariant `IndexInv` adds to the property
  that the chain is `Clean`: no transaction occurs twice on it and each spends what
  comes before it. This is what makes DisconnectBlock the inverse of ConnectBlock,
  and it is where BIP30 enters: a transaction may overwrite an entry that is
  completely spent, and that it then does not get through follows from its own
  inputs, which are spent already, or, for a coinbase, from the height in it; so
  `CheckedBlocks` is needed. Also in the invariant: while postponed blocks remain,
  they are the rest of the new chain. Like the property it ends when SetBestChain
  gives up on one of them.
* `SupplyIsAlwaysUnspent`: the money supply recorded with every block that was ever
  connected is the value of what is unspent on the chain that ends at it. The code
  computes it from the values that go in and out of a block, the property from the
  whole chain. Sums over finite sets are folds in an order that nothing fixes, so
  the lemmas first show that the order does not matter (`SumsInAnyOrder`) and what
  one more element adds (`SumWith`).
* `LedgerImplementsBestChain`: every step of the ledger is one of `BestChain`, or leaves
  the tree and the best chain alone. A block connects exactly when `ValidBlock` says
  so (`ConnectedIsValid`, `ValidIsConnected`): the verdict depends on the block and on
  the chain below it, not on what was tried before, which is what `BestChain`
  supposes of its constant `Connects`. Then one lemma for each step (`Maps...`), with
  the links of `pnext` as one more invariant (`Linked`). The mapping ends where the
  property does, when a postponed block is given up.
* `PoolAlwaysSpendsOnce`, `PoolAlwaysOutsideChain`: `mapNextTx` names the inputs of the
  pool's transactions and nothing else; no transaction is in the pool and in the
  index. Both together, with the pointers being blocks, are inductive (`LedgerInv`);
  the work is in the loops: a block that connects enters only its own
  transactions into the index, the resurrection puts into the pool only what was
  disconnected, and what is in the index after a reorganisation was there before
  or is removed from the pool at its end.
* `OrphanTxMapsAlwaysAgree`: the two maps of orphan transactions agree, through the
  work queue that grows while it is read (`QueueGood`) and every choice of evictions.

The last three have no condition: they hold after a broken reorganisation too.

**WalletProofs**, of `WalletSpec`

* `WalletAlwaysFollowsChain`, `StakeIsAlwaysReturned`, `BalanceIsAlwaysFresh`,
  `WalletAlwaysKnowsPool`: all properties of the wallet, for any number of branches,
  reorganisations, deaths, rescans, repairs and payments. The lemmas follow the
  code upwards: what AddToWallet does to a flag, a place and a credit
  (`AddToWalletIs`), a block told (`SyncBlock`) or taken back (`DisableBlock`), a branch of
  them, the main chain as the rescan walks it along `pnext`, what
  ReacceptWalletTransactions does to one transaction and in one pass.

The inductive invariant is `WalletInv`. None of its parts can be left out:

* `IndexInv`, because CreateTransaction, FixSpentCoins and the reaccept read the index.
* `WalletOK`: flags are on outputs of the wallet and a cached credit is the sum of
  what is not flagged. It alone gives `BalanceIsFresh`, in every state.
* `Linked`: IsInMainChain and the rescan follow `pnext`, so whether a coin is confirmed
  or an orphaned coinstake is erased depends on these links.
* `Knows`, unless `suspect`: the places and flags are right for the chain of the
  database, also between two commits of a reorganisation. It says for what each
  coin may be flagged; this is where a stake that one branch spends and
  the other does not must come back, in whatever order the two are told.
* `KnowsOwn`, also when `suspect`: a payment that is in the chain is in the wallet. A
  reorganisation puts disconnected transactions back into the pool, so
  `WalletKnowsPool` needs it of the chain.
* `CopiesKnown`: the same of `vtxPrev`, because a start puts the copies of supporting
  transactions into the pool (AcceptWalletTransaction).
* `PoolKnown`: the property, and that nothing minted is in the pool; otherwise an
  orphaned coinstake that ClearOrphans erases could be there.

Two statements became exact while this was proved. `WalletAssumption` says that the
genesis block holds transactions without inputs: nobody tells the wallet of it
but a rescan. `StakeIsReturned` is about coins that are in a block: when a branch is
abandoned that both creates and stakes a coin, DisableTransaction never runs for
the stake, and a rescan, which walks the blocks of the chain, does not meet the
coin. It stays flagged until it is in a block again. Within the bounds of
`wallet_sync` no branch does that.

**WalletKeysProofs**

* `KeysTypeCorrect`, `KeysAlwaysSurvive`, `PoolAlwaysReadable`, `KeyAlwaysGivenOnce`: the three
  properties of the key store for any number of keys, encryptions and crashes.
  `StoreInv` relates the wallet's maps to the file, step by step of each call;
  `PoolInv` says that the records of the pool have different keys, which nobody has
  been given, but for the one that the call at hand holds.

**BlockProcessingProofs**

* `OrphanMapsAlwaysAgree`: the orphan maps hold the same blocks between calls. During
  a call they differ by the processed children of the head of the queue
  (`MapsInv`).
* `NoOrphanLeftBehind`: no orphan is left whose parent is indexed on a chain that
  connects: such a parent is in the work queue (`QueuedInv`). Orphans of a refused
  parent are left, see the observations.
* `BestIsHeaviest`: the best block ends a chain that connects, and no indexed chain that
  does is heavier (`HeaviestInv`). The lowest block of a heavier chain that does not
  connect has a parent that is not heavier than the best block, so it is among those
  that SetBestChain connects before it answers (`PostponedConnect`).
* `OrphanStakeAlwaysLimited`: an orphan is stored next to another with its stake only if
  something waited for it, or if an orphan with this stake was dropped before. The
  stake of every orphan is in `setStakeSeenOrphan` or, once another orphan with it
  was processed, in `setStakeSeen`, unless that one was dropped (`StakeInv`).

**CheckQueueProofs**

* `SuccessAlwaysSound`: Wait never reports a block good that has a bad check, also
  when `fShutdown` cuts it short. The inductive invariant `BatchInv` says that batches
  are disjoint and `nTodo` counts at least what is outstanding (`Counted`), what each
  position of a thread implies for its batch (`Positioned`), and that, unless a
  batch was dropped, a bad check is still pending or has cleared `fAllOk`
  (`FailuresKept`).
* `TodoAlwaysExact`, `AlwaysFinished`, `VerdictAlwaysExact`, `AlwaysIdleBetweenBlocks`: until
  `cutShort`, for any number of workers, checks and blocks and any batch size.
  `ExactInv` adds that the three counters are exact, that a master outside Wait
  leaves nothing behind (`Finished`) and that the verdict is that of all checks. What
  the code does with the counters after `cutShort` is finding 2.

### Only model-checked

* Liveness (`HandlerEnds`, `WaitReturns`, `QuitReturns`, `EveryChainIndexed`, `CatchesUp`,
  `ComesToRest`): the prover handles no fairness.
* `ReleasesOrphans`: it compares the pool at the end of the work queue with what each
  orphan met when it was tried, so its proof needs the history of the pool within
  one handler, which the state does not hold.
* `AddrMan` (`CheckPasses`, `BucketsLimited`, `SurvivesRestart`, `TriedNeverDeleted`): no
  proof has been written. `CheckPasses` relates three tables and two counters
  through every composition of operations, and is the first in the plan.
* What holds after finding 1: the theorems with `NeverBroken`, those about the index
  and the supply, and those of the wallet but `BalanceIsAlwaysFresh` say nothing about
  a node whose SetBestChain has given up on a postponed block.
* What `RECURSIVE` operators would compute: there are none in modules with proofs.

## 5. Findings

1. `main.cpp:1964` (run `best_chain_break`). When a postponed block is refused, the
   loop breaks with the comment "errors now are not fatal, we still did a
   reorganisation to a new chain in a valid way", but the code below sets
   the best block to the tip of the new branch all the same: memory's best chain
   holds blocks that never connected, and the database stands elsewhere.
2. `checkqueue.h:126` (run `check_queue_quit`). "Quit method blocks on this until all
   workers are gone" (line 40), but a thread that leaves through `fShutdown` counts
   itself out of nothing and notifies nobody, so Quit may wait for ever.
3. `wallet.cpp:515` (run `wallet_commit`). CommitTransaction says of the pool's refusal
   "This must not fail. The transaction has already been signed." (line 2015). But
   WalletUpdateSpent, told of a block, marks all outputs of its transactions as
   unspent, also those that an unconfirmed transaction of the wallet spends.
   When a block is told again (importprivkey, a start after a crash, a
   reorganisation) the coin is available again, and the transaction made of it is
   a double spend that the pool refuses.

Observed while modelling, without a run of their own:

* An orphan stays when its parent is indexed but does not connect
  (`main.cpp:2574`); the comment at 2543 says it waits "until we get it".
* `setStakeSeenOrphan` forgets the stake of an orphan that is still held when
  another with the same stake is processed (`main.cpp:2591`). If that other is indexed
  `setStakeSeen` has the stake; if it is refused, a third orphan with it is stored
  although none waits for it. `OrphanStakeLimited` excepts these.
* After an unreadable postponed block (`main.cpp:1954`) later blocks connect on an
  index that lacks it.
* A download can also stop because the block that ended a batch (`hashContinue`) is
  with the node already, as an orphan or in the chain: it is not requested, so
  the inv that makes the node ask for more is not sent (`main.cpp:3383`), and the
  branch for a known last block (3337) is not reached for an orphan or when the
  peer's filter leaves the inv empty. With one peer this takes a connection that
  broke; with two it happens when both serve the same batch, or when the one that
  sent an orphan leaves. The next block or connection restarts the download.
* The comment at `main.cpp:3385` says "send latest proof-of-work block to allow the
  download node to accept as orphan (proof-of-stake block might be rejected by
  stake connection check)", but the inv names `hashBestChain`. A proof-of-stake tip
  whose output the node does not have yet is dropped, and the download of a chain
  that does not grow ends one block short: the other cause that `CatchesUp`
  excepts.
* The `tx` message tells the wallet of the transaction that released an orphan, not
  of the orphan (`main.cpp:3548`): a payment to the wallet that arrived as an orphan
  shows up when it is confirmed. `WalletKnowsPool` excepts these.
* An orphan transaction whose parent arrives in a block or by sendrawtransaction is
  not released; only the `tx` message looks for orphans. Looking up a transaction
  there also leaves an empty set in `mapOrphanTransactionsByPrev` (`main.cpp:3540`),
  which nothing removes.
* A reorganisation that is abandoned, or that the process does not survive, leaves
  the wallet with confirmations that never happened until a rescan
  (`main.cpp:1777`). A start rescans only if the chain is higher than the wallet's
  block (`init.cpp:930`).
* CreateNewBlock takes the key of a coinbase with a CReserveKey of its own
  (`miner.cpp:131`), which returns the key at once. CheckWork's "Remove key from key
  pool" (line 480) acts on the CReserveKey of getwork, which never reserved
  anything, so a mined key stays in the pool and is given out again. `KeyGivenOnce`
  excepts these keys, and the one of a transaction that was sent when the process
  died before the key was kept (`wallet.cpp:2034`).
* DecryptWallet leaves `fUseCrypto` set, although `keystore.h:141` says "if fUseCrypto
  is true, mapKeys must be empty". Until the restart the pool is unreadable ("unknown
  key in key pool"), and a key generated meanwhile is written under the master key
  that was just erased; the file then holds plain and encrypted keys and the next
  start calls it corrupt. `KeysSurvive` and `PoolReadable` except these.
* SelectTried returns the position it looked at last and not that of the oldest
  entry it found (`addrman.cpp:147`), so another entry than the intended one may be
  evicted. The tables stay consistent.

## 6. What is not modelled

* In the modelled parts: errors of the database itself (a failing commit, an
  unreadable index record inside ConnectBlock), signatures and scripts (constants
  `Verifies`, `Standard`, `Bad`), CheckBlock and DoS scores, notifications to
  the GUI, the free-transaction limiter, block files and their size,
  sigop and fee limits, the statistics of the address manager (attempts, time
  penalties) and the weights of Select_. `mapOrphanBlocks` has no limit for
  proof-of-work orphans and `FindBlockByHeight` a cache; neither has a model.
* In `Wallet`: the selection of coins and fees, CreateCoinStake, accounts, watch-only
  outputs, the immature credit, the change-confirmation option, the locator's
  gaps, transactions of sendrawtransaction, and copies that only other copies
  hold. CommitTransaction is one step: a crash between the file's records of the
  new transaction and of the flags is mended by the start's reaccept only once it
  is confirmed, and is not modelled.
* In `WalletKeys`: passphrases and ChangeWalletPassphrase, the cipher, imported keys,
  scripts, the default key's record, the rewriting of the file and its flushes.
* Whole parts, with the reason, are in `PROJECT.json` with status `not_modelled`:
  encodings and cryptography, network input and output, name lookup, the GUI and
  the vendored libraries have no state machine of their own that the properties
  are about; the others are in the plan.

## 7. Plan

In this order:

1. Net: reference counts and disconnection of CNode, bans, the outbound
   semaphore; `BlockDownload` with two peers, with the exceptions that it needs
   there, and with forks.
2. TxDB: reads through an open batch, as an abstract map that the batch implements.
3. Wallet: CreateCoinStake and the minter's threads, the use counts of CDBEnv.
4. Consensus functions over bounded inputs against reference definitions: the
   target, rewards and coin age, the stake modifier, the median time filter.
5. Control flow of EvalScript; alerts; the order of locks; start and shutdown.

Theorems: the parts of `CheckPasses` that relate two maps, then the whole of it and
`SurvivesRestart`; `ReleasesOrphans` with the pool at the time of each trial as a
history variable; the unbounded parts of `BlockDownload` (what is asked for is in
`mapAskFor` or in flight).
