----------------------------- MODULE BestChain -----------------------------
(***************************************************************************)
(* How a node chooses its best chain (main.cpp: AcceptBlock,               *)
(* AddToBlockIndex, SetBestChain, SetBestChainInner, Reorganize), how the  *)
(* synchronized checkpoint moves (checkpoints.cpp) and what a restart      *)
(* finds in the block database (txdb-leveldb.cpp: LoadBlockIndex).         *)
(*                                                                         *)
(* One thread at a time runs these functions, under cs_main, so a handler  *)
(* is a sequence of steps that only a crash can interrupt.  A step ends at *)
(* each database commit: memory that is changed after a commit without any *)
(* further database access is changed in the same step.                    *)
(***************************************************************************)
EXTENDS BlockTree

CONSTANTS
    Connects,           \* the blocks ConnectBlock accepts on the state of their parent
    MasterCheckpoints,  \* the blocks the checkpoint master signs for
    LastHardened,       \* the last entry of mapCheckpoints
    Strict,             \* CheckpointsMode == STRICT (otherwise ADVISORY or PERMISSIVE)
    IOErrors,           \* may CBlock::ReadFromDisk fail?
    Rollback,           \* may LoadBlockIndex find a damaged block in the best chain?
    MaxCrashes          \* bound on the number of restarts

ASSUME ParameterAssumption ==
    /\ Connects \subseteq Blocks
    /\ GenesisBlock \in Connects
    /\ MasterCheckpoints \subseteq Blocks
    /\ LastHardened \in Blocks
    /\ Strict \in BOOLEAN
    /\ IOErrors \in BOOLEAN
    /\ Rollback \in BOOLEAN
    /\ MaxCrashes \in Nat

VARIABLES
    \* memory of the process
    mapBlockIndex,          \* the keys of mapBlockIndex
    pnext,                  \* CBlockIndex::pnext
    pindexBest,             \* pindexBest, hashBestChain, nBestHeight, nBestChainTrust
    hashSyncCheckpoint,
    hashPendingCheckpoint,
    hashInvalidCheckpoint,
    \* the block database
    dbIndex,                \* the keys ("blockindex", hash)
    dbNext,                 \* CDiskBlockIndex::hashNext
    dbBest,                 \* "hashBestChain"; the transaction index is the state after this block
    dbSyncCheckpoint,       \* "hashSyncCheckpoint"
    nBestInvalidTrust,      \* written through to "bnBestInvalidTrust" at once
    \* the handler that is running
    pc, caller, pindexNew, vpindexSecondary,
    nCrashes

memory   == <<mapBlockIndex, pnext, pindexBest>>
checkpts == <<hashSyncCheckpoint, hashPendingCheckpoint, hashInvalidCheckpoint>>
disk     == <<dbIndex, dbNext, dbBest, dbSyncCheckpoint>>
handler  == <<pc, caller, pindexNew, vpindexSecondary>>
vars     == <<memory, checkpts, disk, nBestInvalidTrust, handler, nCrashes>>

(***************************************************************************)
(* pc is where the running handler is:                                     *)
(*   "idle"       no handler runs                                          *)
(*   "set"        SetBestChain(pindexNew) is entered                       *)
(*   "secondary"  SetBestChain connects the blocks Reorganize postponed    *)
(*   "pending"    AcceptPendingSyncCheckpoint is entered                   *)
(*   "write"      WriteSyncCheckpoint(pindexNew) is entered                *)
(* caller is who called SetBestChain: AddToBlockIndex, the pending or the  *)
(* received checkpoint, or LoadBlockIndex.                                 *)
(***************************************************************************)
PCs     == {"idle", "set", "secondary", "pending", "write"}
Callers == {"accept", "pending", "process", "load"}

TypeOK ==
    /\ mapBlockIndex \subseteq Blocks
    /\ pnext \in [Blocks -> BlockOrNull]
    /\ pindexBest \in Blocks
    /\ hashSyncCheckpoint \in Blocks
    /\ hashPendingCheckpoint \in BlockOrNull
    /\ hashInvalidCheckpoint \in BlockOrNull
    /\ dbIndex \subseteq Blocks
    /\ dbNext \in [Blocks -> BlockOrNull]
    /\ dbBest \in Blocks
    /\ dbSyncCheckpoint \in Blocks
    /\ nBestInvalidTrust \in Nat
    /\ pc \in PCs
    /\ caller \in Callers
    /\ pindexNew \in Blocks
    /\ vpindexSecondary \subseteq Blocks
    /\ nCrashes \in 0..MaxCrashes

(***************************************************************************)
(* The first start: the genesis block is indexed and best, the checkpoint  *)
(* is reset to it, and the last hardened checkpoint is pending unless it   *)
(* is the genesis block (LoadBlockIndex, ResetSyncCheckpoint).             *)
(***************************************************************************)
Init ==
    /\ mapBlockIndex = {GenesisBlock}
    /\ pnext = [b \in Blocks |-> NULL]
    /\ pindexBest = GenesisBlock
    /\ hashSyncCheckpoint = GenesisBlock
    /\ hashPendingCheckpoint = IF LastHardened = GenesisBlock THEN NULL ELSE LastHardened
    /\ hashInvalidCheckpoint = NULL
    /\ dbIndex = {GenesisBlock}
    /\ dbNext = [b \in Blocks |-> NULL]
    /\ dbBest = GenesisBlock
    /\ dbSyncCheckpoint = GenesisBlock
    /\ nBestInvalidTrust = 0
    /\ pc = "idle"
    /\ caller = "accept"
    /\ pindexNew = GenesisBlock
    /\ vpindexSecondary = {}
    /\ nCrashes = 0

-----------------------------------------------------------------------------
\* CBlockIndex::IsInMainChain
IsInMainChain(b) == pnext[b] # NULL \/ b = pindexBest

HasChildIn(S, b) == \E c \in S : pprev[c] = b
ChildIn(S, b)    == CHOOSE c \in S : pprev[c] = b

(***************************************************************************)
(* The pnext pointers in memory once the blocks of D are disconnected and  *)
(* those of C connected.                                                   *)
(***************************************************************************)
RelinkMemoryForgetsOld(D, C) ==
    [b \in Blocks |-> IF HasChildIn(C, b) THEN ChildIn(C, b) ELSE pnext[b]]

RelinkMemory(D, C) ==
    [b \in Blocks |-> IF HasChildIn(C, b) THEN ChildIn(C, b)
                      ELSE IF HasChildIn(D, b) THEN NULL
                      ELSE pnext[b]]

(***************************************************************************)
(* The hashNext fields on disk: DisconnectBlock clears the one of the      *)
(* parent; ConnectBlock first rewrites the entry of the block itself with  *)
(* the pointer memory holds, then sets the one of the parent.              *)
(***************************************************************************)
RelinkDiskForgetsOld(D, C) ==
    [b \in Blocks |-> IF HasChildIn(C, b) THEN ChildIn(C, b)
                      ELSE IF b \in C THEN pnext[b]
                      ELSE dbNext[b]]

RelinkDisk(D, C) ==
    [b \in Blocks |-> IF HasChildIn(C, b) THEN ChildIn(C, b)
                      ELSE IF b \in C THEN pnext[b]
                      ELSE IF HasChildIn(D, b) THEN NULL
                      ELSE dbNext[b]]

(***************************************************************************)
(* The answers ConnectBlock(b) can give.  They are known when the          *)
(* transaction index is the state after b's parent; otherwise its inputs   *)
(* may or may not be found.                                                *)
(***************************************************************************)
ConnectBlock(b) == IF dbBest = pprev[b] THEN {(b \in Connects)} ELSE BOOLEAN

InvalidChainFound(b) ==
    nBestInvalidTrust' = IF nChainTrust[b] > nBestInvalidTrust
                         THEN nChainTrust[b] ELSE nBestInvalidTrust

ReturnTrueSkipsPending ==
    /\ pc' = IF caller \in {"accept", "load"} THEN "idle" ELSE "write"
    /\ UNCHANGED hashInvalidCheckpoint

\* SetBestChain returns true to its caller.
ReturnTrue ==
    /\ pc' = [accept |-> "pending", load |-> "idle",
              pending |-> "write", process |-> "write"][caller]
    /\ UNCHANGED hashInvalidCheckpoint

ReturnFalseRetries ==
    /\ pc' = IF caller = "pending" THEN "pending" ELSE "idle"
    /\ hashInvalidCheckpoint' = IF caller \in {"pending", "process"}
                                THEN pindexNew ELSE hashInvalidCheckpoint

\* SetBestChain returns false: a checkpoint that cannot become best is remembered as invalid.
ReturnFalse ==
    /\ pc' = "idle"
    /\ hashInvalidCheckpoint' = IF caller \in {"pending", "process"}
                                THEN pindexNew ELSE hashInvalidCheckpoint

-----------------------------------------------------------------------------
(***************************************************************************)
(* Checkpoints::CheckHardened and CheckSync.  The walk back from b's       *)
(* parent to the height of the checkpoint meets the checkpoint exactly     *)
(* when the checkpoint is on the parent's chain.                           *)
(***************************************************************************)
CheckHardened(b) == nHeight[b] = nHeight[LastHardened] => b = LastHardened

CheckSyncLacksSameHeight(b) ==
    /\ nHeight[b] > nHeight[hashSyncCheckpoint] => hashSyncCheckpoint \in Chain[pprev[b]]
    /\ nHeight[b] < nHeight[hashSyncCheckpoint] => b \in mapBlockIndex

CheckSync(b) ==
    /\ nHeight[b] > nHeight[hashSyncCheckpoint] => hashSyncCheckpoint \in Chain[pprev[b]]
    /\ nHeight[b] = nHeight[hashSyncCheckpoint] => b = hashSyncCheckpoint
    /\ nHeight[b] < nHeight[hashSyncCheckpoint] => b \in mapBlockIndex

HigherThanBest(b) == nHeight[b] > nHeight[pindexBest]

\* "New best" of AddToBlockIndex.
HeavierThanBest(b) == nChainTrust[b] > nChainTrust[pindexBest]

(***************************************************************************)
(* AcceptBlock up to and including the commit of the index entry in        *)
(* AddToBlockIndex, and the decision whether b can be the new best block.  *)
(* Blocks holds the blocks that pass the other contextual checks.          *)
(***************************************************************************)
AcceptBlock(b) ==
    /\ pc = "idle"
    /\ b \notin mapBlockIndex
    /\ pprev[b] \in mapBlockIndex
    /\ CheckHardened(b)
    /\ Strict => CheckSync(b)
    /\ mapBlockIndex' = mapBlockIndex \cup {b}
    /\ dbIndex' = dbIndex \cup {b}
    /\ dbNext' = [dbNext EXCEPT ![b] = pnext[b]]
    /\ \/ /\ HeavierThanBest(b)
          /\ pc' = "set"
          /\ caller' = "accept"
          /\ pindexNew' = b
       \/ /\ ~HeavierThanBest(b)
          /\ pc' = "pending"
          /\ UNCHANGED <<caller, pindexNew>>
    /\ UNCHANGED <<pnext, pindexBest, checkpts, dbBest, dbSyncCheckpoint,
                   nBestInvalidTrust, vpindexSecondary, nCrashes>>

(***************************************************************************)
(* SetBestChain when pindexNew extends the best block: SetBestChainInner.  *)
(***************************************************************************)
ExtendBest ==
    /\ pc = "set"
    /\ pprev[pindexNew] = pindexBest
    /\ TRUE \in ConnectBlock(pindexNew)
    /\ dbNext' = RelinkDisk({}, {pindexNew})
    /\ dbBest' = pindexNew
    /\ pnext' = RelinkMemory({}, {pindexNew})
    /\ pindexBest' = pindexNew
    /\ ReturnTrue
    /\ UNCHANGED <<mapBlockIndex, hashSyncCheckpoint, hashPendingCheckpoint, dbIndex,
                   dbSyncCheckpoint, nBestInvalidTrust, caller, pindexNew,
                   vpindexSecondary, nCrashes>>

ExtendBestFails ==
    /\ pc = "set"
    /\ pprev[pindexNew] = pindexBest
    /\ FALSE \in ConnectBlock(pindexNew)
    /\ InvalidChainFound(pindexNew)
    /\ ReturnFalse
    /\ UNCHANGED <<memory, hashSyncCheckpoint, hashPendingCheckpoint, disk,
                   caller, pindexNew, vpindexSecondary, nCrashes>>

(***************************************************************************)
(* SetBestChain when pindexNew is on another branch.  pindexIntermediate   *)
(* is the first block of the branch that is heavier than the best block;   *)
(* the blocks after it are postponed.                                      *)
(***************************************************************************)
IsIntermediateTooLow(x) ==
    /\ x \in Chain[pindexNew]
    /\ x # GenesisBlock => nChainTrust[pprev[x]] <= nChainTrust[pindexBest]

IsIntermediate(x) ==
    /\ x \in Chain[pindexNew]
    /\ x # pindexNew => nChainTrust[x] > nChainTrust[pindexBest]
    /\ x # GenesisBlock => nChainTrust[pprev[x]] <= nChainTrust[pindexBest]

vDisconnect(x) == Chain[pindexBest] \ Chain[x]
vConnect(x)    == Chain[x] \ Chain[pindexBest]

(***************************************************************************)
(* The answers Reorganize(x) can give.  Disconnecting what is connected    *)
(* succeeds; every block of the other branch must connect.  When the best  *)
(* block in memory is not the one the transaction index stands at, either  *)
(* answer is possible.                                                     *)
(***************************************************************************)
ReorganizeAnswers(x) ==
    IF dbBest = pindexBest
    THEN {vConnect(x) \subseteq Connects} \cup (IF IOErrors THEN {FALSE} ELSE {})
    ELSE BOOLEAN

\* Reorganize(pindexIntermediate): one database transaction, then memory.
Reorganize ==
    /\ pc = "set"
    /\ pprev[pindexNew] # pindexBest
    /\ \E x \in Chain[pindexNew] :
          /\ IsIntermediate(x)
          /\ TRUE \in ReorganizeAnswers(x)
          /\ dbNext' = RelinkDisk(vDisconnect(x), vConnect(x))
          /\ dbBest' = x
          /\ pnext' = RelinkMemory(vDisconnect(x), vConnect(x))
          /\ vpindexSecondary' = Chain[pindexNew] \ Chain[x]
    /\ pc' = "secondary"
    /\ UNCHANGED <<mapBlockIndex, pindexBest, checkpts, dbIndex, dbSyncCheckpoint,
                   nBestInvalidTrust, caller, pindexNew, nCrashes>>

ReorganizeFails ==
    /\ pc = "set"
    /\ pprev[pindexNew] # pindexBest
    /\ \E x \in Chain[pindexNew] : IsIntermediate(x) /\ FALSE \in ReorganizeAnswers(x)
    /\ InvalidChainFound(pindexNew)
    /\ ReturnFalse
    /\ UNCHANGED <<memory, hashSyncCheckpoint, hashPendingCheckpoint, disk,
                   caller, pindexNew, vpindexSecondary, nCrashes>>

(***************************************************************************)
(* The postponed blocks, lowest first, each in a transaction of its own;   *)
(* pindexBest still is the old best block.                                 *)
(***************************************************************************)
NextSecondary(y) == y \in vpindexSecondary /\ pprev[y] \notin vpindexSecondary

ConnectSecondary ==
    /\ pc = "secondary"
    /\ \E y \in vpindexSecondary :
          /\ NextSecondary(y)
          /\ TRUE \in ConnectBlock(y)
          /\ dbNext' = RelinkDisk({}, {y})
          /\ dbBest' = y
          /\ pnext' = RelinkMemory({}, {y})
          /\ vpindexSecondary' = vpindexSecondary \ {y}
    /\ UNCHANGED <<mapBlockIndex, pindexBest, checkpts, dbIndex, dbSyncCheckpoint,
                   nBestInvalidTrust, pc, caller, pindexNew, nCrashes>>

\* ConnectBlock refuses a postponed block, or it cannot be read: the loop breaks.
BreakSecondary ==
    /\ pc = "secondary"
    /\ \E y \in vpindexSecondary :
          /\ NextSecondary(y)
          /\ \/ FALSE \in ConnectBlock(y) /\ InvalidChainFound(y)
             \/ IOErrors /\ UNCHANGED nBestInvalidTrust
    /\ vpindexSecondary' = {}
    /\ UNCHANGED <<memory, checkpts, disk, pc, caller, pindexNew, nCrashes>>

\* The end of SetBestChain: pindexNew is the new best block.
NewBest ==
    /\ pc = "secondary"
    /\ vpindexSecondary = {}
    /\ pindexBest' = pindexNew
    /\ ReturnTrue
    /\ UNCHANGED <<mapBlockIndex, pnext, hashSyncCheckpoint, hashPendingCheckpoint, disk,
                   nBestInvalidTrust, caller, pindexNew, vpindexSecondary, nCrashes>>

-----------------------------------------------------------------------------
(***************************************************************************)
(* ValidateSyncCheckpoint(c): only a descendant of the current checkpoint  *)
(* is accepted; an ancestor of it is ignored; any other block conflicts.   *)
(***************************************************************************)
ValidateHeightOnly(c) == nHeight[c] > nHeight[hashSyncCheckpoint]

ValidateSyncCheckpoint(c) ==
    /\ nHeight[c] > nHeight[hashSyncCheckpoint]
    /\ hashSyncCheckpoint \in Chain[c]

ConflictsWithCheckpoint(c) ==
    IF nHeight[c] <= nHeight[hashSyncCheckpoint]
    THEN c \notin Chain[hashSyncCheckpoint]
    ELSE hashSyncCheckpoint \notin Chain[c]

RememberConflict(c) ==
    hashInvalidCheckpoint' = IF ConflictsWithCheckpoint(c) THEN c ELSE hashInvalidCheckpoint

(***************************************************************************)
(* A valid checkpoint that is not on the main chain is made the best block *)
(* first, whatever its trust.                                              *)
(***************************************************************************)
EnforceCheckpoint(c, from) ==
    /\ pindexNew' = c
    /\ caller' = from
    /\ \/ pc' = IF IsInMainChain(c) THEN "write" ELSE "set"
       \/ IOErrors /\ ~IsInMainChain(c) /\ pc' = "idle"

PendingKnown == hashPendingCheckpoint # NULL

PendingArrived == hashPendingCheckpoint # NULL /\ hashPendingCheckpoint \in mapBlockIndex

\* AcceptPendingSyncCheckpoint when there is nothing to do.
NoPending ==
    /\ pc = "pending"
    /\ ~PendingArrived
    /\ pc' = "idle"
    /\ UNCHANGED <<memory, checkpts, disk, nBestInvalidTrust, caller, pindexNew,
                   vpindexSecondary, nCrashes>>

RejectPending ==
    /\ pc = "pending"
    /\ PendingArrived
    /\ ~ValidateSyncCheckpoint(hashPendingCheckpoint)
    /\ RememberConflict(hashPendingCheckpoint)
    /\ hashPendingCheckpoint' = NULL
    /\ pc' = "idle"
    /\ UNCHANGED <<memory, hashSyncCheckpoint, disk, nBestInvalidTrust, caller, pindexNew,
                   vpindexSecondary, nCrashes>>

AcceptPending ==
    /\ pc = "pending"
    /\ PendingArrived
    /\ ValidateSyncCheckpoint(hashPendingCheckpoint)
    /\ EnforceCheckpoint(hashPendingCheckpoint, "pending")
    /\ UNCHANGED <<memory, checkpts, disk, nBestInvalidTrust, vpindexSecondary, nCrashes>>

(***************************************************************************)
(* CSyncCheckpoint::ProcessSyncCheckpoint, for a message whose signature   *)
(* verifies: it can be for any block the master signed, in any order, any  *)
(* number of times.                                                        *)
(***************************************************************************)
KeepAsPending(c) ==
    /\ pc = "idle"
    /\ c \notin mapBlockIndex
    /\ hashPendingCheckpoint' = c
    /\ UNCHANGED <<memory, hashSyncCheckpoint, hashInvalidCheckpoint, disk,
                   nBestInvalidTrust, handler, nCrashes>>

IgnoreCheckpoint(c) ==
    /\ pc = "idle"
    /\ c \in mapBlockIndex
    /\ ~ValidateSyncCheckpoint(c)
    /\ RememberConflict(c)
    /\ UNCHANGED <<memory, hashSyncCheckpoint, hashPendingCheckpoint, disk,
                   nBestInvalidTrust, handler, nCrashes>>

AcceptCheckpoint(c) ==
    /\ pc = "idle"
    /\ c \in mapBlockIndex
    /\ ValidateSyncCheckpoint(c)
    /\ EnforceCheckpoint(c, "process")
    /\ UNCHANGED <<memory, checkpts, disk, nBestInvalidTrust, vpindexSecondary, nCrashes>>

\* WriteSyncCheckpoint and the end of its two callers.
WriteSyncCheckpoint ==
    /\ pc = "write"
    /\ dbSyncCheckpoint' = pindexNew
    /\ hashSyncCheckpoint' = pindexNew
    /\ hashPendingCheckpoint' = NULL
    /\ pc' = "idle"
    /\ UNCHANGED <<memory, hashInvalidCheckpoint, dbIndex, dbNext, dbBest,
                   nBestInvalidTrust, caller, pindexNew, vpindexSecondary, nCrashes>>

-----------------------------------------------------------------------------
(***************************************************************************)
(* The process dies at any point and is started again.  LoadBlockIndex     *)
(* creates an entry for every hash it meets, the links included; pending   *)
(* and invalid checkpoints are not stored.                                 *)
(***************************************************************************)
LoadedIndex ==
    (dbIndex \cup {pprev[b] : b \in dbIndex} \cup {dbNext[b] : b \in dbIndex}) \ {NULL}

LoadedNext == [b \in Blocks |-> IF b \in dbIndex THEN dbNext[b] ELSE NULL]

LoadBlockIndex ==
    /\ nCrashes < MaxCrashes
    /\ nCrashes' = nCrashes + 1
    /\ dbBest \in LoadedIndex
    /\ mapBlockIndex' = LoadedIndex
    /\ pnext' = LoadedNext
    /\ pindexBest' = dbBest
    /\ hashSyncCheckpoint' = dbSyncCheckpoint
    /\ hashPendingCheckpoint' = NULL
    /\ hashInvalidCheckpoint' = NULL
    /\ vpindexSecondary' = {}
    /\ UNCHANGED <<disk, nBestInvalidTrust>>

Restart == LoadBlockIndex /\ pc' = "idle" /\ UNCHANGED <<caller, pindexNew>>

\* A block of the best chain fails its check: back to the parent of the lowest one.
RestartDamaged ==
    /\ Rollback
    /\ LoadBlockIndex
    /\ \E bad \in Chain[dbBest] \ {GenesisBlock} : pindexNew' = pprev[bad]
    /\ caller' = "load"
    /\ pc' = "set"

-----------------------------------------------------------------------------
HandlerStep ==
    \/ ExtendBest \/ ExtendBestFails
    \/ Reorganize \/ ReorganizeFails
    \/ ConnectSecondary \/ BreakSecondary \/ NewBest
    \/ NoPending \/ RejectPending \/ AcceptPending
    \/ WriteSyncCheckpoint

ProcessSyncCheckpoint(c) == KeepAsPending(c) \/ IgnoreCheckpoint(c) \/ AcceptCheckpoint(c)

Next ==
    \/ \E b \in Blocks : AcceptBlock(b)
    \/ \E c \in MasterCheckpoints : ProcessSyncCheckpoint(c)
    \/ HandlerStep
    \/ Restart
    \/ RestartDamaged

(***************************************************************************)
(* A handler is straight-line code that holds cs_main, so it is weakly     *)
(* fair; nothing makes peers send blocks or the process crash.             *)
(***************************************************************************)
Spec == Init /\ [][Next]_vars
FairSpec == Spec /\ WF_vars(HandlerStep)

-----------------------------------------------------------------------------
(***************************************************************************)
(* Properties.                                                             *)
(***************************************************************************)
LinksAre(next, best) ==
    \A b, c \in Blocks : next[b] = c <=> pprev[c] = b /\ c \in Chain[best]

(***************************************************************************)
(* At every instant, in the middle of a handler too, the database is one   *)
(* LoadBlockIndex can start from: its hashNext fields trace exactly the    *)
(* chain of its hashBestChain, and every block of that chain is indexed.   *)
(***************************************************************************)
DiskIsLoadable ==
    /\ LinksAre(dbNext, dbBest)
    /\ Chain[dbBest] \subseteq dbIndex
    /\ ClosedUnderPrev(dbIndex)

(***************************************************************************)
(* Between handlers a restart would change nothing but the checkpoint that *)
(* is pending: memory and database hold the same index, the same links,    *)
(* the same best block and the same checkpoint (SetBestChain,              *)
(* WriteSyncCheckpoint and LoadBlockIndex agree).  It ends where a         *)
(* postponed block that does not connect has become the best one.          *)
(***************************************************************************)
MemoryMatchesDisk ==
    pc = "idle" /\ Chain[pindexBest] \subseteq Connects
        => /\ mapBlockIndex = LoadedIndex
           /\ pnext = LoadedNext
           /\ pindexBest = dbBest
           /\ hashSyncCheckpoint = dbSyncCheckpoint

(***************************************************************************)
(* SetBestChain leaves a best block whose whole chain ConnectBlock has     *)
(* accepted.                                                               *)
(***************************************************************************)
BestChainConnected == pc = "idle" => Chain[pindexBest] \subseteq Connects

(***************************************************************************)
(* The assertion of CheckSync and IsMatureSyncCheckpoint (checkpoints.cpp):*)
(* the synchronized checkpoint is always an accepted block, after a crash  *)
(* at any point too.                                                       *)
(***************************************************************************)
SyncCheckpointAccepted ==
    /\ hashSyncCheckpoint \in mapBlockIndex
    /\ dbSyncCheckpoint \in dbIndex

(***************************************************************************)
(* With -cppolicy=strict the synchronized checkpoint is on the main chain  *)
(* between handlers: no block accepted before or after the checkpoint can  *)
(* take the best chain off it.                                             *)
(***************************************************************************)
CheckpointOnMainChain == pc = "idle" => hashSyncCheckpoint \in Chain[pindexBest]

(***************************************************************************)
(* As long as no checkpoint is enforced and the node has not been killed,  *)
(* none of the branches whose blocks all connect is heavier than the best  *)
(* chain when AcceptBlock is done.                                         *)
(***************************************************************************)
HeaviestValidChain ==
    pc = "idle" /\ hashSyncCheckpoint = GenesisBlock /\ nCrashes = 0
        => \A b \in mapBlockIndex :
              Chain[b] \subseteq Connects => nChainTrust[b] <= nChainTrust[pindexBest]

(***************************************************************************)
(* A checkpoint that arrived before its block does not stay pending once   *)
(* the block is there, unless its branch does not connect                  *)
(* (AcceptPendingSyncCheckpoint runs at the end of every AcceptBlock).     *)
(***************************************************************************)
PendingCheckpointTaken ==
    pc = "idle" /\ Chain[pindexBest] \subseteq Connects /\ hashPendingCheckpoint \in mapBlockIndex
        => ~(Chain[hashPendingCheckpoint] \subseteq Connects)

(***************************************************************************)
(* The checkpoint, in memory and on disk, only moves to descendants of     *)
(* itself, whatever the order of messages and wherever a crash falls.      *)
(***************************************************************************)
CheckpointOnlyAdvances ==
    [][ /\ hashSyncCheckpoint \in Chain[hashSyncCheckpoint']
        /\ dbSyncCheckpoint \in Chain[dbSyncCheckpoint'] ]_vars

(***************************************************************************)
(* Accepting a block never commits a best chain with less trust than the   *)
(* one before, not even between the transactions of a long reorganisation: *)
(* only a checkpoint or the repair of a damaged chain may.                 *)
(***************************************************************************)
TrustOnlyGrows ==
    [][ nChainTrust[dbBest'] < nChainTrust[dbBest] => pc = "set" /\ caller # "accept" ]_vars

(***************************************************************************)
(* Every handler ends: SetBestChain and the checkpoint code always return. *)
(***************************************************************************)
HandlerEnds == (pc # "idle") ~> (pc = "idle")

=============================================================================
