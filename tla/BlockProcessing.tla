-------------------------- MODULE BlockProcessing --------------------------
(***************************************************************************)
(* ProcessBlock (main.cpp): blocks arrive from peers in any order and any  *)
(* number of times; one whose parent is missing waits among the orphans,   *)
(* and when a block is accepted the orphans that depended on it are        *)
(* processed through a work queue.  A proof of stake may be used twice     *)
(* only for a block that an orphan waits for.                              *)
(*                                                                         *)
(* ProcessBlock runs under cs_main: its loop over the work queue is not    *)
(* interleaved with anything, and is a step per orphan here.  The requests *)
(* it sends (PushGetBlocks, AskFor) are why peers send blocks again.       *)
(***************************************************************************)
EXTENDS BlockTree, Sequences

CONSTANTS
    Accepts,            \* the blocks that pass the contextual checks of AcceptBlock
    Connects,           \* the blocks ConnectBlock accepts on the state of their parent
    stake,              \* GetProofOfStake of a block, NULL for proof of work
    PendingCheckpoint   \* hashPendingCheckpoint

ASSUME ProcessingAssumption ==
    /\ Accepts \subseteq Blocks /\ Connects \subseteq Blocks
    /\ GenesisBlock \in Accepts \cap Connects
    /\ DOMAIN stake = Blocks
    /\ PendingCheckpoint \in BlockOrNull

VARIABLES
    mapBlockIndex,
    pindexBest,
    mapOrphanBlocks,        \* keyed by hash
    mapOrphanBlocksByPrev,  \* the same blocks, keyed by the parent
    setStakeSeen,
    setStakeSeenOrphan,
    vWorkQueue,             \* the rest of the work queue, empty between calls
    dropped                 \* history: orphans that AcceptBlock did not index

orphans == <<mapOrphanBlocks, mapOrphanBlocksByPrev, setStakeSeenOrphan>>
vars    == <<mapBlockIndex, pindexBest, orphans, setStakeSeen, vWorkQueue, dropped>>

Stakes == {stake[b] : b \in Blocks} \ {NULL}
Idle   == vWorkQueue = <<>>

TypeOK ==
    /\ mapBlockIndex \subseteq Blocks
    /\ pindexBest \in mapBlockIndex
    /\ mapOrphanBlocks \subseteq Blocks
    /\ mapOrphanBlocksByPrev \subseteq Blocks
    /\ setStakeSeen \subseteq Stakes
    /\ setStakeSeenOrphan \subseteq Stakes
    /\ vWorkQueue \in Seq(Blocks)
    /\ dropped \subseteq Blocks

Init ==
    /\ mapBlockIndex = {GenesisBlock}
    /\ pindexBest = GenesisBlock
    /\ mapOrphanBlocks = {}
    /\ mapOrphanBlocksByPrev = {}
    /\ setStakeSeen = {}
    /\ setStakeSeenOrphan = {}
    /\ vWorkQueue = <<>>
    /\ dropped = {}

-----------------------------------------------------------------------------
IsProofOfStake(b) == stake[b] # NULL

(***************************************************************************)
(* GetOrphanRoot and WantedByOrphan: the lowest block of the orphan chain  *)
(* b hangs on, and the parent it lacks.                                    *)
(***************************************************************************)
OrphanChain(b)    == {c \in Chain[b] : \A d \in Chain[b] :
                         nHeight[c] <= nHeight[d] /\ d # b => d \in mapOrphanBlocks}
GetOrphanRoot(b)  == CHOOSE c \in OrphanChain(b) :
                         \A d \in OrphanChain(b) : nHeight[c] <= nHeight[d]
WantedByOrphan(b) == pprev[GetOrphanRoot(b)]

HasOrphanChild(b) == \E o \in mapOrphanBlocksByPrev : pprev[o] = b

WantedByPendingSyncCheckpoint(b) ==
    \/ b = PendingCheckpoint
    \/ PendingCheckpoint \in mapOrphanBlocks /\ b = WantedByOrphan(PendingCheckpoint)

\* The exceptions to the rule that a proof of stake is used once.
DuplicityNever(b) == FALSE

DuplicityAllowed(b) == HasOrphanChild(b) \/ WantedByPendingSyncCheckpoint(b)

(***************************************************************************)
(* AcceptBlock: what it indexes, and its answer.  A block that is heavier  *)
(* than the best one and does not connect stays indexed, and the answer is *)
(* false.  SetBestChain answers for the blocks up to the first that is     *)
(* heavier than the best block; it postpones those above, and forgives     *)
(* them.                                                                   *)
(***************************************************************************)
Indexes(b) == b \notin mapBlockIndex /\ pprev[b] \in mapBlockIndex /\ b \in Accepts

BecomesBest(b) == nChainTrust[b] > nChainTrust[pindexBest]

Reorganized(b) ==
    {c \in Chain[b] \ Chain[pindexBest] : nChainTrust[pprev[c]] <= nChainTrust[pindexBest]}

AcceptBlock(b) == Indexes(b) /\ (BecomesBest(b) => Reorganized(b) \subseteq Connects)

DoAcceptBlock(b) ==
    /\ mapBlockIndex' = IF Indexes(b) THEN mapBlockIndex \cup {b} ELSE mapBlockIndex
    /\ pindexBest' = IF AcceptBlock(b) /\ BecomesBest(b) THEN b ELSE pindexBest
    /\ setStakeSeen' = IF Indexes(b) /\ IsProofOfStake(b)
                       THEN setStakeSeen \cup {stake[b]} ELSE setStakeSeen

(***************************************************************************)
(* ProcessBlock(b), for a block that passes CheckBlock and the checks of   *)
(* its proof.                                                              *)
(***************************************************************************)
IsNew(b) == b \notin mapBlockIndex /\ b \notin mapOrphanBlocks

RefusesStake(b) == IsProofOfStake(b) /\ stake[b] \in setStakeSeen /\ ~DuplicityAllowed(b)

RefusesNoOrphanStake(b) == FALSE

RefusesOrphanStake(b) ==
    IsProofOfStake(b) /\ stake[b] \in setStakeSeenOrphan /\ ~DuplicityAllowed(b)

StoreOrphan(b) ==
    /\ Idle
    /\ IsNew(b) /\ ~RefusesStake(b)
    /\ pprev[b] \notin mapBlockIndex
    /\ ~RefusesOrphanStake(b)
    /\ setStakeSeenOrphan' = IF IsProofOfStake(b)
                             THEN setStakeSeenOrphan \cup {stake[b]} ELSE setStakeSeenOrphan
    /\ mapOrphanBlocks' = mapOrphanBlocks \cup {b}
    /\ mapOrphanBlocksByPrev' = mapOrphanBlocksByPrev \cup {b}
    /\ UNCHANGED <<mapBlockIndex, pindexBest, setStakeSeen, vWorkQueue, dropped>>

\* The parent is there: AcceptBlock, and on success the work queue starts with b.
TakeBlock(b) ==
    /\ Idle
    /\ IsNew(b) /\ ~RefusesStake(b)
    /\ pprev[b] \in mapBlockIndex
    /\ DoAcceptBlock(b)
    /\ vWorkQueue' = IF AcceptBlock(b) THEN <<b>> ELSE <<>>
    /\ UNCHANGED <<orphans, dropped>>

\* The orphans of the head of the work queue that are still to be processed.
Waiting == {o \in mapOrphanBlocksByPrev \cap mapOrphanBlocks : pprev[o] = Head(vWorkQueue)}

QueueForgets(o) == vWorkQueue

\* An accepted orphan may be what other orphans wait for.
QueueAfter(o) == IF AcceptBlock(o) THEN Append(vWorkQueue, o) ELSE vWorkQueue

StakesAfter(o) == setStakeSeenOrphan \ {stake[o]}

ProcessOrphan(o) ==
    /\ ~Idle
    /\ o \in Waiting
    /\ DoAcceptBlock(o)
    /\ vWorkQueue' = QueueAfter(o)
    /\ mapOrphanBlocks' = mapOrphanBlocks \ {o}
    /\ setStakeSeenOrphan' = StakesAfter(o)
    /\ dropped' = IF Indexes(o) THEN dropped ELSE dropped \cup {o}
    /\ UNCHANGED mapOrphanBlocksByPrev

ByPrevForgets(p) == mapOrphanBlocksByPrev

\* mapOrphanBlocksByPrev.erase(hashPrev)
ByPrevAfter(p) == {o \in mapOrphanBlocksByPrev : pprev[o] # p}

NextInQueue ==
    /\ ~Idle
    /\ Waiting = {}
    /\ mapOrphanBlocksByPrev' = ByPrevAfter(Head(vWorkQueue))
    /\ vWorkQueue' = Tail(vWorkQueue)
    /\ UNCHANGED <<mapBlockIndex, pindexBest, mapOrphanBlocks, setStakeSeenOrphan,
                   setStakeSeen, dropped>>

ProcessBlock(b) == StoreOrphan(b) \/ TakeBlock(b)
QueueStep       == NextInQueue \/ \E o \in Blocks : ProcessOrphan(o)

Next ==
    \/ \E b \in Blocks \ {GenesisBlock} : ProcessBlock(b)
    \/ QueueStep

Spec == Init /\ [][Next]_vars

(***************************************************************************)
(* The loop of ProcessBlock always runs to its end.  Some peer has every   *)
(* block and sends it again and again, in answer to getblocks and getdata. *)
(***************************************************************************)
FairSpec ==
    /\ Spec
    /\ WF_vars(QueueStep)
    /\ \A b \in Blocks \ {GenesisBlock} : WF_vars(ProcessBlock(b))

-----------------------------------------------------------------------------
(***************************************************************************)
(* Between calls the two maps of orphans hold the same blocks, and every   *)
(* entry is a block that is not indexed: a dangling entry would be a       *)
(* pointer to a deleted CBlock (ProcessBlock).                             *)
(***************************************************************************)
OrphanMapsAgree ==
    Idle => /\ mapOrphanBlocksByPrev = mapOrphanBlocks
            /\ mapOrphanBlocks \cap mapBlockIndex = {}

(***************************************************************************)
(* A block whose parent is missing waits "until we get it": between calls  *)
(* an orphan's parent is not indexed, unless the orphan is of no use: its  *)
(* parent was refused as best block, and the orphans of a refused block    *)
(* are left where they are.  A chain that connects leaves none behind.     *)
(***************************************************************************)
NoStrandedOrphan ==
    Idle => \A o \in mapOrphanBlocks :
               pprev[o] \in mapBlockIndex => ~(Chain[pprev[o]] \subseteq Connects)

(***************************************************************************)
(* "Duplicate stake allowed only when there is orphan child block": no two *)
(* orphans have the same proof of stake unless the second was waited for   *)
(* when it came.  The code forgets the stake of an orphan that it holds    *)
(* when it processes another with this stake; then the stakes of accepted  *)
(* blocks still keep the second out, but not if that other was dropped.    *)
(***************************************************************************)
OrphanStakeLimited ==
    [][ \A b \in mapOrphanBlocks' \ mapOrphanBlocks :
           (\E o \in mapOrphanBlocks : IsProofOfStake(b) /\ stake[o] = stake[b])
               => DuplicityAllowed(b) \/ \E c \in dropped : stake[c] = stake[b] ]_vars

(***************************************************************************)
(* The rule on duplicate stakes cuts nobody off: if peers keep sending     *)
(* their blocks, every chain of acceptable blocks that ends in a block     *)
(* with a stake of its own is indexed in the end, whatever order the       *)
(* blocks come in and although some were refused when they came first.     *)
(***************************************************************************)
OwnStake(b) == ~ \E c \in Blocks \ {b} : IsProofOfStake(b) /\ stake[c] = stake[b]

EveryChainIndexed ==
    \A b \in Blocks : OwnStake(b) /\ Chain[b] \subseteq Accepts \cap Connects
                          => <>(b \in mapBlockIndex)

=============================================================================
