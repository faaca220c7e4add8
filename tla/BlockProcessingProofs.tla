----------------------- MODULE BlockProcessingProofs -----------------------
(***************************************************************************)
(* For every tree of blocks and every order of arrival: the two maps of    *)
(* orphans agree between calls of ProcessBlock; no orphan is left behind   *)
(* when its parent's chain connects; the best chain is the heaviest that   *)
(* connects; and orphans with the same stake are limited.                  *)
(***************************************************************************)
EXTENDS BlockProcessing, BlockTreeProofs, TLAPS

\* The blocks whose orphans are still to be looked at.
InQueue(p) == \E i \in 1..Len(vWorkQueue) : vWorkQueue[i] = p

\* An entry of mapOrphanBlocksByPrev outlives its block only while its parent is at the head.
MapsInv ==
    /\ vWorkQueue \in Seq(Blocks)
    /\ mapOrphanBlocks \subseteq Blocks
    /\ mapOrphanBlocks \subseteq mapOrphanBlocksByPrev
    /\ \A o \in mapOrphanBlocksByPrev \ mapOrphanBlocks : ~Idle /\ pprev[o] = Head(vWorkQueue)
    /\ mapOrphanBlocks \cap mapBlockIndex = {}

\* An orphan whose parent is indexed is about to be processed, or its parent was refused.
QueuedInv ==
    \A o \in mapOrphanBlocks : pprev[o] \in mapBlockIndex =>
        InQueue(pprev[o]) \/ ~(Chain[pprev[o]] \subseteq Connects)

(***************************************************************************)
(* Appending to and removing from the work queue.                          *)
(***************************************************************************)
LEMMA QueueFacts ==
    ASSUME NEW q \in Seq(Blocks), q # <<>>, NEW b \in Blocks
    PROVE  /\ Append(q, b) \in Seq(Blocks) /\ Append(q, b) # <<>>
           /\ Head(Append(q, b)) = Head(q)
           /\ Tail(q) \in Seq(Blocks)
           /\ Head(q) = q[1] /\ Len(q) \in Nat \ {0}
  OBVIOUS

(***************************************************************************)
(* ProcessBlock keeps the two maps of orphans consistent.                  *)
(***************************************************************************)
LEMMA MapsInvNext == ASSUME MapsInv, [Next]_vars PROVE MapsInv'
  <1> USE DEF MapsInv, Idle
  <1>1. ASSUME NEW b \in Blocks, StoreOrphan(b) PROVE MapsInv'
    BY <1>1 DEF StoreOrphan, IsNew
  <1>2. ASSUME NEW b \in Blocks, TakeBlock(b) PROVE MapsInv'
    <2>1. vWorkQueue' \in Seq(Blocks) /\ UNCHANGED <<mapOrphanBlocks, mapOrphanBlocksByPrev>>
      BY <1>2 DEF TakeBlock, orphans
    <2>2. mapBlockIndex' \subseteq mapBlockIndex \cup {b} /\ b \notin mapOrphanBlocks
      BY <1>2 DEF TakeBlock, DoAcceptBlock, IsNew
    <2>3. mapOrphanBlocksByPrev \ mapOrphanBlocks = {}
      BY <1>2 DEF TakeBlock
    <2> QED BY <2>1, <2>2, <2>3
  <1>3. ASSUME NEW o \in Blocks, ProcessOrphan(o) PROVE MapsInv'
    <2>1. vWorkQueue # <<>> /\ o \in mapOrphanBlocks /\ pprev[o] = Head(vWorkQueue)
      BY <1>3 DEF ProcessOrphan, Waiting
    <2>2. vWorkQueue' \in Seq(Blocks) /\ vWorkQueue' # <<>> /\ Head(vWorkQueue') = Head(vWorkQueue)
      BY <1>3, <2>1, QueueFacts DEF ProcessOrphan, QueueAfter
    <2>3. mapBlockIndex' \subseteq mapBlockIndex \cup {o}
      BY <1>3 DEF ProcessOrphan, DoAcceptBlock
    <2> QED BY <1>3, <2>1, <2>2, <2>3 DEF ProcessOrphan
  <1>4. CASE NextInQueue
    <2>1. vWorkQueue' \in Seq(Blocks)
      BY <1>4, QueueFacts DEF NextInQueue
    <2>2. \A o \in mapOrphanBlocks : pprev[o] # Head(vWorkQueue)
      BY <1>4 DEF NextInQueue, Waiting
    <2> QED BY <1>4, <2>1, <2>2 DEF NextInQueue, ByPrevAfter
  <1>5. CASE UNCHANGED vars
    BY <1>5 DEF vars, orphans
  <1> QED
    BY <1>1, <1>2, <1>3, <1>4, <1>5 DEF Next, ProcessBlock, QueueStep

(***************************************************************************)
(* A block that is indexed and whose chain connects joins the queue: what  *)
(* SetBestChain connects at once is on that chain.                         *)
(***************************************************************************)
LEMMA QueuedInvNext ==
    ASSUME MapsInv, QueuedInv, [Next]_vars
    PROVE  QueuedInv'
  <1> USE DEF QueuedInv, Idle
  <1>0. \A b \in Blocks : Indexes(b) /\ Chain[b] \subseteq Connects => AcceptBlock(b)
    BY DEF AcceptBlock, Reorganized
  <1>1. ASSUME NEW b \in Blocks, StoreOrphan(b) PROVE QueuedInv'
    BY <1>1 DEF StoreOrphan, InQueue
  <1>2. ASSUME NEW b \in Blocks, TakeBlock(b) PROVE QueuedInv'
    <2>1. \A o \in mapOrphanBlocks :
              pprev[o] \in mapBlockIndex => ~(Chain[pprev[o]] \subseteq Connects)
      BY <1>2 DEF TakeBlock, InQueue
    <2>2. mapBlockIndex' \subseteq mapBlockIndex \cup {b} /\ mapOrphanBlocks' = mapOrphanBlocks
      BY <1>2 DEF TakeBlock, DoAcceptBlock, orphans
    <2>3. CASE AcceptBlock(b)
      <3>1. vWorkQueue' = <<b>>
        BY <1>2, <2>3 DEF TakeBlock
      <3>2. InQueue(b)'
        BY <3>1 DEF InQueue
      <3> QED BY <2>1, <2>2, <3>2
    <2>4. CASE ~Indexes(b)
      BY <1>2, <2>1, <2>2, <2>4 DEF TakeBlock, DoAcceptBlock
    <2>5. CASE Indexes(b) /\ ~AcceptBlock(b)
      BY <1>0, <2>1, <2>2, <2>5
    <2> QED BY <2>3, <2>4, <2>5
  <1>3. ASSUME NEW o \in Blocks, ProcessOrphan(o) PROVE QueuedInv'
    <2>1. vWorkQueue \in Seq(Blocks) /\ mapOrphanBlocks' = mapOrphanBlocks \ {o}
          /\ mapBlockIndex' \subseteq mapBlockIndex \cup {o}
      BY <1>3 DEF ProcessOrphan, MapsInv, DoAcceptBlock
    <2>2. \A x \in mapOrphanBlocks : InQueue(pprev[x]) => InQueue(pprev[x])'
      <3>1. vWorkQueue' = Append(vWorkQueue, o) \/ vWorkQueue' = vWorkQueue
        BY <1>3 DEF ProcessOrphan, QueueAfter
      <3> QED BY <2>1, <3>1 DEF InQueue
    <2>3. CASE AcceptBlock(o)
      <3>1. vWorkQueue' = Append(vWorkQueue, o)
        BY <1>3, <2>3 DEF ProcessOrphan, QueueAfter
      <3>2. InQueue(o)'
        BY <2>1, <3>1 DEF InQueue
      <3> QED BY <2>1, <2>2, <3>2
    <2>4. CASE ~Indexes(o)
      BY <1>3, <2>1, <2>2, <2>4 DEF ProcessOrphan, DoAcceptBlock
    <2>5. CASE Indexes(o) /\ ~AcceptBlock(o)
      BY <1>0, <2>1, <2>2, <2>5
    <2> QED BY <2>3, <2>4, <2>5
  <1>4. CASE NextInQueue
    <2>1. vWorkQueue \in Seq(Blocks) /\ vWorkQueue # <<>> /\ vWorkQueue' = Tail(vWorkQueue)
          /\ UNCHANGED <<mapOrphanBlocks, mapBlockIndex>>
      BY <1>4 DEF NextInQueue, MapsInv
    <2>2. \A o \in mapOrphanBlocks : pprev[o] # Head(vWorkQueue)
      BY <1>4 DEF NextInQueue, Waiting, MapsInv
    <2>3. ASSUME NEW p, InQueue(p), p # Head(vWorkQueue) PROVE InQueue(p)'
      <3>1. PICK i \in 1..Len(vWorkQueue) : vWorkQueue[i] = p
        BY <2>3 DEF InQueue
      <3>2. i # 1 /\ i - 1 \in 1..Len(Tail(vWorkQueue)) /\ Tail(vWorkQueue)[i - 1] = p
        BY <2>1, <2>3, <3>1
      <3> QED BY <2>1, <3>2 DEF InQueue
    <2> QED BY <2>1, <2>2, <2>3
  <1>5. CASE UNCHANGED vars
    BY <1>5 DEF vars, orphans, InQueue
  <1> QED
    BY <1>1, <1>2, <1>3, <1>4, <1>5 DEF Next, ProcessBlock, QueueStep

(***************************************************************************)
(* The maps of orphans agree between calls of ProcessBlock: no entry of    *)
(* mapOrphanBlocksByPrev points to a block that was deleted.               *)
(***************************************************************************)
THEOREM OrphanMapsAlwaysAgree == Spec => []OrphanMapsAgree
  <1>1. Init => MapsInv
    BY DEF Init, MapsInv
  <1>2. MapsInv /\ [Next]_vars => MapsInv'
    BY MapsInvNext
  <1>3. MapsInv => OrphanMapsAgree
    BY DEF MapsInv, OrphanMapsAgree
  <1> QED BY <1>1, <1>2, <1>3, PTL DEF Spec

(***************************************************************************)
(* No orphan stays once its parent is indexed on a chain that connects,    *)
(* whatever the tree and the order of arrival, and however many blocks are *)
(* refused (ProcessBlock's work queue).                                    *)
(***************************************************************************)
THEOREM NoOrphanLeftBehind == Spec => []NoStrandedOrphan
  <1>1. Init => MapsInv /\ QueuedInv
    BY DEF Init, MapsInv, QueuedInv
  <1>2. MapsInv /\ QueuedInv /\ [Next]_vars => (MapsInv /\ QueuedInv)'
    BY MapsInvNext, QueuedInvNext
  <1>3. MapsInv /\ QueuedInv => NoStrandedOrphan
    BY DEF QueuedInv, InQueue, NoStrandedOrphan, Idle
  <1> QED BY <1>1, <1>2, <1>3, PTL DEF Spec

-----------------------------------------------------------------------------
(***************************************************************************)
(* The best chain connects, and no chain that does is heavier.             *)
(***************************************************************************)
HeaviestInv ==
    /\ mapBlockIndex \subseteq Blocks /\ ClosedUnderPrev(mapBlockIndex)
    /\ pindexBest \in mapBlockIndex
    /\ Chain[pindexBest] \subseteq Connects
    /\ \A y \in mapBlockIndex :
          nChainTrust[y] > nChainTrust[pindexBest] => ~(Chain[y] \subseteq Connects)

(***************************************************************************)
(* SetBestChain never accepts a block while one it postponed is refused:   *)
(* the lowest block that does not connect would have a parent heavier than *)
(* the best block on a chain that connects.                                *)
(***************************************************************************)
LEMMA PostponedConnect ==
    ASSUME HeaviestInv, NEW b \in Blocks, Indexes(b), Reorganized(b) \subseteq Connects
    PROVE  Chain[b] \subseteq Connects
  <1> SUFFICES ASSUME ~(Chain[b] \subseteq Connects) PROVE FALSE
    OBVIOUS
  <1> DEFINE S == {x \in Chain[b] : ~(Chain[x] \subseteq Connects)}
  <1>1. Chain[b] \subseteq Blocks /\ b \in Chain[b] /\ ClosedUnderPrev(Chain[b])
    BY ChainClosed
  <1>2. S \in SUBSET Blocks /\ b \in S
    BY <1>1
  <1>3. PICK y \in S : pprev[y] \notin S
    <2> HIDE DEF S
    <2> QED BY <1>2, LowestExists
  <1>4. y \in Chain[b] /\ y \in Blocks /\ ~(Chain[y] \subseteq Connects)
    BY <1>1, <1>3
  <1>5. y # GenesisBlock
    BY <1>4, ChainGenesis, ProcessingAssumption
  <1>6. pprev[y] \in Chain[b] /\ pprev[y] \in Blocks /\ Chain[pprev[y]] \subseteq Connects
    BY <1>1, <1>3, <1>4, <1>5 DEF ClosedUnderPrev
  <1>7. y \notin Connects
    BY <1>4, <1>5, <1>6, ChainStep
  <1>8. y \notin Reorganized(b) /\ y \notin Chain[pindexBest]
    BY <1>7 DEF HeaviestInv
  <1>9. nChainTrust[pprev[y]] > nChainTrust[pindexBest]
    <2>1. ~(nChainTrust[pprev[y]] <= nChainTrust[pindexBest])
      BY <1>4, <1>8 DEF Reorganized
    <2>2. nChainTrust[pprev[y]] \in Nat /\ nChainTrust[pindexBest] \in Nat
      BY <1>6, TreeAssumption DEF HeaviestInv
    <2> QED BY <2>1, <2>2
  <1>10. pprev[y] \in mapBlockIndex
    <2>1. b # GenesisBlock
      <3>1. pindexBest \in Blocks /\ Chain[pindexBest] \subseteq mapBlockIndex
        BY ChainLeast DEF HeaviestInv
      <3> QED BY <3>1, GenesisOnChain DEF Indexes
    <2>2. Chain[pprev[b]] \subseteq mapBlockIndex
      BY ChainLeast DEF HeaviestInv, Indexes
    <2>3. Chain[b] = Chain[pprev[b]] \cup {b}
      BY <2>1, ChainStep
    <2>4. pprev[y] # b
      <3>1. y # b => nHeight[y] < nHeight[b]
        BY <1>4, ChainBelow
      <3>2. nHeight[y] = nHeight[pprev[y]] + 1
        BY <1>4, <1>5, TreeAssumption
      <3>3. nHeight[y] \in Nat /\ nHeight[b] \in Nat
        BY <1>4, TreeAssumption
      <3> QED BY <3>1, <3>2, <3>3
    <2> QED BY <1>6, <2>2, <2>3, <2>4
  <1> QED BY <1>6, <1>9, <1>10 DEF HeaviestInv

\* AcceptBlock keeps the invariant, whatever its answer.
LEMMA HeaviestInvAccept ==
    ASSUME HeaviestInv, NEW b \in Blocks, DoAcceptBlock(b)
    PROVE  HeaviestInv'
  <1> USE DEF HeaviestInv
  <1>1. CASE ~Indexes(b)
    <2>1. mapBlockIndex' = mapBlockIndex /\ pindexBest' = pindexBest
      BY <1>1 DEF DoAcceptBlock, AcceptBlock
    <2> QED BY <2>1
  <1>2. CASE Indexes(b)
    <2>1. mapBlockIndex' = mapBlockIndex \cup {b} /\ pprev[b] \in mapBlockIndex
      BY <1>2 DEF DoAcceptBlock, Indexes
    <2>2. mapBlockIndex' \subseteq Blocks /\ ClosedUnderPrev(mapBlockIndex')
      BY <2>1 DEF ClosedUnderPrev
    <2>3. \A y \in mapBlockIndex' : nChainTrust[y] \in Nat
      BY <2>2, TreeAssumption
    <2>4. CASE AcceptBlock(b) /\ BecomesBest(b)
      <3>1. pindexBest' = b /\ nChainTrust[b] > nChainTrust[pindexBest]
        BY <2>4 DEF DoAcceptBlock, BecomesBest
      <3>2. Chain[b] \subseteq Connects
        BY <1>2, <2>4, PostponedConnect DEF AcceptBlock
      <3>3. \A y \in mapBlockIndex' : nChainTrust[y] > nChainTrust[b] =>
                y # b /\ nChainTrust[y] > nChainTrust[pindexBest]
        BY <2>1, <2>3, <3>1
      <3> QED BY <2>1, <2>2, <3>1, <3>2, <3>3
    <2>5. CASE ~(AcceptBlock(b) /\ BecomesBest(b))
      <3>1. pindexBest' = pindexBest
        BY <2>5 DEF DoAcceptBlock
      <3>2. nChainTrust[b] > nChainTrust[pindexBest] => ~(Chain[b] \subseteq Connects)
        BY <1>2, <2>5 DEF AcceptBlock, BecomesBest, Reorganized
      <3> QED BY <2>1, <2>2, <3>1, <3>2
    <2> QED BY <2>4, <2>5
  <1> QED BY <1>1, <1>2

LEMMA HeaviestInvNext == ASSUME HeaviestInv, [Next]_vars PROVE HeaviestInv'
  <1>1. ASSUME NEW b \in Blocks, StoreOrphan(b) PROVE HeaviestInv'
    BY <1>1 DEF StoreOrphan, HeaviestInv
  <1>2. ASSUME NEW b \in Blocks, TakeBlock(b) PROVE HeaviestInv'
    BY <1>2, HeaviestInvAccept DEF TakeBlock
  <1>3. ASSUME NEW o \in Blocks, ProcessOrphan(o) PROVE HeaviestInv'
    BY <1>3, HeaviestInvAccept DEF ProcessOrphan
  <1>4. CASE NextInQueue
    BY <1>4 DEF NextInQueue, HeaviestInv
  <1>5. CASE UNCHANGED vars
    BY <1>5 DEF vars, HeaviestInv
  <1> QED
    BY <1>1, <1>2, <1>3, <1>4, <1>5 DEF Next, ProcessBlock, QueueStep

(***************************************************************************)
(* However the blocks arrive, pindexBest is the tip of the heaviest        *)
(* indexed chain that connects: a chain longer than SetBestChain checks    *)
(* before it answers does not get past it (AcceptBlock, ProcessBlock).     *)
(***************************************************************************)
THEOREM BestIsHeaviest == Spec => []HeaviestInv
  <1>1. Init => HeaviestInv
    BY TreeAssumption, ProcessingAssumption, ChainGenesis DEF Init, HeaviestInv, ClosedUnderPrev
  <1>2. HeaviestInv /\ [Next]_vars => HeaviestInv'
    BY HeaviestInvNext
  <1> QED BY <1>1, <1>2, PTL DEF Spec

-----------------------------------------------------------------------------
\* The stake of an orphan is remembered, unless an orphan with this stake was dropped.
StakeInv ==
    \A o \in mapOrphanBlocks : IsProofOfStake(o) =>
        \/ stake[o] \in setStakeSeenOrphan \cup setStakeSeen
        \/ \E c \in dropped : stake[c] = stake[o]

(***************************************************************************)
(* An orphan that is processed leaves setStakeSeenOrphan, and its stake    *)
(* goes to setStakeSeen when the block is indexed.                         *)
(***************************************************************************)
LEMMA StakeInvNext == ASSUME StakeInv, [Next]_vars PROVE StakeInv'
  <1> USE DEF StakeInv, IsProofOfStake
  <1>1. ASSUME NEW b \in Blocks, StoreOrphan(b) PROVE StakeInv'
    BY <1>1 DEF StoreOrphan
  <1>2. ASSUME NEW b \in Blocks, TakeBlock(b) PROVE StakeInv'
    BY <1>2 DEF TakeBlock, DoAcceptBlock, orphans
  <1>3. ASSUME NEW o \in Blocks, ProcessOrphan(o) PROVE StakeInv'
    <2>1. /\ setStakeSeenOrphan' = setStakeSeenOrphan \ {stake[o]}
          /\ setStakeSeen \subseteq setStakeSeen' /\ dropped \subseteq dropped'
          /\ mapOrphanBlocks' \subseteq mapOrphanBlocks
      BY <1>3 DEF ProcessOrphan, StakesAfter, DoAcceptBlock
    <2>2. stake[o] # NULL => stake[o] \in setStakeSeen' \/ o \in dropped'
      BY <1>3 DEF ProcessOrphan, DoAcceptBlock
    <2>3. SUFFICES ASSUME NEW x \in mapOrphanBlocks, stake[x] # NULL
                   PROVE  \/ stake[x] \in setStakeSeenOrphan' \cup setStakeSeen'
                          \/ \E c \in dropped' : stake[c] = stake[x]
      BY <2>1
    <2>4. CASE stake[x] = stake[o]
      BY <2>2, <2>3, <2>4
    <2>5. CASE stake[x] # stake[o]
      BY <2>1, <2>3, <2>5
    <2> QED BY <2>4, <2>5
  <1>4. CASE NextInQueue
    BY <1>4 DEF NextInQueue
  <1>5. CASE UNCHANGED vars
    BY <1>5 DEF vars, orphans
  <1> QED
    BY <1>1, <1>2, <1>3, <1>4, <1>5 DEF Next, ProcessBlock, QueueStep

(***************************************************************************)
(* ProcessBlock stores a second orphan with the stake of one that it holds *)
(* only when something waits for it, or when an orphan with this stake was *)
(* dropped and its stake forgotten: for every tree and order of arrival.   *)
(***************************************************************************)
THEOREM OrphanStakeAlwaysLimited == Spec => OrphanStakeLimited
  <1>1. Init => StakeInv
    BY DEF Init, StakeInv
  <1>2. StakeInv /\ [Next]_vars => StakeInv'
    BY StakeInvNext
  <1>3. ASSUME StakeInv, [Next]_vars
        PROVE  [\A b \in mapOrphanBlocks' \ mapOrphanBlocks :
                   (\E o \in mapOrphanBlocks : IsProofOfStake(b) /\ stake[o] = stake[b])
                       => DuplicityAllowed(b) \/ \E c \in dropped : stake[c] = stake[b]]_vars
    <2>1. SUFFICES ASSUME NEW b \in mapOrphanBlocks', b \notin mapOrphanBlocks,
                          NEW o \in mapOrphanBlocks, IsProofOfStake(b), stake[o] = stake[b],
                          ~DuplicityAllowed(b)
                   PROVE  \E c \in dropped : stake[c] = stake[b]
      OBVIOUS
    <2>2. StoreOrphan(b)
      BY <1>3, <2>1 DEF Next, ProcessBlock, QueueStep, StoreOrphan, TakeBlock, ProcessOrphan,
                        NextInQueue, vars, orphans
    <2>3. stake[b] \notin setStakeSeen \cup setStakeSeenOrphan
      BY <2>1, <2>2 DEF StoreOrphan, RefusesStake, RefusesOrphanStake
    <2> QED BY <1>3, <2>1, <2>3 DEF StakeInv, IsProofOfStake
  <1> QED BY <1>1, <1>2, <1>3, PTL DEF Spec, OrphanStakeLimited

=============================================================================
