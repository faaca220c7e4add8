-------------------------- MODULE BestChainProofs --------------------------
(***************************************************************************)
(* Proofs about BestChain, for every block tree, every set of blocks that  *)
(* connect, every order of messages and any number of restarts.            *)
(***************************************************************************)
EXTENDS BestChain, BlockTreeProofs

\* A pnext map stays a map from blocks to blocks or NULL when it is relinked.
LEMMA RelinkType ==
    ASSUME TypeOK, NEW D \in SUBSET Blocks, NEW C \in SUBSET Blocks
    PROVE  /\ RelinkMemory(D, C) \in [Blocks -> BlockOrNull]
           /\ RelinkDisk(D, C) \in [Blocks -> BlockOrNull]
<1>1. ASSUME NEW b \in Blocks, HasChildIn(C, b)
      PROVE  ChildIn(C, b) \in Blocks
  BY <1>1 DEF HasChildIn, ChildIn
<1>2. QED
  BY <1>1 DEF RelinkMemory, RelinkDisk, TypeOK, BlockOrNull

(***************************************************************************)
(* The variables of the node keep their types: in particular the best      *)
(* block and the checkpoint are always blocks, never null.                 *)
(***************************************************************************)
THEOREM TypeCorrect == Spec => []TypeOK
<1>1. Init => TypeOK
  BY TreeAssumption, ParameterAssumption
     DEF Init, TypeOK, BlockOrNull, PCs, Callers
<1>2. TypeOK /\ [Next]_vars => TypeOK'
  <2> SUFFICES ASSUME TypeOK, [Next]_vars PROVE TypeOK'
    OBVIOUS
  <2> USE DEF BlockOrNull, PCs, Callers
  <2>1. ASSUME NEW b \in Blocks, AcceptBlock(b) PROVE TypeOK'
    BY <2>1 DEF AcceptBlock, TypeOK, checkpts
  <2>2. ASSUME NEW c \in MasterCheckpoints, ProcessSyncCheckpoint(c) PROVE TypeOK'
    BY <2>2, ParameterAssumption
       DEF ProcessSyncCheckpoint, KeepAsPending, IgnoreCheckpoint, AcceptCheckpoint,
           RememberConflict, EnforceCheckpoint, TypeOK, memory, checkpts, disk, handler
  <2>3. CASE ExtendBest
    <3>1. {pindexNew} \in SUBSET Blocks
      BY DEF TypeOK
    <3>2. pnext' \in [Blocks -> BlockOrNull] /\ dbNext' \in [Blocks -> BlockOrNull]
      BY <2>3, <3>1, RelinkType DEF ExtendBest
    <3>3. pc' \in PCs /\ caller' \in Callers
      BY <2>3 DEF ExtendBest, ReturnTrue, TypeOK
    <3>4. UNCHANGED <<mapBlockIndex, hashSyncCheckpoint, hashPendingCheckpoint, dbIndex,
                      dbSyncCheckpoint, nBestInvalidTrust, pindexNew, vpindexSecondary, nCrashes>>
      BY <2>3 DEF ExtendBest
    <3>5. pindexBest' = pindexNew /\ dbBest' = pindexNew
      BY <2>3 DEF ExtendBest
    <3>6. QED
      BY <2>3, <3>2, <3>3, <3>4, <3>5 DEF ReturnTrue, ExtendBest, TypeOK
  <2>4. CASE ExtendBestFails
    BY <2>4, TreeAssumption
       DEF ExtendBestFails, InvalidChainFound, ReturnFalse, TypeOK, memory, disk
  <2>5. CASE Reorganize
    <3>1. PICK x \in Chain[pindexNew] :
              /\ dbNext' = RelinkDisk(vDisconnect(x), vConnect(x))
              /\ dbBest' = x
              /\ pnext' = RelinkMemory(vDisconnect(x), vConnect(x))
              /\ vpindexSecondary' = Chain[pindexNew] \ Chain[x]
      BY <2>5 DEF Reorganize
    <3>2. /\ x \in Blocks /\ Chain[pindexNew] \subseteq Blocks
          /\ vDisconnect(x) \in SUBSET Blocks /\ vConnect(x) \in SUBSET Blocks
      BY ChainClosed DEF TypeOK, vDisconnect, vConnect
    <3>3. pnext' \in [Blocks -> BlockOrNull] /\ dbNext' \in [Blocks -> BlockOrNull]
      BY <3>1, <3>2, RelinkType
    <3>4. QED
      BY <2>5, <3>1, <3>2, <3>3 DEF Reorganize, TypeOK, checkpts
  <2>6. CASE ReorganizeFails
    BY <2>6, TreeAssumption
       DEF ReorganizeFails, InvalidChainFound, ReturnFalse, TypeOK, memory, disk
  <2>7. CASE ConnectSecondary
    <3>1. PICK y \in vpindexSecondary :
              /\ dbNext' = RelinkDisk({}, {y})
              /\ dbBest' = y
              /\ pnext' = RelinkMemory({}, {y})
              /\ vpindexSecondary' = vpindexSecondary \ {y}
      BY <2>7 DEF ConnectSecondary
    <3>2. y \in Blocks
      BY DEF TypeOK
    <3>3. pnext' \in [Blocks -> BlockOrNull] /\ dbNext' \in [Blocks -> BlockOrNull]
      BY <3>1, <3>2, RelinkType
    <3>4. QED
      BY <2>7, <3>1, <3>2, <3>3 DEF ConnectSecondary, TypeOK, checkpts
  <2>8. CASE BreakSecondary
    <3>1. PICK y \in vpindexSecondary : InvalidChainFound(y) \/ UNCHANGED nBestInvalidTrust
      BY <2>8 DEF BreakSecondary
    <3>2. nBestInvalidTrust' \in Nat
      BY <3>1, TreeAssumption DEF InvalidChainFound, TypeOK
    <3>3. QED
      BY <2>8, <3>2 DEF BreakSecondary, TypeOK, memory, checkpts, disk
  <2>9. CASE NewBest
    BY <2>9 DEF NewBest, ReturnTrue, TypeOK, disk
  <2>10. CASE NoPending \/ RejectPending \/ AcceptPending
    BY <2>10 DEF NoPending, RejectPending, AcceptPending, PendingArrived, RememberConflict,
                 EnforceCheckpoint, TypeOK, memory, checkpts, disk
  <2>11. CASE WriteSyncCheckpoint
    BY <2>11 DEF WriteSyncCheckpoint, TypeOK, memory
  <2>12. ASSUME LoadBlockIndex
         PROVE  /\ mapBlockIndex' \subseteq Blocks
                /\ pnext' \in [Blocks -> BlockOrNull]
                /\ nCrashes' \in 0..MaxCrashes
    BY <2>12, TreeAssumption, ParameterAssumption
       DEF LoadBlockIndex, LoadedIndex, LoadedNext, TypeOK
  <2>13. CASE Restart
    BY <2>12, <2>13 DEF Restart, LoadBlockIndex, TypeOK, disk
  <2>14. CASE RestartDamaged
    <3>1. pindexNew' \in Blocks
      BY <2>14, ChainClosed, TreeAssumption DEF RestartDamaged, TypeOK
    <3>2. QED
      BY <2>12, <2>14, <3>1 DEF RestartDamaged, LoadBlockIndex, TypeOK, disk
  <2>15. CASE UNCHANGED vars
    BY <2>15 DEF vars, TypeOK, memory, checkpts, disk, handler
  <2>16. QED
    BY <2>1, <2>2, <2>3, <2>4, <2>5, <2>6, <2>7, <2>8, <2>9, <2>10, <2>11, <2>13, <2>14, <2>15
       DEF Next, HandlerStep
<1>3. QED
  BY <1>1, <1>2, PTL DEF Spec

-----------------------------------------------------------------------------
(***************************************************************************)
(* The index and the checkpoint.  What memory holds of the block index is  *)
(* what the database holds, closed under pprev, and every pointer stays    *)
(* within it.  While SetBestChain runs for a checkpoint, and until         *)
(* WriteSyncCheckpoint commits, the checkpoint being enforced descends     *)
(* from the current one.                                                   *)
(***************************************************************************)
IndexInv ==
    /\ mapBlockIndex = dbIndex
    /\ ClosedUnderPrev(dbIndex)
    /\ \A b \in dbIndex : pnext[b] \in dbIndex \cup {NULL} /\ dbNext[b] \in dbIndex \cup {NULL}
    /\ \A b \in Blocks \ dbIndex : pnext[b] = NULL /\ dbNext[b] = NULL
    /\ dbBest \in dbIndex
    /\ pindexNew \in dbIndex

EnforcingCheckpoint ==
    pc = "write" \/ (pc \in {"set", "secondary"} /\ caller \in {"pending", "process"})

SyncInv ==
    /\ dbSyncCheckpoint = hashSyncCheckpoint
    /\ hashSyncCheckpoint \in dbIndex
    /\ EnforcingCheckpoint => hashSyncCheckpoint \in Chain[pindexNew]

CheckpointInv == TypeOK /\ IndexInv /\ SyncInv /\ vpindexSecondary \subseteq dbIndex

\* The chain of an indexed block is indexed.
LEMMA ChainIndexed ==
    ASSUME TypeOK, IndexInv, NEW b \in dbIndex
    PROVE  Chain[b] \subseteq dbIndex
  BY ChainLeast DEF TypeOK, IndexInv

\* Relinking with indexed blocks keeps the pointers within the index.
LEMMA RelinkIndexed ==
    ASSUME TypeOK, IndexInv, NEW D, NEW C \in SUBSET dbIndex
    PROVE  /\ \A b \in dbIndex : /\ RelinkMemory(D, C)[b] \in dbIndex \cup {NULL}
                                 /\ RelinkDisk(D, C)[b] \in dbIndex \cup {NULL}
           /\ \A b \in Blocks \ dbIndex : /\ RelinkMemory(D, C)[b] = NULL
                                          /\ RelinkDisk(D, C)[b] = NULL
<1>1. ASSUME NEW b \in Blocks, HasChildIn(C, b)
      PROVE  ChildIn(C, b) \in C /\ pprev[ChildIn(C, b)] = b
  BY <1>1 DEF HasChildIn, ChildIn
<1>2. ASSUME NEW b \in Blocks, HasChildIn(C, b)
      PROVE  ChildIn(C, b) \in dbIndex /\ b \in dbIndex
  BY <1>1, <1>2, TreeAssumption DEF IndexInv, ClosedUnderPrev, TypeOK
<1>3. QED
  BY <1>2 DEF RelinkMemory, RelinkDisk, IndexInv, TypeOK

\* The initial states satisfy the invariant.
LEMMA CheckpointInvInit == Init => CheckpointInv
<1> SUFFICES ASSUME Init PROVE CheckpointInv
  OBVIOUS
<1>1. TypeOK
  BY TreeAssumption, ParameterAssumption DEF Init, TypeOK, BlockOrNull, PCs, Callers
<1>2. IndexInv
  BY TreeAssumption DEF Init, IndexInv, ClosedUnderPrev
<1>3. SyncInv
  BY DEF Init, SyncInv, EnforcingCheckpoint
<1>4. QED
  BY <1>1, <1>2, <1>3 DEF Init, CheckpointInv

\* Every step keeps the invariant.
LEMMA CheckpointInvStep == CheckpointInv /\ TypeOK' /\ [Next]_vars => CheckpointInv'
<1> SUFFICES ASSUME CheckpointInv, TypeOK', [Next]_vars PROVE CheckpointInv'
  OBVIOUS
<1> USE DEF CheckpointInv
<1>1. ASSUME NEW b \in Blocks, AcceptBlock(b) PROVE CheckpointInv'
  <2>1. IndexInv'
    BY <1>1, TreeAssumption DEF AcceptBlock, IndexInv, ClosedUnderPrev, TypeOK
  <2>2. SyncInv'
    BY <1>1 DEF AcceptBlock, SyncInv, EnforcingCheckpoint, checkpts
  <2>3. QED
    BY <1>1, <2>1, <2>2 DEF AcceptBlock
<1>2. ASSUME NEW c \in MasterCheckpoints, ProcessSyncCheckpoint(c) PROVE CheckpointInv'
  <2>1. IndexInv'
    BY <1>2 DEF ProcessSyncCheckpoint, KeepAsPending, IgnoreCheckpoint, AcceptCheckpoint,
                EnforceCheckpoint, IndexInv, memory, disk, handler
  <2>2. SyncInv'
    BY <1>2 DEF ProcessSyncCheckpoint, KeepAsPending, IgnoreCheckpoint, AcceptCheckpoint,
                EnforceCheckpoint, ValidateSyncCheckpoint, SyncInv, EnforcingCheckpoint,
                checkpts, disk, handler
  <2>3. QED
    BY <1>2, <2>1, <2>2 DEF ProcessSyncCheckpoint, KeepAsPending, IgnoreCheckpoint,
                            AcceptCheckpoint, disk, handler
<1>3. CASE ExtendBest
  <2>1. {pindexNew} \in SUBSET dbIndex
    BY DEF IndexInv
  <2>2. IndexInv'
    BY <1>3, <2>1, RelinkIndexed DEF ExtendBest, IndexInv
  <2>3. SyncInv'
    BY <1>3 DEF ExtendBest, ReturnTrue, SyncInv, EnforcingCheckpoint, TypeOK, Callers
  <2>4. QED
    BY <1>3, <2>2, <2>3 DEF ExtendBest
<1>4. CASE ExtendBestFails \/ ReorganizeFails
  BY <1>4 DEF ExtendBestFails, ReorganizeFails, ReturnFalse, IndexInv, SyncInv,
              EnforcingCheckpoint, memory, disk
<1>5. CASE Reorganize
  <2>1. PICK x \in Chain[pindexNew] :
            /\ dbNext' = RelinkDisk(vDisconnect(x), vConnect(x))
            /\ dbBest' = x
            /\ pnext' = RelinkMemory(vDisconnect(x), vConnect(x))
            /\ vpindexSecondary' = Chain[pindexNew] \ Chain[x]
    BY <1>5 DEF Reorganize
  <2>2. Chain[pindexNew] \subseteq dbIndex
    BY ChainIndexed DEF IndexInv
  <2>3. Chain[x] \subseteq dbIndex /\ x \in dbIndex
    BY <2>2, ChainIndexed
  <2>4. vConnect(x) \in SUBSET dbIndex
    BY <2>3 DEF vConnect
  <2>5. IndexInv'
    BY <1>5, <2>1, <2>3, <2>4, RelinkIndexed DEF Reorganize, IndexInv
  <2>6. SyncInv'
    BY <1>5 DEF Reorganize, SyncInv, EnforcingCheckpoint, checkpts
  <2>7. QED
    BY <1>5, <2>1, <2>2, <2>5, <2>6 DEF Reorganize
<1>6. CASE ConnectSecondary
  <2>1. PICK y \in vpindexSecondary :
            /\ dbNext' = RelinkDisk({}, {y})
            /\ dbBest' = y
            /\ pnext' = RelinkMemory({}, {y})
            /\ vpindexSecondary' = vpindexSecondary \ {y}
    BY <1>6 DEF ConnectSecondary
  <2>2. {y} \in SUBSET dbIndex
    OBVIOUS
  <2>3. IndexInv'
    BY <1>6, <2>1, <2>2, RelinkIndexed DEF ConnectSecondary, IndexInv
  <2>4. SyncInv'
    BY <1>6 DEF ConnectSecondary, SyncInv, EnforcingCheckpoint, checkpts
  <2>5. QED
    BY <1>6, <2>1, <2>3, <2>4 DEF ConnectSecondary
<1>7. CASE BreakSecondary
  BY <1>7 DEF BreakSecondary, IndexInv, SyncInv, EnforcingCheckpoint, memory, checkpts, disk
<1>8. CASE NewBest
  BY <1>8 DEF NewBest, ReturnTrue, IndexInv, SyncInv, EnforcingCheckpoint, TypeOK, Callers, disk
<1>9. CASE NoPending \/ RejectPending
  BY <1>9 DEF NoPending, RejectPending, IndexInv, SyncInv, EnforcingCheckpoint,
              memory, checkpts, disk
<1>10. CASE AcceptPending
  BY <1>10 DEF AcceptPending, PendingArrived, EnforceCheckpoint, ValidateSyncCheckpoint,
               IndexInv, SyncInv, EnforcingCheckpoint, memory, checkpts, disk
<1>11. CASE WriteSyncCheckpoint
  BY <1>11 DEF WriteSyncCheckpoint, IndexInv, SyncInv, EnforcingCheckpoint, memory
<1>12. ASSUME LoadBlockIndex
       PROVE  /\ dbIndex' = dbIndex
              /\ mapBlockIndex' = dbIndex'
              /\ ClosedUnderPrev(dbIndex')
              /\ \A b \in dbIndex' : /\ pnext'[b] \in dbIndex' \cup {NULL}
                                     /\ dbNext'[b] \in dbIndex' \cup {NULL}
              /\ \A b \in Blocks \ dbIndex' : pnext'[b] = NULL /\ dbNext'[b] = NULL
              /\ dbBest' \in dbIndex'
              /\ vpindexSecondary' \subseteq dbIndex'
              /\ dbSyncCheckpoint' = hashSyncCheckpoint'
              /\ hashSyncCheckpoint' \in dbIndex'
  <2>1. LoadedIndex = dbIndex
    BY TreeAssumption DEF LoadedIndex, IndexInv, ClosedUnderPrev, TypeOK
  <2>2. LoadedNext = dbNext
    BY DEF LoadedNext, IndexInv, TypeOK
  <2>3. QED
    BY <1>12, <2>1, <2>2 DEF LoadBlockIndex, IndexInv, SyncInv, disk
<1>13. CASE Restart
  BY <1>12, <1>13 DEF Restart, IndexInv, SyncInv, EnforcingCheckpoint
<1>14. CASE RestartDamaged
  <2>1. pindexNew' \in dbIndex
    <3>1. PICK bad \in Chain[dbBest] \ {GenesisBlock} : pindexNew' = pprev[bad]
      BY <1>14 DEF RestartDamaged
    <3>2. bad \in dbIndex
      BY ChainIndexed DEF IndexInv
    <3>3. QED
      BY <3>1, <3>2 DEF IndexInv, ClosedUnderPrev
  <2>2. QED
    BY <1>12, <1>14, <2>1 DEF RestartDamaged, IndexInv, SyncInv, EnforcingCheckpoint
<1>15. CASE UNCHANGED vars
  BY <1>15 DEF vars, IndexInv, SyncInv, EnforcingCheckpoint, memory, checkpts, disk, handler
<1>16. QED
  BY <1>1, <1>2, <1>3, <1>4, <1>5, <1>6, <1>7, <1>8, <1>9, <1>10, <1>11, <1>13, <1>14, <1>15
     DEF Next, HandlerStep

(***************************************************************************)
(* CheckSync and IsMatureSyncCheckpoint never fail their assertion: in     *)
(* every reachable state, after any crash and with blocks that do not      *)
(* connect, the synchronized checkpoint is an accepted block.              *)
(***************************************************************************)
THEOREM SyncCheckpointAlwaysAccepted == Spec => []SyncCheckpointAccepted
<1>1. CheckpointInv => SyncCheckpointAccepted
  BY DEF CheckpointInv, IndexInv, SyncInv, SyncCheckpointAccepted
<1>2. QED
  BY <1>1, CheckpointInvInit, CheckpointInvStep, TypeCorrect, PTL DEF Spec

(***************************************************************************)
(* ValidateSyncCheckpoint and WriteSyncCheckpoint never move the           *)
(* checkpoint, in memory or on disk, to a block that does not descend from *)
(* it, whatever messages arrive and wherever the process dies.             *)
(***************************************************************************)
THEOREM CheckpointAdvances == Spec => CheckpointOnlyAdvances
<1> DEFINE Advances == /\ hashSyncCheckpoint \in Chain[hashSyncCheckpoint']
                       /\ dbSyncCheckpoint \in Chain[dbSyncCheckpoint']
<1>1. CheckpointInv /\ [Next]_vars => [Advances]_vars
  <2> SUFFICES ASSUME CheckpointInv, Next PROVE Advances
    BY DEF vars
  <2>1. hashSyncCheckpoint \in Chain[hashSyncCheckpoint] /\ dbSyncCheckpoint = hashSyncCheckpoint
    BY ChainClosed DEF CheckpointInv, TypeOK, SyncInv
  <2>2. CASE WriteSyncCheckpoint
    BY <2>1, <2>2 DEF WriteSyncCheckpoint, CheckpointInv, SyncInv, EnforcingCheckpoint
  <2>3. CASE ~WriteSyncCheckpoint
    <3>1. /\ hashSyncCheckpoint' \in {hashSyncCheckpoint, dbSyncCheckpoint}
          /\ dbSyncCheckpoint' = dbSyncCheckpoint
      BY <2>3 DEF Next, HandlerStep, AcceptBlock, ProcessSyncCheckpoint, KeepAsPending,
                  IgnoreCheckpoint, AcceptCheckpoint, ExtendBest, ExtendBestFails, Reorganize,
                  ReorganizeFails, ConnectSecondary, BreakSecondary, NewBest, NoPending,
                  RejectPending, AcceptPending, Restart, RestartDamaged, LoadBlockIndex,
                  checkpts, disk
    <3>2. QED
      BY <2>1, <3>1
  <2>4. QED
    BY <2>2, <2>3
<1>2. QED
  BY <1>1, CheckpointInvInit, CheckpointInvStep, TypeCorrect, PTL
     DEF Spec, CheckpointOnlyAdvances

-----------------------------------------------------------------------------
(***************************************************************************)
(* The loop of SetBestChain over vpindexSecondary stops at a block that    *)
(* does not connect or cannot be read, and pindexNew becomes the best      *)
(* block all the same.  The theorems from here on that need memory and     *)
(* database to agree say what holds as long as that does not happen;       *)
(* blocks may fail to connect, or to be read, anywhere else.               *)
(***************************************************************************)
NeverBroken == [][~BreakSecondary]_vars

\* A case in which it does not: ConnectBlock accepts every block and every block can be read.
AllBlocksConnect == Connects = Blocks /\ IOErrors = FALSE

(***************************************************************************)
(* The links of the main chain: memory and database agree at every step,   *)
(* except that pindexBest is behind while postponed blocks are connected.  *)
(***************************************************************************)
LinkInv ==
    /\ pnext = dbNext
    /\ LinksAre(dbNext, dbBest)
    /\ pc # "secondary" => pindexBest = dbBest
    /\ pc = "secondary" => /\ dbBest \in Chain[pindexNew]
                           /\ vpindexSecondary = Chain[pindexNew] \ Chain[dbBest]

\* Disconnecting one branch and connecting another moves the links to the new tip.
LEMMA RelinkLinks ==
    ASSUME TypeOK, NEW best \in Blocks, NEW x \in Blocks, LinksAre(pnext, best)
    PROVE  LinksAre(RelinkMemory(Chain[best] \ Chain[x], Chain[x] \ Chain[best]), x)
<1> DEFINE D == Chain[best] \ Chain[x]
           C == Chain[x] \ Chain[best]
<1> SUFFICES ASSUME NEW b \in Blocks, NEW c \in Blocks
             PROVE  RelinkMemory(D, C)[b] = c <=> pprev[c] = b /\ c \in Chain[x]
  BY DEF LinksAre
<1>1. Chain[best] \subseteq Blocks /\ Chain[x] \subseteq Blocks /\ b # NULL /\ c # NULL
  BY ChainClosed, TreeAssumption
<1>2. CASE HasChildIn(C, b)
  <2>1. ChildIn(C, b) \in C /\ pprev[ChildIn(C, b)] = b
    BY <1>2 DEF HasChildIn, ChildIn
  <2>2. RelinkMemory(D, C)[b] = ChildIn(C, b)
    BY <1>2 DEF RelinkMemory
  <2>3. pprev[c] = b /\ c \in Chain[x] => c = ChildIn(C, b)
    BY <1>1, <2>1, ChainUniqueChild
  <2>4. QED
    BY <2>1, <2>2, <2>3
<1>3. CASE ~HasChildIn(C, b) /\ HasChildIn(D, b)
  <2>1. PICK d \in D : pprev[d] = b
    BY <1>3 DEF HasChildIn
  <2>2. RelinkMemory(D, C)[b] = NULL
    BY <1>3 DEF RelinkMemory
  <2>3. pprev[c] = b /\ c \in Chain[x] => c \in Chain[best]
    BY <1>3 DEF HasChildIn
  <2>4. pprev[c] = b /\ c \in Chain[best] => c = d
    BY <1>1, <2>1, ChainUniqueChild
  <2>5. QED
    BY <1>1, <2>1, <2>2, <2>3, <2>4
<1>4. CASE ~HasChildIn(C, b) /\ ~HasChildIn(D, b)
  <2>1. RelinkMemory(D, C)[b] = pnext[b]
    BY <1>4 DEF RelinkMemory
  <2>2. pnext[b] = c <=> pprev[c] = b /\ c \in Chain[best]
    BY DEF LinksAre
  <2>3. pprev[c] = b => (c \in Chain[best] <=> c \in Chain[x])
    BY <1>4 DEF HasChildIn
  <2>4. QED
    BY <2>1, <2>2, <2>3
<1>5. QED
  BY <1>2, <1>3, <1>4

\* The database ends with the links memory ends with.
LEMMA RelinkSame ==
    ASSUME TypeOK, pnext = dbNext, NEW best \in Blocks, NEW x \in Blocks
    PROVE  RelinkDisk(Chain[best] \ Chain[x], Chain[x] \ Chain[best])
             = RelinkMemory(Chain[best] \ Chain[x], Chain[x] \ Chain[best])
<1> DEFINE D == Chain[best] \ Chain[x]
           C == Chain[x] \ Chain[best]
<1>1. ASSUME NEW b \in Blocks, b \in C PROVE ~HasChildIn(D, b)
  <2>1. ASSUME NEW d \in D, pprev[d] = b PROVE FALSE
    <3>1. d \in Chain[best] /\ d # GenesisBlock
      BY <2>1, TreeAssumption
    <3>2. b \in Chain[best]
      BY <2>1, <3>1, ChainClosed DEF ClosedUnderPrev
    <3>3. QED
      BY <1>1, <3>2
  <2>2. QED
    BY <2>1 DEF HasChildIn
<1>2. QED
  BY <1>1 DEF RelinkDisk, RelinkMemory

\* Extending the best block by one child is the special case with nothing to disconnect.
LEMMA ExtendIsReorganize ==
    ASSUME NEW best \in Blocks, NEW x \in Blocks, pprev[x] = best
    PROVE  Chain[best] \ Chain[x] = {} /\ Chain[x] \ Chain[best] = {x}
<1>1. x # GenesisBlock
  BY TreeAssumption
<1>2. Chain[x] = Chain[best] \cup {x}
  BY <1>1, ChainStep
<1>3. x \notin Chain[best]
  <2>1. nHeight[x] = nHeight[best] + 1 /\ nHeight[best] \in Nat
    BY <1>1, TreeAssumption
  <2>2. QED
    BY <2>1, ChainBelow
<1>4. QED
  BY <1>2, <1>3

\* Two blocks each on the chain of the other are the same block.
LEMMA ChainAntisymmetric ==
    ASSUME NEW b \in Blocks, NEW c \in Blocks, b \in Chain[c], c \in Chain[b]
    PROVE  b = c
<1>1. nHeight[b] \in Nat /\ nHeight[c] \in Nat
  BY TreeAssumption
<1>2. QED
  BY <1>1, ChainBelow

\* The next postponed block is a child of the block the database stands at.
LEMMA SecondaryExtends ==
    ASSUME TypeOK, dbBest \in Chain[pindexNew],
           vpindexSecondary = Chain[pindexNew] \ Chain[dbBest],
           NEW y \in vpindexSecondary, NextSecondary(y)
    PROVE  pprev[y] = dbBest
<1>1. /\ pindexNew \in Blocks /\ dbBest \in Blocks /\ y \in Blocks
      /\ dbBest \in Chain[pindexNew] /\ y \in Chain[pindexNew] /\ y \notin Chain[dbBest]
  BY DEF TypeOK
<1>2. dbBest \in Chain[y] /\ dbBest # y
  BY <1>1, ChainLinear, ChainClosed
<1>3. y # GenesisBlock
  BY <1>2, ChainGenesis
<1>4. pprev[y] \in Blocks /\ dbBest \in Chain[pprev[y]]
  BY <1>1, <1>2, <1>3, ChainStep
<1>5. pprev[y] \in Chain[pindexNew]
  BY <1>1, <1>3, ChainClosed DEF ClosedUnderPrev
<1>6. pprev[y] \in Chain[dbBest]
  BY <1>5 DEF NextSecondary
<1>7. QED
  BY <1>1, <1>4, <1>6, ChainAntisymmetric

\* The links of a chain of one block: none.
LEMMA LinkInvInit == Init => LinkInv
<1> SUFFICES ASSUME Init PROVE LinkInv
  OBVIOUS
<1>1. ASSUME NEW b \in Blocks, NEW c \in Blocks
      PROVE  dbNext[b] = c <=> pprev[c] = b /\ c \in Chain[dbBest]
  BY ChainGenesis, TreeAssumption DEF Init
<1>2. LinksAre(dbNext, dbBest)
  BY <1>1 DEF LinksAre
<1>3. QED
  BY <1>2 DEF Init, LinkInv

\* Every step keeps the links, but the one that abandons the postponed blocks.
LEMMA LinkInvStep ==
    CheckpointInv /\ LinkInv /\ [Next]_vars /\ [~BreakSecondary]_vars => LinkInv'
<1> SUFFICES ASSUME CheckpointInv, LinkInv, [Next]_vars, [~BreakSecondary]_vars PROVE LinkInv'
  OBVIOUS
<1>0. TypeOK
  BY DEF CheckpointInv
<1>1. ASSUME NEW b \in Blocks, AcceptBlock(b) PROVE LinkInv'
  <2>1. dbNext' = dbNext
    BY <1>0, <1>1 DEF AcceptBlock, LinkInv, TypeOK
  <2>2. QED
    BY <1>1, <2>1 DEF AcceptBlock, LinkInv, LinksAre
<1>2. ASSUME NEW c \in MasterCheckpoints, ProcessSyncCheckpoint(c) PROVE LinkInv'
  BY <1>2 DEF ProcessSyncCheckpoint, KeepAsPending, IgnoreCheckpoint, AcceptCheckpoint,
              EnforceCheckpoint, LinkInv, LinksAre, memory, disk, handler
<1>3. CASE ExtendBest
  <2>1. pindexBest = dbBest /\ pprev[pindexNew] = dbBest /\ dbBest \in Blocks /\ pindexNew \in Blocks
    BY <1>0, <1>3 DEF ExtendBest, LinkInv, TypeOK
  <2>2. Chain[dbBest] \ Chain[pindexNew] = {} /\ Chain[pindexNew] \ Chain[dbBest] = {pindexNew}
    BY <2>1, ExtendIsReorganize
  <2>3. pnext' = dbNext' /\ LinksAre(pnext', pindexNew)
    BY <1>0, <1>3, <2>1, <2>2, RelinkLinks, RelinkSame DEF ExtendBest, LinkInv
  <2>4. dbBest' = pindexNew /\ pindexBest' = pindexNew /\ pc' # "secondary"
    BY <1>0, <1>3 DEF ExtendBest, ReturnTrue, TypeOK, Callers
  <2>5. QED
    BY <2>3, <2>4 DEF LinkInv, LinksAre
<1>4. CASE ExtendBestFails \/ ReorganizeFails
  BY <1>4 DEF ExtendBestFails, ReorganizeFails, ReturnFalse, LinkInv, LinksAre, memory, disk
<1>5. CASE Reorganize
  <2>1. PICK x \in Chain[pindexNew] :
            /\ dbNext' = RelinkDisk(vDisconnect(x), vConnect(x))
            /\ dbBest' = x
            /\ pnext' = RelinkMemory(vDisconnect(x), vConnect(x))
            /\ vpindexSecondary' = Chain[pindexNew] \ Chain[x]
    BY <1>5 DEF Reorganize
  <2>2. x \in Blocks /\ pindexBest \in Blocks /\ pindexBest = dbBest
    BY <1>0, <1>5, ChainClosed DEF Reorganize, LinkInv, TypeOK
  <2>3. pnext' = dbNext' /\ LinksAre(pnext', x)
    BY <1>0, <2>1, <2>2, RelinkLinks, RelinkSame DEF LinkInv, vDisconnect, vConnect
  <2>4. pc' = "secondary" /\ pindexNew' = pindexNew
    BY <1>5 DEF Reorganize
  <2>5. QED
    BY <2>1, <2>3, <2>4 DEF LinkInv, LinksAre
<1>6. CASE ConnectSecondary
  <2>1. PICK y \in vpindexSecondary :
            /\ NextSecondary(y)
            /\ dbNext' = RelinkDisk({}, {y})
            /\ dbBest' = y
            /\ pnext' = RelinkMemory({}, {y})
            /\ vpindexSecondary' = vpindexSecondary \ {y}
    BY <1>6 DEF ConnectSecondary
  <2>2. /\ pc = "secondary" /\ pc' = "secondary" /\ pindexNew' = pindexNew
        /\ y \in Blocks /\ dbBest \in Blocks /\ pindexNew \in Blocks
    BY <1>0, <1>6 DEF ConnectSecondary, TypeOK
  <2>3. pprev[y] = dbBest
    BY <1>0, <2>1, <2>2, SecondaryExtends DEF LinkInv
  <2>4. Chain[dbBest] \ Chain[y] = {} /\ Chain[y] \ Chain[dbBest] = {y}
    BY <2>2, <2>3, ExtendIsReorganize
  <2>5. pnext' = dbNext' /\ LinksAre(pnext', y)
    BY <1>0, <2>1, <2>2, <2>4, RelinkLinks, RelinkSame DEF LinkInv
  <2>6. y \in Chain[pindexNew] /\ vpindexSecondary' = Chain[pindexNew] \ Chain[y]
    BY <2>1, <2>2, <2>4 DEF LinkInv
  <2>7. QED
    BY <2>1, <2>2, <2>5, <2>6 DEF LinkInv, LinksAre
<1>7. CASE NewBest
  <2>1. /\ dbBest \in Chain[pindexNew] /\ Chain[pindexNew] \subseteq Chain[dbBest]
        /\ pindexNew \in Blocks /\ dbBest \in Blocks
    BY <1>0, <1>7 DEF NewBest, LinkInv, TypeOK
  <2>2. pindexNew = dbBest
    BY <2>1, ChainClosed, ChainAntisymmetric
  <2>3. pc' # "secondary" /\ pindexBest' = pindexNew /\ UNCHANGED <<pnext, dbNext, dbBest>>
    BY <1>0, <1>7 DEF NewBest, ReturnTrue, TypeOK, Callers, disk
  <2>4. QED
    BY <2>2, <2>3 DEF LinkInv, LinksAre
<1>8. CASE NoPending \/ RejectPending \/ AcceptPending
  BY <1>8 DEF NoPending, RejectPending, AcceptPending, EnforceCheckpoint, LinkInv, LinksAre,
              memory, disk
<1>9. CASE WriteSyncCheckpoint
  BY <1>9 DEF WriteSyncCheckpoint, LinkInv, LinksAre, memory
<1>10. CASE Restart \/ RestartDamaged
  <2>1. LoadedNext = dbNext
    BY <1>0 DEF LoadedNext, CheckpointInv, IndexInv, TypeOK
  <2>2. /\ pnext' = dbNext /\ pindexBest' = dbBest /\ pc' # "secondary"
        /\ UNCHANGED <<dbNext, dbBest>>
    BY <1>10, <2>1 DEF Restart, RestartDamaged, LoadBlockIndex, disk
  <2>3. QED
    BY <2>2 DEF LinkInv, LinksAre
<1>11. CASE UNCHANGED vars
  BY <1>11 DEF vars, LinkInv, LinksAre, memory, disk, handler
<1>12. QED
  BY <1>1, <1>2, <1>3, <1>4, <1>5, <1>6, <1>7, <1>8, <1>9, <1>10, <1>11
     DEF Next, HandlerStep

(***************************************************************************)
(* As long as the loop over the postponed blocks is never broken, the      *)
(* process may die after any commit of AddToBlockIndex, Reorganize,        *)
(* SetBestChainInner or WriteSyncCheckpoint, any number of times, and the  *)
(* database is always one LoadBlockIndex can start from: links, best block *)
(* and index agree.                                                        *)
(***************************************************************************)
THEOREM CrashSafe == Spec /\ NeverBroken => []DiskIsLoadable
<1>1. CheckpointInv /\ LinkInv => DiskIsLoadable
  BY ChainIndexed DEF CheckpointInv, LinkInv, IndexInv, DiskIsLoadable
<1>2. QED
  BY <1>1, CheckpointInvInit, CheckpointInvStep, TypeCorrect, LinkInvInit, LinkInvStep, PTL
     DEF Spec, NeverBroken

(***************************************************************************)
(* As long as the loop over the postponed blocks is never broken, a        *)
(* restart between handlers loses nothing but a pending checkpoint:        *)
(* SetBestChain has left memory and database with the same index, links,   *)
(* best block and checkpoint.                                              *)
(***************************************************************************)
THEOREM MemoryAgreesWithDisk == Spec /\ NeverBroken => []MemoryMatchesDisk
<1>1. CheckpointInv /\ LinkInv => MemoryMatchesDisk
  <2> SUFFICES ASSUME CheckpointInv, LinkInv PROVE MemoryMatchesDisk
    OBVIOUS
  <2>1. LoadedIndex = dbIndex
    BY TreeAssumption DEF LoadedIndex, CheckpointInv, IndexInv, ClosedUnderPrev, TypeOK
  <2>2. LoadedNext = dbNext
    BY DEF LoadedNext, CheckpointInv, IndexInv, TypeOK
  <2>3. QED
    BY <2>1, <2>2 DEF MemoryMatchesDisk, CheckpointInv, IndexInv, SyncInv, LinkInv
<1>2. QED
  BY <1>1, CheckpointInvInit, CheckpointInvStep, TypeCorrect, LinkInvInit, LinkInvStep, PTL
     DEF Spec, NeverBroken

(***************************************************************************)
(* When ConnectBlock accepts every block and every block can be read, the  *)
(* loop over the postponed blocks is never broken, so that the theorems    *)
(* with that hypothesis hold of every behaviour.                           *)
(***************************************************************************)
THEOREM AllConnectNeverBroken == AllBlocksConnect => (Spec => NeverBroken)
<1> SUFFICES ASSUME AllBlocksConnect PROVE Spec => NeverBroken
  OBVIOUS
<1>1. CheckpointInv /\ LinkInv => ~BreakSecondary
  <2> SUFFICES ASSUME CheckpointInv, LinkInv, BreakSecondary PROVE FALSE
    OBVIOUS
  <2>1. PICK y \in vpindexSecondary :
            NextSecondary(y) /\ (FALSE \in ConnectBlock(y) \/ IOErrors)
    BY DEF BreakSecondary
  <2>2. TypeOK /\ y \in Blocks /\ pc = "secondary"
    BY DEF CheckpointInv, TypeOK, BreakSecondary
  <2>3. pprev[y] = dbBest
    BY <2>1, <2>2, SecondaryExtends DEF LinkInv
  <2>4. ConnectBlock(y) = {(y \in Connects)}
    BY <2>3 DEF ConnectBlock
  <2>5. QED
    BY <2>1, <2>2, <2>4 DEF AllBlocksConnect
<1>2. CheckpointInv /\ LinkInv => [~BreakSecondary]_vars
  BY <1>1
<1>3. QED
  BY <1>2, CheckpointInvInit, CheckpointInvStep, TypeCorrect, LinkInvInit, LinkInvStep, PTL
     DEF Spec, NeverBroken

-----------------------------------------------------------------------------
(***************************************************************************)
(* Where SetBestChain stands, broken or not.  While it connects postponed  *)
(* blocks the database is at a block of the new chain; otherwise at a      *)
(* block of the chain of pindexBest, which is ahead of it once the loop    *)
(* was broken.  What AddToBlockIndex asks for is heavier than pindexBest   *)
(* until it is pindexBest.                                                 *)
(***************************************************************************)
BestInv ==
    /\ pc = "secondary" => /\ dbBest \in Chain[pindexNew]
                           /\ vpindexSecondary \in {Chain[pindexNew] \ Chain[dbBest], {}}
    /\ pc # "secondary" => dbBest \in Chain[pindexBest]
    /\ pc \in {"set", "secondary"} /\ caller = "accept" => HeavierThanBest(pindexNew)

\* The first start satisfies it.
LEMMA BestInvInit == Init => BestInv
  BY ChainGenesis DEF Init, BestInv

\* A postponed block that connects is a child of the block the database stands at.
LEMMA ConnectSecondaryExtends ==
    ASSUME TypeOK, BestInv, ConnectSecondary
    PROVE  /\ dbBest' \in vpindexSecondary /\ dbBest' \in Blocks /\ dbBest' \in Chain[pindexNew]
           /\ pprev[dbBest'] = dbBest
           /\ vpindexSecondary' = Chain[pindexNew] \ Chain[dbBest']
<1>1. PICK y \in vpindexSecondary :
          NextSecondary(y) /\ dbBest' = y /\ vpindexSecondary' = vpindexSecondary \ {y}
  BY DEF ConnectSecondary
<1>2. /\ dbBest \in Chain[pindexNew] /\ vpindexSecondary = Chain[pindexNew] \ Chain[dbBest]
      /\ y \in Blocks /\ dbBest \in Blocks
  BY DEF ConnectSecondary, BestInv, TypeOK
<1>3. pprev[y] = dbBest
  BY <1>1, <1>2, SecondaryExtends
<1>4. Chain[dbBest] \ Chain[y] = {} /\ Chain[y] \ Chain[dbBest] = {y}
  BY <1>2, <1>3, ExtendIsReorganize
<1>5. QED
  BY <1>1, <1>2, <1>3, <1>4

\* Every step keeps it.
LEMMA BestInvStep == TypeOK /\ BestInv /\ [Next]_vars => BestInv'
<1> SUFFICES ASSUME TypeOK, BestInv, [Next]_vars PROVE BestInv'
  OBVIOUS
<1>0. /\ dbBest \in Chain[dbBest] /\ pindexNew \in Chain[pindexNew]
  BY ChainClosed DEF TypeOK
<1>1. ASSUME NEW b \in Blocks, AcceptBlock(b) PROVE BestInv'
  BY <1>1 DEF AcceptBlock, BestInv, HeavierThanBest
<1>2. ASSUME NEW c \in MasterCheckpoints, ProcessSyncCheckpoint(c) PROVE BestInv'
  BY <1>2 DEF ProcessSyncCheckpoint, KeepAsPending, IgnoreCheckpoint, AcceptCheckpoint,
              EnforceCheckpoint, BestInv, memory, disk, handler
<1>3. CASE ExtendBest
  BY <1>0, <1>3 DEF ExtendBest, ReturnTrue, BestInv, TypeOK, Callers
<1>4. CASE ExtendBestFails \/ ReorganizeFails
  BY <1>4 DEF ExtendBestFails, ReorganizeFails, ReturnFalse, BestInv, memory, disk
<1>5. CASE Reorganize
  BY <1>5 DEF Reorganize, BestInv, HeavierThanBest
<1>6. CASE ConnectSecondary
  <2>1. dbBest' \in Chain[pindexNew] /\ vpindexSecondary' = Chain[pindexNew] \ Chain[dbBest']
    BY <1>6, ConnectSecondaryExtends
  <2>2. pc' = "secondary" /\ UNCHANGED <<pc, caller, pindexNew, pindexBest>>
    BY <1>6 DEF ConnectSecondary
  <2>3. QED
    BY <2>1, <2>2 DEF BestInv, HeavierThanBest
<1>7. CASE BreakSecondary
  BY <1>7 DEF BreakSecondary, BestInv, HeavierThanBest, memory, disk
<1>8. CASE NewBest
  BY <1>8 DEF NewBest, ReturnTrue, BestInv, TypeOK, Callers, disk
<1>9. CASE NoPending \/ RejectPending \/ AcceptPending
  BY <1>9 DEF NoPending, RejectPending, AcceptPending, EnforceCheckpoint, BestInv, memory, disk
<1>10. CASE WriteSyncCheckpoint
  BY <1>10 DEF WriteSyncCheckpoint, BestInv, memory
<1>11. CASE Restart \/ RestartDamaged
  BY <1>0, <1>11 DEF Restart, RestartDamaged, LoadBlockIndex, BestInv, disk
<1>12. CASE UNCHANGED vars
  BY <1>12 DEF vars, BestInv, HeavierThanBest, memory, disk, handler
<1>13. QED
  BY <1>1, <1>2, <1>3, <1>4, <1>5, <1>6, <1>7, <1>8, <1>9, <1>10, <1>11, <1>12
     DEF Next, HandlerStep

\* Only three steps move the best block of the database.
LEMMA DatabaseMoves ==
    ASSUME Next
    PROVE  ExtendBest \/ Reorganize \/ ConnectSecondary \/ dbBest' = dbBest
  BY DEF Next, HandlerStep, AcceptBlock, ProcessSyncCheckpoint, KeepAsPending,
         IgnoreCheckpoint, AcceptCheckpoint, ExtendBestFails, ReorganizeFails,
         BreakSecondary, NewBest, NoPending, RejectPending, AcceptPending,
         WriteSyncCheckpoint, Restart, RestartDamaged, LoadBlockIndex, disk

(***************************************************************************)
(* No commit on behalf of AcceptBlock leaves the database at a lighter     *)
(* chain than before, in the middle of a long reorganisation, after a      *)
(* broken one and after restarts too: Reorganize stops first at a block    *)
(* that is heavier than the old best one.                                  *)
(***************************************************************************)
THEOREM TrustAlwaysGrows == Spec => TrustOnlyGrows
<1> DEFINE Grows == nChainTrust[dbBest'] < nChainTrust[dbBest] => pc = "set" /\ caller # "accept"
<1>1. TypeOK /\ TypeOK' /\ BestInv /\ [Next]_vars => [Grows]_vars
  <2> SUFFICES ASSUME TypeOK, TypeOK', BestInv, Next,
                      nChainTrust[dbBest'] < nChainTrust[dbBest],
                      ~(pc = "set" /\ caller # "accept")
               PROVE  FALSE
    OBVIOUS
  <2>1. /\ nChainTrust[dbBest] \in Nat /\ nChainTrust[dbBest'] \in Nat
        /\ nChainTrust[pindexBest] \in Nat /\ nChainTrust[pindexNew] \in Nat
    BY TreeAssumption DEF TypeOK
  <2>2. pc # "secondary" => nChainTrust[dbBest] <= nChainTrust[pindexBest]
    BY <2>1, ChainBelow DEF BestInv, TypeOK
  <2>3. CASE ExtendBest
    BY <2>1, <2>2, <2>3 DEF ExtendBest, BestInv, HeavierThanBest
  <2>4. CASE Reorganize
    <3>1. /\ pc = "set" /\ HeavierThanBest(pindexNew)
          /\ dbBest' = pindexNew \/ nChainTrust[dbBest'] > nChainTrust[pindexBest]
      BY <2>4 DEF Reorganize, IsIntermediate, BestInv
    <3>2. QED
      BY <2>1, <2>2, <3>1 DEF HeavierThanBest
  <2>5. CASE ConnectSecondary
    <3>1. dbBest' \in Blocks /\ pprev[dbBest'] = dbBest
      BY <2>5, ConnectSecondaryExtends
    <3>2. dbBest' # GenesisBlock
      BY <3>1, TreeAssumption DEF TypeOK
    <3>3. QED
      BY <2>1, <3>1, <3>2, TreeAssumption
  <2>6. CASE dbBest' = dbBest
    BY <2>1, <2>6
  <2>7. QED
    BY <2>3, <2>4, <2>5, <2>6, DatabaseMoves
<1>2. QED
  BY <1>1, TypeCorrect, BestInvInit, BestInvStep, PTL DEF Spec, TrustOnlyGrows

-----------------------------------------------------------------------------
\* What ConnectBlock accepts while memory and database agree is a block of Connects.
LEMMA ConnectedIsValid ==
    ASSUME TypeOK, LinkInv, Chain[dbBest] \subseteq Connects,
           ExtendBest \/ Reorganize \/ ConnectSecondary
    PROVE  Chain[dbBest'] \subseteq Connects
<1>1. CASE ExtendBest
  <2>1. /\ pindexBest = dbBest /\ pprev[pindexNew] = dbBest /\ pindexNew \in Blocks
        /\ dbBest \in Blocks /\ dbBest' = pindexNew /\ pindexNew \in Connects
    BY <1>1 DEF ExtendBest, ConnectBlock, LinkInv, TypeOK
  <2>2. Chain[pindexNew] \ Chain[dbBest] = {pindexNew}
    BY <2>1, ExtendIsReorganize
  <2>3. QED
    BY <2>1, <2>2
<1>2. CASE Reorganize
  <2>1. PICK x \in Chain[pindexNew] : TRUE \in ReorganizeAnswers(x) /\ dbBest' = x
    BY <1>2 DEF Reorganize
  <2>2. pindexBest = dbBest
    BY <1>2 DEF Reorganize, LinkInv
  <2>3. vConnect(x) \subseteq Connects
    BY <2>1, <2>2 DEF ReorganizeAnswers
  <2>4. QED
    BY <2>1, <2>2, <2>3 DEF vConnect
<1>3. CASE ConnectSecondary
  <2>1. PICK y \in vpindexSecondary : NextSecondary(y) /\ TRUE \in ConnectBlock(y) /\ dbBest' = y
    BY <1>3 DEF ConnectSecondary
  <2>2. y \in Blocks /\ dbBest \in Blocks /\ pc = "secondary"
    BY <1>3 DEF ConnectSecondary, TypeOK
  <2>3. pprev[y] = dbBest
    BY <2>1, <2>2, SecondaryExtends DEF LinkInv
  <2>4. Chain[y] \ Chain[dbBest] = {y}
    BY <2>2, <2>3, ExtendIsReorganize
  <2>5. y \in Connects
    BY <2>1, <2>3 DEF ConnectBlock
  <2>6. QED
    BY <2>1, <2>4, <2>5
<1>4. QED
  BY <1>1, <1>2, <1>3

\* What it refuses then is on a branch that does not connect, when blocks can be read.
LEMMA RefusedIsInvalid ==
    ASSUME TypeOK, LinkInv, IOErrors = FALSE, ExtendBestFails \/ ReorganizeFails
    PROVE  ~(Chain[pindexNew] \subseteq Connects)
<1>0. pindexBest = dbBest /\ pindexNew \in Blocks
  BY DEF ExtendBestFails, ReorganizeFails, LinkInv, TypeOK
<1>1. CASE ExtendBestFails
  <2>1. pindexNew \notin Connects
    BY <1>0, <1>1 DEF ExtendBestFails, ConnectBlock
  <2>2. QED
    BY <1>0, <2>1, ChainClosed
<1>2. CASE ReorganizeFails
  <2>1. PICK x \in Chain[pindexNew] : FALSE \in ReorganizeAnswers(x)
    BY <1>2 DEF ReorganizeFails
  <2>2. ~(vConnect(x) \subseteq Connects)
    BY <1>0, <2>1 DEF ReorganizeAnswers
  <2>3. Chain[x] \subseteq Chain[pindexNew]
    BY <1>0, ChainTransitive
  <2>4. QED
    BY <2>2, <2>3 DEF vConnect
<1>3. QED
  BY <1>1, <1>2

\* Every step keeps the chain of the database one that connects.
LEMMA ConnectedStep ==
    TypeOK /\ LinkInv /\ Chain[dbBest] \subseteq Connects /\ [Next]_vars
        => (Chain[dbBest] \subseteq Connects)'
<1> SUFFICES ASSUME TypeOK, LinkInv, Chain[dbBest] \subseteq Connects, [Next]_vars
             PROVE  Chain[dbBest'] \subseteq Connects
  OBVIOUS
<1>1. CASE UNCHANGED vars
  BY <1>1 DEF vars, disk
<1>2. CASE Next
  BY <1>2, DatabaseMoves, ConnectedIsValid
<1>3. QED
  BY <1>1, <1>2

(***************************************************************************)
(* The best block SetBestChain leaves has a chain that connects, unless    *)
(* the loop over the postponed blocks was broken: that loop is the only    *)
(* way an invalid chain becomes the best one.                              *)
(***************************************************************************)
THEOREM ConnectedUnlessBroken == Spec /\ NeverBroken => []BestChainConnected
<1>1. Init => Chain[dbBest] \subseteq Connects
  BY ChainGenesis, ParameterAssumption DEF Init
<1>2. LinkInv /\ Chain[dbBest] \subseteq Connects => BestChainConnected
  BY DEF LinkInv, BestChainConnected
<1>3. QED
  BY <1>1, <1>2, ConnectedStep, CheckpointInvInit, CheckpointInvStep, TypeCorrect,
     LinkInvInit, LinkInvStep, PTL
     DEF Spec, NeverBroken

-----------------------------------------------------------------------------
(***************************************************************************)
(* The checkpoint and the main chain, with -cppolicy=strict and no damaged *)
(* block: at every commit the database stands at a descendant of the       *)
(* checkpoint, because the block SetBestChain goes to descends from it and *)
(* so does the one it stops at on the way, which is heavier.               *)
(***************************************************************************)
SyncChainInv ==
    /\ hashSyncCheckpoint \in Chain[dbBest]
    /\ pc \in {"set", "secondary"} => hashSyncCheckpoint \in Chain[pindexNew]
    /\ pc = "write" => pindexNew \in Chain[dbBest]

\* A block AcceptBlock indexes in strict mode descends from the checkpoint.
LEMMA AcceptedAboveCheckpoint ==
    ASSUME CheckpointInv, Strict = TRUE, NEW b \in Blocks, AcceptBlock(b)
    PROVE  hashSyncCheckpoint \in Chain[b]
<1>1. /\ b # hashSyncCheckpoint /\ b # GenesisBlock /\ b \notin mapBlockIndex
      /\ hashSyncCheckpoint \in Blocks
  BY TreeAssumption DEF AcceptBlock, CheckpointInv, IndexInv, SyncInv, TypeOK
<1>2. nHeight[b] \in Nat /\ nHeight[hashSyncCheckpoint] \in Nat
  BY <1>1, TreeAssumption
<1>3. CheckSync(b)
  BY DEF AcceptBlock
<1>4. hashSyncCheckpoint \in Chain[pprev[b]]
  BY <1>1, <1>2, <1>3 DEF CheckSync
<1>5. QED
  BY <1>1, <1>4, ChainStep

\* A block the pnext pointers say is in the main chain is on the chain of the best block.
LEMMA MainChainIsChain ==
    ASSUME TypeOK, LinkInv, pc # "secondary", NEW c \in Blocks, IsInMainChain(c)
    PROVE  c \in Chain[dbBest]
<1>1. CASE c = pindexBest
  BY <1>1, ChainClosed DEF LinkInv, TypeOK
<1>2. CASE pnext[c] # NULL
  <2>1. pnext[c] \in Blocks /\ dbBest \in Blocks
    BY <1>2 DEF TypeOK, BlockOrNull
  <2>2. pprev[pnext[c]] = c /\ pnext[c] \in Chain[dbBest]
    BY <2>1 DEF LinkInv, LinksAre
  <2>3. pnext[c] # GenesisBlock
    BY <2>2, TreeAssumption
  <2>4. QED
    BY <2>1, <2>2, <2>3, ChainClosed DEF ClosedUnderPrev
<1>3. QED
  BY <1>1, <1>2 DEF IsInMainChain

\* Every step keeps the checkpoint on the chain of the database.
LEMMA SyncChainInvStep ==
    ASSUME Strict = TRUE, Rollback = FALSE
    PROVE  CheckpointInv /\ LinkInv /\ SyncChainInv /\ [Next]_vars => SyncChainInv'
<1> SUFFICES ASSUME CheckpointInv, LinkInv, SyncChainInv, [Next]_vars PROVE SyncChainInv'
  OBVIOUS
<1>0. TypeOK
  BY DEF CheckpointInv
<1>1. ASSUME NEW b \in Blocks, AcceptBlock(b) PROVE SyncChainInv'
  <2>1. hashSyncCheckpoint \in Chain[b]
    BY <1>1, AcceptedAboveCheckpoint
  <2>2. QED
    BY <1>1, <2>1 DEF AcceptBlock, SyncChainInv, checkpts
<1>2. ASSUME NEW c \in MasterCheckpoints, ProcessSyncCheckpoint(c) PROVE SyncChainInv'
  <2>1. c \in Blocks
    BY ParameterAssumption
  <2>2. CASE AcceptCheckpoint(c)
    <3>1. IsInMainChain(c) => c \in Chain[dbBest]
      BY <1>0, <2>1, <2>2, MainChainIsChain DEF AcceptCheckpoint
    <3>2. QED
      BY <2>2, <3>1 DEF AcceptCheckpoint, EnforceCheckpoint, ValidateSyncCheckpoint,
                        SyncChainInv, checkpts, disk
  <2>3. CASE KeepAsPending(c) \/ IgnoreCheckpoint(c)
    BY <2>3 DEF KeepAsPending, IgnoreCheckpoint, SyncChainInv, disk, handler
  <2>4. QED
    BY <1>2, <2>2, <2>3 DEF ProcessSyncCheckpoint
<1>3. CASE ExtendBest
  <2>1. pindexNew \in Chain[pindexNew]
    BY <1>0, ChainClosed DEF TypeOK
  <2>2. QED
    BY <1>0, <1>3, <2>1 DEF ExtendBest, ReturnTrue, SyncChainInv, TypeOK, Callers
<1>4. CASE ExtendBestFails \/ ReorganizeFails
  BY <1>4 DEF ExtendBestFails, ReorganizeFails, ReturnFalse, SyncChainInv, disk
<1>5. CASE Reorganize
  <2>1. PICK x \in Chain[pindexNew] : IsIntermediate(x) /\ dbBest' = x
    BY <1>5 DEF Reorganize
  <2>2. /\ pindexBest = dbBest /\ hashSyncCheckpoint \in Chain[pindexNew]
        /\ hashSyncCheckpoint \in Chain[dbBest]
        /\ dbBest \in Blocks /\ pindexNew \in Blocks /\ x \in Blocks
        /\ hashSyncCheckpoint \in Blocks
    BY <1>0, <1>5, ChainClosed DEF Reorganize, LinkInv, SyncChainInv, TypeOK
  <2>3. hashSyncCheckpoint \in Chain[x]
    <3>1. CASE x = pindexNew
      BY <2>2, <3>1
    <3>2. CASE nChainTrust[x] > nChainTrust[dbBest]
      <4>1. /\ nChainTrust[x] \in Nat /\ nChainTrust[dbBest] \in Nat
            /\ nChainTrust[hashSyncCheckpoint] \in Nat
        BY <2>2, TreeAssumption
      <4>2. nChainTrust[hashSyncCheckpoint] <= nChainTrust[dbBest]
        BY <2>2, <4>1, ChainBelow
      <4>3. x # hashSyncCheckpoint /\ x \notin Chain[hashSyncCheckpoint]
        BY <2>2, <3>2, <4>1, <4>2, ChainBelow
      <4>4. QED
        BY <2>2, <4>3, ChainLinear
    <3>3. QED
      BY <2>1, <2>2, <3>1, <3>2 DEF IsIntermediate
  <2>4. QED
    BY <1>5, <2>1, <2>2, <2>3 DEF Reorganize, SyncChainInv, checkpts
<1>6. CASE ConnectSecondary
  <2>1. PICK y \in vpindexSecondary : NextSecondary(y) /\ dbBest' = y
    BY <1>6 DEF ConnectSecondary
  <2>2. y \in Blocks /\ dbBest \in Blocks /\ pc = "secondary"
    BY <1>0, <1>6 DEF ConnectSecondary, TypeOK
  <2>3. pprev[y] = dbBest
    BY <1>0, <2>1, <2>2, SecondaryExtends DEF LinkInv
  <2>4. Chain[dbBest] \subseteq Chain[y]
    BY <2>2, <2>3, ExtendIsReorganize
  <2>5. QED
    BY <1>6, <2>1, <2>4 DEF ConnectSecondary, SyncChainInv, checkpts
<1>7. CASE BreakSecondary
  BY <1>7 DEF BreakSecondary, SyncChainInv, checkpts, disk
<1>8. CASE NewBest
  <2>1. /\ dbBest \in Chain[pindexNew] /\ Chain[pindexNew] \subseteq Chain[dbBest]
        /\ pindexNew \in Blocks
    BY <1>0, <1>8 DEF NewBest, LinkInv, TypeOK
  <2>2. pindexNew \in Chain[dbBest]
    BY <2>1, ChainClosed
  <2>3. QED
    BY <1>0, <1>8, <2>2 DEF NewBest, ReturnTrue, SyncChainInv, TypeOK, Callers, disk
<1>9. CASE NoPending \/ RejectPending
  BY <1>9 DEF NoPending, RejectPending, SyncChainInv, checkpts, disk
<1>10. CASE AcceptPending
  <2>1. hashPendingCheckpoint \in Blocks
    BY <1>0, <1>10 DEF AcceptPending, PendingArrived, TypeOK
  <2>2. IsInMainChain(hashPendingCheckpoint) => hashPendingCheckpoint \in Chain[dbBest]
    BY <1>0, <1>10, <2>1, MainChainIsChain DEF AcceptPending
  <2>3. QED
    BY <1>10, <2>2 DEF AcceptPending, EnforceCheckpoint, ValidateSyncCheckpoint,
                       SyncChainInv, checkpts, disk
<1>11. CASE WriteSyncCheckpoint
  BY <1>11 DEF WriteSyncCheckpoint, SyncChainInv
<1>12. CASE Restart \/ RestartDamaged
  BY <1>12 DEF Restart, RestartDamaged, LoadBlockIndex, CheckpointInv, SyncInv,
               SyncChainInv, disk
<1>13. CASE UNCHANGED vars
  BY <1>13 DEF vars, SyncChainInv, checkpts, disk, handler
<1>14. QED
  BY <1>1, <1>2, <1>3, <1>4, <1>5, <1>6, <1>7, <1>8, <1>9, <1>10, <1>11, <1>12, <1>13
     DEF Next, HandlerStep

(***************************************************************************)
(* With -cppolicy=strict, no damaged block and the loop over the postponed *)
(* blocks never broken, the best chain never leaves the synchronized       *)
(* checkpoint: blocks accepted before it, crashes in the middle of a       *)
(* reorganisation and blocks that cannot be read do not take it off.       *)
(***************************************************************************)
THEOREM CheckpointStaysOnMainChain ==
    Strict = TRUE /\ Rollback = FALSE => (Spec /\ NeverBroken => []CheckpointOnMainChain)
<1> SUFFICES ASSUME Strict = TRUE, Rollback = FALSE
             PROVE  Spec /\ NeverBroken => []CheckpointOnMainChain
  OBVIOUS
<1>1. Init => SyncChainInv
  BY ChainGenesis DEF Init, SyncChainInv
<1>2. LinkInv /\ SyncChainInv => CheckpointOnMainChain
  BY DEF LinkInv, SyncChainInv, CheckpointOnMainChain
<1>3. QED
  BY <1>1, <1>2, SyncChainInvStep, CheckpointInvInit, CheckpointInvStep, TypeCorrect,
     LinkInvInit, LinkInvStep, PTL
     DEF Spec, NeverBroken

-----------------------------------------------------------------------------
(***************************************************************************)
(* A pending checkpoint whose block is indexed and whose branch connects   *)
(* is the one SetBestChain is working on, until AcceptPendingSyncCheckpoint*)
(* has looked at it.  LoadBlockIndex starts without a pending checkpoint.  *)
(***************************************************************************)
PendingInv ==
    /\ /\ pc \in {"idle", "set"}
       /\ hashPendingCheckpoint \in mapBlockIndex
       /\ Chain[hashPendingCheckpoint] \subseteq Connects
       => pc = "set" /\ hashPendingCheckpoint = pindexNew
    /\ pc \in {"set", "secondary"} /\ caller = "load" => hashPendingCheckpoint = NULL

\* Every step keeps it, when blocks can be read and the loop is not broken.
LEMMA PendingInvStep ==
    ASSUME IOErrors = FALSE
    PROVE  CheckpointInv /\ LinkInv /\ PendingInv /\ [Next]_vars => PendingInv'
<1> SUFFICES ASSUME CheckpointInv, LinkInv, PendingInv, [Next]_vars PROVE PendingInv'
  OBVIOUS
<1>0. TypeOK /\ NULL \notin mapBlockIndex
  BY TreeAssumption DEF CheckpointInv, TypeOK
<1>1. ASSUME NEW b \in Blocks, AcceptBlock(b) PROVE PendingInv'
  BY <1>1 DEF AcceptBlock, PendingInv, checkpts
<1>2. ASSUME NEW c \in MasterCheckpoints, ProcessSyncCheckpoint(c) PROVE PendingInv'
  BY <1>2 DEF ProcessSyncCheckpoint, KeepAsPending, IgnoreCheckpoint, AcceptCheckpoint,
              EnforceCheckpoint, PendingInv, memory, checkpts, disk, handler
<1>3. CASE ExtendBest
  BY <1>0, <1>3 DEF ExtendBest, ReturnTrue, PendingInv, TypeOK, Callers
<1>4. CASE ExtendBestFails \/ ReorganizeFails
  <2>1. ~(Chain[pindexNew] \subseteq Connects)
    BY <1>0, <1>4, RefusedIsInvalid
  <2>2. /\ pc = "set" /\ pc' = "idle"
        /\ UNCHANGED <<mapBlockIndex, hashPendingCheckpoint, pindexNew>>
    BY <1>4 DEF ExtendBestFails, ReorganizeFails, ReturnFalse, memory
  <2>3. QED
    BY <2>1, <2>2 DEF PendingInv
<1>5. CASE Reorganize \/ ConnectSecondary \/ BreakSecondary
  BY <1>5 DEF Reorganize, ConnectSecondary, BreakSecondary, PendingInv, memory, checkpts
<1>6. CASE NewBest
  BY <1>0, <1>6 DEF NewBest, ReturnTrue, PendingInv, TypeOK, Callers
<1>7. CASE NoPending \/ RejectPending \/ AcceptPending
  BY <1>0, <1>7 DEF NoPending, RejectPending, AcceptPending, PendingArrived, EnforceCheckpoint,
              PendingInv, memory, checkpts
<1>8. CASE WriteSyncCheckpoint
  BY <1>0, <1>8 DEF WriteSyncCheckpoint, PendingInv, memory
<1>9. CASE Restart \/ RestartDamaged
  <2>1. NULL \notin mapBlockIndex' /\ hashPendingCheckpoint' = NULL
    BY <1>9 DEF Restart, RestartDamaged, LoadBlockIndex, LoadedIndex
  <2>2. QED
    BY <2>1 DEF PendingInv
<1>10. CASE UNCHANGED vars
  BY <1>10 DEF vars, PendingInv, memory, checkpts, handler
<1>11. QED
  BY <1>1, <1>2, <1>3, <1>4, <1>5, <1>6, <1>7, <1>8, <1>9, <1>10 DEF Next, HandlerStep

(***************************************************************************)
(* When blocks can be read and the loop over the postponed blocks is never *)
(* broken, no AcceptBlock and no ProcessSyncCheckpoint ends with a pending *)
(* checkpoint whose block has arrived on a branch that connects, whatever  *)
(* the order of blocks, checkpoints and restarts.                          *)
(***************************************************************************)
THEOREM PendingCheckpointAlwaysTaken ==
    IOErrors = FALSE => (Spec /\ NeverBroken => []PendingCheckpointTaken)
<1> SUFFICES ASSUME IOErrors = FALSE PROVE Spec /\ NeverBroken => []PendingCheckpointTaken
  OBVIOUS
<1>1. Init => PendingInv
  BY TreeAssumption DEF Init, PendingInv
<1>2. PendingInv => PendingCheckpointTaken
  BY DEF PendingInv, PendingCheckpointTaken
<1>3. QED
  BY <1>1, <1>2, PendingInvStep, CheckpointInvInit, CheckpointInvStep, TypeCorrect,
     LinkInvInit, LinkInvStep, PTL
     DEF Spec, NeverBroken

-----------------------------------------------------------------------------
(***************************************************************************)
(* The heaviest branch, before the first checkpoint and the first restart. *)
(* A valid branch heavier than pindexBest is the one SetBestChain is       *)
(* working on.  A checkpoint may make a lighter branch the best one, but   *)
(* then it is on its way to be written, and it is not the genesis block.   *)
(***************************************************************************)
EnforcesLighter == pc = "write" \/ (pc = "secondary" /\ caller \in {"pending", "process"})

HeavyInv ==
    /\ nCrashes = 0 => caller # "load"
    /\ EnforcingCheckpoint => pindexNew # GenesisBlock
    /\ nCrashes = 0 /\ hashSyncCheckpoint = GenesisBlock /\ ~EnforcesLighter
       => \A b \in mapBlockIndex :
             Chain[b] \subseteq Connects /\ nChainTrust[b] > nChainTrust[pindexBest]
             => pc \in {"set", "secondary"} /\ caller = "accept" /\ b = pindexNew

\* A checkpoint that is accepted is above the current one, so it is not the genesis block.
LEMMA ValidIsAboveGenesis ==
    ASSUME TypeOK, NEW c \in Blocks, ValidateSyncCheckpoint(c)
    PROVE  c # GenesisBlock
<1>1. nHeight[c] \in Nat /\ nHeight[hashSyncCheckpoint] \in Nat /\ nHeight[GenesisBlock] = 0
  BY TreeAssumption DEF TypeOK
<1>2. QED
  BY <1>1 DEF ValidateSyncCheckpoint

\* Every step keeps it, when blocks can be read and the loop is not broken.
LEMMA HeavyInvStep ==
    ASSUME IOErrors = FALSE
    PROVE  CheckpointInv /\ LinkInv /\ BestInv /\ HeavyInv /\ [Next]_vars => HeavyInv'
<1> SUFFICES ASSUME CheckpointInv, LinkInv, BestInv, HeavyInv, [Next]_vars PROVE HeavyInv'
  OBVIOUS
<1>0. TypeOK
  BY DEF CheckpointInv
<1>t. \A b \in Blocks : nChainTrust[b] \in Nat
  BY TreeAssumption
<1> USE DEF EnforcesLighter, EnforcingCheckpoint
<1>1. ASSUME NEW b \in Blocks, AcceptBlock(b) PROVE HeavyInv'
  BY <1>1 DEF AcceptBlock, HeavyInv, HeavierThanBest, checkpts
<1>2. ASSUME NEW c \in MasterCheckpoints, ProcessSyncCheckpoint(c) PROVE HeavyInv'
  <2>1. ValidateSyncCheckpoint(c) => c # GenesisBlock
    BY <1>0, ValidIsAboveGenesis, ParameterAssumption
  <2>2. QED
    BY <1>2, <2>1 DEF ProcessSyncCheckpoint, KeepAsPending, IgnoreCheckpoint, AcceptCheckpoint,
                      EnforceCheckpoint, HeavyInv, memory, checkpts, disk, handler
<1>3. CASE ExtendBest \/ NewBest
  <2>1. /\ pc \in {"set", "secondary"} /\ pindexBest' = pindexNew
        /\ pc' = [accept |-> "pending", load |-> "idle",
                  pending |-> "write", process |-> "write"][caller]
        /\ UNCHANGED <<mapBlockIndex, hashSyncCheckpoint, caller, pindexNew, nCrashes>>
    BY <1>3 DEF ExtendBest, NewBest, ReturnTrue
  <2>2. pc' \in {"idle", "pending", "write"} /\ (pc' = "pending" <=> caller = "accept")
        /\ (pc' = "idle" <=> caller = "load")
    BY <1>0, <2>1 DEF TypeOK, Callers
  <2>3. /\ nCrashes' = 0 => caller' # "load"
        /\ EnforcingCheckpoint' => pindexNew' # GenesisBlock
    BY <1>0, <2>1, <2>2 DEF HeavyInv, TypeOK, Callers
  <2>4. ASSUME nCrashes' = 0, hashSyncCheckpoint' = GenesisBlock, ~EnforcesLighter',
               NEW b \in mapBlockIndex', Chain[b] \subseteq Connects
        PROVE  ~(nChainTrust[b] > nChainTrust[pindexBest'])
    <3>1. caller = "accept" /\ b \in mapBlockIndex /\ b \in Blocks /\ pindexNew \in Blocks
          /\ pindexBest \in Blocks
      BY <1>0, <2>1, <2>2, <2>4 DEF HeavyInv, TypeOK
    <3>2. nChainTrust[pindexNew] > nChainTrust[pindexBest]
      BY <2>1, <3>1 DEF BestInv, HeavierThanBest
    <3>3. b = pindexNew \/ ~(nChainTrust[b] > nChainTrust[pindexBest])
      BY <2>1, <2>4, <3>1 DEF HeavyInv
    <3>4. QED
      BY <1>t, <2>1, <3>1, <3>2, <3>3
  <2>5. QED
    BY <2>3, <2>4 DEF HeavyInv
<1>4. CASE ExtendBestFails \/ ReorganizeFails
  <2>1. ~(Chain[pindexNew] \subseteq Connects)
    BY <1>0, <1>4, RefusedIsInvalid
  <2>2. /\ pc = "set" /\ pc' = "idle"
        /\ UNCHANGED <<mapBlockIndex, pindexBest, hashSyncCheckpoint, caller, pindexNew, nCrashes>>
    BY <1>4 DEF ExtendBestFails, ReorganizeFails, ReturnFalse, memory
  <2>3. QED
    BY <2>1, <2>2 DEF HeavyInv
<1>5. CASE Reorganize \/ ConnectSecondary \/ BreakSecondary
  <2>1. /\ pc \in {"set", "secondary"} /\ pc' = "secondary"
        /\ UNCHANGED <<mapBlockIndex, pindexBest, hashSyncCheckpoint, caller, pindexNew, nCrashes>>
    BY <1>5 DEF Reorganize, ConnectSecondary, BreakSecondary, memory, checkpts
  <2>2. QED
    BY <2>1 DEF HeavyInv
<1>6. CASE NoPending \/ RejectPending
  BY <1>6 DEF NoPending, RejectPending, HeavyInv, memory, checkpts
<1>7. CASE AcceptPending
  <2>1. hashPendingCheckpoint # GenesisBlock
    BY <1>0, <1>7, ValidIsAboveGenesis DEF AcceptPending, PendingArrived, TypeOK
  <2>2. QED
    BY <1>7, <2>1 DEF AcceptPending, EnforceCheckpoint, HeavyInv, memory, checkpts
<1>8. CASE WriteSyncCheckpoint
  BY <1>8 DEF WriteSyncCheckpoint, HeavyInv, memory
<1>9. CASE Restart \/ RestartDamaged
  BY <1>0, <1>9 DEF Restart, RestartDamaged, LoadBlockIndex, HeavyInv, TypeOK
<1>10. CASE UNCHANGED vars
  BY <1>10 DEF vars, HeavyInv, memory, checkpts, handler
<1>11. QED
  BY <1>1, <1>2, <1>3, <1>4, <1>5, <1>6, <1>7, <1>8, <1>9, <1>10 DEF Next, HandlerStep

(***************************************************************************)
(* Until a checkpoint is enforced and as long as the node is not killed,   *)
(* AddToBlockIndex and SetBestChain end with the heaviest branch whose     *)
(* blocks all connect, in whatever order the blocks arrived and however    *)
(* many of them do not connect.  Blocks can be read and the loop over the  *)
(* postponed blocks is never broken.                                       *)
(***************************************************************************)
THEOREM AlwaysHeaviestValidChain ==
    IOErrors = FALSE => (Spec /\ NeverBroken => []HeaviestValidChain)
<1> SUFFICES ASSUME IOErrors = FALSE PROVE Spec /\ NeverBroken => []HeaviestValidChain
  OBVIOUS
<1>1. Init => HeavyInv
  BY TreeAssumption DEF Init, HeavyInv, EnforcesLighter, EnforcingCheckpoint
<1>2. TypeOK /\ HeavyInv => HeaviestValidChain
  BY TreeAssumption DEF HeavyInv, EnforcesLighter, HeaviestValidChain, TypeOK
<1>3. QED
  BY <1>1, <1>2, HeavyInvStep, BestInvInit, BestInvStep, CheckpointInvInit, CheckpointInvStep,
     TypeCorrect, LinkInvInit, LinkInvStep, PTL
     DEF Spec, NeverBroken

=============================================================================
