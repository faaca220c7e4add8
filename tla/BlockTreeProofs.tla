-------------------------- MODULE BlockTreeProofs --------------------------
(***************************************************************************)
(* Facts about the chains of a block tree, for every tree that satisfies   *)
(* TreeAssumption.                                                         *)
(***************************************************************************)
EXTENDS BlockTree, TLAPS, NaturalsInduction, WellFoundedInduction

\* The chain of b holds b and is closed under pprev.
LEMMA ChainClosed ==
    ASSUME NEW b \in Blocks
    PROVE  /\ Chain[b] \subseteq Blocks
           /\ b \in Chain[b]
           /\ ClosedUnderPrev(Chain[b])
<1>1. Chain[b] \subseteq Blocks /\ b \in Chain[b]
  BY DEF Chain
<1>2. ASSUME NEW x \in Chain[b], x # GenesisBlock
      PROVE  pprev[x] \in Chain[b]
  <2>1. x \in Blocks /\ pprev[x] \in Blocks
    BY <1>1, <1>2, TreeAssumption
  <2>2. \A S \in SUBSET Blocks : b \in S /\ ClosedUnderPrev(S) => pprev[x] \in S
    BY <1>2, <2>1 DEF Chain, ClosedUnderPrev
  <2>3. QED
    BY <2>1, <2>2 DEF Chain
<1>3. QED
  BY <1>1, <1>2 DEF ClosedUnderPrev

\* The chain of b is within every closed set that holds b.
LEMMA ChainLeast ==
    ASSUME NEW b \in Blocks, NEW S \in SUBSET Blocks,
           b \in S, ClosedUnderPrev(S)
    PROVE  Chain[b] \subseteq S
  BY DEF Chain

\* A block on the chain of b has its own chain within the chain of b.
LEMMA ChainTransitive ==
    ASSUME NEW b \in Blocks, NEW c \in Chain[b]
    PROVE  c \in Blocks /\ Chain[c] \subseteq Chain[b]
<1>1. c \in Blocks /\ Chain[b] \in SUBSET Blocks /\ ClosedUnderPrev(Chain[b])
  BY ChainClosed
<1>2. QED
  BY <1>1, ChainLeast

\* The genesis block is alone on its chain.
LEMMA ChainGenesis == Chain[GenesisBlock] = {GenesisBlock}
<1>1. GenesisBlock \in Blocks
  BY TreeAssumption
<1>2. ClosedUnderPrev({GenesisBlock})
  BY DEF ClosedUnderPrev
<1>3. Chain[GenesisBlock] \subseteq {GenesisBlock}
  BY <1>1, <1>2, ChainLeast
<1>4. QED
  BY <1>1, <1>3, ChainClosed

\* The chain of another block is the block and the chain of its parent.
LEMMA ChainStep ==
    ASSUME NEW b \in Blocks, b # GenesisBlock
    PROVE  /\ pprev[b] \in Blocks
           /\ Chain[b] = Chain[pprev[b]] \cup {b}
<1> DEFINE S == Chain[pprev[b]] \cup {b}
<1>1. pprev[b] \in Blocks
  BY TreeAssumption
<1>2. S \in SUBSET Blocks /\ b \in S /\ ClosedUnderPrev(S)
  BY <1>1, ChainClosed DEF ClosedUnderPrev
<1>3. Chain[b] \subseteq S
  BY <1>2, ChainLeast
<1>4. b \in Chain[b] /\ pprev[b] \in Chain[b]
  BY ChainClosed DEF ClosedUnderPrev
<1>5. Chain[pprev[b]] \subseteq Chain[b]
  BY <1>4, ChainTransitive
<1>6. QED
  BY <1>1, <1>3, <1>4, <1>5

\* Every other block on the chain of b is lower than b and has less trust.
LEMMA ChainBelow ==
    ASSUME NEW b \in Blocks, NEW c \in Chain[b], c # b
    PROVE  nHeight[c] < nHeight[b] /\ nChainTrust[c] < nChainTrust[b]
<1> DEFINE S == {x \in Blocks : x = b \/ (nHeight[x] < nHeight[b] /\ nChainTrust[x] < nChainTrust[b])}
<1>1. ASSUME NEW x \in S, x # GenesisBlock
      PROVE  pprev[x] \in S
  <2>1. /\ x \in Blocks /\ pprev[x] \in Blocks
        /\ nHeight[x] \in Nat /\ nHeight[pprev[x]] \in Nat /\ nHeight[b] \in Nat
        /\ nChainTrust[x] \in Nat /\ nChainTrust[pprev[x]] \in Nat /\ nChainTrust[b] \in Nat
        /\ nHeight[x] = nHeight[pprev[x]] + 1
        /\ nChainTrust[x] > nChainTrust[pprev[x]]
    BY <1>1, TreeAssumption
  <2>2. nHeight[pprev[x]] < nHeight[b] /\ nChainTrust[pprev[x]] < nChainTrust[b]
    BY <1>1, <2>1
  <2>3. QED
    BY <2>1, <2>2
<1>2. S \in SUBSET Blocks /\ b \in S /\ ClosedUnderPrev(S)
  BY <1>1 DEF ClosedUnderPrev
<1>3. Chain[b] \subseteq S
  BY <1>2, ChainLeast
<1>4. QED
  BY <1>3

\* Two blocks of one chain: one of them is on the chain of the other.
LEMMA ChainLinear ==
    ASSUME NEW b \in Blocks, NEW c \in Chain[b], NEW d \in Chain[b]
    PROVE  c \in Chain[d] \/ d \in Chain[c]
<1> DEFINE S == {x \in Chain[b] : x \in Chain[d] \/ d \in Chain[x]}
<1>1. Chain[b] \subseteq Blocks /\ b \in Chain[b] /\ ClosedUnderPrev(Chain[b])
  BY ChainClosed
<1>2. d \in Blocks
  BY <1>1
<1>3. ASSUME NEW x \in S, x # GenesisBlock
      PROVE  pprev[x] \in S
  <2>1. x \in Blocks /\ pprev[x] \in Chain[b]
    BY <1>1, <1>3 DEF ClosedUnderPrev
  <2>2. CASE x \in Chain[d]
    BY <1>2, <1>3, <2>1, <2>2, ChainClosed DEF ClosedUnderPrev
  <2>3. CASE d \in Chain[x] /\ d # x
    BY <1>3, <2>1, <2>3, ChainStep
  <2>4. CASE d = x
    BY <1>2, <1>3, <2>1, <2>4, ChainClosed DEF ClosedUnderPrev
  <2>5. QED
    BY <1>3, <2>2, <2>3, <2>4
<1>4. S \in SUBSET Blocks /\ b \in S /\ ClosedUnderPrev(S)
  BY <1>1, <1>3 DEF ClosedUnderPrev
<1>5. Chain[b] \subseteq S
  BY <1>4, ChainLeast
<1>6. QED
  BY <1>5

\* A chain holds at most one child of a block.
LEMMA ChainUniqueChild ==
    ASSUME NEW b \in Blocks, NEW c \in Chain[b], NEW d \in Chain[b],
           pprev[c] = pprev[d], pprev[c] # NULL
    PROVE  c = d
<1>1. c \in Blocks /\ d \in Blocks
  BY ChainClosed
<1>2. c # GenesisBlock /\ d # GenesisBlock
  BY TreeAssumption
<1>3. nHeight[c] = nHeight[d] /\ nHeight[c] \in Nat
  BY <1>1, <1>2, TreeAssumption
<1>4. c \in Chain[d] \/ d \in Chain[c]
  BY ChainLinear
<1>5. CASE c \in Chain[d]
  BY <1>1, <1>3, <1>5, ChainBelow
<1>6. CASE d \in Chain[c]
  BY <1>1, <1>3, <1>6, ChainBelow
<1>7. QED
  BY <1>4, <1>5, <1>6

\* Every block of a chain but the last has a child on the chain.
LEMMA ChainHasChild ==
    ASSUME NEW b \in Blocks, NEW c \in Chain[b], c # b
    PROVE  \E d \in Chain[b] : d # GenesisBlock /\ pprev[d] = c
<1> DEFINE S == {x \in Chain[b] : x = b \/ \E d \in Chain[b] : d # GenesisBlock /\ pprev[d] = x}
<1>1. Chain[b] \subseteq Blocks /\ b \in Chain[b] /\ ClosedUnderPrev(Chain[b])
  BY ChainClosed
<1>2. S \in SUBSET Blocks /\ b \in S /\ ClosedUnderPrev(S)
  BY <1>1 DEF ClosedUnderPrev
<1>3. Chain[b] \subseteq S
  BY <1>2, ChainLeast
<1>4. QED
  BY <1>3

-----------------------------------------------------------------------------
(***************************************************************************)
(* Branches of the tree of blocks, which need not be finite.               *)
(***************************************************************************)
\* Of the values of a function to Nat one is the least.
LEMMA LeastOf ==
    ASSUME NEW S, S # {}, NEW f \in [S -> Nat]
    PROVE  \E x \in S : \A y \in S : f[x] <= f[y]
<1> DEFINE R == {p \in Nat \X Nat : p[1] < p[2]}
           M == {f[x] : x \in S}
<1>1. R = OpToRel(<, Nat)
  BY Zenon DEF OpToRel
<1>2. IsWellFoundedOn(R, Nat)
  BY <1>1, NatLessThanWellFounded, Zenon
<1>3. M \subseteq Nat /\ M # {}
  OBVIOUS
<1> HIDE DEF R
<1>4. PICK m \in M : \A y \in M : ~(<<y, m>> \in R)
  BY <1>2, <1>3, WFMin, Zenon
<1>5. \A y \in M : m <= y
  <2> SUFFICES ASSUME NEW y \in M, y < m PROVE FALSE
    BY <1>3
  <2>1. <<y, m>> \in R
    BY <1>3 DEF R
  <2>2. QED
    BY <1>4, <2>1
<1>6. QED
  BY <1>5

\* Every height up to that of b has a block on the chain of b.
LEMMA HeightOnChain ==
    ASSUME NEW b \in Blocks, NEW h \in 0..nHeight[b]
    PROVE  AtHeight(b, h) \in Chain[b] /\ nHeight[AtHeight(b, h)] = h
<1> DEFINE S == {c \in Chain[b] : nHeight[c] >= h}
           f == [c \in S |-> nHeight[c]]
<1>1. /\ Chain[b] \subseteq Blocks /\ b \in Chain[b] /\ ClosedUnderPrev(Chain[b])
      /\ nHeight \in [Blocks -> Nat]
  BY ChainClosed, TreeAssumption
<1>2. S # {} /\ f \in [S -> Nat]
  BY <1>1
<1>3. PICK c \in S : \A y \in S : nHeight[c] <= nHeight[y]
  <2>1. \E x \in S : \A y \in S : f[x] <= f[y]
    <3> HIDE DEF S, f
    <3>1. QED
      BY <1>2, LeastOf
  <2>2. QED
    BY <2>1
<1>4. nHeight[c] = h
  <2> SUFFICES ASSUME nHeight[c] > h PROVE FALSE
    BY <1>1
  <2>1. c \in Blocks /\ c # GenesisBlock
    BY <1>1, TreeAssumption
  <2>2. pprev[c] \in Chain[b] /\ nHeight[c] = nHeight[pprev[c]] + 1 /\ pprev[c] \in Blocks
    BY <1>1, <2>1, TreeAssumption DEF ClosedUnderPrev
  <2>3. nHeight[pprev[c]] \in Nat /\ nHeight[c] \in Nat
    BY <1>1, <2>1, <2>2
  <2>4. pprev[c] \in S
    BY <2>2, <2>3
  <2>5. QED
    BY <1>3, <2>2, <2>3, <2>4
<1>5. \E x \in Chain[b] : nHeight[x] = h
  BY <1>4
<1>6. QED
  BY <1>5 DEF AtHeight

\* Every chain goes back to the genesis block.
LEMMA GenesisOnChain ==
    ASSUME NEW b \in Blocks
    PROVE  GenesisBlock \in Chain[b]
<1> DEFINE y == AtHeight(b, 0)
<1>1. y \in Chain[b] /\ nHeight[y] = 0 /\ y \in Blocks
  BY HeightOnChain, ChainClosed, TreeAssumption
<1> HIDE DEF y
<1>2. y = GenesisBlock
  <2> SUFFICES ASSUME y # GenesisBlock PROVE FALSE
    OBVIOUS
  <2>1. pprev[y] \in Blocks /\ nHeight[y] = nHeight[pprev[y]] + 1
    BY <1>1, TreeAssumption
  <2>2. QED
    BY <1>1, <2>1, TreeAssumption
<1>3. QED
  BY <1>1, <1>2

\* The chains of two blocks part at a block of both, and have no higher one in common.
LEMMA ForkOnChains ==
    ASSUME NEW b \in Blocks, NEW c \in Blocks
    PROVE  /\ Fork[b][c] \in Chain[b] /\ Fork[b][c] \in Chain[c]
           /\ \A x \in Chain[b] \cap Chain[c] : nHeight[x] <= nHeight[Fork[b][c]]
<1> DEFINE S == Chain[b] \cap Chain[c]
           f == [x \in S |-> nHeight[b] - nHeight[x]]
<1>1. Chain[b] \subseteq Blocks /\ nHeight \in [Blocks -> Nat]
  BY ChainClosed, TreeAssumption
<1>3. GenesisBlock \in S
  BY GenesisOnChain
<1>4. ASSUME NEW x \in S PROVE nHeight[b] - nHeight[x] \in Nat
  <2>1. x \in Blocks /\ nHeight[x] \in Nat /\ nHeight[b] \in Nat
    BY <1>1
  <2>2. x = b \/ nHeight[x] < nHeight[b]
    BY ChainBelow
  <2>3. QED
    BY <2>1, <2>2
<1>5. S # {} /\ f \in [S -> Nat]
  BY <1>3, <1>4
<1>6. PICK d \in S : \A x \in S : nHeight[b] - nHeight[d] <= nHeight[b] - nHeight[x]
  <2>1. \E x \in S : \A y \in S : f[x] <= f[y]
    <3> HIDE DEF S, f
    <3>1. QED
      BY <1>5, LeastOf
  <2>2. QED
    BY <2>1
<1>7. \A x \in S : nHeight[x] <= nHeight[d]
  <2> TAKE x \in S
  <2>1. nHeight[b] \in Nat /\ nHeight[x] \in Nat /\ nHeight[d] \in Nat
    BY <1>1
  <2>2. QED
    BY <1>6, <2>1
<1>8. Fork[b][c] = CHOOSE y \in S : \A x \in S : nHeight[x] <= nHeight[y]
  BY DEF Fork
<1> HIDE DEF S
<1>9. Fork[b][c] \in S /\ \A x \in S : nHeight[x] <= nHeight[Fork[b][c]]
  BY <1>7, <1>8
<1>10. QED
  BY <1>9 DEF S

\* A block of the chain of b is the one at its height.
LEMMA AtHeightIs ==
    ASSUME NEW b \in Blocks, NEW c \in Chain[b]
    PROVE  AtHeight(b, nHeight[c]) = c /\ nHeight[c] \in 0..nHeight[b]
<1>1. c \in Blocks /\ b \in Chain[b] /\ nHeight[c] \in Nat /\ nHeight[b] \in Nat
  BY ChainClosed, TreeAssumption
<1>2. nHeight[c] \in 0..nHeight[b]
  BY <1>1, ChainBelow
<1> DEFINE d == AtHeight(b, nHeight[c])
<1>3. d \in Chain[b] /\ nHeight[d] = nHeight[c] /\ d \in Blocks
  BY <1>2, HeightOnChain, ChainClosed
<1> HIDE DEF d
<1>4. c \in Chain[d] \/ d \in Chain[c]
  BY <1>3, ChainLinear
<1>5. c = d
  BY <1>1, <1>3, <1>4, ChainBelow
<1>6. QED
  BY <1>2, <1>5 DEF d

\* The parent of a block of the chain is the block one height below.
LEMMA AtHeightPrev ==
    ASSUME NEW b \in Blocks, NEW h \in 1..nHeight[b]
    PROVE  /\ AtHeight(b, h) \in Blocks \ {GenesisBlock}
           /\ pprev[AtHeight(b, h)] = AtHeight(b, h - 1)
<1> DEFINE c == AtHeight(b, h)
<1>0. nHeight[b] \in Nat
  BY TreeAssumption
<1>1. c \in Chain[b] /\ nHeight[c] = h /\ c \in Blocks
  BY <1>0, HeightOnChain, ChainClosed
<1> HIDE DEF c
<1>2. c # GenesisBlock
  BY <1>1, TreeAssumption
<1>3. pprev[c] \in Chain[b] /\ pprev[c] \in Blocks /\ nHeight[c] = nHeight[pprev[c]] + 1
  BY <1>1, <1>2, ChainClosed, TreeAssumption DEF ClosedUnderPrev
<1>4. nHeight[pprev[c]] = h - 1
  BY <1>1, <1>3, TreeAssumption
<1>5. AtHeight(b, h - 1) = pprev[c]
  BY <1>3, <1>4, AtHeightIs
<1>6. QED
  BY <1>1, <1>2, <1>5 DEF c

\* In every set of blocks there is one whose parent is not in the set.
LEMMA LowestExists ==
    ASSUME NEW S \in SUBSET Blocks, S # {}
    PROVE  \E y \in S : pprev[y] \notin S
<1> DEFINE f == [x \in S |-> nHeight[x]]
<1>1. nHeight \in [Blocks -> Nat] /\ f \in [S -> Nat]
  BY TreeAssumption
<1>2. PICK c \in S : \A y \in S : nHeight[c] <= nHeight[y]
  <2>1. \E x \in S : \A y \in S : f[x] <= f[y]
    <3> HIDE DEF f
    <3>1. QED
      BY <1>1, LeastOf
  <2>2. QED
    BY <2>1
<1>3. pprev[c] \notin S
  <2> SUFFICES ASSUME pprev[c] \in S PROVE FALSE
    OBVIOUS
  <2>1. c \in Blocks /\ c # GenesisBlock /\ pprev[c] \in Blocks
    BY TreeAssumption
  <2>2. nHeight[c] = nHeight[pprev[c]] + 1 /\ nHeight[pprev[c]] \in Nat
    BY <2>1, TreeAssumption
  <2>3. QED
    BY <1>2, <2>2
<1>4. QED
  BY <1>3

\* The chain of b has a first block that is heavier than c, b itself if no other is.
LEMMA FirstHeavierExists ==
    ASSUME NEW b \in Blocks, NEW c \in Blocks
    PROVE  \E x \in Chain[b] :
              /\ x # b => nChainTrust[x] > nChainTrust[c]
              /\ x # GenesisBlock => nChainTrust[pprev[x]] <= nChainTrust[c]
<1> DEFINE S == {x \in Chain[b] : x = b \/ nChainTrust[x] > nChainTrust[c]}
<1>1. /\ Chain[b] \subseteq Blocks /\ b \in Chain[b] /\ ClosedUnderPrev(Chain[b])
      /\ nHeight \in [Blocks -> Nat] /\ nChainTrust \in [Blocks -> Nat]
  BY ChainClosed, TreeAssumption
<1>2. S # {} /\ S \subseteq Blocks
  BY <1>1
<1>3. PICK x \in S : pprev[x] \notin S
  <2> HIDE DEF S
  <2>1. QED
    BY <1>2, LowestExists
<1>4. x # GenesisBlock => nChainTrust[pprev[x]] <= nChainTrust[c]
  <2> SUFFICES ASSUME x # GenesisBlock PROVE nChainTrust[pprev[x]] <= nChainTrust[c]
    OBVIOUS
  <2>1. x \in Blocks /\ pprev[x] \in Chain[b] /\ pprev[x] \in Blocks
    BY <1>1 DEF ClosedUnderPrev
  <2>2. QED
    BY <1>1, <1>3, <2>1
<1>5. QED
  BY <1>4

=============================================================================
