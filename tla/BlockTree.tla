----------------------------- MODULE BlockTree -----------------------------
(***************************************************************************)
(* The tree of blocks a node can ever hear of, as the fields of            *)
(* CBlockIndex that do not change once a block is indexed: pprev, nHeight  *)
(* and nChainTrust (main.h).  A block is an opaque value; what it contains *)
(* is in the modules that need it.                                         *)
(***************************************************************************)
EXTENDS Integers

CONSTANTS
    Blocks,         \* every block the node may receive
    GenesisBlock,   \* hashGenesisBlock, the root of the tree
    NULL,           \* the null pointer and the zero hash
    pprev,          \* CBlockIndex::pprev
    nHeight,        \* CBlockIndex::nHeight
    nChainTrust     \* CBlockIndex::nChainTrust

(***************************************************************************)
(* AddToBlockIndex gives a block the height of its parent plus one and the *)
(* trust of its parent plus GetBlockTrust(), which is at least one.        *)
(***************************************************************************)
ASSUME TreeAssumption ==
    /\ GenesisBlock \in Blocks
    /\ NULL \notin Blocks
    /\ pprev \in [Blocks -> Blocks \cup {NULL}]
    /\ nHeight \in [Blocks -> Nat]
    /\ nChainTrust \in [Blocks -> Nat]
    /\ pprev[GenesisBlock] = NULL
    /\ nHeight[GenesisBlock] = 0
    /\ \A b \in Blocks \ {GenesisBlock} :
          /\ pprev[b] \in Blocks
          /\ nHeight[b] = nHeight[pprev[b]] + 1
          /\ nChainTrust[b] > nChainTrust[pprev[b]]

BlockOrNull == Blocks \cup {NULL}

(***************************************************************************)
(* A set of blocks that a walk along pprev never leaves.                   *)
(***************************************************************************)
ClosedUnderPrev(S) == \A x \in S : x # GenesisBlock => pprev[x] \in S

(***************************************************************************)
(* Chain[b]: the blocks a walk along pprev from b visits, b included.  It  *)
(* is the least set that holds b and is closed under pprev, so the facts   *)
(* about it are proved without an induction over the tree.                 *)
(***************************************************************************)
Chain ==
    [b \in Blocks |->
        {c \in Blocks :
            \A S \in SUBSET Blocks : b \in S /\ ClosedUnderPrev(S) => c \in S}]

\* The block at which the chains of b and c part.
Fork ==
    [b \in Blocks |-> [c \in Blocks |->
        CHOOSE d \in Chain[b] \cap Chain[c] :
            \A x \in Chain[b] \cap Chain[c] : nHeight[x] <= nHeight[d]]]

\* The blocks of b's chain from a height upwards.
AtHeight(b, h) == CHOOSE c \in Chain[b] : nHeight[c] = h

UpFrom ==
    [b \in Blocks |-> [h \in 0..(nHeight[b] + 1) |->
        [i \in 1..(nHeight[b] - h + 1) |-> AtHeight(b, h + i - 1)]]]

\* The blocks of b's chain above the fork with c, upwards.
Branch(b, c) == UpFrom[b][nHeight[Fork[b][c]] + 1]

=============================================================================
