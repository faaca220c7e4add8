---------------------------- MODULE MCBestChain ----------------------------
(***************************************************************************)
(* Instances of BestChain.  The tree has three branches that overtake each *)
(* other: a1 a2 a3, b1 b2 b3 b4 and c2, a child of b1.                     *)
(***************************************************************************)
EXTENDS BestChain, TLC

MCBlocks == {"g", "a1", "a2", "a3", "b1", "b2", "b3", "b4", "c2"}

MCpprev ==
    "g" :> NULL @@ "a1" :> "g" @@ "a2" :> "a1" @@ "a3" :> "a2"
    @@ "b1" :> "g" @@ "b2" :> "b1" @@ "b3" :> "b2" @@ "b4" :> "b3" @@ "c2" :> "b1"

MCnHeight ==
    "g" :> 0 @@ "a1" :> 1 @@ "a2" :> 2 @@ "a3" :> 3
    @@ "b1" :> 1 @@ "b2" :> 2 @@ "b3" :> 3 @@ "b4" :> 4 @@ "c2" :> 2

MCnChainTrust ==
    "g" :> 1 @@ "a1" :> 4 @@ "a2" :> 6 @@ "a3" :> 9
    @@ "b1" :> 2 @@ "b2" :> 5 @@ "b3" :> 8 @@ "b4" :> 10 @@ "c2" :> 7

SomeRefused   == MCBlocks \ {"a2", "c2"}
TipRefused    == MCBlocks \ {"b3"}
TwoBranches   == {"a1", "b1", "b2"}
FaultCheckpoints == {"a1", "b2"}

=============================================================================
