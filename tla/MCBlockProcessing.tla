------------------------- MODULE MCBlockProcessing -------------------------
(***************************************************************************)
(* Instances of BlockProcessing: the branches a1 a2 and b1 b2 b3, where b1 *)
(* and b2 use the stakes of a1 and a2 again; the branch c1 c2, where c2    *)
(* has the stake of a2 too and is not acceptable; and the branch d1 d2 d3, *)
(* where d1 does not connect: it is refused if it arrives as the heaviest  *)
(* block, and only indexed if it does not.                                 *)
(***************************************************************************)
EXTENDS BlockProcessing, TLC

MCpprev ==
    "g" :> NULL @@ "a1" :> "g" @@ "a2" :> "a1"
    @@ "b1" :> "g" @@ "b2" :> "b1" @@ "b3" :> "b2" @@ "c1" :> "g" @@ "c2" :> "c1"
    @@ "d1" :> "g" @@ "d2" :> "d1" @@ "d3" :> "d2"

MCBlocks == DOMAIN MCpprev

MCnHeight ==
    "g" :> 0 @@ "a1" :> 1 @@ "a2" :> 2
    @@ "b1" :> 1 @@ "b2" :> 2 @@ "b3" :> 3 @@ "c1" :> 1 @@ "c2" :> 2
    @@ "d1" :> 1 @@ "d2" :> 2 @@ "d3" :> 3

MCnChainTrust ==
    "g" :> 1 @@ "a1" :> 3 @@ "a2" :> 5
    @@ "b1" :> 2 @@ "b2" :> 4 @@ "b3" :> 7 @@ "c1" :> 2 @@ "c2" :> 6
    @@ "d1" :> 4 @@ "d2" :> 6 @@ "d3" :> 8

MCstake ==
    "g" :> NULL @@ "a1" :> "s1" @@ "a2" :> "s2"
    @@ "b1" :> "s1" @@ "b2" :> "s2" @@ "b3" :> NULL @@ "c1" :> NULL @@ "c2" :> "s2"
    @@ "d1" :> NULL @@ "d2" :> "s1" @@ "d3" :> NULL

NotC2 == MCBlocks \ {"c2"}

NotD1 == MCBlocks \ {"d1"}

=============================================================================
