------------------------------ MODULE MCLedger ------------------------------
(***************************************************************************)
(* Instances of TxRelay.  After the first block s, the branches a1 a2 and  *)
(* b1 b2 overtake each other at every block.                               *)
(***************************************************************************)
EXTENDS TxRelay

MCpprev ==
    "g" :> NULL @@ "s" :> "g" @@ "a1" :> "s" @@ "a2" :> "a1" @@ "ax" :> "a1"
    @@ "b1" :> "s" @@ "b2" :> "b1" @@ "bx" :> "b2"

MCBlocks == DOMAIN MCpprev

MCnHeight ==
    "g" :> 0 @@ "s" :> 1 @@ "a1" :> 2 @@ "a2" :> 3 @@ "ax" :> 3
    @@ "b1" :> 2 @@ "b2" :> 3 @@ "bx" :> 4

MCnChainTrust ==
    "g" :> 1 @@ "s" :> 2 @@ "a1" :> 4 @@ "a2" :> 7 @@ "ax" :> 8
    @@ "b1" :> 3 @@ "b2" :> 6 @@ "bx" :> 9

(***************************************************************************)
(* pay and steal spend the same coin, one on each branch; change spends an *)
(* output of pay in the same block; third is loose and spends both; burn   *)
(* is in both branches.  The coinbase of ax takes too much, and bx spends  *)
(* again what steal has spent.                                             *)
(***************************************************************************)
MCvtx ==
    "g" :> <<>> @@ "s" :> <<"cs">>
    @@ "a1" :> <<"ca1", "pay", "change">> @@ "a2" :> <<"ca2", "burn">>
    @@ "ax" :> <<"cax">>
    @@ "b1" :> <<"cb1", "steal">> @@ "b2" :> <<"cb2", "stake", "burn">>
    @@ "bx" :> <<"cbx", "pay">>

MCTxs        == UNION {ToSet(MCvtx[b]) : b \in MCBlocks} \cup {"third"}
MCCoinBases  == {"cs", "ca1", "ca2", "cax", "cb1", "cb2", "cbx"}
MCCoinStakes == {"stake"}

MCvin ==
    "pay" :> {<<"cs", 1>>} @@ "steal" :> {<<"cs", 1>>} @@ "change" :> {<<"pay", 1>>}
    @@ "third" :> {<<"change", 1>>, <<"pay", 2>>} @@ "burn" :> {<<"cs", 2>>}
    @@ "stake" :> {<<"cb1", 1>>}
    @@ [t \in MCCoinBases |-> {}]

MCvout ==
    "cs" :> <<3, 3>> @@ "pay" :> <<1, 1>> @@ "steal" :> <<3>> @@ "change" :> <<1>>
    @@ "burn" :> <<1>> @@ "third" :> <<1>> @@ "ca1" :> <<7>> @@ "cax" :> <<9>>
    @@ "cb1" :> <<2>> @@ "cb2" :> <<0>> @@ "stake" :> <<0, 4>>
    @@ [t \in MCCoinBases |-> <<1>>]

MCHashOrder == <<"cs", "ca1", "ca2", "cax", "cb1", "cb2", "cbx",
                 "third", "burn", "change", "pay", "stake", "steal">>
Loose       == {"pay", "steal", "change", "third", "burn"}
Foreign     == {"pay", "change", "third"}

=============================================================================
