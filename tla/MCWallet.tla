------------------------------ MODULE MCWallet ------------------------------
(***************************************************************************)
(* An instance of Wallet.  After the first block s, whose coins are the    *)
(* wallet's, the branches a1 and b1 b2 b3 overtake each other.             *)
(***************************************************************************)
EXTENDS Wallet

MCpprev ==
    "g" :> NULL @@ "s" :> "g" @@ "a1" :> "s" @@ "b1" :> "s" @@ "b2" :> "b1" @@ "b3" :> "b2"

MCBlocks == DOMAIN MCpprev

MCnHeight ==
    "g" :> 0 @@ "s" :> 1 @@ "a1" :> 2 @@ "b1" :> 2 @@ "b2" :> 3 @@ "b3" :> 4

MCnChainTrust ==
    "g" :> 1 @@ "s" :> 2 @@ "a1" :> 4 @@ "b1" :> 3 @@ "b2" :> 5 @@ "b3" :> 6

(***************************************************************************)
(* On one branch two coins of cs are staked; on the other pay spends one   *)
(* of them, with change to the wallet, which again or other spends, and    *)
(* its payee returns a part to the wallet with gift.  pay comes from the   *)
(* user or, from another copy of the keys, by way of a peer.               *)
(***************************************************************************)
MCvtx ==
    "g" :> <<>> @@ "s" :> <<"cs">>
    @@ "a1" :> <<"ca1", "stake">>
    @@ "b1" :> <<"cb1", "pay">> @@ "b2" :> <<"cb2">> @@ "b3" :> <<"cb3", "gift">>

MCTxs        == {"cs", "ca1", "cb1", "cb2", "cb3", "stake", "pay", "gift", "again", "other"}
MCCoinBases  == {"cs", "ca1", "cb1", "cb2", "cb3"}
MCCoinStakes == {"stake"}

MCvin ==
    "pay" :> {<<"cs", 1>>} @@ "stake" :> {<<"cs", 1>>, <<"cs", 3>>} @@ "again" :> {<<"pay", 2>>}
    @@ "other" :> {<<"pay", 2>>}
    @@ "gift" :> {<<"pay", 1>>}
    @@ [t \in MCCoinBases |-> {}]

MCvout ==
    "cs" :> <<3, 2, 1>> @@ "pay" :> <<1, 2>> @@ "stake" :> <<0, 5>> @@ "again" :> <<1>>
    @@ "other" :> <<1>> @@ "gift" :> <<1>>
    @@ [t \in MCCoinBases |-> <<1>>]

MCMine      == {<<"cs", 1>>, <<"cs", 3>>, <<"pay", 2>>, <<"stake", 2>>, <<"gift", 1>>}
MCSends     == {"pay", "again"}
TwoSends    == {"again", "other"}
MCHashOrder == <<"cs", "ca1", "cb1", "cb2", "cb3", "again", "gift", "other", "pay", "stake">>
Loose       == {"gift", "pay", "again", "other"}
Foreign     == {"pay", "gift"}

=============================================================================
