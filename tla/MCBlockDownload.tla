-------------------------- MODULE MCBlockDownload --------------------------
(***************************************************************************)
(* Instances of BlockDownload.                                             *)
(***************************************************************************)
EXTENDS BlockDownload

TipStake == [h \in 1..MaxHeight |-> IF h = MaxHeight THEN h - 2 ELSE 0]
OnePeer  == {"p"}

=============================================================================
