---------------------------- MODULE MCWalletKeys ----------------------------
(***************************************************************************)
(* An instance of WalletKeys: a pool of one key (two after a top-up).      *)
(***************************************************************************)
EXTENDS WalletKeys

=============================================================================
