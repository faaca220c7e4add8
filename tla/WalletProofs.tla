---------------------------- MODULE WalletProofs ----------------------------
(***************************************************************************)
(* What the wallet knows, proved for every set of blocks, transactions and *)
(* keys: WalletInv is inductive and implies the four properties that the   *)
(* module Wallet states.  The lemmas go from a CWalletTx to the loops over *)
(* the transactions of a block, the blocks of a branch and the main chain, *)
(* and from there to the steps of the wallet.                              *)
(***************************************************************************)
EXTENDS Wallet, LedgerProofs

-----------------------------------------------------------------------------
(***************************************************************************)
(* A wallet whose flags are on its own outputs and whose cached credits    *)
(* are what is not flagged.                                                *)
(***************************************************************************)
Own(t) == OutputsOf(Mine, t)

Credit(t, flags) == SumOver(Value, {o \in Mine : o[1] = t /\ o[2] \notin flags})

IsWtx(t, x) ==
    /\ x = [hashBlock |-> x.hashBlock, vfSpent |-> x.vfSpent,
            credit |-> x.credit, vtxPrev |-> x.vtxPrev]
    /\ x.vfSpent \subseteq Own(t)
    /\ x.credit # NULL => x.credit = Credit(t, x.vfSpent)

WalletOK(w) ==
    /\ w = [t \in DOMAIN w |-> w[t]]
    /\ DOMAIN w \subseteq Txs
    /\ \A t \in DOMAIN w : IsWtx(t, w[t])

\* Only flags, and the credits with them, have changed.
Remarked(w, r) ==
    /\ WalletOK(r) /\ DOMAIN r = DOMAIN w
    /\ \A t \in DOMAIN w : r[t].hashBlock = w[t].hashBlock /\ r[t].vtxPrev = w[t].vtxPrev

\* SetSpent sets the flags and forgets a credit that would be stale.
LEMMA SetSpentIs ==
    ASSUME NEW t, NEW x, IsWtx(t, x), NEW flags \in SUBSET Own(t)
    PROVE  /\ IsWtx(t, SetSpent(x, flags))
           /\ SetSpent(x, flags).vfSpent = flags
           /\ SetSpent(x, flags).hashBlock = x.hashBlock
           /\ SetSpent(x, flags).vtxPrev = x.vtxPrev
<1>1. SetSpent(x, flags) = [hashBlock |-> x.hashBlock, vfSpent |-> flags,
                            credit |-> IF flags = x.vfSpent THEN x.credit ELSE NULL,
                            vtxPrev |-> x.vtxPrev]
  <2>1. x = [hashBlock |-> x.hashBlock, vfSpent |-> x.vfSpent,
             credit |-> x.credit, vtxPrev |-> x.vtxPrev]
    BY DEF IsWtx
  <2>2. [x EXCEPT !.vfSpent = flags] = [hashBlock |-> x.hashBlock, vfSpent |-> flags,
                                        credit |-> x.credit, vtxPrev |-> x.vtxPrev]
    BY <2>1
  <2>3. \A c : [[hashBlock |-> x.hashBlock, vfSpent |-> flags, credit |-> x.credit,
                 vtxPrev |-> x.vtxPrev] EXCEPT !.credit = c] =
                    [hashBlock |-> x.hashBlock, vfSpent |-> flags, credit |-> c,
                     vtxPrev |-> x.vtxPrev]
    OBVIOUS
  <2>4. SetSpent(x, flags) = [[x EXCEPT !.vfSpent = flags] EXCEPT
            !.credit = IF flags = x.vfSpent THEN x.credit ELSE NULL]
    <3>1. [x EXCEPT !.vfSpent = flags].credit = x.credit
      BY <2>2
    <3>2. QED
      BY <3>1, Zenon DEF SetSpent
  <2>5. QED
    BY <2>2, <2>3, <2>4, Zenon
<1>2. QED
  BY <1>1 DEF IsWtx

\* Flags set to what they are change nothing.
LEMMA SetSpentSame ==
    ASSUME NEW t, NEW x, IsWtx(t, x)
    PROVE  SetSpent(x, x.vfSpent) = x
<1>1. x = [hashBlock |-> x.hashBlock, vfSpent |-> x.vfSpent,
           credit |-> x.credit, vtxPrev |-> x.vtxPrev]
  BY DEF IsWtx
<1>2. [x EXCEPT !.vfSpent = x.vfSpent] = x
  BY <1>1
<1>3. [x EXCEPT !.credit = x.credit] = x
  BY <1>1
<1>4. SetSpent(x, x.vfSpent) = [[x EXCEPT !.vfSpent = x.vfSpent] EXCEPT !.credit = x.credit]
  BY <1>2 DEF SetSpent
<1>5. QED
  BY <1>2, <1>3, <1>4

\* A transaction told again: its block may change, its credit is forgotten.
LEMMA BoundAnew ==
    ASSUME NEW t, NEW x, IsWtx(t, x), NEW b
    PROVE  [x EXCEPT !.hashBlock = b, !.credit = NULL] =
              [hashBlock |-> b, vfSpent |-> x.vfSpent, credit |-> NULL, vtxPrev |-> x.vtxPrev]
<1>1. x = [hashBlock |-> x.hashBlock, vfSpent |-> x.vfSpent,
           credit |-> x.credit, vtxPrev |-> x.vtxPrev]
  BY DEF IsWtx
<1>2. [x EXCEPT !.hashBlock = b] = [hashBlock |-> b, vfSpent |-> x.vfSpent,
                                    credit |-> x.credit, vtxPrev |-> x.vtxPrev]
  BY <1>1
<1>3. [[hashBlock |-> b, vfSpent |-> x.vfSpent, credit |-> x.credit, vtxPrev |-> x.vtxPrev]
          EXCEPT !.credit = NULL] =
       [hashBlock |-> b, vfSpent |-> x.vfSpent, credit |-> NULL, vtxPrev |-> x.vtxPrev]
  OBVIOUS
<1>4. QED
  BY <1>2, <1>3, Zenon

\* Each output of a set belongs to one transaction of it.
LEMMA OutputsAre ==
    ASSUME NEW O \in SUBSET Outpoints, NEW t, NEW n
    PROVE  n \in OutputsOf(O, t) <=> <<t, n>> \in O
<1>1. \A o \in O : o = <<o[1], o[2]>>
  BY DEF Outpoints
<1>2. QED
  BY <1>1 DEF OutputsOf

\* Marking outputs as spent.
LEMMA MarkSpentIs ==
    ASSUME NEW w, WalletOK(w), NEW O \in SUBSET Mine, \A o \in O : o[1] \in DOMAIN w
    PROVE  /\ Remarked(w, MarkSpent2(w, O))
           /\ \A t \in DOMAIN w : MarkSpent2(w, O)[t].vfSpent = w[t].vfSpent \cup OutputsOf(O, t)
<1> DEFINE r == MarkSpent2(w, O)
<1>1. DOMAIN r = DOMAIN w /\ r = [t \in DOMAIN r |-> r[t]]
  BY DEF MarkSpent2
<1>2. ASSUME NEW t \in DOMAIN w
      PROVE  /\ IsWtx(t, r[t]) /\ r[t].vfSpent = w[t].vfSpent \cup OutputsOf(O, t)
             /\ r[t].hashBlock = w[t].hashBlock /\ r[t].vtxPrev = w[t].vtxPrev
  <2>1. IsWtx(t, w[t])
    BY DEF WalletOK
  <2>2. w[t].vfSpent \cup OutputsOf(O, t) \in SUBSET Own(t)
    BY <2>1 DEF IsWtx, Own, OutputsOf
  <2>3. r[t] = SetSpent(w[t], w[t].vfSpent \cup OutputsOf(O, t))
    BY DEF MarkSpent2
  <2> HIDE DEF r
  <2>4. QED
    BY <2>1, <2>2, <2>3, SetSpentIs
<1> HIDE DEF r
<1>3. QED
  BY <1>1, <1>2 DEF WalletOK, Remarked, r

\* Marking outputs as unspent.
LEMMA MarkUnspentIs ==
    ASSUME NEW w, WalletOK(w), NEW O \in SUBSET Mine, \A o \in O : o[1] \in DOMAIN w
    PROVE  /\ Remarked(w, MarkUnspent(w, O))
           /\ \A t \in DOMAIN w : MarkUnspent(w, O)[t].vfSpent = w[t].vfSpent \ OutputsOf(O, t)
<1> DEFINE r == MarkUnspent(w, O)
<1>1. DOMAIN r = DOMAIN w /\ r = [t \in DOMAIN r |-> r[t]]
  BY DEF MarkUnspent
<1>2. ASSUME NEW t \in DOMAIN w
      PROVE  /\ IsWtx(t, r[t]) /\ r[t].vfSpent = w[t].vfSpent \ OutputsOf(O, t)
             /\ r[t].hashBlock = w[t].hashBlock /\ r[t].vtxPrev = w[t].vtxPrev
  <2>1. IsWtx(t, w[t])
    BY DEF WalletOK
  <2>2. w[t].vfSpent \ OutputsOf(O, t) \in SUBSET Own(t)
    BY <2>1 DEF IsWtx, Own, OutputsOf
  <2>3. r[t] = SetSpent(w[t], w[t].vfSpent \ OutputsOf(O, t))
    BY DEF MarkUnspent
  <2> HIDE DEF r
  <2>4. QED
    BY <2>1, <2>2, <2>3, SetSpentIs
<1> HIDE DEF r
<1>3. QED
  BY <1>1, <1>2 DEF WalletOK, Remarked, r

-----------------------------------------------------------------------------
(***************************************************************************)
(* AddToWallet.  What t spends is flagged and, if it is in the block b,    *)
(* its own outputs are not.                                                *)
(***************************************************************************)
Spends(t, u) == OutputsOf(vin[t] \cap Mine, u)

Added(w, r, t, b) ==
    /\ WalletOK(r)
    /\ DOMAIN r = DOMAIN w \cup {t}
    /\ \A u \in DOMAIN w : /\ r[u].vtxPrev = w[u].vtxPrev
                           /\ u # t \/ b = NULL => r[u].hashBlock = w[u].hashBlock
    /\ t \notin DOMAIN w => r[t].vtxPrev = <<>>
    /\ b # NULL => r[t].hashBlock = b
    /\ \A u \in DOMAIN r :
          r[u].vfSpent = ((IF u \in DOMAIN w THEN w[u].vfSpent ELSE {}) \cup Spends(t, u))
                            \ (IF u = t /\ b # NULL THEN Own(t) ELSE {})

\* AddToWallet and WalletUpdateSpent.
LEMMA AddToWalletIs ==
    ASSUME NEW w, WalletOK(w), NEW t \in Txs, NEW b
    PROVE  Added(w, AddToWallet(w, t, b), t, b)
<1> DEFINE wtx == IF t \in DOMAIN w
                  THEN [w[t] EXCEPT !.hashBlock = IF b = NULL THEN @ ELSE b, !.credit = NULL]
                  ELSE CWalletTx(b)
           w1 == Put(w, t, wtx)
           w2 == MarkSpent2(w1, MyInputs(w1, t))
           O  == {o \in Mine : o[1] = t}
           r  == AddToWallet(w, t, b)
<1>1. /\ IsWtx(t, wtx)
      /\ wtx.vfSpent = IF t \in DOMAIN w THEN w[t].vfSpent ELSE {}
      /\ wtx.vtxPrev = IF t \in DOMAIN w THEN w[t].vtxPrev ELSE <<>>
      /\ wtx.hashBlock = IF t \in DOMAIN w /\ b = NULL THEN w[t].hashBlock ELSE b
  <2>1. CASE t \in DOMAIN w
    <3>1. IsWtx(t, w[t])
      BY <2>1 DEF WalletOK
    <3>2. wtx = [hashBlock |-> IF b = NULL THEN w[t].hashBlock ELSE b, vfSpent |-> w[t].vfSpent,
                 credit |-> NULL, vtxPrev |-> w[t].vtxPrev]
      BY <2>1, <3>1, BoundAnew, Zenon
    <3>3. QED
      BY <2>1, <3>1, <3>2 DEF IsWtx
  <2>2. CASE t \notin DOMAIN w
    BY <2>2 DEF IsWtx, CWalletTx
  <2>3. QED
    BY <2>1, <2>2
<1> HIDE DEF wtx
<1>2. /\ DOMAIN w1 = DOMAIN w \cup {t} /\ w1 = [u \in DOMAIN w1 |-> w1[u]]
      /\ w1[t] = wtx /\ \A u \in DOMAIN w \ {t} : w1[u] = w[u]
  <2>1. CASE t \in DOMAIN w
    <3>1. w1 = [w EXCEPT ![t] = wtx] /\ w = [u \in DOMAIN w |-> w[u]]
      BY <2>1 DEF Put, WalletOK
    <3>2. QED
      BY <2>1, <3>1
  <2>2. CASE t \notin DOMAIN w
    BY <2>2 DEF Put
  <2>3. QED
    BY <2>1, <2>2
<1> HIDE DEF w1
<1>3. WalletOK(w1)
  BY <1>1, <1>2 DEF WalletOK
<1>4. MyInputs(w1, t) \in SUBSET Mine /\ \A o \in MyInputs(w1, t) : o[1] \in DOMAIN w1
  BY DEF MyInputs
<1>5. /\ Remarked(w1, w2)
      /\ \A u \in DOMAIN w1 : w2[u].vfSpent = w1[u].vfSpent \cup OutputsOf(MyInputs(w1, t), u)
  BY <1>3, <1>4, MarkSpentIs
<1>6. ASSUME NEW u \in DOMAIN w1 PROVE OutputsOf(MyInputs(w1, t), u) = Spends(t, u)
  BY DEF OutputsOf, MyInputs, Spends
<1> HIDE DEF w2
<1>7. O \in SUBSET Mine /\ (\A o \in O : o[1] \in DOMAIN w2) /\ OutputsOf(O, t) = Own(t)
  <2>1. t \in DOMAIN w2
    BY <1>2, <1>5 DEF Remarked
  <2>2. QED
    BY <2>1 DEF OutputsOf, Own
<1>8. \A u : u # t => OutputsOf(O, u) = {}
  BY DEF OutputsOf
<1> HIDE DEF O
<1>9. r = IF b # NULL THEN MarkUnspent(w2, O) ELSE w2
  BY DEF AddToWallet, WalletUpdateSpent, O, w2, w1, wtx
<1> HIDE DEF r
<1>10. /\ Remarked(w1, r)
       /\ \A u \in DOMAIN w1 : r[u].vfSpent = (w1[u].vfSpent \cup Spends(t, u))
                                                 \ (IF u = t /\ b # NULL THEN Own(t) ELSE {})
  <2>1. CASE b # NULL
    <3>1. WalletOK(w2)
      BY <1>5 DEF Remarked
    <3>2. /\ Remarked(w2, MarkUnspent(w2, O))
          /\ \A u \in DOMAIN w2 : MarkUnspent(w2, O)[u].vfSpent = w2[u].vfSpent \ OutputsOf(O, u)
      BY <1>7, <3>1, MarkUnspentIs
    <3>3. Remarked(w1, r) /\ DOMAIN w2 = DOMAIN w1
      BY <1>5, <1>9, <2>1, <3>2 DEF Remarked
    <3>4. ASSUME NEW u \in DOMAIN w1
          PROVE  r[u].vfSpent = (w1[u].vfSpent \cup Spends(t, u))
                                   \ (IF u = t /\ b # NULL THEN Own(t) ELSE {})
      <4>1. r[u].vfSpent = (w1[u].vfSpent \cup Spends(t, u)) \ OutputsOf(O, u)
        BY <1>5, <1>6, <1>9, <2>1, <3>2, <3>3
      <4>2. CASE u = t
        BY <1>7, <2>1, <4>1, <4>2
      <4>3. CASE u # t
        BY <1>8, <4>1, <4>3
      <4>4. QED
        BY <4>2, <4>3
    <3>5. QED
      BY <3>3, <3>4
  <2>2. CASE b = NULL
    <3>1. r = w2
      BY <1>9, <2>2
    <3>2. ASSUME NEW u \in DOMAIN w1 PROVE r[u].vfSpent = w1[u].vfSpent \cup Spends(t, u)
      BY <1>5, <1>6, <3>1
    <3>3. QED
      BY <1>5, <2>2, <3>1, <3>2
  <2>3. QED
    BY <2>1, <2>2
<1>11. WalletOK(r) /\ DOMAIN r = DOMAIN w \cup {t}
  BY <1>2, <1>10 DEF Remarked
<1>12. \A u \in DOMAIN w : /\ r[u].vtxPrev = w[u].vtxPrev
                           /\ u # t \/ b = NULL => r[u].hashBlock = w[u].hashBlock
  BY <1>1, <1>2, <1>10 DEF Remarked
<1>13. (t \notin DOMAIN w => r[t].vtxPrev = <<>>) /\ (b # NULL => r[t].hashBlock = b)
  BY <1>1, <1>2, <1>10 DEF Remarked
<1>14. \A u \in DOMAIN r :
          r[u].vfSpent = ((IF u \in DOMAIN w THEN w[u].vfSpent ELSE {}) \cup Spends(t, u))
                            \ (IF u = t /\ b # NULL THEN Own(t) ELSE {})
  BY <1>1, <1>2, <1>10, <1>11
<1>15. QED
  BY <1>11, <1>12, <1>13, <1>14 DEF Added, r

(***************************************************************************)
(* AddToWalletIfInvolvingMe adds the transaction or leaves all as it is.   *)
(***************************************************************************)
LEMMA InvolvingMe ==
    ASSUME NEW w, WalletOK(w), NEW t \in Txs, NEW b, NEW fUpdate \in BOOLEAN
    PROVE  LET r == AddToWalletIfInvolvingMe(w, t, b, fUpdate)
           IN  \/ r = w /\ t \in DOMAIN w /\ fUpdate = FALSE
               \/ r = w /\ t \notin DOMAIN w /\ ~PaysMe(t) /\ MyInputs(w, t) = {}
               \/ Added(w, r, t, b) /\ (t \in DOMAIN w => fUpdate = TRUE)
<1> DEFINE r == AddToWalletIfInvolvingMe(w, t, b, fUpdate)
<1>1. CASE t \in DOMAIN w /\ ~fUpdate
  BY <1>1 DEF AddToWalletIfInvolvingMe
<1>2. CASE ~(t \in DOMAIN w /\ ~fUpdate) /\ (t \in DOMAIN w \/ PaysMe(t) \/ IsFromMe(w, t))
  <2>1. r = AddToWallet(w, t, b)
    BY <1>2, Zenon DEF AddToWalletIfInvolvingMe
  <2>2. QED
    BY <1>2, <2>1, AddToWalletIs
<1>3. CASE t \notin DOMAIN w /\ ~PaysMe(t) /\ ~IsFromMe(w, t)
  <2>1. r = WalletUpdateSpent(w, t, FALSE) /\ MyInputs(w, t) = {}
    BY <1>3 DEF AddToWalletIfInvolvingMe, IsFromMe
  <2>2. r = MarkSpent2(w, {})
    BY <2>1 DEF WalletUpdateSpent
  <2>3. r = w
    <3>1. r = [u \in DOMAIN w |-> SetSpent(w[u], w[u].vfSpent \cup OutputsOf({}, u))]
      BY <2>2 DEF MarkSpent2
    <3>2. ASSUME NEW u \in DOMAIN w
          PROVE  SetSpent(w[u], w[u].vfSpent \cup OutputsOf({}, u)) = w[u]
      <4>1. OutputsOf({}, u) = {}
        BY DEF OutputsOf
      <4>2. w[u].vfSpent \cup OutputsOf({}, u) = w[u].vfSpent
        BY <4>1
      <4>3. IsWtx(u, w[u])
        BY DEF WalletOK
      <4>4. QED
        BY <4>2, <4>3, SetSpentSame
    <3>3. QED
      BY <3>1, <3>2 DEF WalletOK
  <2>4. QED
    BY <1>3, <2>1, <2>3
<1>4. QED
  BY <1>1, <1>2, <1>3

-----------------------------------------------------------------------------
(***************************************************************************)
(* What the wallet should know of a set T of transactions of the chain     *)
(* that ends at e: those that pay it, with their blocks; who spends its    *)
(* coins; and that these are spent.                                        *)
(***************************************************************************)
FollowsOn(w, T, e) ==
    \A t \in T :
        /\ PaysMe(t) => t \in DOMAIN w /\ w[t].hashBlock = HomeOf(t, e)
        /\ t \notin CoinStakes /\ vin[t] \cap Mine # {} => t \in DOMAIN w
        /\ \A o \in vin[t] \cap Mine : o[2] \in w[o[1]].vfSpent

(***************************************************************************)
(* A flag is justified by who spends the output: a transaction of J, or    *)
(* one of the wallet's that is no coinstake.                               *)
(***************************************************************************)
Justified(w, J, t, n) ==
    \E u \in Txs : <<t, n>> \in vin[u] /\ (u \in J \/ (u \notin CoinStakes /\ u \in DOMAIN w))

Returned(w, T, J) ==
    \A t \in T \cap DOMAIN w : \A n \in w[t].vfSpent : Justified(w, J, t, n)

\* Nothing is forgotten, and the copies stay with the transactions.
Grown(w, r) ==
    /\ WalletOK(r)
    /\ DOMAIN w \subseteq DOMAIN r
    /\ \A t \in DOMAIN w : r[t].vtxPrev = w[t].vtxPrev
    /\ \A t \in DOMAIN r \ DOMAIN w : r[t].vtxPrev = <<>>

\* An output of the wallet's makes its transaction one that pays the wallet.
LEMMA MinePays ==
    ASSUME NEW o \in Mine
    PROVE  o \in Outpoints /\ o = <<o[1], o[2]>> /\ o[1] \in Txs /\ PaysMe(o[1])
<1>1. o \in Outpoints /\ o[2] <= Len(vout[o[1]])
  BY WalletAssumption
<1>2. o = <<o[1], o[2]>> /\ o[1] \in Txs /\ o[2] \in 1..MaxOutputs
  BY <1>1 DEF Outpoints
<1>3. Len(vout[o[1]]) \in Nat
  BY <1>2, LedgerAssumption
<1>4. o[2] \in 1..Len(vout[o[1]])
  BY <1>1, <1>2, <1>3, LedgerAssumption
<1>5. QED
  BY <1>1, <1>2, <1>4 DEF PaysMe

\* What t spends of the wallet's.
LEMMA SpendsAre ==
    ASSUME NEW t \in Txs
    PROVE  /\ \A o \in vin[t] \cap Mine : o[2] \in Spends(t, o[1])
           /\ \A u : Spends(t, u) \subseteq Own(u) /\ \A n \in Spends(t, u) : <<u, n>> \in vin[t]
<1>1. vin[t] \cap Mine \in SUBSET Outpoints
  BY WalletAssumption
<1>2. \A u, n : n \in Spends(t, u) <=> <<u, n>> \in vin[t] \cap Mine
  BY <1>1, OutputsAre DEF Spends
<1>3. Mine \in SUBSET Outpoints
  BY WalletAssumption
<1>4. \A u, n : n \in Own(u) <=> <<u, n>> \in Mine
  BY <1>3, OutputsAre DEF Own
<1>5. ASSUME NEW o \in vin[t] \cap Mine PROVE o[2] \in Spends(t, o[1])
  BY <1>2, MinePays
<1>6. QED
  BY <1>2, <1>4, <1>5

\* A transaction added.
LEMMA AddedGrows ==
    ASSUME NEW w, NEW r, NEW t, NEW b, Added(w, r, t, b)
    PROVE  Grown(w, r)
BY DEF Added, Grown

\* A transaction told.
LEMMA TellGrows ==
    ASSUME NEW w, WalletOK(w), NEW t \in Txs, NEW b, NEW fUpdate \in BOOLEAN
    PROVE  Grown(w, AddToWalletIfInvolvingMe(w, t, b, fUpdate))
<1> DEFINE r == AddToWalletIfInvolvingMe(w, t, b, fUpdate)
<1>1. r = w \/ Added(w, r, t, b)
  BY InvolvingMe
<1> HIDE DEF r
<1>2. Grown(w, r)
  BY <1>1, AddedGrows DEF Grown
<1>3. QED
  BY <1>2 DEF r

(***************************************************************************)
(* The next transaction of the chain is told.                              *)
(***************************************************************************)
LEMMA TellFollows ==
    ASSUME NEW w, WalletOK(w), NEW e, NEW T, NEW v \in Txs, v \notin T,
           Sound(T), \A o \in vin[v] : o[1] \in T,
           HomeOf(v, e) # NULL, FollowsOn(w, T, e)
    PROVE  FollowsOn(AddToWalletIfInvolvingMe(w, v, HomeOf(v, e), TRUE), T \cup {v}, e)
<1> DEFINE b == HomeOf(v, e)
           r == AddToWalletIfInvolvingMe(w, v, b, TRUE)
<1>1. \/ r = w /\ v \notin DOMAIN w /\ ~PaysMe(v) /\ MyInputs(w, v) = {}
      \/ Added(w, r, v, b)
  BY InvolvingMe, Zenon
<1> HIDE DEF r
<1>2. ASSUME NEW t \in T, NEW o \in vin[t] \cap Mine
      PROVE  o[1] \in T /\ o[1] # v /\ o[1] \in DOMAIN w
  <2>1. o[1] \in T
    BY DEF Sound
  <2>2. QED
    BY <2>1, MinePays DEF FollowsOn
<1>3. ASSUME NEW o \in vin[v] \cap Mine
      PROVE  o[1] \in T /\ o[1] # v /\ o[1] \in DOMAIN w
  <2>1. o[1] \in T
    OBVIOUS
  <2>2. QED
    BY <2>1, MinePays DEF FollowsOn
<1>4. CASE r = w /\ v \notin DOMAIN w /\ ~PaysMe(v) /\ MyInputs(w, v) = {}
  <2>1. vin[v] \cap Mine = {}
    BY <1>3, <1>4 DEF MyInputs
  <2>2. QED
    BY <1>4, <2>1 DEF FollowsOn, r
<1>5. CASE Added(w, r, v, b)
  <2>1. DOMAIN r = DOMAIN w \cup {v} /\ r[v].hashBlock = b
    BY <1>5 DEF Added
  <2>2. \A u \in DOMAIN w \ {v} : /\ r[u].hashBlock = w[u].hashBlock
                                  /\ r[u].vfSpent = w[u].vfSpent \cup Spends(v, u)
    BY <1>5 DEF Added
  <2>3. ASSUME NEW t \in T
        PROVE  /\ PaysMe(t) => t \in DOMAIN r /\ r[t].hashBlock = HomeOf(t, e)
               /\ t \notin CoinStakes /\ vin[t] \cap Mine # {} => t \in DOMAIN r
               /\ \A o \in vin[t] \cap Mine : o[2] \in r[o[1]].vfSpent
    <3>1. \A o \in vin[t] \cap Mine : o[2] \in w[o[1]].vfSpent
      BY DEF FollowsOn
    <3>2. \A o \in vin[t] \cap Mine : o[2] \in r[o[1]].vfSpent
      BY <1>2, <2>2, <3>1
    <3>3. PaysMe(t) => t \in DOMAIN w /\ w[t].hashBlock = HomeOf(t, e)
      BY DEF FollowsOn
    <3>4. t \notin CoinStakes /\ vin[t] \cap Mine # {} => t \in DOMAIN w
      BY DEF FollowsOn
    <3>5. QED
      BY <2>1, <2>2, <3>2, <3>3, <3>4
  <2>4. \A o \in vin[v] \cap Mine : o[2] \in r[o[1]].vfSpent
    BY <1>3, <2>2, SpendsAre
  <2>5. FollowsOn(r, T \cup {v}, e)
    BY <2>1, <2>3, <2>4 DEF FollowsOn
  <2>6. QED
    BY <2>5 DEF r
<1>6. QED
  BY <1>1, <1>4, <1>5

(***************************************************************************)
(* A transaction that is told outside a block, or that is new to the       *)
(* wallet, changes nothing of what it knows of the chain.                  *)
(***************************************************************************)
LEMMA AddedFollows ==
    ASSUME NEW w, NEW r, NEW e, NEW T, NEW v \in Txs, NEW b, Sound(T),
           Added(w, r, v, b), b = NULL \/ v \notin DOMAIN w, FollowsOn(w, T, e)
    PROVE  FollowsOn(r, T, e)
<1>1. DOMAIN r = DOMAIN w \cup {v}
  BY DEF Added
<1>2. ASSUME NEW u \in DOMAIN w
      PROVE  r[u].hashBlock = w[u].hashBlock /\ w[u].vfSpent \subseteq r[u].vfSpent
  BY <1>1 DEF Added
<1>3. ASSUME NEW t \in T
      PROVE  /\ PaysMe(t) => t \in DOMAIN r /\ r[t].hashBlock = HomeOf(t, e)
             /\ t \notin CoinStakes /\ vin[t] \cap Mine # {} => t \in DOMAIN r
             /\ \A o \in vin[t] \cap Mine : o[2] \in r[o[1]].vfSpent
  <2>1. ASSUME NEW o \in vin[t] \cap Mine PROVE o[2] \in r[o[1]].vfSpent
    <3>1. o[1] \in T
      BY DEF Sound
    <3>2. o[1] \in DOMAIN w
      BY <3>1, MinePays DEF FollowsOn
    <3>3. o[2] \in w[o[1]].vfSpent
      BY DEF FollowsOn
    <3>4. QED
      BY <1>2, <3>2, <3>3
  <2>2. PaysMe(t) => t \in DOMAIN w /\ w[t].hashBlock = HomeOf(t, e)
    BY DEF FollowsOn
  <2>3. t \notin CoinStakes /\ vin[t] \cap Mine # {} => t \in DOMAIN w
    BY DEF FollowsOn
  <2>4. QED
    BY <1>1, <1>2, <2>1, <2>2, <2>3
<1>4. QED
  BY <1>3 DEF FollowsOn

\* The same of AddToWalletIfInvolvingMe.
LEMMA ToldFollows ==
    ASSUME NEW w, WalletOK(w), NEW e, NEW T, NEW v \in Txs, NEW b, NEW fUpdate \in BOOLEAN,
           Sound(T), b = NULL \/ fUpdate = FALSE, FollowsOn(w, T, e)
    PROVE  FollowsOn(AddToWalletIfInvolvingMe(w, v, b, fUpdate), T, e)
<1> DEFINE r == AddToWalletIfInvolvingMe(w, v, b, fUpdate)
<1>1. r = w \/ (Added(w, r, v, b) /\ (v \in DOMAIN w => fUpdate = TRUE))
  BY InvolvingMe
<1> HIDE DEF r
<1>2. CASE r = w
  BY <1>2 DEF r
<1>3. CASE Added(w, r, v, b) /\ (v \in DOMAIN w => fUpdate = TRUE)
  <2>1. FollowsOn(r, T, e)
    BY <1>3, AddedFollows
  <2>2. QED
    BY <2>1 DEF r
<1>4. QED
  BY <1>1, <1>2, <1>3

(***************************************************************************)
(* The flags that a transaction sets are justified by it; if it is added   *)
(* with its block, its own are gone.                                       *)
(***************************************************************************)
LEMMA AddedReturned ==
    ASSUME NEW w, WalletOK(w), NEW r, NEW T, NEW J, NEW v \in Txs, NEW b, Added(w, r, v, b),
           v \in J \/ v \notin CoinStakes \/ vin[v] = {}, Returned(w, T, J)
    PROVE  /\ Returned(r, T, J)
           /\ b # NULL => Returned(r, {v}, J)
<1>1. DOMAIN r = DOMAIN w \cup {v}
  BY DEF Added
<1>2. ASSUME NEW t, NEW n, Justified(w, J, t, n) PROVE Justified(r, J, t, n)
  BY <1>1, <1>2 DEF Justified
<1>3. ASSUME NEW t, NEW n \in Spends(v, t) PROVE Justified(r, J, t, n)
  <2>1. <<t, n>> \in vin[v]
    BY SpendsAre
  <2>2. QED
    BY <1>1, <2>1 DEF Justified
<1>4. ASSUME NEW t \in T \cap DOMAIN w, NEW n \in r[t].vfSpent PROVE Justified(r, J, t, n)
  <2>1. n \in w[t].vfSpent \/ n \in Spends(v, t)
    BY <1>1 DEF Added
  <2>2. QED
    BY <1>2, <1>3, <2>1 DEF Returned
<1>5. ASSUME b # NULL PROVE r[v].vfSpent = {}
  <2>1. v \in DOMAIN w => w[v].vfSpent \subseteq Own(v)
    BY DEF WalletOK, IsWtx
  <2>2. Spends(v, v) \subseteq Own(v)
    BY SpendsAre
  <2>3. r[v].vfSpent = ((IF v \in DOMAIN w THEN w[v].vfSpent ELSE {}) \cup Spends(v, v)) \ Own(v)
    BY <1>1, <1>5 DEF Added
  <2>4. QED
    BY <2>1, <2>2, <2>3
<1>6. ASSUME b # NULL PROVE Returned(r, {v}, J)
  BY <1>5, <1>6 DEF Returned
<1>7. Returned(r, T, J)
  <2>1. ASSUME v \notin DOMAIN w, NEW n \in r[v].vfSpent PROVE Justified(r, J, v, n)
    <3>1. r[v].vfSpent \subseteq Spends(v, v)
      BY <1>1, <2>1 DEF Added
    <3>2. QED
      BY <1>3, <2>1, <3>1
  <2>2. QED
    BY <1>1, <1>4, <2>1 DEF Returned
<1>8. QED
  BY <1>6, <1>7

\* The same of AddToWalletIfInvolvingMe.
LEMMA ToldReturned ==
    ASSUME NEW w, WalletOK(w), NEW T, NEW J, NEW v \in Txs, NEW b, NEW fUpdate \in BOOLEAN,
           v \in J \/ v \notin CoinStakes \/ vin[v] = {}, Returned(w, T, J)
    PROVE  LET r == AddToWalletIfInvolvingMe(w, v, b, fUpdate)
           IN  /\ Returned(r, T, J)
               /\ b # NULL /\ fUpdate = TRUE => Returned(r, {v}, J)
<1> DEFINE r == AddToWalletIfInvolvingMe(w, v, b, fUpdate)
<1>1. \/ r = w /\ fUpdate = FALSE
      \/ r = w /\ v \notin DOMAIN w
      \/ Added(w, r, v, b)
  BY InvolvingMe
<1> HIDE DEF r
<1>2. CASE r = w /\ fUpdate = FALSE
  BY <1>2 DEF r
<1>3. CASE r = w /\ v \notin DOMAIN w
  <2>1. Returned(r, {v}, J)
    BY <1>3 DEF Returned
  <2>2. QED
    BY <1>3, <2>1 DEF r
<1>4. CASE Added(w, r, v, b)
  <2>1. Returned(r, T, J) /\ (b # NULL => Returned(r, {v}, J))
    BY <1>4, AddedReturned
  <2>2. QED
    BY <2>1 DEF r
<1>5. QED
  BY <1>1, <1>2, <1>3, <1>4

-----------------------------------------------------------------------------
(***************************************************************************)
(* The transactions of a block are told in order.  e holds the wallet w    *)
(* before, the block b, whether known transactions are updated, and the    *)
(* block top at the end of the chain.                                      *)
(***************************************************************************)
TellBlock(w, b, fUpdate) ==
    FoldLeft(LAMBDA y, t : AddToWalletIfInvolvingMe(y, t, b, fUpdate), w, vtx[b])

TellIn(e, s, t) == AddToWalletIfInvolvingMe(s, t, e.b, e.fUpdate)

\* b is a block of the chain of top, and its transactions are new.
NextOn(b, top) ==
    /\ b \in Blocks \ {GenesisBlock} /\ Clean(b)
    /\ \A t \in BlockTxs(b) : HomeOf(t, top) = b

First(b, k) == {vtx[b][j] : j \in 1..k}

Told(e, k, s) ==
    /\ Grown(e.w, s)
    /\ \A t \in First(e.b, k) : PaysMe(t) => t \in DOMAIN s
    /\ e.fUpdate = TRUE /\ NextOn(e.b, e.top) /\ FollowsOn(e.w, Upto(e.b, 0), e.top)
          => FollowsOn(s, Upto(e.b, k), e.top)
    /\ e.fUpdate = FALSE /\ Sound(e.T) /\ FollowsOn(e.w, e.T, e.top)
          => FollowsOn(s, e.T, e.top)
    /\ Returned(e.w, e.T, e.J) /\ (\A t \in BlockTxs(e.b) : t \in e.J \/ vin[t] = {})
          => Returned(s, e.T, e.J) /\ (e.fUpdate = TRUE => Returned(s, First(e.b, k), e.J))

TellLoop == INSTANCE FoldInduction WITH Op <- TellIn, Good <- Told

\* What has grown twice has grown.
LEMMA GrownTwice ==
    ASSUME NEW w, NEW s, NEW r, Grown(w, s), Grown(s, r)
    PROVE  Grown(w, r)
BY DEF Grown

\* A block told: nothing is forgotten, and what it holds is known.
LEMMA TellBlockIs ==
    ASSUME NEW w, WalletOK(w), NEW b \in Blocks, NEW fUpdate \in BOOLEAN,
           NEW top, NEW T, NEW J
    PROVE  LET r == TellBlock(w, b, fUpdate)
           IN  /\ Grown(w, r)
               /\ \A t \in BlockTxs(b) : PaysMe(t) => t \in DOMAIN r
               /\ fUpdate = TRUE /\ NextOn(b, top) /\ FollowsOn(w, ChainTxs(pprev[b]), top)
                     => FollowsOn(r, ChainTxs(b), top)
               /\ fUpdate = FALSE /\ Sound(T) /\ FollowsOn(w, T, top) => FollowsOn(r, T, top)
               /\ Returned(w, T, J) /\ (\A t \in BlockTxs(b) : t \in J \/ vin[t] = {})
                     => Returned(r, T, J) /\ (fUpdate = TRUE => Returned(r, BlockTxs(b), J))
<1> DEFINE q == vtx[b]
           e == [w |-> w, b |-> b, fUpdate |-> fUpdate, top |-> top, T |-> T, J |-> J]
           r == TellBlock(w, b, fUpdate)
<1>0. e.w = w /\ e.b = b /\ e.fUpdate = fUpdate /\ e.top = top /\ e.T = T /\ e.J = J
  OBVIOUS
<1>1. q \in Seq(Txs) /\ Len(q) \in Nat /\ b # NULL
  BY LedgerAssumption, TreeAssumption
<1>2. TellLoop!Loop(e, w, q) = r
  BY DEF TellBlock, TellLoop!Loop, FoldLeft, MapThenFoldSet,
         Max, TellLoop!Max, TellIn
<1> HIDE DEF e, r
<1>3. Told(e, 0, w)
  <2>1. Grown(w, w)
    BY DEF Grown
  <2>2. First(b, 0) = {}
    BY DEF First
  <2>3. Returned(w, {}, J)
    BY DEF Returned
  <2>4. QED
    BY <1>0, <2>1, <2>2, <2>3 DEF Told
<1>4. ASSUME NEW k \in 1..Len(q), NEW s, Told(e, k - 1, s)
      PROVE  Told(e, k, TellIn(e, s, q[k]))
  <2> DEFINE v == q[k]
             n == AddToWalletIfInvolvingMe(s, v, b, fUpdate)
  <2>1. v \in Txs /\ v \in BlockTxs(b) /\ WalletOK(s) /\ Grown(w, s)
    BY <1>0, <1>1, <1>4 DEF BlockTxs, ToSet, Told, Grown
  <2>2. Upto(b, k) = Upto(b, k - 1) \cup {v} /\ First(b, k) = First(b, k - 1) \cup {v}
    <3>1. 1..k = (1..(k - 1)) \cup {k}
      BY <1>1
    <3>2. QED
      BY <3>1, UptoNext DEF First
  <2> HIDE DEF v, q
  <2>3. Grown(w, n)
    <3>1. Grown(s, n)
      BY <2>1, TellGrows
    <3>2. QED
      BY <2>1, <3>1, GrownTwice
  <2>4. ASSUME fUpdate = TRUE, NextOn(b, top), FollowsOn(w, Upto(b, 0), top)
        PROVE  FollowsOn(n, Upto(b, k), top)
    <3>1. FollowsOn(s, Upto(b, k - 1), top)
      BY <1>0, <1>4, <2>4 DEF Told
    <3>2. v \notin Upto(b, k - 1) /\ \A o \in vin[v] : o[1] \in Upto(b, k - 1)
      BY <2>4 DEF NextOn, Clean, CleanTo, v, q
    <3>3. Sound(Upto(b, k - 1))
      <4>1. CASE k = 1
        BY <2>4, <4>1 DEF NextOn, Clean, CleanTo
      <4>2. CASE k # 1
        <5>1. k - 1 \in 1..Len(vtx[b])
          BY <1>1, <4>2 DEF q
        <5>2. QED
          BY <2>4, <5>1 DEF NextOn, Clean, CleanTo
      <4>3. QED
        BY <4>1, <4>2
    <3>4. HomeOf(v, top) = b
      BY <2>1, <2>4 DEF NextOn
    <3>5. FollowsOn(AddToWalletIfInvolvingMe(s, v, HomeOf(v, top), TRUE),
                    Upto(b, k - 1) \cup {v}, top)
      BY <1>1, <2>1, <3>1, <3>2, <3>3, <3>4, TellFollows
    <3>6. QED
      BY <2>2, <2>4, <3>4, <3>5
  <2>5. ASSUME fUpdate = FALSE, Sound(T), FollowsOn(w, T, top)
        PROVE  FollowsOn(n, T, top)
    <3>1. FollowsOn(s, T, top)
      BY <1>0, <1>4, <2>5 DEF Told
    <3>2. QED
      BY <2>1, <2>5, <3>1, ToldFollows
  <2>6. ASSUME Returned(w, T, J), \A t \in BlockTxs(b) : t \in J \/ vin[t] = {}
        PROVE  Returned(n, T, J) /\ (fUpdate = TRUE => Returned(n, First(b, k), J))
    <3>1. Returned(s, T, J) /\ (fUpdate = TRUE => Returned(s, First(b, k - 1), J))
      BY <1>0, <1>4, <2>6 DEF Told
    <3>2. v \in J \/ v \notin CoinStakes \/ vin[v] = {}
      BY <2>1, <2>6
    <3>3. Returned(n, T, J) /\ (b # NULL /\ fUpdate = TRUE => Returned(n, {v}, J))
      BY <2>1, <3>1, <3>2, ToldReturned
    <3>4. ASSUME fUpdate = TRUE PROVE Returned(n, First(b, k), J)
      <4>1. Returned(n, First(b, k - 1), J)
        BY <2>1, <3>1, <3>2, <3>4, ToldReturned
      <4>2. Returned(n, {v}, J)
        BY <1>1, <3>3, <3>4
      <4> HIDE DEF n
      <4>3. QED
        BY <2>2, <4>1, <4>2 DEF Returned
    <3>5. QED
      BY <3>3, <3>4
  <2>7. \A t \in First(b, k) : PaysMe(t) => t \in DOMAIN n
    <3>1. Grown(s, n)
      BY <2>1, TellGrows
    <3>2. PaysMe(v) => v \in DOMAIN n
      <4>1. \/ n = s /\ v \in DOMAIN s
            \/ ~PaysMe(v)
            \/ Added(s, n, v, b)
        BY <2>1, InvolvingMe, Zenon
      <4> HIDE DEF n
      <4>2. QED
        BY <4>1 DEF Added
    <3>3. \A t \in First(b, k - 1) : PaysMe(t) => t \in DOMAIN s
      BY <1>0, <1>4 DEF Told
    <3> HIDE DEF n
    <3>4. QED
      BY <2>2, <3>1, <3>2, <3>3 DEF Grown
  <2> HIDE DEF n
  <2>8. Told(e, k, n)
    BY <1>0, <2>3, <2>4, <2>5, <2>6, <2>7 DEF Told
  <2>9. QED
    BY <1>0, <2>8, Zenon DEF TellIn, n, v
<1>5. Told(e, Len(q), r)
  BY <1>1, <1>2, <1>3, <1>4, TellLoop!FoldInvariant
<1>6. First(b, Len(q)) = BlockTxs(b)
  BY <1>1 DEF First, BlockTxs, ToSet
<1>7. Upto(b, 0) = ChainTxs(pprev[b])
  BY DEF Upto
<1>8. b # GenesisBlock => ChainTxs(b) = Upto(b, Len(q))
  BY ChainTxsStep
<1> HIDE DEF q
<1>9. fUpdate = TRUE /\ NextOn(b, top) /\ FollowsOn(w, ChainTxs(pprev[b]), top)
         => FollowsOn(r, ChainTxs(b), top)
  BY <1>0, <1>5, <1>7, <1>8 DEF Told, NextOn
<1>10. QED
  BY <1>0, <1>5, <1>6, <1>9 DEF Told, r

-----------------------------------------------------------------------------
(***************************************************************************)
(* Blocks are told in order: those that are connected, and those of a      *)
(* scan.  The transactions below height n of the chain of top are those    *)
(* the loop has come past.                                                 *)
(***************************************************************************)
TxsBelow(top, n) == IF n = 0 THEN {} ELSE ChainTxs(AtHeight(top, n - 1))

\* q is the part of top's chain from height h on.
Upwards(q, top, h) ==
    /\ top \in Blocks /\ h \in Nat /\ h + Len(q) <= nHeight[top] + 1
    /\ \A i \in 1..Len(q) : q[i] = AtHeight(top, h + i - 1)

\* A transaction is at home in one block, whichever end of the chain it is looked up from.
LEMMA HomeBelow ==
    ASSUME NEW top \in Blocks, CleanChain(top), NEW x \in Chain[top], NEW t \in ChainTxs(x)
    PROVE  HomeOf(t, x) = HomeOf(t, top) /\ HomeOf(t, top) \in Chain[top] \ {GenesisBlock}
<1>1. x \in Blocks /\ Chain[x] \subseteq Chain[top]
  BY ChainTransitive
<1>2. HomeOf(t, x) \in Chain[x] \ {GenesisBlock} /\ t \in BlockTxs(HomeOf(t, x))
  BY <1>1, HomeOnChain
<1>3. t \in ChainTxs(top)
  BY <1>1, <1>2 DEF ChainTxs
<1>4. HomeOf(t, top) \in Chain[top] \ {GenesisBlock} /\ t \in BlockTxs(HomeOf(t, top))
  BY <1>3, HomeOnChain
<1>5. HomeOf(t, x) = HomeOf(t, top)
  BY <1>1, <1>2, <1>4, HomeUnique
<1>6. QED
  BY <1>4, <1>5

\* The same of the transactions of a block.
LEMMA HomeOfBlock ==
    ASSUME NEW top \in Blocks, CleanChain(top), NEW c \in Chain[top] \ {GenesisBlock},
           NEW t \in BlockTxs(c)
    PROVE  HomeOf(t, top) = c
<1>1. t \in ChainTxs(top)
  BY DEF ChainTxs
<1>2. HomeOf(t, top) \in Chain[top] \ {GenesisBlock} /\ t \in BlockTxs(HomeOf(t, top))
  BY <1>1, HomeOnChain
<1>3. QED
  BY <1>2, HomeUnique

\* The wallet follows a part of the chain, whichever end it is looked at from.
LEMMA FollowsBelow ==
    ASSUME NEW top \in Blocks, CleanChain(top), NEW x \in Chain[top], NEW w
    PROVE  FollowsOn(w, ChainTxs(x), x) <=> FollowsOn(w, ChainTxs(x), top)
<1>1. \A t \in ChainTxs(x) : HomeOf(t, x) = HomeOf(t, top)
  BY HomeBelow
<1>2. QED
  BY <1>1 DEF FollowsOn

\* The block at height n adds its transactions.
LEMMA BelowNext ==
    ASSUME NEW top \in Blocks, NEW n \in 0..nHeight[top]
    PROVE  LET c == AtHeight(top, n)
           IN  /\ c \in Blocks /\ c \in Chain[top]
               /\ TxsBelow(top, n + 1) = ChainTxs(c)
               /\ n = 0 => c = GenesisBlock
               /\ n # 0 => /\ c # GenesisBlock
                           /\ TxsBelow(top, n) = ChainTxs(pprev[c])
                           /\ TxsBelow(top, n + 1) = TxsBelow(top, n) \cup BlockTxs(c)
               /\ \A t \in BlockTxs(c) : t \in ChainTxs(top) \/ vin[t] = {}
<1> DEFINE c == AtHeight(top, n)
<1>1. nHeight[top] \in Nat /\ n \in Nat
  BY TreeAssumption
<1>2. c \in Chain[top] /\ nHeight[c] = n
  BY HeightOnChain
<1>3. c \in Blocks
  BY <1>2, ChainTransitive
<1>4. TxsBelow(top, n + 1) = ChainTxs(c)
  <2>1. n + 1 # 0 /\ (n + 1) - 1 = n
    BY <1>1
  <2>2. QED
    BY <2>1 DEF TxsBelow
<1>5. ASSUME n = 0 PROVE c = GenesisBlock
  <2> HIDE DEF c
  <2>1. nHeight[c] = 0
    BY <1>2, <1>5
  <2>2. ASSUME c # GenesisBlock PROVE FALSE
    <3>1. pprev[c] \in Blocks /\ nHeight[c] = nHeight[pprev[c]] + 1
      BY <1>3, <2>2, TreeAssumption
    <3>2. nHeight[pprev[c]] \in Nat
      BY <3>1, TreeAssumption
    <3>3. QED
      BY <2>1, <3>1, <3>2
  <2>3. QED
    BY <2>2
<1>6. ASSUME n # 0
      PROVE  c # GenesisBlock /\ TxsBelow(top, n) = ChainTxs(pprev[c])
  <2>1. n \in 1..nHeight[top]
    BY <1>1, <1>6
  <2>2. c \in Blocks \ {GenesisBlock} /\ pprev[c] = AtHeight(top, n - 1)
    BY <2>1, AtHeightPrev
  <2>3. QED
    BY <1>6, <2>2 DEF TxsBelow
<1>7. ASSUME n # 0 PROVE TxsBelow(top, n + 1) = TxsBelow(top, n) \cup BlockTxs(c)
  BY <1>3, <1>4, <1>6, <1>7, ChainTxsStep
<1>8. ASSUME NEW t \in BlockTxs(c) PROVE t \in ChainTxs(top) \/ vin[t] = {}
  <2>1. CASE c = GenesisBlock
    <3>1. vtx[GenesisBlock] \in Seq(Txs)
      BY LedgerAssumption, TreeAssumption
    <3>2. PICK i \in 1..Len(vtx[GenesisBlock]) : t = vtx[GenesisBlock][i]
      BY <1>8, <2>1, <3>1 DEF BlockTxs, ToSet
    <3>3. QED
      BY <3>2, WalletAssumption
  <2>2. CASE c # GenesisBlock
    BY <1>2, <1>8, <2>2 DEF ChainTxs
  <2>3. QED
    BY <2>1, <2>2
<1> HIDE DEF c
<1>9. QED
  BY <1>2, <1>3, <1>4, <1>5, <1>6, <1>7, <1>8 DEF c

TellBlocks(w, q, fUpdate) == FoldLeft(LAMBDA x, b : TellBlock(x, b, fUpdate), w, q)

TellBlockIn(e, s, b) == TellBlock(s, b, e.fUpdate)

Scanned(e, k, s) ==
    /\ Grown(e.w, s)
    /\ Upwards(e.q, e.top, e.h) =>
         /\ \A t \in TxsBelow(e.top, e.h + k) \ TxsBelow(e.top, e.h) : PaysMe(t) => t \in DOMAIN s
         /\ CleanChain(e.top) /\ e.fUpdate = TRUE /\ FollowsOn(e.w, TxsBelow(e.top, e.h), e.top)
               => FollowsOn(s, TxsBelow(e.top, e.h + k), e.top)
         /\ CleanChain(e.top) /\ e.fUpdate = FALSE /\ FollowsOn(e.w, ChainTxs(e.top), e.top)
               => FollowsOn(s, ChainTxs(e.top), e.top)
         /\ Returned(e.w, ChainTxs(e.top), ChainTxs(e.top))
               => Returned(s, ChainTxs(e.top), ChainTxs(e.top))
         /\ e.fUpdate = TRUE /\ Returned(e.w, TxsBelow(e.top, e.h), ChainTxs(e.top))
               => Returned(s, TxsBelow(e.top, e.h + k), ChainTxs(e.top))

ScanLoop == INSTANCE FoldInduction WITH Op <- TellBlockIn, Good <- Scanned

\* One block of the scan.
LEMMA ScanStep ==
    ASSUME NEW e, NEW k \in 1..Len(e.q), NEW s, WalletOK(s), e.q \in Seq(Blocks),
           e.fUpdate \in BOOLEAN, Scanned(e, k - 1, s)
    PROVE  Scanned(e, k, TellBlockIn(e, s, e.q[k]))
<1> DEFINE top == e.top
           J == ChainTxs(top)
           c == e.q[k]
           r == TellBlock(s, c, e.fUpdate)
<1>1. c \in Blocks /\ Len(e.q) \in Nat /\ k \in Nat /\ k - 1 \in Nat
  OBVIOUS
<1>2. Grown(s, r) /\ \A t \in BlockTxs(c) : PaysMe(t) => t \in DOMAIN r
  BY <1>1, TellBlockIs
<1>3. Grown(e.w, r)
  <2>1. Grown(e.w, s)
    BY DEF Scanned
  <2> HIDE DEF r
  <2>2. QED
    BY <1>2, <2>1, GrownTwice
<1>4. ASSUME Upwards(e.q, top, e.h)
      PROVE  /\ \A t \in TxsBelow(top, e.h + k) \ TxsBelow(top, e.h) : PaysMe(t) => t \in DOMAIN r
             /\ CleanChain(top) /\ e.fUpdate = TRUE /\ FollowsOn(e.w, TxsBelow(top, e.h), top)
                   => FollowsOn(r, TxsBelow(top, e.h + k), top)
             /\ CleanChain(top) /\ e.fUpdate = FALSE /\ FollowsOn(e.w, J, top)
                   => FollowsOn(r, J, top)
             /\ Returned(e.w, J, J) => Returned(r, J, J)
             /\ e.fUpdate = TRUE /\ Returned(e.w, TxsBelow(top, e.h), J)
                   => Returned(r, TxsBelow(top, e.h + k), J)
  <2> DEFINE n == e.h + k - 1
             T == TxsBelow(top, n)
  <2>1. /\ top \in Blocks /\ n \in 0..nHeight[top] /\ c = AtHeight(top, n)
        /\ n + 1 = e.h + k /\ n = e.h + (k - 1)
    <3>1. top \in Blocks /\ e.h \in Nat /\ e.h + Len(e.q) <= nHeight[top] + 1
      BY <1>4 DEF Upwards
    <3>2. nHeight[top] \in Nat
      BY <3>1, TreeAssumption
    <3>3. c = AtHeight(top, n)
      BY <1>4 DEF Upwards
    <3> DEFINE g == nHeight[top]
               l == Len(e.q)
               h == e.h
    <3>4. g \in Nat /\ l \in Nat /\ h \in Nat /\ k \in 1..l /\ h + l <= g + 1
      BY <1>1, <3>1, <3>2
    <3> HIDE DEF g, l, h
    <3>5. h + k - 1 \in 0..g /\ (h + k - 1) + 1 = h + k /\ h + k - 1 = h + (k - 1)
      BY <3>4
    <3>6. QED
      BY <3>1, <3>3, <3>5 DEF g, h
  <2> HIDE DEF n
  <2>2. /\ c \in Chain[top] /\ TxsBelow(top, n + 1) = ChainTxs(c)
        /\ n = 0 => c = GenesisBlock
        /\ n # 0 => /\ c # GenesisBlock /\ T = ChainTxs(pprev[c])
                    /\ TxsBelow(top, n + 1) = T \cup BlockTxs(c)
        /\ \A t \in BlockTxs(c) : t \in J \/ vin[t] = {}
    BY <2>1, BelowNext
  <2>3. n = 0 => T = {} /\ TxsBelow(top, n + 1) = {}
    BY <2>2, ChainTxsGenesis DEF TxsBelow
  <2> HIDE DEF T
  <2>4. \A t \in TxsBelow(top, n + 1) : t \in T \/ t \in BlockTxs(c)
    BY <2>2, <2>3
  <2>5. /\ \A t \in T \ TxsBelow(top, e.h) : PaysMe(t) => t \in DOMAIN s
        /\ CleanChain(top) /\ e.fUpdate = TRUE /\ FollowsOn(e.w, TxsBelow(top, e.h), top)
              => FollowsOn(s, T, top)
        /\ CleanChain(top) /\ e.fUpdate = FALSE /\ FollowsOn(e.w, J, top)
              => FollowsOn(s, J, top)
        /\ Returned(e.w, J, J) => Returned(s, J, J)
        /\ e.fUpdate = TRUE /\ Returned(e.w, TxsBelow(top, e.h), J) => Returned(s, T, J)
    BY <1>4, <2>1 DEF Scanned, T
  <2>6. ASSUME NEW t \in TxsBelow(top, n + 1) \ TxsBelow(top, e.h), PaysMe(t)
        PROVE  t \in DOMAIN r
    <3> HIDE DEF r, top, c
    <3>1. CASE t \in T
      BY <1>2, <2>5, <2>6, <3>1 DEF Grown
    <3>2. CASE t \in BlockTxs(c)
      BY <1>2, <2>6, <3>2
    <3>3. QED
      BY <2>4, <2>6, <3>1, <3>2
  <2>7. ASSUME CleanChain(top), e.fUpdate = TRUE, FollowsOn(e.w, TxsBelow(top, e.h), top)
        PROVE  FollowsOn(r, TxsBelow(top, n + 1), top)
    <3>1. CASE n = 0
      BY <2>3, <3>1 DEF FollowsOn
    <3>2. CASE n # 0
      <4>1. NextOn(c, top)
        <5>1. c \in Blocks \ {GenesisBlock} /\ c \in Chain[top] \ {GenesisBlock}
          BY <1>1, <2>2, <3>2
        <5>2. Clean(c)
          BY <2>7, <5>1 DEF CleanChain
        <5>3. \A t \in BlockTxs(c) : HomeOf(t, top) = c
          BY <2>1, <2>7, <5>1, HomeOfBlock
        <5>4. QED
          BY <5>1, <5>2, <5>3 DEF NextOn
      <4>2. FollowsOn(s, ChainTxs(pprev[c]), top)
        BY <2>2, <2>5, <2>7, <3>2
      <4>3. FollowsOn(r, ChainTxs(c), top)
        BY <1>1, <2>7, <4>1, <4>2, TellBlockIs
      <4>4. QED
        BY <2>2, <4>3
    <3>3. QED
      BY <3>1, <3>2
  <2>8. ASSUME CleanChain(top), e.fUpdate = FALSE, FollowsOn(e.w, J, top)
        PROVE  FollowsOn(r, J, top)
    <3>1. Sound(J)
      BY <2>1, <2>8, CleanIsSound
    <3>2. FollowsOn(s, J, top)
      BY <2>5, <2>8
    <3>3. QED
      BY <1>1, <2>8, <3>1, <3>2, TellBlockIs
  <2>9. ASSUME Returned(e.w, J, J) PROVE Returned(r, J, J)
    <3>1. Returned(s, J, J)
      BY <2>5, <2>9
    <3>2. QED
      BY <1>1, <2>2, <3>1, TellBlockIs
  <2>10. ASSUME e.fUpdate = TRUE, Returned(e.w, TxsBelow(top, e.h), J)
         PROVE  Returned(r, TxsBelow(top, n + 1), J)
    <3>1. Returned(s, T, J)
      BY <2>5, <2>10
    <3>2. Returned(r, T, J) /\ Returned(r, BlockTxs(c), J)
      BY <1>1, <2>2, <2>10, <3>1, TellBlockIs
    <3> HIDE DEF r, top, c, J
    <3>3. QED
      BY <2>4, <3>2 DEF Returned
  <2> HIDE DEF r
  <2>11. QED
    BY <2>1, <2>6, <2>7, <2>8, <2>9, <2>10
<1> HIDE DEF r
<1>5. Scanned(e, k, r)
  BY <1>3, <1>4, Zenon DEF Scanned, top, J
<1>6. QED
  BY <1>5, Zenon DEF TellBlockIn, r, c

\* Telling any blocks forgets nothing.
LEMMA TellBlocksGrow ==
    ASSUME NEW w, WalletOK(w), NEW q \in Seq(Blocks), NEW fUpdate \in BOOLEAN, NEW top, NEW h
    PROVE  Scanned([w |-> w, q |-> q, fUpdate |-> fUpdate, top |-> top, h |-> h], Len(q),
                   TellBlocks(w, q, fUpdate))
<1> DEFINE e == [w |-> w, q |-> q, fUpdate |-> fUpdate, top |-> top, h |-> h]
<1>0. e.w = w /\ e.q = q /\ e.fUpdate = fUpdate /\ e.top = top /\ e.h = h
  OBVIOUS
<1>1. ScanLoop!Loop(e, w, q) = TellBlocks(w, q, fUpdate)
  BY DEF TellBlocks, ScanLoop!Loop, FoldLeft, MapThenFoldSet,
         Max, ScanLoop!Max, TellBlockIn
<1> HIDE DEF e
<1>2. Scanned(e, 0, w)
  <2>1. Grown(w, w)
    BY DEF Grown
  <2>2. ASSUME Upwards(q, top, h) PROVE h + 0 = h
    BY <2>2 DEF Upwards
  <2>3. QED
    BY <1>0, <2>1, <2>2 DEF Scanned
<1>3. ASSUME NEW k \in 1..Len(q), NEW s, Scanned(e, k - 1, s)
      PROVE  Scanned(e, k, TellBlockIn(e, s, q[k]))
  <2>1. WalletOK(s)
    BY <1>3 DEF Scanned, Grown
  <2>2. QED
    BY <1>0, <1>3, <2>1, ScanStep
<1>4. Scanned(e, Len(q), TellBlocks(w, q, fUpdate))
  BY <1>1, <1>2, <1>3, ScanLoop!FoldInvariant
<1>5. QED
  BY <1>4 DEF e

(***************************************************************************)
(* All of a chain is told from a height h on.                              *)
(***************************************************************************)
LEMMA TellChainIs ==
    ASSUME NEW w, WalletOK(w), NEW top \in Blocks, NEW h \in 0..(nHeight[top] + 1),
           NEW fUpdate \in BOOLEAN
    PROVE  LET r == TellBlocks(w, UpFrom[top][h], fUpdate)
               T == TxsBelow(top, h)
               J == ChainTxs(top)
           IN  /\ Grown(w, r)
               /\ \A t \in J \ T : PaysMe(t) => t \in DOMAIN r
               /\ CleanChain(top) /\ fUpdate = TRUE /\ FollowsOn(w, T, top) => FollowsOn(r, J, top)
               /\ CleanChain(top) /\ fUpdate = FALSE /\ FollowsOn(w, J, top) => FollowsOn(r, J, top)
               /\ Returned(w, J, J) => Returned(r, J, J)
               /\ fUpdate = TRUE /\ Returned(w, T, J) => Returned(r, J, J)
<1> DEFINE q == UpFrom[top][h]
           n == nHeight[top] - h + 1
           e == [w |-> w, q |-> q, fUpdate |-> fUpdate, top |-> top, h |-> h]
           r == TellBlocks(w, q, fUpdate)
<1>1. /\ nHeight[top] \in Nat /\ h \in Nat /\ n \in Nat /\ h + n = nHeight[top] + 1
      /\ \A i \in 1..n : h + i - 1 \in 0..nHeight[top]
  <2>1. nHeight[top] \in Nat
    BY TreeAssumption
  <2> DEFINE g == nHeight[top]
  <2>2. g \in Nat /\ h \in 0..(g + 1)
    BY <2>1
  <2> HIDE DEF g
  <2>3. /\ h \in Nat /\ g - h + 1 \in Nat /\ h + (g - h + 1) = g + 1
        /\ \A i \in 1..(g - h + 1) : h + i - 1 \in 0..g
    BY <2>2
  <2>4. QED
    BY <2>2, <2>3 DEF g
<1>2. q = [i \in 1..n |-> AtHeight(top, h + i - 1)]
  BY DEF UpFrom
<1> HIDE DEF n, q
<1>3. \A i \in 1..n : AtHeight(top, h + i - 1) \in Blocks
  BY <1>1, BelowNext
<1>4. q \in Seq(Blocks) /\ Len(q) = n
  BY <1>1, <1>2, <1>3
<1>5. Upwards(q, top, h)
  BY <1>1, <1>2, <1>4 DEF Upwards
<1>6. e.w = w /\ e.q = q /\ e.fUpdate = fUpdate /\ e.top = top /\ e.h = h
  OBVIOUS
<1>7. Scanned(e, n, r)
  BY <1>4, TellBlocksGrow
<1>8. TxsBelow(top, h + n) = ChainTxs(top)
  <2>1. nHeight[top] + 1 # 0 /\ (nHeight[top] + 1) - 1 = nHeight[top]
    BY <1>1
  <2>2. AtHeight(top, nHeight[top]) = top
    BY AtHeightIs, ChainClosed
  <2>3. QED
    BY <1>1, <2>1, <2>2 DEF TxsBelow
<1> HIDE DEF r, e
<1>9. Grown(w, r)
  BY <1>6, <1>7 DEF Scanned
<1>10. QED
  BY <1>5, <1>6, <1>7, <1>8, <1>9 DEF Scanned, r, q

-----------------------------------------------------------------------------
(***************************************************************************)
(* Blocks are disconnected.  A coinstake gives its coins back, and nothing *)
(* else changes.                                                           *)
(***************************************************************************)
Staked(S, u) == UNION {Spends(t, u) : t \in S \cap CoinStakes}

\* Flags change and change again.
LEMMA RemarkedTwice ==
    ASSUME NEW w, NEW s, NEW r, Remarked(w, s), Remarked(s, r)
    PROVE  Remarked(w, r)
BY DEF Remarked

\* A wallet whose flags change has grown.
LEMMA RemarkedGrows ==
    ASSUME NEW w, NEW r, Remarked(w, r)
    PROVE  Grown(w, r)
BY DEF Remarked, Grown

\* One transaction.
LEMMA DisableTransactionIs ==
    ASSUME NEW w, WalletOK(w), NEW t \in Txs
    PROVE  LET r == DisableTransaction(w, t)
           IN  /\ Remarked(w, r)
               /\ \A u \in DOMAIN w : r[u].vfSpent = w[u].vfSpent \ Staked({t}, u)
<1> DEFINE r == DisableTransaction(w, t)
<1>1. CASE t \in CoinStakes
  <2>1. r = MarkUnspent(w, MyInputs(w, t))
    BY <1>1 DEF DisableTransaction
  <2>2. MyInputs(w, t) \in SUBSET Mine /\ \A o \in MyInputs(w, t) : o[1] \in DOMAIN w
    BY DEF MyInputs
  <2>3. \A u \in DOMAIN w : OutputsOf(MyInputs(w, t), u) = Spends(t, u)
    BY DEF OutputsOf, MyInputs, Spends
  <2>4. \A u : Staked({t}, u) = Spends(t, u)
    BY <1>1 DEF Staked
  <2>5. /\ Remarked(w, r)
        /\ \A u \in DOMAIN w : r[u].vfSpent = w[u].vfSpent \ OutputsOf(MyInputs(w, t), u)
    BY <2>1, <2>2, MarkUnspentIs
  <2> HIDE DEF r
  <2>6. QED
    BY <2>3, <2>4, <2>5 DEF r
<1>2. CASE t \notin CoinStakes
  <2>1. r = w
    BY <1>2 DEF DisableTransaction
  <2>2. \A u : Staked({t}, u) = {}
    BY <1>2 DEF Staked
  <2> HIDE DEF r
  <2>3. Remarked(w, r) /\ \A u \in DOMAIN w : r[u].vfSpent = w[u].vfSpent \ Staked({t}, u)
    BY <2>1, <2>2 DEF Remarked
  <2>4. QED
    BY <2>3 DEF r
<1>3. QED
  BY <1>1, <1>2

DisableIn(e, s, t) == DisableTransaction(s, t)

Disabled(e, k, s) ==
    /\ Remarked(e.w, s)
    /\ \A u \in DOMAIN e.w : s[u].vfSpent = e.w[u].vfSpent \ Staked(First(e.b, k), u)

DisableLoop == INSTANCE FoldInduction WITH Op <- DisableIn, Good <- Disabled

\* A block.
LEMMA DisableBlockIs ==
    ASSUME NEW w, WalletOK(w), NEW b \in Blocks
    PROVE  LET r == DisableBlock(w, b)
           IN  /\ Remarked(w, r)
               /\ \A u \in DOMAIN w : r[u].vfSpent = w[u].vfSpent \ Staked(BlockTxs(b), u)
<1> DEFINE q == vtx[b]
           e == [w |-> w, b |-> b]
           r == DisableBlock(w, b)
<1>0. e.w = w /\ e.b = b
  OBVIOUS
<1>1. q \in Seq(Txs) /\ Len(q) \in Nat
  BY LedgerAssumption
<1>2. DisableLoop!Loop(e, w, q) = r
  BY DEF DisableBlock, DisableLoop!Loop, FoldLeft, MapThenFoldSet,
         Max, DisableLoop!Max, DisableIn
<1> HIDE DEF e, r
<1>3. Disabled(e, 0, w)
  <2>1. \A u : Staked(First(b, 0), u) = {}
    BY DEF First, Staked
  <2>2. Remarked(w, w)
    BY DEF Remarked
  <2>3. QED
    BY <1>0, <2>1, <2>2 DEF Disabled
<1>4. ASSUME NEW k \in 1..Len(q), NEW s, Disabled(e, k - 1, s)
      PROVE  Disabled(e, k, DisableIn(e, s, q[k]))
  <2> DEFINE v == q[k]
             n == DisableTransaction(s, v)
  <2>1. v \in Txs /\ WalletOK(s) /\ Remarked(w, s) /\ DOMAIN s = DOMAIN w
    BY <1>0, <1>1, <1>4 DEF Disabled, Remarked
  <2>2. First(b, k) = First(b, k - 1) \cup {v}
    <3>1. 1..k = (1..(k - 1)) \cup {k}
      BY <1>1
    <3>2. QED
      BY <3>1 DEF First
  <2> HIDE DEF v
  <2>3. \A u : Staked(First(b, k), u) = Staked(First(b, k - 1), u) \cup Staked({v}, u)
    BY <2>2 DEF Staked
  <2>4. Remarked(s, n) /\ \A u \in DOMAIN s : n[u].vfSpent = s[u].vfSpent \ Staked({v}, u)
    BY <2>1, DisableTransactionIs
  <2> HIDE DEF n
  <2>5. \A u \in DOMAIN w : s[u].vfSpent = w[u].vfSpent \ Staked(First(b, k - 1), u)
    BY <1>0, <1>4 DEF Disabled
  <2>6. Remarked(w, n)
    BY <2>1, <2>4, RemarkedTwice
  <2>7. Disabled(e, k, n)
    BY <1>0, <2>1, <2>3, <2>4, <2>5, <2>6 DEF Disabled
  <2>8. QED
    BY <1>0, <2>7, Zenon DEF DisableIn, n, v
<1>5. Disabled(e, Len(q), r)
  BY <1>1, <1>2, <1>3, <1>4, DisableLoop!FoldInvariant
<1>6. First(b, Len(q)) = BlockTxs(b)
  BY <1>1 DEF First, BlockTxs, ToSet
<1>7. QED
  BY <1>0, <1>5, <1>6 DEF Disabled, r

\* What the wallet knows of the chain below a block it still knows when the block is gone.
LEMMA DisableBlockFollows ==
    ASSUME NEW w, WalletOK(w), NEW b \in Blocks \ {GenesisBlock}, CleanChain(b), NEW top,
           FollowsOn(w, ChainTxs(b), top), Returned(w, ChainTxs(b), ChainTxs(b))
    PROVE  LET r == DisableBlock(w, b)
               T == ChainTxs(pprev[b])
           IN  FollowsOn(r, T, top) /\ Returned(r, T, T)
<1> DEFINE r == DisableBlock(w, b)
           T == ChainTxs(pprev[b])
<1>1. Remarked(w, r) /\ \A u \in DOMAIN w : r[u].vfSpent = w[u].vfSpent \ Staked(BlockTxs(b), u)
  BY DisableBlockIs
<1>2. ChainTxs(b) = T \cup BlockTxs(b) /\ BlockTxs(b) \cap T = {}
  <2>1. b \in Chain[b] \ {GenesisBlock}
    BY ChainClosed
  <2>2. Clean(b)
    BY <2>1 DEF CleanChain
  <2>3. QED
    BY <2>2, ChainTxsStep, CleanIsNew
<1>3. Sound(ChainTxs(b)) /\ Sound(T)
  <2>1. CleanChain(pprev[b]) /\ pprev[b] \in Blocks
    BY DisconnectLedger, TreeAssumption
  <2>2. QED
    BY <2>1, CleanIsSound
<1> HIDE DEF r, T
<1>4. DOMAIN r = DOMAIN w /\ \A u \in DOMAIN w : r[u].hashBlock = w[u].hashBlock
  BY <1>1 DEF Remarked
<1>5. ASSUME NEW t \in T
      PROVE  /\ PaysMe(t) => t \in DOMAIN r /\ r[t].hashBlock = HomeOf(t, top)
             /\ t \notin CoinStakes /\ vin[t] \cap Mine # {} => t \in DOMAIN r
             /\ \A o \in vin[t] \cap Mine : o[2] \in r[o[1]].vfSpent
  <2>1. t \in ChainTxs(b)
    BY <1>2
  <2>2. ASSUME NEW o \in vin[t] \cap Mine PROVE o[2] \in r[o[1]].vfSpent
    <3>1. o[1] \in ChainTxs(b)
      BY <1>3, <2>1 DEF Sound
    <3>2. o = <<o[1], o[2]>> /\ PaysMe(o[1])
      BY MinePays
    <3>3. o[1] \in DOMAIN w
      BY <3>1, <3>2 DEF FollowsOn
    <3>4. o[2] \in w[o[1]].vfSpent
      BY <2>1 DEF FollowsOn
    <3>5. ASSUME NEW u \in BlockTxs(b), o[2] \in Spends(u, o[1]) PROVE FALSE
      <4>1. u \in ChainTxs(b) /\ u \in Txs
        BY <1>2, <1>3 DEF Sound
      <4>2. o \in vin[u]
        BY <3>2, <3>5, <4>1, SpendsAre
      <4>3. u = t
        BY <1>3, <2>1, <4>1, <4>2 DEF Sound
      <4>4. QED
        BY <1>2, <4>3
    <3>6. o[2] \notin Staked(BlockTxs(b), o[1])
      BY <3>5 DEF Staked
    <3>7. QED
      BY <1>1, <3>3, <3>4, <3>6
  <2>3. PaysMe(t) => t \in DOMAIN w /\ w[t].hashBlock = HomeOf(t, top)
    BY <2>1 DEF FollowsOn
  <2>4. t \notin CoinStakes /\ vin[t] \cap Mine # {} => t \in DOMAIN w
    BY <2>1 DEF FollowsOn
  <2>5. QED
    BY <1>4, <2>2, <2>3, <2>4
<1>6. ASSUME NEW t \in T \cap DOMAIN r, NEW n \in r[t].vfSpent
      PROVE  Justified(r, T, t, n)
  <2>1. t \in ChainTxs(b) /\ t \in DOMAIN w /\ n \in w[t].vfSpent
        /\ n \notin Staked(BlockTxs(b), t)
    BY <1>1, <1>2, <1>4
  <2>2. PICK u \in Txs : /\ <<t, n>> \in vin[u]
                         /\ u \in ChainTxs(b) \/ (u \notin CoinStakes /\ u \in DOMAIN w)
    BY <2>1 DEF Returned, Justified
  <2>3. CASE u \in T \/ (u \notin CoinStakes /\ u \in DOMAIN w)
    BY <1>4, <2>2, <2>3 DEF Justified
  <2>4. CASE u \in BlockTxs(b)
    <3>1. <<t, n>> \in Mine
      <4>1. n \in Own(t)
        BY <2>1 DEF WalletOK, IsWtx
      <4>2. Mine \in SUBSET Outpoints
        BY WalletAssumption
      <4>3. QED
        BY <4>1, <4>2, OutputsAre DEF Own
    <3>2. n \in Spends(u, t)
      BY <2>2, <3>1 DEF Spends, OutputsOf
    <3>3. u \notin CoinStakes
      BY <2>1, <2>4, <3>2 DEF Staked
    <3>4. u \in DOMAIN w
      BY <1>2, <2>2, <2>4, <3>1, <3>3 DEF FollowsOn
    <3>5. QED
      BY <1>4, <2>2, <3>3, <3>4 DEF Justified
  <2>5. QED
    BY <1>2, <2>2, <2>3, <2>4
<1>7. FollowsOn(r, T, top)
  BY <1>5 DEF FollowsOn
<1>8. Returned(r, T, T)
  BY <1>6 DEF Returned
<1>9. QED
  BY <1>7, <1>8 DEF r, T

-----------------------------------------------------------------------------
(***************************************************************************)
(* A branch is disconnected, downwards from top.                           *)
(***************************************************************************)
DisableBlocks(w, q) == FoldLeft(DisableBlock, w, q)

DisableBlockIn(e, s, b) == DisableBlock(s, b)

Downwards(q, top) ==
    /\ top \in Blocks /\ Len(q) \in 0..nHeight[top]
    /\ \A i \in 1..Len(q) : q[i] = AtHeight(top, nHeight[top] - i + 1)

Knows(w, T, e) == FollowsOn(w, T, e) /\ Returned(w, T, T)

DisabledTo(e, k, s) ==
    /\ Remarked(e.w, s)
    /\ Downwards(e.q, e.top) /\ CleanChain(e.top) /\ Knows(e.w, ChainTxs(e.top), e.top)
          => Knows(s, ChainTxs(AtHeight(e.top, nHeight[e.top] - k)), e.top)

DisableBranchLoop == INSTANCE FoldInduction WITH Op <- DisableBlockIn, Good <- DisabledTo

\* Blocks are disconnected.
LEMMA DisableBlocksAre ==
    ASSUME NEW w, WalletOK(w), NEW q \in Seq(Blocks), NEW top
    PROVE  LET r == DisableBlocks(w, q)
           IN  /\ Remarked(w, r)
               /\ Downwards(q, top) /\ CleanChain(top) /\ Knows(w, ChainTxs(top), top)
                     => Knows(r, ChainTxs(AtHeight(top, nHeight[top] - Len(q))), top)
<1> DEFINE e == [w |-> w, q |-> q, top |-> top]
           r == DisableBlocks(w, q)
<1>0. e.w = w /\ e.q = q /\ e.top = top
  OBVIOUS
<1>1. DisableBranchLoop!Loop(e, w, q) = r
  BY DEF DisableBlocks, DisableBranchLoop!Loop, FoldLeft, MapThenFoldSet, Max, DisableBranchLoop!Max, DisableBlockIn
<1> HIDE DEF e, r
<1>2. DisabledTo(e, 0, w)
  <2>1. Remarked(w, w)
    BY DEF Remarked
  <2>2. ASSUME top \in Blocks PROVE AtHeight(top, nHeight[top] - 0) = top
    <3>1. nHeight[top] - 0 = nHeight[top]
      BY <2>2, TreeAssumption
    <3>2. QED
      BY <2>2, <3>1, AtHeightIs, ChainClosed
  <2>3. QED
    BY <1>0, <2>1, <2>2 DEF DisabledTo, Downwards
<1>3. ASSUME NEW k \in 1..Len(q), NEW s, DisabledTo(e, k - 1, s)
      PROVE  DisabledTo(e, k, DisableBlockIn(e, s, q[k]))
  <2> DEFINE b == q[k]
             n == DisableBlock(s, b)
  <2>1. b \in Blocks /\ Remarked(w, s) /\ WalletOK(s)
    BY <1>0, <1>3 DEF DisabledTo, Remarked
  <2>2. Remarked(w, n)
    <3>1. Remarked(s, n)
      BY <2>1, DisableBlockIs
    <3> HIDE DEF n
    <3>2. QED
      BY <2>1, <3>1, RemarkedTwice
  <2>3. ASSUME Downwards(q, top), CleanChain(top), Knows(w, ChainTxs(top), top)
        PROVE  Knows(n, ChainTxs(AtHeight(top, nHeight[top] - k)), top)
    <3> DEFINE g == nHeight[top] - k + 1
    <3>1. /\ top \in Blocks /\ b = AtHeight(top, g) /\ g \in 1..nHeight[top]
          /\ g - 1 = nHeight[top] - k /\ nHeight[top] - (k - 1) = g /\ g \in 0..nHeight[top]
      <4> DEFINE t == nHeight[top]
                 l == Len(q)
      <4>1. top \in Blocks /\ l \in 0..t /\ k \in 1..l /\ b = AtHeight(top, g)
        BY <2>3 DEF Downwards
      <4>2. t \in Nat
        BY <4>1, TreeAssumption
      <4> HIDE DEF t, l, b
      <4>3. /\ t - k + 1 \in 1..t /\ (t - k + 1) - 1 = t - k
            /\ t - (k - 1) = t - k + 1 /\ t - k + 1 \in 0..t
        BY <4>1, <4>2
      <4>4. QED
        BY <4>1, <4>3 DEF t
    <3> HIDE DEF g
    <3>2. b \in Blocks \ {GenesisBlock} /\ pprev[b] = AtHeight(top, g - 1)
      BY <3>1, AtHeightPrev
    <3>3. b \in Chain[top]
      BY <3>1, HeightOnChain
    <3>4. CleanChain(b)
      BY <2>3, <3>1, <3>3, CleanBelow
    <3>5. Knows(s, ChainTxs(b), top)
      BY <1>0, <1>3, <2>3, <3>1 DEF DisabledTo
    <3> HIDE DEF b
    <3>6. Knows(DisableBlock(s, b), ChainTxs(pprev[b]), top)
      BY <2>1, <3>2, <3>4, <3>5, DisableBlockFollows DEF Knows
    <3>7. QED
      BY <3>1, <3>2, <3>6
  <2> HIDE DEF n, b
  <2>4. DisabledTo(e, k, n)
    BY <1>0, <2>2, <2>3 DEF DisabledTo
  <2>5. QED
    BY <1>0, <2>4, Zenon DEF DisableBlockIn, n, b
<1>4. DisabledTo(e, Len(q), r)
  BY <1>1, <1>2, <1>3, DisableBranchLoop!FoldInvariant
<1>5. QED
  BY <1>0, <1>4 DEF DisabledTo, r

\* What justifies a flag on a part of the chain justifies it on more of it.
LEMMA ReturnedMore ==
    ASSUME NEW w, NEW T, NEW J, NEW K, J \subseteq K, Returned(w, T, J)
    PROVE  Returned(w, T, K)
BY DEF Returned, Justified

\* ToldOf in terms of the two loops.
LEMMA ToldOfIs ==
    ASSUME NEW d, NEW k
    PROVE  ToldOf(d, k) = TellBlocks(DisableBlocks(mapWallet, SubSeq(vDisconnect, 1, d)),
                                     SubSeq(vConnect, 1, k), TRUE)
<1>1. \A w, q : FoldLeft(SyncBlock, w, q) = TellBlocks(w, q, TRUE)
  BY DEF TellBlocks, TellBlock, SyncBlock, FoldLeft, MapThenFoldSet
<1>2. QED
  BY <1>1, Zenon DEF ToldOf, DisableBlocks

\* The beginning of a sequence.
LEMMA Beginning ==
    ASSUME NEW S, NEW q \in Seq(S), NEW d \in 0..Len(q)
    PROVE  /\ SubSeq(q, 1, d) \in Seq(S)
           /\ d = Len(q) => SubSeq(q, 1, d) = q
<1>1. d \in Nat /\ Len(q) \in Nat /\ d <= Len(q)
  OBVIOUS
<1>2. SubSeq(q, 1, d) = [i \in 1..d |-> q[i]]
  BY <1>1
<1>3. q = [i \in 1..Len(q) |-> q[i]]
  OBVIOUS
<1>4. \A i \in 1..d : q[i] \in S
  BY <1>1
<1>5. QED
  BY <1>1, <1>2, <1>3, <1>4

\* Whatever part of a reorganisation the wallet is told of, it forgets nothing.
LEMMA ToldGrows ==
    ASSUME PointersInv, WalletOK(mapWallet),
           NEW d \in 0..Len(vDisconnect), NEW k \in 0..Len(vConnect)
    PROVE  Grown(mapWallet, ToldOf(d, k))
<1> DEFINE p == SubSeq(vDisconnect, 1, d)
           q == SubSeq(vConnect, 1, k)
           s == DisableBlocks(mapWallet, p)
           r == TellBlocks(s, q, TRUE)
<1>1. p \in Seq(Blocks) /\ q \in Seq(Blocks)
  BY BranchesAre, Beginning
<1> HIDE DEF p, q
<1>2. Remarked(mapWallet, s)
  BY <1>1, DisableBlocksAre
<1> HIDE DEF s
<1>3. Grown(mapWallet, s) /\ WalletOK(s)
  BY <1>2, RemarkedGrows DEF Remarked
<1>4. Grown(s, r)
  BY <1>1, <1>3, TellBlocksGrow DEF Scanned
<1> HIDE DEF r
<1>5. Grown(mapWallet, r)
  BY <1>3, <1>4, GrownTwice
<1>6. QED
  BY <1>5, ToldOfIs DEF r, s, p, q

\* A whole reorganisation leaves the wallet with what it should know of the new chain.
LEMMA ToldReorganize ==
    ASSUME PointersInv, WalletOK(mapWallet), CleanChain(pindexBest), CleanChain(pindexIntermediate)
    PROVE  LET r == ToldOf(Len(vDisconnect), Len(vConnect))
               x == pindexIntermediate
           IN  /\ \A t \in ChainTxs(x) \ ChainTxs(pindexBest) : PaysMe(t) => t \in DOMAIN r
               /\ Knows(mapWallet, ChainTxs(pindexBest), pindexBest) => Knows(r, ChainTxs(x), x)
<1> DEFINE b == pindexBest
           x == pindexIntermediate
           f == Fork[b][x]
           h == nHeight[f]
           d == Len(vDisconnect)
           p == SubSeq(vDisconnect, 1, d)
           s == DisableBlocks(mapWallet, p)
           r == TellBlocks(s, vConnect, TRUE)
<1>1. /\ b \in Blocks /\ x \in Blocks /\ f = Fork[x][b]
      /\ vDisconnect = Reverse(Branch(b, x)) /\ vConnect = UpFrom[x][h + 1]
      /\ vDisconnect \in Seq(Blocks) /\ vConnect \in Seq(Blocks)
      /\ d = Len(Branch(b, x)) /\ d \in Nat
  BY BranchesAre DEF Branch
<1>2. f \in Chain[b] /\ f \in Chain[x] /\ f \in Blocks
  <2>1. f \in Chain[b] /\ f \in Chain[x]
    BY <1>1, ForkOnChains
  <2>2. QED
    BY <1>1, <2>1, ChainTransitive
<1>3. /\ h \in Nat /\ h + 1 \in 0..(nHeight[x] + 1) /\ (h + 1) - 1 = h /\ h + 1 # 0
      /\ AtHeight(x, h) = f /\ AtHeight(b, h) = f /\ nHeight[b] - d = h
  <2>1. nHeight[b] \in Nat /\ nHeight[x] \in Nat /\ h \in Nat
    BY <1>1, <1>2, TreeAssumption
  <2>2. AtHeight(x, h) = f /\ h \in 0..nHeight[x] /\ AtHeight(b, h) = f
    BY <1>1, <1>2, AtHeightIs
  <2>3. d = nHeight[b] - h
    BY <1>1, BranchShape
  <2> DEFINE nb == nHeight[b]
             nx == nHeight[x]
  <2>4. nb \in Nat /\ nx \in Nat /\ h \in Nat /\ h \in 0..nx /\ d = nb - h
    BY <2>1, <2>2, <2>3
  <2> HIDE DEF nb, nx, h, d
  <2>5. h + 1 \in 0..(nx + 1) /\ (h + 1) - 1 = h /\ h + 1 # 0 /\ nb - d = h
    BY <2>4
  <2>6. QED
    BY <2>2, <2>4, <2>5 DEF nb, nx
<1>4. p \in Seq(Blocks) /\ Len(p) = d /\ Downwards(p, b)
  <2>1. d \in 0..Len(Branch(b, x))
    BY <1>1
  <2>2. /\ p \in Seq(Blocks) /\ Len(p) = d
        /\ \A k \in 1..d : p[k] = AtHeight(b, nHeight[b] - k + 1)
        /\ d \in 0..nHeight[b]
    BY <1>1, <2>1, BranchDown
  <2>3. QED
    BY <1>1, <2>2 DEF Downwards
<1>5. ToldOf(Len(vDisconnect), Len(vConnect)) = r
  <2>1. SubSeq(vConnect, 1, Len(vConnect)) = vConnect
    BY <1>1, Beginning
  <2>2. QED
    BY <2>1, ToldOfIs
<1> HIDE DEF p, h, d, f, b, x
<1>6. /\ Remarked(mapWallet, s)
      /\ Knows(mapWallet, ChainTxs(b), b) => Knows(s, ChainTxs(f), b)
  <2>1. CleanChain(b)
    BY DEF b
  <2>2. QED
    BY <1>3, <1>4, <2>1, DisableBlocksAre
<1> HIDE DEF s
<1>7. WalletOK(s)
  BY <1>6 DEF Remarked
<1>8. TxsBelow(x, h + 1) = ChainTxs(f)
  BY <1>3 DEF TxsBelow
<1>9. CleanChain(x)
  BY DEF x
<1>10. /\ \A t \in ChainTxs(x) \ ChainTxs(f) : PaysMe(t) => t \in DOMAIN r
       /\ FollowsOn(s, ChainTxs(f), x) => FollowsOn(r, ChainTxs(x), x)
       /\ Returned(s, ChainTxs(f), ChainTxs(x)) => Returned(r, ChainTxs(x), ChainTxs(x))
  BY <1>1, <1>3, <1>7, <1>8, <1>9, TellChainIs
<1> HIDE DEF r
<1>11. ChainTxs(f) \subseteq ChainTxs(x) /\ ChainTxs(f) \subseteq ChainTxs(b)
  <2>1. Chain[f] \subseteq Chain[x] /\ Chain[f] \subseteq Chain[b]
    BY <1>1, <1>2, ChainTransitive
  <2>2. QED
    BY <2>1 DEF ChainTxs
<1>12. ASSUME Knows(mapWallet, ChainTxs(b), b) PROVE Knows(r, ChainTxs(x), x)
  <2>1. FollowsOn(s, ChainTxs(f), b) /\ Returned(s, ChainTxs(f), ChainTxs(f))
    BY <1>6, <1>12 DEF Knows
  <2>2. CleanChain(b)
    BY DEF b
  <2>3. FollowsOn(s, ChainTxs(f), f)
    BY <1>1, <1>2, <2>1, <2>2, FollowsBelow
  <2>4. FollowsOn(s, ChainTxs(f), x)
    BY <1>1, <1>2, <1>9, <2>3, FollowsBelow
  <2>5. Returned(s, ChainTxs(f), ChainTxs(x))
    BY <1>11, <2>1, ReturnedMore
  <2>6. QED
    BY <1>10, <2>4, <2>5 DEF Knows
<1>13. \A t \in ChainTxs(x) \ ChainTxs(b) : PaysMe(t) => t \in DOMAIN r
  BY <1>10, <1>11
<1>14. QED
  BY <1>5, <1>12, <1>13 DEF b, x

-----------------------------------------------------------------------------
(***************************************************************************)
(* ReacceptWalletTransactions.  The wallet's transactions go back to the   *)
(* pool, with the copies they rest on; spends that only the chain knows    *)
(* are marked; and the chain is scanned again if there were any.           *)
(***************************************************************************)
Known(w, u) == u \in DOMAIN w \/ \E t \in DOMAIN w : u \in DOMAIN w[t].vtxPrev

\* What the pool q has and p had not is not minted, and the wallet knows it.
Reentered(w, p, q) == \A u \in q.mapTx : u \in p.mapTx \/ (~Minted(u) /\ Known(w, u))

\* A wallet that has grown knows what it knew.
LEMMA GrownKnows ==
    ASSUME NEW w, NEW r, Grown(w, r), NEW u, Known(w, u)
    PROVE  Known(r, u)
BY DEF Grown, Known

ReenterIn(e, s, u) == Resurrect(s, u)

ReenteredTo(e, k, s) == \A u \in s.mapTx : u \in e.p.mapTx \/ (~Minted(u) /\ u \in e.S)

ReenterLoop == INSTANCE FoldInduction WITH Op <- ReenterIn, Good <- ReenteredTo

\* What a sequence of transactions brings into the pool.
LEMMA ResurrectEnters ==
    ASSUME NEW p, NEW q \in Seq(Txs), NEW S, \A i \in 1..Len(q) : q[i] \in S
    PROVE  \A u \in FoldLeft(Resurrect, p, q).mapTx : u \in p.mapTx \/ (~Minted(u) /\ u \in S)
<1> DEFINE e == [p |-> p, S |-> S]
           m == FoldLeft(Resurrect, p, q)
<1>1. e.p = p /\ e.S = S
  OBVIOUS
<1>2. ReenterLoop!Loop(e, p, q) = m
  BY DEF ReenterLoop!Loop, FoldLeft, MapThenFoldSet,
         Max, ReenterLoop!Max, ReenterIn
<1> HIDE DEF e, m
<1>3. ReenteredTo(e, 0, p)
  BY <1>1 DEF ReenteredTo
<1>4. ASSUME NEW s, NEW u
      PROVE  \A v \in Resurrect(s, u).mapTx : v \in s.mapTx \/ (~Minted(v) /\ v = u)
  BY DEF Resurrect, addUnchecked
<1>5. \A k \in 1..Len(q) : \A s : ReenteredTo(e, k - 1, s) => ReenteredTo(e, k, ReenterIn(e, s, q[k]))
  BY <1>1, <1>4 DEF ReenteredTo, ReenterIn
<1>6. ReenteredTo(e, Len(q), m)
  BY <1>2, <1>3, <1>5, ReenterLoop!FoldInvariant
<1>7. QED
  BY <1>1, <1>6 DEF ReenteredTo, m

\* One transaction of the wallet goes back to the pool.
LEMMA AcceptWalletIs ==
    ASSUME NEW w, NEW t \in DOMAIN w, NEW p
    PROVE  Reentered(w, p, AcceptWalletTransaction(p, t, w[t]))
<1> DEFINE missing == {u \in DOMAIN w[t].vtxPrev : ~Minted(u) /\ txindex[u] = NULL}
           q == InHashOrder(missing)
           S == DOMAIN w[t].vtxPrev
           m == FoldLeft(Resurrect, p, q)
<1>1. q \in Seq(Txs) /\ \A i \in 1..Len(q) : q[i] \in S
  <2>1. q \in Seq(Txs) /\ \A i \in 1..Len(q) : q[i] \in missing
    BY InHashOrderIsSeq
  <2>2. QED
    BY <2>1
<1>2. AcceptWalletTransaction(p, t, w[t]) = Resurrect(m, t)
  BY DEF AcceptWalletTransaction
<1> HIDE DEF q
<1>3. \A u \in m.mapTx : u \in p.mapTx \/ (~Minted(u) /\ u \in S)
  BY <1>1, ResurrectEnters
<1> HIDE DEF m
<1>4. ASSUME NEW u \in Resurrect(m, t).mapTx
      PROVE  u \in p.mapTx \/ (~Minted(u) /\ Known(w, u))
  <2>1. u \in m.mapTx \/ (~Minted(u) /\ u = t)
    BY DEF Resurrect, addUnchecked
  <2>2. QED
    BY <1>3, <2>1 DEF Known
<1>5. QED
  BY <1>2, <1>4 DEF Reentered

\* Spends of the chain that the wallet did not know are marked.
Marked(w, r) ==
    /\ Remarked(w, r)
    /\ \A u \in DOMAIN w : /\ w[u].vfSpent \subseteq r[u].vfSpent
                           /\ \A n \in r[u].vfSpent : n \in w[u].vfSpent \/
                                 (txindex[u] # NULL /\ n \in SpentInChain(u))

IsState(s) == s = [w |-> s.w, p |-> s.p, missing |-> s.missing, fRepeat |-> s.fRepeat]

Reaccepts(s, r) == /\ IsState(r) /\ Marked(s.w, r.w) /\ Reentered(s.w, s.p, r.p)
                   /\ r.fRepeat = s.fRepeat

\* The outputs of a transaction that the chain has spent are outputs of the wallet's.
LEMMA SpentInChainOwn ==
    ASSUME NEW t
    PROVE  SpentInChain(t) \subseteq Own(t)
<1>1. Mine \in SUBSET Outpoints
  BY WalletAssumption
<1>2. \A n : n \in Own(t) <=> <<t, n>> \in Mine
  BY <1>1, OutputsAre DEF Own
<1>3. QED
  BY <1>2 DEF SpentInChain

\* One transaction.
LEMMA ReacceptTxIs ==
    ASSUME NEW s, IsState(s), WalletOK(s.w), NEW t
    PROVE  Reaccepts(s, ReacceptTx(s, t))
<1> DEFINE wtx == s.w[t]
           flags == wtx.vfSpent \cup SpentInChain(t)
           r == ReacceptTx(s, t)
           miss == s.missing \/ ~(SpentInChain(t) \subseteq wtx.vfSpent)
<1>0. Marked(s.w, s.w) /\ Reentered(s.w, s.p, s.p)
  BY DEF Marked, Remarked, Reentered
<1>1. CASE r = s
  BY <1>0, <1>1 DEF Reaccepts
<1>2. CASE /\ t \in DOMAIN s.w /\ txindex[t] # NULL
           /\ r = [s EXCEPT !.w = [@ EXCEPT ![t] = SetSpent(wtx, flags)],
                            !.missing = @ \/ ~(SpentInChain(t) \subseteq wtx.vfSpent)]
  <2> DEFINE w2 == [s.w EXCEPT ![t] = SetSpent(wtx, flags)]
  <2>1. IsWtx(t, wtx) /\ flags \in SUBSET Own(t)
    <3>1. IsWtx(t, wtx)
      BY <1>2 DEF WalletOK
    <3>2. QED
      BY <3>1, SpentInChainOwn DEF IsWtx
  <2> HIDE DEF flags
  <2>2. /\ IsWtx(t, SetSpent(wtx, flags))
        /\ SetSpent(wtx, flags).vfSpent = flags
        /\ SetSpent(wtx, flags).hashBlock = wtx.hashBlock
        /\ SetSpent(wtx, flags).vtxPrev = wtx.vtxPrev
    BY <2>1, SetSpentIs
  <2> DEFINE x == SetSpent(wtx, flags)
  <2> HIDE DEF x
  <2>3. /\ DOMAIN w2 = DOMAIN s.w /\ w2 = [u \in DOMAIN w2 |-> w2[u]]
        /\ w2[t] = x /\ \A u \in DOMAIN s.w \ {t} : w2[u] = s.w[u]
    <3>1. w2 = [u \in DOMAIN s.w |-> IF u = t THEN x ELSE s.w[u]]
      BY <1>2 DEF WalletOK, x
    <3> HIDE DEF w2
    <3>2. QED
      BY <1>2, <3>1
  <2> HIDE DEF w2, wtx
  <2>4. wtx = s.w[t]
    BY DEF wtx
  <2>5. Remarked(s.w, w2)
    BY <2>2, <2>3, <2>4 DEF Remarked, WalletOK, x
  <2>6. ASSUME NEW u \in DOMAIN s.w
        PROVE  /\ s.w[u].vfSpent \subseteq w2[u].vfSpent
               /\ \A n \in w2[u].vfSpent : n \in s.w[u].vfSpent \/
                                 (txindex[u] # NULL /\ n \in SpentInChain(u))
    <3>1. CASE u = t
      BY <1>2, <2>2, <2>3, <2>4, <3>1 DEF x, flags
    <3>2. CASE u # t
      BY <2>3, <3>2
    <3>3. QED
      BY <3>1, <3>2
  <2>7. Marked(s.w, w2)
    BY <2>5, <2>6 DEF Marked
  <2>8. r = [w |-> w2, p |-> s.p, missing |-> miss, fRepeat |-> s.fRepeat]
    <3>1. s = [w |-> s.w, p |-> s.p, missing |-> s.missing, fRepeat |-> s.fRepeat]
      BY DEF IsState
    <3>2. r = [s EXCEPT !.w = w2, !.missing = miss]
      BY <1>2, Zenon DEF w2, miss
    <3>3. \A a, c : [s EXCEPT !.w = a, !.missing = c] =
                       [w |-> a, p |-> s.p, missing |-> c, fRepeat |-> s.fRepeat]
      <4> TAKE a, c
      <4>1. [s EXCEPT !.w = a] = [w |-> a, p |-> s.p, missing |-> s.missing, fRepeat |-> s.fRepeat]
        BY <3>1
      <4>2. [[w |-> a, p |-> s.p, missing |-> s.missing, fRepeat |-> s.fRepeat] EXCEPT !.missing = c]
               = [w |-> a, p |-> s.p, missing |-> c, fRepeat |-> s.fRepeat]
        OBVIOUS
      <4>3. QED
        BY <4>1, <4>2, Zenon
    <3>4. QED
      BY <3>2, <3>3, Zenon
  <2> HIDE DEF r, miss
  <2>9. r.w = w2 /\ r.p = s.p /\ r.fRepeat = s.fRepeat /\ IsState(r)
    BY <2>8 DEF IsState
  <2>10. Reaccepts(s, r)
    BY <1>0, <2>7, <2>9 DEF Reaccepts
  <2>11. QED
    BY <2>10 DEF r
<1>3. CASE /\ t \in DOMAIN s.w
           /\ r = [s EXCEPT !.p = AcceptWalletTransaction(@, t, wtx)]
  <2> DEFINE q == AcceptWalletTransaction(s.p, t, wtx)
  <2>1. Reentered(s.w, s.p, q)
    BY <1>3, AcceptWalletIs
  <2>2. s = [w |-> s.w, p |-> s.p, missing |-> s.missing, fRepeat |-> s.fRepeat]
    BY DEF IsState
  <2>3. r = [s EXCEPT !.p = q]
    BY <1>3
  <2> HIDE DEF q, r
  <2>4. r = [w |-> s.w, p |-> q, missing |-> s.missing, fRepeat |-> s.fRepeat]
    BY <2>2, <2>3
  <2>5. r.w = s.w /\ r.p = q /\ r.fRepeat = s.fRepeat /\ IsState(r)
    BY <2>4 DEF IsState
  <2>6. Reaccepts(s, r)
    BY <1>0, <2>1, <2>5 DEF Reaccepts
  <2>7. QED
    BY <2>6 DEF r
<1>4. QED
  BY <1>1, <1>2, <1>3 DEF ReacceptTx

\* What the chain marks as spent is spent by a transaction of the chain.
LEMMA SpentByChain ==
    ASSUME txindex = LedgerOf(hashBestChain), NEW t \in Txs, txindex[t] # NULL,
           NEW n \in SpentInChain(t)
    PROVE  \E u \in ChainTxs(hashBestChain) : <<t, n>> \in vin[u]
<1> DEFINE S == SpendersOf(<<t, n>>, hashBestChain)
<1>1. n \in 1..Len(vout[t]) /\ txindex[t].vSpent[n] # NULL
  BY DEF SpentInChain
<1>2. txindex[t] = [pos    |-> HomeOf(t, hashBestChain),
                    vSpent |-> [k \in 1..Len(vout[t]) |->
                       IF SpendersOf(<<t, k>>, hashBestChain) = {} THEN NULL
                       ELSE CHOOSE u \in SpendersOf(<<t, k>>, hashBestChain) : TRUE]]
  BY DEF LedgerOf
<1>3. txindex[t].vSpent[n] = IF S = {} THEN NULL ELSE CHOOSE u \in S : TRUE
  BY <1>1, <1>2
<1>4. S # {}
  BY <1>1, <1>3
<1>5. QED
  BY <1>4 DEF SpendersOf

(***************************************************************************)
(* From s to r the wallet has forgotten nothing, the pool has gained what  *)
(* the wallet knows, and if the index is that of the chain, the wallet     *)
(* still knows of the chain what it knew.                                  *)
(***************************************************************************)
IndexOfChain == /\ hashBestChain \in Blocks /\ CleanChain(hashBestChain)
                /\ txindex = LedgerOf(hashBestChain)

Keeps(w, r) ==
    LET T == ChainTxs(hashBestChain)
    IN  IndexOfChain => /\ FollowsOn(w, T, hashBestChain) => FollowsOn(r, T, hashBestChain)
                        /\ Returned(w, T, T) => Returned(r, T, T)

Reaccepted(s, r) ==
    /\ IsState(r)
    /\ Grown(s.w, r.w)
    /\ Reentered(r.w, s.p, r.p)
    /\ Keeps(s.w, r.w)

\* Marking what the chain has spent keeps what the wallet knows of the chain.
LEMMA MarkedKeeps ==
    ASSUME NEW w, NEW r, WalletOK(w), Marked(w, r)
    PROVE  Keeps(w, r)
<1> DEFINE T == ChainTxs(hashBestChain)
<1> SUFFICES ASSUME IndexOfChain
             PROVE  /\ FollowsOn(w, T, hashBestChain) => FollowsOn(r, T, hashBestChain)
                    /\ Returned(w, T, T) => Returned(r, T, T)
  BY DEF Keeps
<1>1. Sound(T) /\ DOMAIN r = DOMAIN w /\ \A t \in DOMAIN w : r[t].hashBlock = w[t].hashBlock
  BY CleanIsSound DEF IndexOfChain, Marked, Remarked
<1>2. T \subseteq Txs /\ \A t \in T : \A o \in vin[t] : o[1] \in T
  BY <1>1 DEF Sound
<1>3. \A u \in DOMAIN w : /\ w[u].vfSpent \subseteq r[u].vfSpent
                          /\ \A n \in r[u].vfSpent : n \in w[u].vfSpent \/
                                (txindex[u] # NULL /\ n \in SpentInChain(u))
  BY DEF Marked
<1>4. txindex = LedgerOf(hashBestChain)
  BY DEF IndexOfChain
<1> HIDE DEF T
<1>5. ASSUME FollowsOn(w, T, hashBestChain) PROVE FollowsOn(r, T, hashBestChain)
  <2>1. ASSUME NEW t \in T, NEW o \in vin[t] \cap Mine PROVE o[2] \in r[o[1]].vfSpent
    <3>1. o[1] \in T /\ PaysMe(o[1])
      BY <1>2, MinePays
    <3>2. o[1] \in DOMAIN w /\ o[2] \in w[o[1]].vfSpent
      BY <1>5, <3>1 DEF FollowsOn
    <3>3. QED
      BY <1>3, <3>2
  <2>2. QED
    BY <1>1, <1>5, <2>1 DEF FollowsOn
<1>6. ASSUME Returned(w, T, T) PROVE Returned(r, T, T)
  <2> SUFFICES ASSUME NEW t \in T \cap DOMAIN r, NEW n \in r[t].vfSpent
               PROVE  Justified(r, T, t, n)
    BY DEF Returned
  <2>1. t \in DOMAIN w /\ t \in T /\ t \in Txs
    BY <1>1, <1>2
  <2>2. CASE n \in w[t].vfSpent
    <3>1. Justified(w, T, t, n)
      BY <1>6, <2>1, <2>2 DEF Returned
    <3>2. QED
      BY <1>1, <3>1 DEF Justified
  <2>3. CASE txindex[t] # NULL /\ n \in SpentInChain(t)
    <3>1. \E u \in T : <<t, n>> \in vin[u]
      BY <1>4, <2>1, <2>3, SpentByChain DEF T
    <3>2. QED
      BY <1>2, <3>1 DEF Justified
  <2>4. QED
    BY <1>3, <2>1, <2>2, <2>3
<1>7. QED
  BY <1>5, <1>6 DEF T

\* One transaction.
LEMMA ReacceptsReaccepted ==
    ASSUME NEW s, IsState(s), WalletOK(s.w), NEW t
    PROVE  Reaccepted(s, ReacceptTx(s, t))
<1> DEFINE r == ReacceptTx(s, t)
<1>1. Reaccepts(s, r)
  BY ReacceptTxIs
<1> HIDE DEF r
<1>2. IsState(r) /\ Marked(s.w, r.w) /\ Reentered(s.w, s.p, r.p)
  BY <1>1 DEF Reaccepts
<1>3. Grown(s.w, r.w)
  BY <1>2, RemarkedGrows DEF Marked
<1>4. Keeps(s.w, r.w)
  BY <1>2, MarkedKeeps
<1>5. Reentered(r.w, s.p, r.p)
  BY <1>2, <1>3, GrownKnows DEF Reentered
<1>6. Reaccepted(s, r)
  BY <1>2, <1>3, <1>4, <1>5 DEF Reaccepted
<1>7. QED
  BY <1>6 DEF r

\* Nothing done, and one thing done after the other.
LEMMA ReacceptedNothing ==
    ASSUME NEW s, IsState(s), WalletOK(s.w)
    PROVE  Reaccepted(s, s)
<1>1. Grown(s.w, s.w)
  BY DEF Grown
<1>2. QED
  BY <1>1 DEF Reaccepted, Reentered, Keeps

\* One round after another.
LEMMA ReacceptedTwice ==
    ASSUME NEW s, NEW m, NEW r, Reaccepted(s, m), Reaccepted(m, r)
    PROVE  Reaccepted(s, r)
<1>1. Grown(s.w, m.w) /\ Grown(m.w, r.w) /\ IsState(r)
  BY DEF Reaccepted
<1>2. Grown(s.w, r.w)
  BY <1>1, GrownTwice
<1>3. Keeps(s.w, r.w)
  BY DEF Reaccepted, Keeps
<1>4. Reentered(r.w, s.p, r.p)
  <2>1. Reentered(m.w, s.p, m.p) /\ Reentered(r.w, m.p, r.p)
    BY DEF Reaccepted
  <2>2. QED
    BY <1>1, <2>1, GrownKnows DEF Reentered
<1>5. QED
  BY <1>1, <1>2, <1>3, <1>4 DEF Reaccepted

\* The loops over the wallet, within one round and over the rounds.
ReacceptIn(e, s, t) == ReacceptTx(s, t)

RoundIn(e, s, t) == IF s.fRepeat THEN ReacceptOnce(s) ELSE s

ReacceptedSoFar(e, k, s) == Reaccepted(e.s, s)

ReacceptLoop == INSTANCE FoldInduction WITH Op <- ReacceptIn, Good <- ReacceptedSoFar

RoundLoop == INSTANCE FoldInduction WITH Op <- RoundIn, Good <- ReacceptedSoFar

\* A scan of the whole chain for what the wallet does not have.
LEMMA ScanAnew ==
    ASSUME NEW w, WalletOK(w), hashBestChain \in Blocks
    PROVE  LET r == ScanForWalletTransactions(w, 0, FALSE)
           IN  Grown(w, r) /\ Keeps(w, r)
<1> DEFINE r == TellBlocks(w, UpFrom[hashBestChain][0], FALSE)
<1>1. ScanForWalletTransactions(w, 0, FALSE) = r
  BY DEF ScanForWalletTransactions, TellBlocks, TellBlock, FoldLeft, MapThenFoldSet
<1>2. 0 \in 0..(nHeight[hashBestChain] + 1)
  BY TreeAssumption
<1>3. LET J == ChainTxs(hashBestChain)
      IN  /\ Grown(w, r)
          /\ CleanChain(hashBestChain) /\ FollowsOn(w, J, hashBestChain)
                 => FollowsOn(r, J, hashBestChain)
          /\ Returned(w, J, J) => Returned(r, J, J)
  BY <1>2, TellChainIs
<1> HIDE DEF r
<1>4. QED
  BY <1>1, <1>3 DEF Keeps, IndexOfChain

\* A record with one field changed.
LEMMA StateExcept ==
    ASSUME NEW s, IsState(s), NEW a
    PROVE  /\ [s EXCEPT !.w = a] = [w |-> a, p |-> s.p, missing |-> s.missing, fRepeat |-> s.fRepeat]
           /\ [s EXCEPT !.missing = a] = [w |-> s.w, p |-> s.p, missing |-> a, fRepeat |-> s.fRepeat]
           /\ [s EXCEPT !.fRepeat = a] = [w |-> s.w, p |-> s.p, missing |-> s.missing, fRepeat |-> a]
<1>1. s = [w |-> s.w, p |-> s.p, missing |-> s.missing, fRepeat |-> s.fRepeat]
  BY DEF IsState
<1>2. [s EXCEPT !.w = a] = [w |-> a, p |-> s.p, missing |-> s.missing, fRepeat |-> s.fRepeat]
  BY <1>1
<1>3. [s EXCEPT !.missing = a] = [w |-> s.w, p |-> s.p, missing |-> a, fRepeat |-> s.fRepeat]
  BY <1>1
<1>4. [s EXCEPT !.fRepeat = a] = [w |-> s.w, p |-> s.p, missing |-> s.missing, fRepeat |-> a]
  BY <1>1
<1>5. QED
  BY <1>2, <1>3, <1>4

\* One round.
LEMMA RoundIs ==
    ASSUME NEW s, IsState(s), WalletOK(s.w), hashBestChain \in Blocks
    PROVE  Reaccepted(s, ReacceptOnce(s))
<1> DEFINE s0 == [s EXCEPT !.missing = FALSE]
           e == [s |-> s0]
           r == FoldLeft(ReacceptTx, s0, HashOrder)
           found == ScanForWalletTransactions(r.w, 0, FALSE)
           f == [r EXCEPT !.w = found, !.fRepeat = DOMAIN found # DOMAIN r.w]
           g == [r EXCEPT !.fRepeat = FALSE]
<1>1. s0 = [w |-> s.w, p |-> s.p, missing |-> FALSE, fRepeat |-> s.fRepeat]
  BY StateExcept, Zenon
<1>2. IsState(s0) /\ s0.w = s.w /\ s0.p = s.p
  BY <1>1 DEF IsState
<1> HIDE DEF s0
<1>3. e.s = s0
  OBVIOUS
<1>4. HashOrder \in Seq(Txs)
  BY TxRelayAssumption
<1>5. ReacceptLoop!Loop(e, s0, HashOrder) = r
  BY DEF ReacceptLoop!Loop, FoldLeft, MapThenFoldSet, Max, ReacceptLoop!Max, ReacceptIn
<1> HIDE DEF e, r
<1>6. ReacceptedSoFar(e, 0, s0)
  BY <1>2, <1>3, ReacceptedNothing DEF ReacceptedSoFar
<1>7. ASSUME NEW k \in 1..Len(HashOrder), NEW m, ReacceptedSoFar(e, k - 1, m)
      PROVE  ReacceptedSoFar(e, k, ReacceptIn(e, m, HashOrder[k]))
  <2>1. Reaccepted(s0, m) /\ IsState(m) /\ WalletOK(m.w)
    BY <1>3, <1>7 DEF ReacceptedSoFar, Reaccepted, Grown
  <2>2. Reaccepted(m, ReacceptTx(m, HashOrder[k]))
    BY <2>1, ReacceptsReaccepted
  <2>3. Reaccepted(s0, ReacceptTx(m, HashOrder[k]))
    BY <2>1, <2>2, ReacceptedTwice
  <2>4. QED
    BY <1>3, <2>3 DEF ReacceptedSoFar, ReacceptIn
<1>8. Reaccepted(s0, r)
  <2>1. ReacceptedSoFar(e, Len(HashOrder), r)
    BY <1>4, <1>5, <1>6, <1>7, ReacceptLoop!FoldInvariant
  <2>2. QED
    BY <1>3, <2>1 DEF ReacceptedSoFar
<1>9. IsState(r) /\ WalletOK(r.w)
  BY <1>8 DEF Reaccepted, Grown
<1>10. Grown(r.w, found) /\ Keeps(r.w, found)
  BY <1>9, ScanAnew
<1> HIDE DEF found
<1>11. Reaccepted(r, f)
  <2>1. \A a, c : [r EXCEPT !.w = a, !.fRepeat = c] =
                     [w |-> a, p |-> r.p, missing |-> r.missing, fRepeat |-> c]
    <3> TAKE a, c
    <3>1. [r EXCEPT !.w = a] = [w |-> a, p |-> r.p, missing |-> r.missing, fRepeat |-> r.fRepeat]
      BY <1>9, StateExcept, Zenon
    <3>2. [[w |-> a, p |-> r.p, missing |-> r.missing, fRepeat |-> r.fRepeat] EXCEPT !.fRepeat = c]
             = [w |-> a, p |-> r.p, missing |-> r.missing, fRepeat |-> c]
      OBVIOUS
    <3>3. QED
      BY <3>1, <3>2, Zenon
  <2> DEFINE c == DOMAIN found # DOMAIN r.w
  <2> HIDE DEF c
  <2>2. f = [w |-> found, p |-> r.p, missing |-> r.missing, fRepeat |-> c]
    BY <2>1, Zenon DEF c
  <2> HIDE DEF f
  <2>3. IsState(f) /\ f.w = found /\ f.p = r.p
    BY <2>2 DEF IsState
  <2>4. QED
    BY <1>10, <2>3 DEF Reaccepted, Reentered
<1>12. Reaccepted(r, g)
  <2>1. g = [w |-> r.w, p |-> r.p, missing |-> r.missing, fRepeat |-> FALSE]
    BY <1>9, StateExcept, Zenon
  <2> HIDE DEF g
  <2>2. IsState(g) /\ g.w = r.w /\ g.p = r.p
    BY <2>1 DEF IsState
  <2>3. Reaccepted(r, r)
    BY <1>9, ReacceptedNothing
  <2>4. QED
    BY <2>2, <2>3 DEF Reaccepted
<1>13. ReacceptOnce(s) = IF ~r.missing THEN g ELSE f
  BY Zenon DEF ReacceptOnce, r, s0, found
<1> HIDE DEF f, g
<1>14. Reaccepted(s0, ReacceptOnce(s))
  BY <1>8, <1>11, <1>12, <1>13, ReacceptedTwice
<1>15. QED
  BY <1>2, <1>14 DEF Reaccepted

\* All rounds.
LEMMA ReacceptIs ==
    ASSUME NEW w, WalletOK(w), NEW p, hashBestChain \in Blocks
    PROVE  LET s == ReacceptWalletTransactions(w, p)
           IN  Grown(w, s.w) /\ Reentered(s.w, p, s.p) /\ Keeps(w, s.w)
<1> DEFINE s0 == [w |-> w, p |-> p, missing |-> FALSE, fRepeat |-> TRUE]
           e == [s |-> s0]
           r == ReacceptWalletTransactions(w, p)
<1>1. IsState(s0) /\ s0.w = w /\ s0.p = p /\ e.s = s0
  BY DEF IsState
<1>2. HashOrder \in Seq(Txs)
  BY TxRelayAssumption
<1>3. RoundLoop!Loop(e, s0, HashOrder) = r
  BY DEF RoundLoop!Loop, FoldLeft, MapThenFoldSet, Max, RoundLoop!Max, RoundIn,
         ReacceptWalletTransactions
<1> HIDE DEF e, r, s0
<1>4. ReacceptedSoFar(e, 0, s0)
  BY <1>1, ReacceptedNothing DEF ReacceptedSoFar
<1>5. ASSUME NEW k \in 1..Len(HashOrder), NEW m, ReacceptedSoFar(e, k - 1, m)
      PROVE  ReacceptedSoFar(e, k, RoundIn(e, m, HashOrder[k]))
  <2>1. Reaccepted(s0, m) /\ IsState(m) /\ WalletOK(m.w)
    BY <1>1, <1>5 DEF ReacceptedSoFar, Reaccepted, Grown
  <2>2. Reaccepted(m, ReacceptOnce(m))
    BY <2>1, RoundIs
  <2>3. Reaccepted(s0, ReacceptOnce(m))
    BY <2>1, <2>2, ReacceptedTwice
  <2>4. QED
    BY <1>1, <2>1, <2>3 DEF ReacceptedSoFar, RoundIn
<1>6. Reaccepted(s0, r)
  <2>1. ReacceptedSoFar(e, Len(HashOrder), r)
    BY <1>2, <1>3, <1>4, <1>5, RoundLoop!FoldInvariant
  <2>2. QED
    BY <1>1, <2>1 DEF ReacceptedSoFar
<1>7. QED
  BY <1>1, <1>6 DEF Reaccepted, r

-----------------------------------------------------------------------------
(***************************************************************************)
(* The other things that happen to the wallet: it sends, it is read from   *)
(* its file, it counts its coins and it is repaired.                       *)
(***************************************************************************)

\* The same flags and the same blocks: the wallet knows what it knew of any chain.
LEMMA SameKnowledge ==
    ASSUME NEW w, NEW r, Remarked(w, r), \A t \in DOMAIN w : r[t].vfSpent = w[t].vfSpent,
           NEW T, NEW e, NEW J, Sound(T)
    PROVE  /\ FollowsOn(w, T, e) => FollowsOn(r, T, e)
           /\ Returned(w, T, J) => Returned(r, T, J)
<1>1. DOMAIN r = DOMAIN w /\ \A t \in DOMAIN w : r[t].hashBlock = w[t].hashBlock
  BY DEF Remarked
<1>2. ASSUME FollowsOn(w, T, e) PROVE FollowsOn(r, T, e)
  <2>1. ASSUME NEW t \in T, NEW o \in vin[t] \cap Mine PROVE o[2] \in r[o[1]].vfSpent
    <3>1. o[1] \in T /\ PaysMe(o[1])
      BY MinePays DEF Sound
    <3>2. o[1] \in DOMAIN w /\ o[2] \in w[o[1]].vfSpent
      BY <1>2, <3>1 DEF FollowsOn
    <3>3. QED
      BY <3>2
  <2>2. QED
    BY <1>1, <1>2, <2>1 DEF FollowsOn
<1>3. ASSUME Returned(w, T, J) PROVE Returned(r, T, J)
  BY <1>1, <1>3 DEF Returned, Justified
<1>4. QED
  BY <1>2, <1>3

\* A credit that is set to what is not flagged, or forgotten.
LEMMA CreditIs ==
    ASSUME NEW t, NEW x, IsWtx(t, x), NEW c, c = NULL \/ c = Credit(t, x.vfSpent)
    PROVE  LET y == [x EXCEPT !.credit = c]
           IN  /\ IsWtx(t, y) /\ y.vfSpent = x.vfSpent
               /\ y.hashBlock = x.hashBlock /\ y.vtxPrev = x.vtxPrev
<1> DEFINE y == [x EXCEPT !.credit = c]
<1>1. x = [hashBlock |-> x.hashBlock, vfSpent |-> x.vfSpent,
           credit |-> x.credit, vtxPrev |-> x.vtxPrev]
  BY DEF IsWtx
<1>2. y = [hashBlock |-> x.hashBlock, vfSpent |-> x.vfSpent, credit |-> c, vtxPrev |-> x.vtxPrev]
  BY <1>1
<1> HIDE DEF y
<1>3. /\ y.hashBlock = x.hashBlock /\ y.vfSpent = x.vfSpent /\ y.credit = c
      /\ y.vtxPrev = x.vtxPrev
      /\ y = [hashBlock |-> y.hashBlock, vfSpent |-> y.vfSpent, credit |-> y.credit,
              vtxPrev |-> y.vtxPrev]
  BY <1>2
<1>4. IsWtx(t, y)
  BY <1>3 DEF IsWtx
<1>5. QED
  BY <1>3, <1>4 DEF y

\* LoadWallet and MarkDirty.
LEMMA MarkDirtyIs ==
    ASSUME NEW w, WalletOK(w)
    PROVE  /\ Remarked(w, MarkDirty(w))
           /\ \A t \in DOMAIN w : MarkDirty(w)[t].vfSpent = w[t].vfSpent
<1> DEFINE r == MarkDirty(w)
<1>1. r = [t \in DOMAIN w |-> [w[t] EXCEPT !.credit = NULL]]
  BY DEF MarkDirty
<1>2. ASSUME NEW t \in DOMAIN w
      PROVE  LET y == [w[t] EXCEPT !.credit = NULL]
             IN  /\ IsWtx(t, y) /\ y.vfSpent = w[t].vfSpent
                 /\ y.hashBlock = w[t].hashBlock /\ y.vtxPrev = w[t].vtxPrev
  <2>1. IsWtx(t, w[t])
    BY DEF WalletOK
  <2>2. QED
    BY <2>1, CreditIs
<1> HIDE DEF r
<1>3. ASSUME NEW t \in DOMAIN w
      PROVE  /\ IsWtx(t, r[t]) /\ r[t].vfSpent = w[t].vfSpent
             /\ r[t].hashBlock = w[t].hashBlock /\ r[t].vtxPrev = w[t].vtxPrev
  BY <1>1, <1>2
<1>4. DOMAIN r = DOMAIN w /\ r = [t \in DOMAIN r |-> r[t]]
  BY <1>1
<1>5. QED
  BY <1>3, <1>4 DEF WalletOK, Remarked, r

\* GetBalance.
LEMMA GetBalanceIs ==
    ASSUME WalletOK(mapWallet), GetBalance
    PROVE  /\ Remarked(mapWallet, mapWallet')
           /\ \A t \in DOMAIN mapWallet : mapWallet'[t].vfSpent = mapWallet[t].vfSpent
<1> DEFINE w == mapWallet
           r == mapWallet'
           counts(t) == IsTrusted(w, t) /\ Matured(w, t) /\ w[t].credit = NULL
<1>1. r = [t \in DOMAIN w |-> IF counts(t) THEN [w[t] EXCEPT !.credit = CreditOf(w, t)] ELSE w[t]]
  BY DEF GetBalance, InWallet
<1> HIDE DEF counts
<1>2. ASSUME NEW t \in DOMAIN w
      PROVE  LET y == [w[t] EXCEPT !.credit = CreditOf(w, t)]
             IN  /\ IsWtx(t, y) /\ y.vfSpent = w[t].vfSpent
                 /\ y.hashBlock = w[t].hashBlock /\ y.vtxPrev = w[t].vtxPrev
  <2>1. IsWtx(t, w[t])
    BY DEF WalletOK
  <2>2. CreditOf(w, t) = Credit(t, w[t].vfSpent)
    BY DEF CreditOf, Credit, UnspentOf
  <2>3. QED
    BY <2>1, <2>2, CreditIs
<1> HIDE DEF r
<1>3. ASSUME NEW t \in DOMAIN w
      PROVE  /\ IsWtx(t, r[t]) /\ r[t].vfSpent = w[t].vfSpent
             /\ r[t].hashBlock = w[t].hashBlock /\ r[t].vtxPrev = w[t].vtxPrev
  <2>1. CASE counts(t)
    <3>1. r[t] = [w[t] EXCEPT !.credit = CreditOf(w, t)]
      BY <1>1, <2>1
    <3>2. QED
      BY <1>2, <3>1, Zenon
  <2>2. CASE ~counts(t)
    BY <1>1, <2>2 DEF WalletOK
  <2>3. QED
    BY <2>1, <2>2
<1>4. DOMAIN r = DOMAIN w /\ r = [t \in DOMAIN r |-> r[t]]
  BY <1>1
<1>5. QED
  BY <1>3, <1>4 DEF WalletOK, Remarked, r

(***************************************************************************)
(* SendMoney: the new transaction is added outside any block, with the     *)
(* copies of what it rests on, and its coins are flagged.                  *)
(***************************************************************************)
Sent(w, t, copies) ==
    [MarkSpent2(AddToWallet(w, t, NULL), vin[t]) EXCEPT ![t] = [@ EXCEPT !.vtxPrev = copies]]

\* Its copies are its own; the others keep theirs, and what was known stays known.
LEMMA SentIs ==
    ASSUME NEW w, WalletOK(w), NEW t \in Txs, t \notin DOMAIN w, ~Minted(t), NEW copies,
           vin[t] \subseteq Mine, \A o \in vin[t] : o[1] \in DOMAIN w
    PROVE  LET r == Sent(w, t, copies)
           IN  /\ WalletOK(r) /\ DOMAIN r = DOMAIN w \cup {t}
               /\ r[t].vtxPrev = copies /\ \A u \in DOMAIN w : r[u].vtxPrev = w[u].vtxPrev
               /\ \A T, e : Sound(T) /\ FollowsOn(w, T, e) => FollowsOn(r, T, e)
               /\ \A T, J : Returned(w, T, J) => Returned(r, T, J)
<1> DEFINE a == AddToWallet(w, t, NULL)
           m == MarkSpent2(a, vin[t])
           x == [m[t] EXCEPT !.vtxPrev = copies]
           r == Sent(w, t, copies)
<1>1. Added(w, a, t, NULL)
  BY AddToWalletIs
<1> HIDE DEF a
<1>2. WalletOK(a) /\ DOMAIN a = DOMAIN w \cup {t}
  BY <1>1 DEF Added
<1>3. /\ Remarked(a, m)
      /\ \A u \in DOMAIN a : m[u].vfSpent = a[u].vfSpent \cup OutputsOf(vin[t], u)
  BY <1>2, MarkSpentIs
<1> HIDE DEF m
<1>4. WalletOK(m) /\ DOMAIN m = DOMAIN a
  BY <1>3 DEF Remarked
<1>5. \A u : OutputsOf(vin[t], u) = Spends(t, u)
  <2>1. vin[t] \cap Mine = vin[t]
    OBVIOUS
  <2>2. QED
    BY <2>1 DEF Spends
<1>6. \A u \in DOMAIN a : a[u].vfSpent =
          (IF u \in DOMAIN w THEN w[u].vfSpent ELSE {}) \cup Spends(t, u)
  BY <1>1, <1>2 DEF Added
<1>7. ASSUME NEW u \in DOMAIN a PROVE m[u].vfSpent = a[u].vfSpent
  <2>1. m[u].vfSpent = a[u].vfSpent \cup Spends(t, u)
    BY <1>3, <1>5
  <2>2. Spends(t, u) \subseteq a[u].vfSpent
    <3>1. a[u].vfSpent = (IF u \in DOMAIN w THEN w[u].vfSpent ELSE {}) \cup Spends(t, u)
      BY <1>6
    <3>2. QED
      BY <3>1
  <2>3. QED
    BY <2>1, <2>2
<1>8. /\ IsWtx(t, x) /\ x.vfSpent = m[t].vfSpent /\ x.hashBlock = m[t].hashBlock
      /\ x.vtxPrev = copies
  <2>1. IsWtx(t, m[t])
    BY <1>2, <1>4 DEF WalletOK
  <2>2. m[t] = [hashBlock |-> m[t].hashBlock, vfSpent |-> m[t].vfSpent,
                credit |-> m[t].credit, vtxPrev |-> m[t].vtxPrev]
    BY <2>1 DEF IsWtx
  <2>3. x = [hashBlock |-> m[t].hashBlock, vfSpent |-> m[t].vfSpent,
             credit |-> m[t].credit, vtxPrev |-> copies]
    BY <2>2
  <2> HIDE DEF x
  <2>4. QED
    BY <2>1, <2>3 DEF IsWtx
<1> HIDE DEF x
<1>9. r = [m EXCEPT ![t] = x]
  BY Zenon DEF Sent, m, a, x
<1> HIDE DEF r
<1>10. DOMAIN r = DOMAIN a /\ r = [u \in DOMAIN r |-> r[u]] /\ r[t] = x
       /\ \A u \in DOMAIN a \ {t} : r[u] = m[u]
  <2>1. m = [u \in DOMAIN a |-> m[u]]
    BY <1>4 DEF WalletOK
  <2>2. t \in DOMAIN a
    BY <1>2
  <2>3. QED
    BY <1>9, <2>1, <2>2
<1>11. WalletOK(r)
  BY <1>4, <1>8, <1>10 DEF WalletOK
<1>12. \A u \in DOMAIN a : r[u].vfSpent = a[u].vfSpent /\ r[u].hashBlock = a[u].hashBlock
  BY <1>3, <1>7, <1>8, <1>10 DEF Remarked
<1>13. \A u \in DOMAIN w : r[u].vtxPrev = w[u].vtxPrev
  <2>1. \A u \in DOMAIN w : a[u].vtxPrev = w[u].vtxPrev /\ u \in DOMAIN a /\ u # t
    BY <1>1, <1>2 DEF Added
  <2>2. \A u \in DOMAIN a : m[u].vtxPrev = a[u].vtxPrev
    BY <1>3 DEF Remarked
  <2>3. QED
    BY <1>10, <2>1, <2>2
<1>14. ASSUME NEW T, NEW e, Sound(T), FollowsOn(w, T, e) PROVE FollowsOn(r, T, e)
  <2>1. FollowsOn(a, T, e)
    BY <1>1, <1>14, AddedFollows
  <2>2. ASSUME NEW v \in T, NEW o \in vin[v] \cap Mine PROVE o[2] \in r[o[1]].vfSpent
    <3>1. o[1] \in T /\ PaysMe(o[1])
      BY <1>14, MinePays DEF Sound
    <3>2. o[1] \in DOMAIN a /\ o[2] \in a[o[1]].vfSpent
      BY <2>1, <3>1 DEF FollowsOn
    <3>3. QED
      BY <1>12, <3>2
  <2>3. QED
    BY <1>10, <1>12, <2>1, <2>2 DEF FollowsOn
<1>15. ASSUME NEW T, NEW J, Returned(w, T, J) PROVE Returned(r, T, J)
  <2>1. t \notin CoinStakes
    BY DEF Minted
  <2>2. Returned(a, T, J)
    BY <1>1, <1>15, <2>1, AddedReturned
  <2>3. QED
    BY <1>10, <1>12, <2>2 DEF Returned, Justified
<1>16. QED
  BY <1>2, <1>8, <1>10, <1>11, <1>13, <1>14, <1>15 DEF r

(***************************************************************************)
(* When no handler runs, a transaction of the chain that the wallet has at *)
(* its block has a depth, so neither repair erases it.                     *)
(***************************************************************************)
Linked ==
    /\ pnext \in [Blocks -> BlockOrNull]
    /\ \A b \in Chain[hashBestChain] : b # hashBestChain => pnext[b] # NULL

\* Its depth is the distance of its block from the best one, and one more.
LEMMA ChainIsSeen ==
    ASSUME IndexOfChain, Linked, pindexBest = hashBestChain,
           NEW t \in ChainTxs(hashBestChain), mapWallet[t].hashBlock = HomeOf(t, hashBestChain)
    PROVE  ~Unseen(t)
<1> DEFINE b == hashBestChain
           c == HomeOf(t, hashBestChain)
<1>1. c \in Chain[b] \ {GenesisBlock}
  BY HomeOnChain DEF IndexOfChain
<1>2. c \in Blocks /\ b \in Blocks /\ c # NULL
  BY <1>1, ChainClosed, TreeAssumption DEF IndexOfChain
<1>3. c = b \/ nHeight[c] < nHeight[b]
  BY <1>1, <1>2, ChainBelow
<1>4. IsInMainChain(c)
  BY <1>1 DEF IsInMainChain, Linked
<1> HIDE DEF c
<1>5. GetDepthInMainChain(c) = nHeight[b] - nHeight[c] + 1
  BY <1>2, <1>4 DEF GetDepthInMainChain
<1>6. nHeight[b] \in Nat /\ nHeight[c] \in Nat
  BY <1>2, TreeAssumption
<1>7. GetDepthInMainChain(c) # 0
  BY <1>3, <1>5, <1>6
<1>8. QED
  BY <1>7 DEF Unseen, c

(***************************************************************************)
(* FixSpentCoins and ClearOrphans: what is minted and has no depth is      *)
(* erased, which concerns nothing of the chain.                            *)
(***************************************************************************)
Cleared(w, r) ==
    /\ WalletOK(r) /\ DOMAIN r \subseteq DOMAIN w
    /\ \A t \in DOMAIN r : r[t].hashBlock = w[t].hashBlock /\ r[t].vtxPrev = w[t].vtxPrev
    /\ \A t \in DOMAIN w \ DOMAIN r : Minted(t) /\ Unseen(t)

\* The index holds the transactions of the chain, at their blocks.
LEMMA IndexedIs ==
    ASSUME IndexOfChain, NEW t \in Txs
    PROVE  /\ txindex[t] # NULL <=> t \in ChainTxs(hashBestChain)
           /\ t \in ChainTxs(hashBestChain) => txindex[t].pos = HomeOf(t, hashBestChain)
<1> DEFINE b == hashBestChain
           T == ChainTxs(b)
           home == [u \in Txs |-> IF u \in T THEN HomeOf(u, b) ELSE b]
<1>1. home \in [Txs -> Blocks] /\ T \subseteq Txs
  <2>1. \A u \in T : HomeOf(u, b) \in Blocks
    BY HomeOnChain, ChainClosed DEF IndexOfChain
  <2>2. T \subseteq Txs
    BY CleanIsSound DEF IndexOfChain, Sound
  <2>3. QED
    BY <2>1, <2>2 DEF IndexOfChain
<1>2. \A u \in T : home[u] = HomeOf(u, b)
  BY <1>1
<1> HIDE DEF home
<1>3. LedgerOf(b) = Table(T, home)
  BY <1>2, LedgerIsTable DEF IndexOfChain
<1>4. txindex[t] = IF t \in T THEN Entry(T, home, t) ELSE NULL
  BY <1>3 DEF IndexOfChain, Table
<1>5. Entry(T, home, t) # NULL
  BY <1>1, EntryNotNull
<1>6. t \in T => txindex[t].pos = HomeOf(t, b)
  BY <1>2, <1>4 DEF Entry
<1>7. QED
  BY <1>4, <1>5, <1>6

\* An output of the chain that the chain has spent is one of SpentInChain.
LEMMA SpendsInChain ==
    ASSUME IndexOfChain, NEW v \in ChainTxs(hashBestChain), NEW o \in vin[v] \cap Mine
    PROVE  /\ o[1] \in ChainTxs(hashBestChain) /\ txindex[o[1]] # NULL
           /\ o[2] \in SpentInChain(o[1])
<1> DEFINE b == hashBestChain
           T == ChainTxs(b)
           t == o[1]
           n == o[2]
<1>1. Sound(T)
  BY CleanIsSound DEF IndexOfChain
<1>2. o = <<t, n>> /\ t \in T /\ t \in Txs /\ n \in 1..Len(vout[t])
  BY <1>1, MinePays DEF Sound
<1>3. v \in SpendersOf(<<t, n>>, b)
  BY <1>2 DEF SpendersOf
<1>4. txindex[t] = [pos |-> HomeOf(t, b),
                    vSpent |-> [i \in 1..Len(vout[t]) |->
                        IF SpendersOf(<<t, i>>, b) = {} THEN NULL
                        ELSE CHOOSE u \in SpendersOf(<<t, i>>, b) : TRUE]]
  BY <1>2 DEF IndexOfChain, LedgerOf
<1>5. txindex[t] # NULL
  BY <1>2, IndexedIs
<1> DEFINE S == SpendersOf(<<t, n>>, b)
<1>6. txindex[t].vSpent[n] = IF S = {} THEN NULL ELSE CHOOSE u \in S : TRUE
  BY <1>2, <1>4
<1>7. txindex[t].vSpent[n] \in Txs
  <2>1. (CHOOSE u \in S : TRUE) \in S
    BY <1>3
  <2>2. S # {} /\ S \subseteq Txs
    BY <1>1, <1>3 DEF SpendersOf, Sound
  <2>3. QED
    BY <1>6, <2>1, <2>2
<1>8. QED
  BY <1>2, <1>5, <1>7, LedgerAssumption DEF SpentInChain

\* What is erased is not of the chain, and the flags are those of the chain or those of before.
LEMMA ClearedKeeps ==
    ASSUME IndexOfChain, Linked, pindexBest = hashBestChain, WalletOK(mapWallet),
           NEW r, Cleared(mapWallet, r),
           \A t \in DOMAIN r : r[t].vfSpent = mapWallet[t].vfSpent
                               \/ (txindex[t] # NULL /\ r[t].vfSpent = SpentInChain(t))
    PROVE  LET T == ChainTxs(hashBestChain)
           IN  /\ FollowsOn(mapWallet, T, hashBestChain) => FollowsOn(r, T, hashBestChain)
               /\ Returned(mapWallet, T, T) => Returned(r, T, T)
<1> DEFINE b == hashBestChain
           T == ChainTxs(b)
           w == mapWallet
<1>1. Sound(T) /\ T \subseteq Txs
  BY CleanIsSound DEF IndexOfChain, Sound
<1>2. ASSUME FollowsOn(w, T, b) PROVE FollowsOn(r, T, b)
  <2>1. ASSUME NEW t \in T, PaysMe(t) PROVE t \in DOMAIN r /\ r[t].hashBlock = HomeOf(t, b)
    <3>1. t \in DOMAIN w /\ w[t].hashBlock = HomeOf(t, b)
      BY <1>2, <2>1 DEF FollowsOn
    <3>2. ~Unseen(t)
      BY <3>1, ChainIsSeen
    <3>3. QED
      BY <3>1, <3>2 DEF Cleared
  <2>2. ASSUME NEW t \in T, t \notin CoinStakes, vin[t] \cap Mine # {} PROVE t \in DOMAIN r
    <3>1. t \in DOMAIN w
      BY <1>2, <2>2 DEF FollowsOn
    <3>2. ~Minted(t)
      BY <1>1, <2>2, LedgerAssumption DEF Minted
    <3>3. QED
      BY <3>1, <3>2 DEF Cleared
  <2>3. ASSUME NEW t \in T, NEW o \in vin[t] \cap Mine PROVE o[2] \in r[o[1]].vfSpent
    <3>1. o[1] \in T /\ o[2] \in SpentInChain(o[1])
      BY SpendsInChain
    <3>2. o[2] \in w[o[1]].vfSpent
      BY <1>2 DEF FollowsOn
    <3>3. o[1] \in DOMAIN r
      BY <2>1, <3>1, MinePays
    <3>4. QED
      BY <3>1, <3>2, <3>3
  <2>4. QED
    BY <2>1, <2>2, <2>3 DEF FollowsOn
<1>3. ASSUME Returned(w, T, T), NEW t \in T \cap DOMAIN r, NEW n \in r[t].vfSpent
      PROVE  Justified(r, T, t, n)
  <2>1. CASE n \in w[t].vfSpent
    <3>1. t \in DOMAIN w
      BY DEF Cleared
    <3>2. PICK u \in Txs : <<t, n>> \in vin[u] /\ (u \in T \/ (u \notin CoinStakes /\ u \in DOMAIN w))
      BY <1>3, <2>1, <3>1 DEF Returned, Justified
    <3>3. u \notin CoinBases
      BY <3>2, LedgerAssumption
    <3>4. u \in T \/ (u \notin CoinStakes /\ u \in DOMAIN r)
      BY <3>2, <3>3 DEF Cleared, Minted
    <3>5. QED
      BY <3>2, <3>4 DEF Justified
  <2>2. CASE txindex[t] # NULL /\ n \in SpentInChain(t)
    <3>1. \E u \in T : <<t, n>> \in vin[u]
      BY <1>1, <2>2, SpentByChain DEF IndexOfChain
    <3>2. QED
      BY <1>1, <3>1 DEF Justified
  <2>3. QED
    BY <2>1, <2>2
<1>4. QED
  BY <1>2, <1>3 DEF Returned

\* FixSpentCoins sets the flags of what the index holds.
LEMMA FixSpentCoinsIs ==
    ASSUME WalletOK(mapWallet), FixSpentCoins
    PROVE  /\ Cleared(mapWallet, mapWallet')
           /\ \A t \in DOMAIN mapWallet' :
                 mapWallet'[t].vfSpent = mapWallet[t].vfSpent
                 \/ (txindex[t] # NULL /\ mapWallet'[t].vfSpent = SpentInChain(t))
<1> DEFINE w == mapWallet
           r == mapWallet'
           D == {x \in InWallet : ~(txindex[x] # NULL /\ PaysMe(x) /\ Unseen(x))}
           new(t) == IF txindex[t] = NULL THEN w[t] ELSE SetSpent(w[t], SpentInChain(t))
<1>1. r = [t \in D |-> new(t)]
  BY DEF FixSpentCoins
<1>2. ASSUME NEW t \in DOMAIN w
      PROVE  /\ IsWtx(t, new(t))
             /\ new(t).hashBlock = w[t].hashBlock /\ new(t).vtxPrev = w[t].vtxPrev
             /\ new(t).vfSpent = w[t].vfSpent \/ (txindex[t] # NULL /\ new(t).vfSpent = SpentInChain(t))
  <2>1. IsWtx(t, w[t])
    BY DEF WalletOK
  <2>2. CASE txindex[t] = NULL
    <3>1. new(t) = w[t]
      BY <2>2
    <3> HIDE DEF new
    <3>2. QED
      BY <2>1, <3>1, Zenon
  <2>3. CASE txindex[t] # NULL
    <3>1. new(t) = SetSpent(w[t], SpentInChain(t))
      BY <2>3
    <3> HIDE DEF new
    <3>2. QED
      BY <2>1, <2>3, <3>1, SpentInChainOwn, SetSpentIs
  <2>4. QED
    BY <2>2, <2>3
<1> HIDE DEF new
<1>3. DOMAIN r = D /\ D \subseteq DOMAIN w /\ \A t \in D : r[t] = new(t)
  BY <1>1 DEF InWallet
<1>4. r = [t \in DOMAIN r |-> r[t]]
  BY <1>1
<1>5. \A t \in DOMAIN w \ D : Minted(t) /\ Unseen(t)
  BY DEF InWallet, Unseen
<1> HIDE DEF r, D
<1>6. WalletOK(r)
  BY <1>2, <1>3, <1>4 DEF WalletOK
<1>7. Cleared(w, r)
  BY <1>2, <1>3, <1>5, <1>6 DEF Cleared
<1>8. QED
  BY <1>2, <1>3, <1>7 DEF r

\* ClearOrphans leaves the flags alone.
LEMMA ClearOrphansIs ==
    ASSUME WalletOK(mapWallet), ClearOrphans
    PROVE  /\ Cleared(mapWallet, mapWallet')
           /\ \A t \in DOMAIN mapWallet' : mapWallet'[t].vfSpent = mapWallet[t].vfSpent
<1> DEFINE w == mapWallet
           r == mapWallet'
           D == {x \in InWallet : ~Unseen(x)}
<1>1. r = [t \in D |-> w[t]]
  BY DEF ClearOrphans
<1>2. DOMAIN r = D /\ D \subseteq DOMAIN w /\ \A t \in D : r[t] = w[t]
  BY <1>1 DEF InWallet
<1>3. r = [t \in DOMAIN r |-> r[t]]
  BY <1>1
<1>4. \A t \in DOMAIN w \ D : Minted(t) /\ Unseen(t)
  BY DEF InWallet, Unseen
<1> HIDE DEF r, D
<1>5. WalletOK(r)
  BY <1>2, <1>3 DEF WalletOK
<1>6. Cleared(w, r)
  BY <1>2, <1>4, <1>5 DEF Cleared
<1>7. QED
  BY <1>2, <1>6 DEF r

-----------------------------------------------------------------------------
(***************************************************************************)
(* What a reorganisation brings into the pool: transactions of the blocks  *)
(* it disconnects, none of them minted.                                    *)
(***************************************************************************)
EnterBlockLoop == INSTANCE FoldInduction WITH Op <- ResurrectBlockIn, Good <- ReenteredTo

LeaveLoop == INSTANCE FoldInduction WITH Op <- RemoveIn, Good <- ReenteredTo

LeaveBlockLoop == INSTANCE FoldInduction WITH Op <- RemoveBlockIn, Good <- ReenteredTo

\* The blocks that are disconnected.
LEMMA BranchEnters ==
    ASSUME NEW p, NEW q \in Seq(Blocks), NEW S, \A i \in 1..Len(q) : BlockTxs(q[i]) \subseteq S
    PROVE  \A u \in FoldLeft(ResurrectBlock, p, q).mapTx :
              u \in p.mapTx \/ (~Minted(u) /\ u \in S)
<1> DEFINE e == [p |-> p, S |-> S]
           m == FoldLeft(ResurrectBlock, p, q)
<1>1. e.p = p /\ e.S = S
  OBVIOUS
<1>2. EnterBlockLoop!Loop(e, p, q) = m
  BY DEF EnterBlockLoop!Loop, FoldLeft, MapThenFoldSet,
         Max, EnterBlockLoop!Max, ResurrectBlockIn
<1> HIDE DEF e, m
<1>3. ReenteredTo(e, 0, p)
  BY <1>1 DEF ReenteredTo
<1>4. ASSUME NEW k \in 1..Len(q), NEW s, ReenteredTo(e, k - 1, s)
      PROVE  ReenteredTo(e, k, ResurrectBlockIn(e, s, q[k]))
  <2> DEFINE b == q[k]
  <2>1. vtx[b] \in Seq(Txs) /\ \A i \in 1..Len(vtx[b]) : vtx[b][i] \in S
    <3>1. b \in Blocks /\ vtx[b] \in Seq(Txs)
      BY LedgerAssumption
    <3>2. \A i \in 1..Len(vtx[b]) : vtx[b][i] \in BlockTxs(b)
      BY <3>1 DEF BlockTxs, ToSet
    <3>3. QED
      BY <3>1, <3>2
  <2> HIDE DEF b
  <2>2. \A u \in ResurrectBlock(s, b).mapTx : u \in s.mapTx \/ (~Minted(u) /\ u \in S)
    BY <2>1, ResurrectEnters DEF ResurrectBlock
  <2>3. QED
    BY <1>1, <1>4, <2>2 DEF ReenteredTo, ResurrectBlockIn, b
<1>5. ReenteredTo(e, Len(q), m)
  BY <1>2, <1>3, <1>4, EnterBlockLoop!FoldInvariant
<1>6. QED
  BY <1>1, <1>5 DEF ReenteredTo, m

\* Nothing enters the pool with a connected block.
LEMMA BlockLeaves ==
    ASSUME NEW p, NEW b \in Blocks
    PROVE  RemoveBlock(p, b).mapTx \subseteq p.mapTx
<1> DEFINE e == [p |-> p, S |-> {}]
           m == RemoveBlock(p, b)
<1>1. e.p = p /\ e.S = {}
  OBVIOUS
<1>2. LeaveLoop!Loop(e, p, vtx[b]) = m
  BY DEF LeaveLoop!Loop, FoldLeft, MapThenFoldSet,
         Max, LeaveLoop!Max, RemoveIn, RemoveBlock
<1>3. vtx[b] \in Seq(Txs)
  BY LedgerAssumption
<1> HIDE DEF e, m
<1>4. ReenteredTo(e, 0, p)
  BY <1>1 DEF ReenteredTo
<1>5. \A k \in 1..Len(vtx[b]) : \A s :
         ReenteredTo(e, k - 1, s) => ReenteredTo(e, k, RemoveIn(e, s, vtx[b][k]))
  BY <1>1 DEF ReenteredTo, RemoveIn, remove
<1>6. ReenteredTo(e, Len(vtx[b]), m)
  BY <1>2, <1>3, <1>4, <1>5, LeaveLoop!FoldInvariant
<1>7. QED
  BY <1>1, <1>6 DEF ReenteredTo, m

\* The blocks that are connected.
LEMMA BranchLeaves ==
    ASSUME NEW p, NEW q \in Seq(Blocks)
    PROVE  FoldLeft(RemoveBlock, p, q).mapTx \subseteq p.mapTx
<1> DEFINE e == [p |-> p, S |-> {}]
           m == FoldLeft(RemoveBlock, p, q)
<1>1. e.p = p /\ e.S = {}
  OBVIOUS
<1>2. LeaveBlockLoop!Loop(e, p, q) = m
  BY DEF LeaveBlockLoop!Loop, FoldLeft, MapThenFoldSet,
         Max, LeaveBlockLoop!Max, RemoveBlockIn
<1> HIDE DEF e, m
<1>3. ReenteredTo(e, 0, p)
  BY <1>1 DEF ReenteredTo
<1>4. ASSUME NEW k \in 1..Len(q), NEW s, ReenteredTo(e, k - 1, s)
      PROVE  ReenteredTo(e, k, RemoveBlockIn(e, s, q[k]))
  <2>1. q[k] \in Blocks
    OBVIOUS
  <2>2. RemoveBlock(s, q[k]).mapTx \subseteq s.mapTx
    BY <2>1, BlockLeaves
  <2>3. QED
    BY <1>4, <2>2 DEF ReenteredTo, RemoveBlockIn
<1>5. ReenteredTo(e, Len(q), m)
  BY <1>2, <1>3, <1>4, LeaveBlockLoop!FoldInvariant
<1>6. QED
  BY <1>1, <1>5 DEF ReenteredTo, m

\* The pool after Reorganize.
LEMMA ReorganizeEnters ==
    ASSUME PointersInv
    PROVE  \A u \in ReorganizedPool.mapTx :
              u \in mapTx \/ (~Minted(u) /\ u \in ChainTxs(pindexBest))
<1> DEFINE T == ChainTxs(pindexBest)
           m == FoldLeft(ResurrectBlock, ThePool, vDisconnect)
<1>1. vDisconnect \in Seq(Blocks) /\ vConnect \in Seq(Blocks)
  BY BranchesAre
<1>2. \A i \in 1..Len(vDisconnect) : BlockTxs(vDisconnect[i]) \subseteq T
  <2>1. ToSet(vDisconnect) = Chain[pindexBest] \ Chain[pindexIntermediate]
    BY BranchSets
  <2>2. GenesisBlock \in Chain[pindexIntermediate]
    BY IntermediateIs, GenesisOnChain
  <2>3. \A i \in 1..Len(vDisconnect) : vDisconnect[i] \in Chain[pindexBest] \ {GenesisBlock}
    BY <1>1, <2>1, <2>2 DEF ToSet
  <2>4. QED
    BY <2>3 DEF ChainTxs
<1>3. \A u \in m.mapTx : u \in ThePool.mapTx \/ (~Minted(u) /\ u \in T)
  BY <1>1, <1>2, BranchEnters
<1>4. ReorganizedPool.mapTx \subseteq m.mapTx
  BY <1>1, BranchLeaves DEF ReorganizedPool
<1>5. QED
  BY <1>3, <1>4 DEF ThePool

-----------------------------------------------------------------------------
(***************************************************************************)
(* The invariant of the module Wallet.  The index is the ledger of the     *)
(* chain, the wallet is well formed, and until SetBestChain has given up   *)
(* on a postponed block:                                                   *)
(*   - pnext leads along the chain, so that what is confirmed has a depth; *)
(*   - unless an abandoned branch misled it, the wallet knows the chain;   *)
(*   - it has each ordinary transaction that pays it among those of the    *)
(*     chain, those copied into vtxPrev and those of the pool, but for     *)
(*     released orphans: this is what a transaction returns to the pool    *)
(*     from, whether a block is disconnected or the process restarts.      *)
(***************************************************************************)
KnowsOwn(w, S) == \A t \in S : ~Minted(t) /\ PaysMe(t) => t \in DOMAIN w

CopiesKnown(w) == \A t \in DOMAIN w : KnowsOwn(w, DOMAIN w[t].vtxPrev)

PoolKnown == \A t \in mapTx : ~Minted(t) /\ (t \notin released /\ PaysMe(t) => t \in InWallet)

ChainKnown ==
    /\ Linked
    /\ suspect = {} => Knows(mapWallet, ChainTxs(hashBestChain), hashBestChain)
    /\ KnowsOwn(mapWallet, ChainTxs(hashBestChain))
    /\ CopiesKnown(mapWallet)
    /\ PoolKnown

WalletInv ==
    /\ IndexInv
    /\ WalletOK(mapWallet)
    /\ suspect \in {{}, {"place"}, {"spent", "place"}}
    /\ ~broken => ChainKnown

\* A wallet that has grown still has what it had to have.
LEMMA GrownKnowsOwn ==
    ASSUME NEW w, NEW r, Grown(w, r)
    PROVE  /\ \A S : KnowsOwn(w, S) => KnowsOwn(r, S)
           /\ CopiesKnown(w) => CopiesKnown(r)
<1>1. ASSUME NEW S, KnowsOwn(w, S) PROVE KnowsOwn(r, S)
  BY <1>1 DEF Grown, KnowsOwn
<1>2. ASSUME CopiesKnown(w), NEW t \in DOMAIN r PROVE KnowsOwn(r, DOMAIN r[t].vtxPrev)
  <2>1. CASE t \in DOMAIN w
    <3>1. KnowsOwn(w, DOMAIN w[t].vtxPrev) /\ r[t].vtxPrev = w[t].vtxPrev
      BY <1>2, <2>1 DEF CopiesKnown, Grown
    <3>2. QED
      BY <1>1, <3>1
  <2>2. CASE t \notin DOMAIN w
    <3>1. r[t].vtxPrev = <<>>
      BY <2>2 DEF Grown
    <3>2. DOMAIN r[t].vtxPrev = {}
      BY <3>1
    <3>3. QED
      BY <3>2 DEF KnowsOwn
  <2>3. QED
    BY <2>1, <2>2
<1>3. QED
  BY <1>1, <1>2 DEF CopiesKnown

\* Initially the wallet, the pool and the chain are empty.
LEMMA WalletInvInit == WalletInit => WalletInv
<1> SUFFICES ASSUME WalletInit PROVE WalletInv
  OBVIOUS
<1>1. IndexInv
  BY IndexInvInit DEF WalletInit
<1>2. /\ mapWallet = <<>> /\ suspect = {} /\ mapTx = {} /\ hashBestChain = GenesisBlock
      /\ pnext = [b \in Blocks |-> NULL]
  BY DEF WalletInit, RelayInit, Init
<1>3. DOMAIN mapWallet = {} /\ mapWallet = [t \in {} |-> mapWallet[t]]
  BY <1>2
<1>4. WalletOK(mapWallet)
  BY <1>3 DEF WalletOK
<1>5. ChainTxs(hashBestChain) = {}
  BY <1>2, ChainTxsGenesis
<1>6. Knows(mapWallet, {}, hashBestChain)
  BY DEF Knows, FollowsOn, Returned
<1>7. Linked
  BY <1>2, ChainGenesis DEF Linked, BlockOrNull
<1>8. KnowsOwn(mapWallet, {}) /\ CopiesKnown(mapWallet) /\ PoolKnown
  BY <1>2, <1>3 DEF KnowsOwn, CopiesKnown, PoolKnown
<1>9. QED
  BY <1>1, <1>2, <1>4, <1>5, <1>6, <1>7, <1>8 DEF WalletInv, ChainKnown

\* A block is connected on top of the database's.
LEMMA LinkedInner ==
    ASSUME Linked, NEW b \in Blocks \ {GenesisBlock}, pprev[b] = hashBestChain,
           SetBestChainInner(b)
    PROVE  Linked'
<1> DEFINE h == hashBestChain
<1>1. h \in Blocks /\ Chain[b] = Chain[h] \cup {b}
  BY ChainStep
<1>2. pnext' = [pnext EXCEPT ![h] = b] /\ hashBestChain' = b
  BY DEF SetBestChainInner
<1>3. pnext \in [Blocks -> BlockOrNull] /\ \A c \in Chain[h] : c # h => pnext[c] # NULL
  BY DEF Linked
<1>4. pnext' \in [Blocks -> BlockOrNull]
  BY <1>1, <1>2, <1>3 DEF BlockOrNull
<1>5. b # NULL /\ Chain[h] \subseteq Blocks
  BY <1>1, ChainClosed, TreeAssumption
<1>6. ASSUME NEW c \in Chain[b], c # b PROVE pnext'[c] # NULL
  <2>1. c \in Chain[h] /\ c \in Blocks
    BY <1>1, <1>5, <1>6
  <2>2. CASE c = h
    BY <1>1, <1>2, <1>3, <1>5, <2>2
  <2>3. CASE c # h
    <3>1. pnext'[c] = pnext[c]
      BY <1>2, <1>3, <2>1, <2>3
    <3>2. QED
      BY <1>3, <2>1, <2>3, <3>1
  <2>4. QED
    BY <2>2, <2>3
<1>7. QED
  BY <1>2, <1>4, <1>6 DEF Linked

\* A branch replaces another.
LEMMA LinkedReorganize ==
    ASSUME PointersInv, Linked, hashBestChain = pindexBest, Reorganize
    PROVE  Linked'
<1> DEFINE a == pindexBest
           x == pindexIntermediate
           C == Chain[x] \ Chain[a]
           D == Chain[a] \ Chain[x]
<1>1. a \in Blocks /\ x \in Blocks
  BY IntermediateIs DEF PointersInv
<1>2. hashBestChain' = x
      /\ pnext' = [b \in Blocks |-> IF HasChildIn(C, b) THEN CHOOSE c \in C : pprev[c] = b
                                    ELSE IF HasChildIn(D, b) THEN NULL ELSE pnext[b]]
  <2>1. ToSet(vConnect) = C /\ ToSet(vDisconnect) = D
    BY BranchSets
  <2> HIDE DEF C, D
  <2>2. QED
    BY <2>1 DEF Reorganize
<1>3. C \subseteq Blocks /\ NULL \notin Blocks /\ Chain[x] \subseteq Blocks
  BY <1>1, ChainClosed, TreeAssumption
<1>4. pnext \in [Blocks -> BlockOrNull] /\ \A c \in Chain[a] : c # a => pnext[c] # NULL
  BY DEF Linked
<1> HIDE DEF x, a
<1>5. ASSUME NEW b \in Blocks, HasChildIn(C, b) PROVE (CHOOSE c \in C : pprev[c] = b) \in C
  BY <1>5 DEF HasChildIn
<1>6. pnext' \in [Blocks -> BlockOrNull]
  <2>1. ASSUME NEW b \in Blocks
        PROVE  (IF HasChildIn(C, b) THEN CHOOSE c \in C : pprev[c] = b
                ELSE IF HasChildIn(D, b) THEN NULL ELSE pnext[b]) \in BlockOrNull
    <3>1. CASE HasChildIn(C, b)
      BY <1>3, <1>5, <3>1 DEF BlockOrNull
    <3>2. CASE ~HasChildIn(C, b)
      BY <1>4, <3>2 DEF BlockOrNull
    <3>3. QED
      BY <3>1, <3>2
  <2> HIDE DEF C, D
  <2>2. QED
    BY <1>2, <2>1
<1>7. ASSUME NEW b \in Chain[x], b # x PROVE pnext'[b] # NULL
  <2>1. b \in Blocks
    BY <1>3
  <2>2. CASE HasChildIn(C, b)
    BY <1>2, <1>3, <1>5, <2>1, <2>2
  <2>3. CASE ~HasChildIn(C, b)
    <3>1. PICK d \in Chain[x] : d # GenesisBlock /\ pprev[d] = b
      BY <1>1, <1>7, ChainHasChild
    <3>2. d \in Chain[a]
      BY <2>3, <3>1 DEF HasChildIn
    <3>3. b \in Chain[a] /\ b # NULL
      BY <1>1, <1>3, <2>1, <3>1, <3>2, ChainClosed DEF ClosedUnderPrev
    <3>4. b # a
      <4>1. d \in Blocks /\ nHeight[d] = nHeight[b] + 1
        BY <1>3, <3>1, TreeAssumption
      <4>2. d = a \/ nHeight[d] < nHeight[a]
        BY <1>1, <3>2, ChainBelow
      <4>3. nHeight[b] \in Nat /\ nHeight[a] \in Nat
        BY <1>1, <2>1, TreeAssumption
      <4>4. QED
        BY <4>1, <4>2, <4>3
    <3>5. ~HasChildIn(D, b)
      <4> SUFFICES ASSUME NEW y \in D, pprev[y] = b PROVE FALSE
        BY DEF HasChildIn
      <4>1. y = d
        BY <1>1, <3>1, <3>2, <3>3, ChainUniqueChild
      <4>2. QED
        BY <4>1
    <3>6. pnext'[b] = pnext[b]
      BY <1>2, <2>1, <2>3, <3>5
    <3>7. QED
      BY <1>4, <3>3, <3>4, <3>6
  <2>4. QED
    BY <2>2, <2>3
<1>8. QED
  BY <1>2, <1>6, <1>7 DEF Linked

-----------------------------------------------------------------------------
(***************************************************************************)
(* The steps, one lemma for each.  Most make the wallet grow.              *)
(***************************************************************************)
Suspicions == {{}, {"place"}, {"spent", "place"}}

\* A wallet that grows.
LEMMA GrownInv ==
    ASSUME WalletInv, IndexInv', Grown(mapWallet, mapWallet'), suspect' \in Suspicions,
           ~broken' => /\ ~broken
                       /\ Linked'
                       /\ suspect' = {} =>
                             Knows(mapWallet', ChainTxs(hashBestChain'), hashBestChain')
                       /\ KnowsOwn(mapWallet', ChainTxs(hashBestChain'))
                       /\ PoolKnown'
    PROVE  WalletInv'
<1>1. WalletOK(mapWallet')
  BY DEF Grown
<1>2. ASSUME ~broken' PROVE ChainKnown'
  <2>1. CopiesKnown(mapWallet)
    BY <1>2 DEF WalletInv, ChainKnown
  <2>2. CopiesKnown(mapWallet')
    BY <2>1, GrownKnowsOwn
  <2>3. QED
    BY <1>2, <2>2 DEF ChainKnown
<1>3. QED
  BY <1>1, <1>2 DEF WalletInv, Suspicions

\* A step that leaves the chain and what is confirmed alone.
LEMMA SameChain ==
    ASSUME WalletInv, IndexInv', Grown(mapWallet, mapWallet'), suspect' \in Suspicions,
           UNCHANGED <<hashBestChain, pnext>>,
           ~broken' => /\ ~broken
                       /\ suspect' = {} =>
                             Knows(mapWallet', ChainTxs(hashBestChain), hashBestChain)
                       /\ PoolKnown'
    PROVE  WalletInv'
<1>1. ASSUME ~broken' PROVE Linked' /\ KnowsOwn(mapWallet', ChainTxs(hashBestChain))
  <2>1. Linked /\ KnowsOwn(mapWallet, ChainTxs(hashBestChain))
    BY <1>1 DEF WalletInv, ChainKnown
  <2>2. Linked'
    BY <2>1 DEF Linked
  <2>3. QED
    BY <2>1, <2>2, GrownKnowsOwn
<1>2. QED
  BY <1>1, GrownInv

\* A wallet that stays has grown.
LEMMA GrownSame ==
    ASSUME NEW w, WalletOK(w)
    PROVE  Grown(w, w)
BY DEF Grown

\* The pool loses transactions, and forgets no released orphan that stays.
LEMMA PoolKept ==
    ASSUME PoolKnown, Grown(mapWallet, mapWallet'), mapTx' \subseteq mapTx,
           released \cap mapTx' \subseteq released'
    PROVE  PoolKnown'
BY DEF PoolKnown, Grown, InWallet

\* While nothing is broken the index is that of the chain.
LEMMA ChainIs ==
    ASSUME IndexInv, ~broken
    PROVE  /\ IndexOfChain /\ Sound(ChainTxs(hashBestChain))
           /\ pc \in {"idle", "set", "pending"} => pindexBest = hashBestChain
BY CleanIsSound DEF IndexInv, IndexIsClean, PointersInv, IndexOfChain

\* The wallet counts its coins.
LEMMA StepGetBalance ==
    ASSUME WalletInv, GetBalance
    PROVE  WalletInv'
<1>1. UNCHANGED <<vars, released, suspect>>
  BY DEF GetBalance
<1>2. IndexInv'
  BY <1>1, IndexUntouched DEF vars, handler, pool, WalletInv
<1>3. /\ Remarked(mapWallet, mapWallet')
      /\ \A t \in DOMAIN mapWallet : mapWallet'[t].vfSpent = mapWallet[t].vfSpent
  BY GetBalanceIs DEF WalletInv
<1>4. Grown(mapWallet, mapWallet')
  BY <1>3, RemarkedGrows
<1>5. ASSUME ~broken, suspect = {}
      PROVE  Knows(mapWallet', ChainTxs(hashBestChain), hashBestChain)
  <2>1. Sound(ChainTxs(hashBestChain))
    BY <1>5, ChainIs DEF WalletInv
  <2>2. Knows(mapWallet, ChainTxs(hashBestChain), hashBestChain)
    BY <1>5 DEF WalletInv, ChainKnown
  <2>3. QED
    BY <1>3, <2>1, <2>2, SameKnowledge DEF Knows
<1>6. ASSUME ~broken PROVE PoolKnown'
  <2>1. PoolKnown
    BY <1>6 DEF WalletInv, ChainKnown
  <2>2. QED
    BY <1>1, <1>4, <2>1, PoolKept DEF vars, pool
<1>7. QED
  BY <1>1, <1>2, <1>4, <1>5, <1>6, SameChain DEF vars, WalletInv, Suspicions

\* A step of which the wallet hears nothing.
LEMMA StepUnheard ==
    ASSUME WalletInv, IndexInv', UNCHANGED <<hashBestChain, pnext, pool, released, mapWallet, suspect>>,
           ~broken' => ~broken
    PROVE  WalletInv'
<1>1. Grown(mapWallet, mapWallet')
  BY GrownSame DEF WalletInv
<1>2. ASSUME ~broken PROVE PoolKnown'
  <2>1. PoolKnown
    BY <1>2 DEF WalletInv, ChainKnown
  <2>2. QED
    BY <1>1, <2>1, PoolKept DEF pool
<1>3. ASSUME ~broken, suspect = {}
      PROVE  Knows(mapWallet', ChainTxs(hashBestChain), hashBestChain)
  BY <1>3 DEF WalletInv, ChainKnown
<1>4. QED
  BY <1>1, <1>2, <1>3, SameChain DEF WalletInv, Suspicions

\* An orphan transaction is kept.
LEMMA StepReceiveOrphan ==
    ASSUME WalletInv, NEW t, ReceiveOrphan(t)
    PROVE  WalletInv'
<1>1. UNCHANGED <<vars, released, mapWallet, suspect>>
  BY DEF ReceiveOrphan, KeepOrphan
<1>2. IndexInv'
  BY <1>1, IndexUntouched DEF vars, handler, pool, WalletInv
<1>3. QED
  BY <1>1, <1>2, StepUnheard DEF vars

\* A block is indexed, or refused, or becomes the best one.
LEMMA StepOtherBlock ==
    ASSUME WalletInv, OtherBlockStep
    PROVE  WalletInv'
<1>1. BlockStep
  BY DEF OtherBlockStep, BlockStep
<1>2. IndexInv'
  BY <1>1, IndexBlockStep DEF WalletInv
<1>3. UNCHANGED <<hashBestChain, pnext, pool>> /\ (~broken' => ~broken)
  BY DEF OtherBlockStep, AcceptBlock, ExtendBestFails, BreakSecondary, NewBest, NoPending
<1>4. UNCHANGED <<released, mapWallet, suspect>>
  BY DEF OtherBlockStep, KeepWallet
<1>5. QED
  BY <1>2, <1>3, <1>4, StepUnheard

\* A transaction enters the pool, with the orphans it releases.
LEMMA StepReceiveTx ==
    ASSUME WalletInv, NEW t \in Txs, ReceiveTx(t)
    PROVE  WalletInv'
<1> DEFINE w == mapWallet
           r == AddToWalletIfInvolvingMe(mapWallet, t, NULL, TRUE)
           s == ProcessQueue(t)
<1>1. /\ mapWallet' = r /\ suspect' = suspect
      /\ accept(ThePool, t, TRUE) /\ SetPool(s.pool)
      /\ released' = (released \cup ToSet(Tail(s.vWorkQueue))) \ {t}
      /\ UNCHANGED <<txindex, hashBestChain, mapBlockIndex, pnext, pindexBest, nMoneySupply,
                     handler, broken>>
  BY DEF ReceiveTx, AcceptTx
<1>2. IndexInv'
  BY <1>1, IndexUntouched DEF handler, WalletInv
<1>3. WalletOK(w)
  BY DEF WalletInv
<1>4. Grown(w, r)
  BY <1>3, TellGrows
<1>5. PaysMe(t) => t \in DOMAIN r
  <2>1. \/ r = w /\ t \in DOMAIN w
        \/ ~PaysMe(t)
        \/ Added(w, r, t, NULL)
    BY <1>3, InvolvingMe
  <2>2. QED
    BY <2>1 DEF Added
<1>6. QueueGood(s, t)
  BY <1>1, ProcessQueueKeeps
<1> HIDE DEF r, s
<1>7. ASSUME ~broken, suspect = {} PROVE Knows(r, ChainTxs(hashBestChain), hashBestChain)
  <2> DEFINE T == ChainTxs(hashBestChain)
  <2>1. Sound(T) /\ Knows(w, T, hashBestChain)
    BY <1>7, ChainIs DEF WalletInv, ChainKnown
  <2>2. FollowsOn(r, T, hashBestChain)
    BY <1>3, <2>1, ToldFollows DEF Knows, r
  <2>3. t \notin CoinStakes
    BY <1>1 DEF accept, Minted
  <2>4. Returned(r, T, T)
    BY <1>3, <2>1, <2>3, ToldReturned DEF Knows, r
  <2>5. QED
    BY <2>2, <2>4 DEF Knows
<1>8. ASSUME ~broken PROVE PoolKnown'
  <2>1. PoolKnown
    BY <1>8 DEF WalletInv, ChainKnown
  <2>2. ~Minted(t)
    BY <1>1 DEF accept
  <2>3. /\ s.vWorkQueue \in Seq(Txs) /\ Len(s.vWorkQueue) > 0 /\ s.vWorkQueue[1] = t
        /\ \A u \in s.pool.mapTx : u \in mapTx \/ (~Minted(u) /\ Queued(s.vWorkQueue, u))
    BY <1>6 DEF QueueGood
  <2>4. ASSUME NEW u, Queued(s.vWorkQueue, u) PROVE u = t \/ u \in ToSet(Tail(s.vWorkQueue))
    <3>1. PICK i \in 1..Len(s.vWorkQueue) : s.vWorkQueue[i] = u
      BY <2>4 DEF Queued
    <3>2. CASE i = 1
      BY <2>3, <3>1, <3>2
    <3>3. CASE i # 1
      <4>1. i - 1 \in 1..Len(Tail(s.vWorkQueue)) /\ Tail(s.vWorkQueue)[i - 1] = u
        BY <2>3, <3>1, <3>3
      <4>2. QED
        BY <2>3, <4>1 DEF ToSet
    <3>4. QED
      BY <3>2, <3>3
  <2>5. ASSUME NEW u \in s.pool.mapTx
        PROVE  ~Minted(u) /\ (u \notin released' /\ PaysMe(u) => u \in DOMAIN r)
    <3>1. CASE u \in mapTx
      BY <1>1, <1>4, <1>5, <2>1, <3>1 DEF PoolKnown, Grown, InWallet
    <3>2. CASE u \notin mapTx
      BY <1>1, <1>5, <2>3, <2>4, <3>2
    <3>3. QED
      BY <3>1, <3>2
  <2>6. mapTx' = s.pool.mapTx
    BY <1>1 DEF SetPool
  <2>7. QED
    BY <1>1, <2>5, <2>6 DEF PoolKnown, InWallet
<1>9. QED
  BY <1>1, <1>2, <1>4, <1>7, <1>8, SameChain DEF WalletInv, Suspicions

\* The wallet sends: what it copies into the new transaction it has, or the chain has.
LEMMA StepSendMoney ==
    ASSUME WalletInv, NEW t \in Txs, SendMoney(t)
    PROVE  WalletInv'
<1> DEFINE w == mapWallet
           b == hashBestChain
           T == ChainTxs(b)
           copies == AddSupportingTransactions(t)
           r == Sent(w, t, copies)
<1>1. /\ mapWallet' = r /\ CreateTransaction(t) /\ AcceptToMemoryPool(t)
      /\ UNCHANGED <<released, suspect>>
  BY DEF SendMoney, Sent
<1>2. /\ accept(ThePool, t, TRUE) /\ SetPool(addUnchecked(ThePool, t))
      /\ UNCHANGED <<txindex, hashBestChain, mapBlockIndex, pnext, pindexBest, nMoneySupply,
                     handler, broken>>
  BY <1>1 DEF AcceptToMemoryPool
<1>3. IndexInv'
  BY <1>2, IndexUntouched DEF handler, WalletInv
<1>4. WalletOK(w) /\ ~Minted(t) /\ t \notin DOMAIN w
  BY <1>1, <1>2 DEF WalletInv, accept, CreateTransaction, InWallet
<1>5. vin[t] \subseteq Mine /\ \A o \in vin[t] : o[1] \in DOMAIN w
  BY <1>1 DEF CreateTransaction, AvailableCoins, UnspentOf, InWallet
<1>6. \A u \in DOMAIN copies : u \in DOMAIN w \/ txindex[u] # NULL
  BY DEF AddSupportingTransactions, InWallet
<1> HIDE DEF copies
<1>7. /\ WalletOK(r) /\ DOMAIN r = DOMAIN w \cup {t}
      /\ r[t].vtxPrev = copies /\ \A u \in DOMAIN w : r[u].vtxPrev = w[u].vtxPrev
      /\ \A S, e : Sound(S) /\ FollowsOn(w, S, e) => FollowsOn(r, S, e)
      /\ \A S, J : Returned(w, S, J) => Returned(r, S, J)
  BY <1>4, <1>5, SentIs
<1> HIDE DEF r
<1>8. ASSUME ~broken PROVE ChainKnown'
  <2>1. ChainKnown /\ IndexOfChain /\ Sound(T)
    BY <1>8, ChainIs DEF WalletInv
  <2>2. Linked'
    BY <1>2, <2>1 DEF ChainKnown, Linked
  <2>3. suspect = {} => Knows(r, T, b)
    BY <1>7, <2>1 DEF ChainKnown, Knows
  <2>4. KnowsOwn(r, T)
    BY <1>7, <2>1 DEF ChainKnown, KnowsOwn
  <2>5. KnowsOwn(r, DOMAIN copies)
    <3> SUFFICES ASSUME NEW u \in DOMAIN copies, ~Minted(u), PaysMe(u) PROVE u \in DOMAIN r
      BY DEF KnowsOwn
    <3>1. u \in Txs
      <4>1. PICK n : <<u, n>> \in Mine
        BY DEF PaysMe
      <4>2. <<u, n>>[1] \in Txs
        BY <4>1, MinePays
      <4>3. QED
        BY <4>2
    <3>2. CASE u \in DOMAIN w
      BY <1>7, <3>2
    <3>3. CASE txindex[u] # NULL
      <4>1. u \in T
        BY <2>1, <3>1, <3>3, IndexedIs
      <4>2. QED
        BY <2>4, <4>1 DEF KnowsOwn
    <3>4. QED
      BY <1>6, <3>2, <3>3
  <2>6. CopiesKnown(r)
    <3>1. ASSUME NEW u \in DOMAIN w PROVE KnowsOwn(r, DOMAIN r[u].vtxPrev)
      BY <1>7, <2>1 DEF ChainKnown, CopiesKnown, KnowsOwn
    <3>2. QED
      BY <1>7, <2>5, <3>1 DEF CopiesKnown
  <2>7. PoolKnown'
    <3>1. mapTx' = mapTx \cup {t}
      BY <1>2 DEF SetPool, addUnchecked, ThePool
    <3>2. ASSUME NEW u \in mapTx'
          PROVE  ~Minted(u) /\ (u \notin released /\ PaysMe(u) => u \in DOMAIN r)
      BY <1>4, <1>7, <2>1, <3>1 DEF ChainKnown, PoolKnown, InWallet
    <3>3. QED
      BY <1>1, <3>2 DEF PoolKnown, InWallet
  <2>8. QED
    BY <1>1, <1>2, <2>2, <2>3, <2>4, <2>6, <2>7 DEF ChainKnown
<1>9. QED
  BY <1>1, <1>2, <1>3, <1>7, <1>8 DEF WalletInv

\* A block is connected on top of the database's, and the wallet is told of it.
LEMMA ConnectedIs ==
    ASSUME WalletInv, NEW b \in Blocks, SetBestChainInner(b), mapWallet' = SyncBlock(mapWallet, b),
           ~broken => b # GenesisBlock /\ pprev[b] = hashBestChain,
           StillReleased, IndexInv', UNCHANGED <<suspect, broken>>
    PROVE  WalletInv'
<1> DEFINE w == mapWallet
           r == TellBlock(w, b, TRUE)
           h == hashBestChain
<1>1. mapWallet' = r /\ hashBestChain' = b /\ SetPool(RemoveBlock(ThePool, b))
  BY DEF SyncBlock, TellBlock, SetBestChainInner, FoldLeft, MapThenFoldSet
<1>2. WalletOK(w)
  BY DEF WalletInv
<1>3. /\ Grown(w, r)
      /\ \A t \in BlockTxs(b) : PaysMe(t) => t \in DOMAIN r
      /\ NextOn(b, b) /\ FollowsOn(w, ChainTxs(pprev[b]), b) => FollowsOn(r, ChainTxs(b), b)
  BY <1>2, TellBlockIs
<1>4. \A T, J : Returned(w, T, J) /\ (\A t \in BlockTxs(b) : t \in J \/ vin[t] = {})
                   => Returned(r, T, J) /\ Returned(r, BlockTxs(b), J)
  BY <1>2, TellBlockIs
<1> HIDE DEF r
<1>5. ASSUME ~broken
      PROVE  /\ Linked'
             /\ suspect = {} => Knows(r, ChainTxs(b), b)
             /\ KnowsOwn(r, ChainTxs(b))
             /\ PoolKnown'
  <2>1. ChainKnown /\ b # GenesisBlock /\ pprev[b] = h /\ h \in Blocks /\ CleanChain(h)
    BY <1>5, ChainIs DEF WalletInv, IndexOfChain
  <2>2. CleanChain(b) /\ Clean(b)
    <3>1. hashBestChain' = b /\ broken' = broken /\ CleanChain(b)
      BY <1>1, <1>5 DEF IndexInv, IndexIsClean
    <3>2. QED
      BY <2>1, <3>1, ChainClosed DEF CleanChain
  <2>3. ChainTxs(b) = ChainTxs(h) \cup BlockTxs(b)
    BY <2>1, ChainTxsStep
  <2>4. Linked'
    BY <2>1, LinkedInner DEF ChainKnown
  <2>5. KnowsOwn(r, ChainTxs(b))
    <3>1. KnowsOwn(r, ChainTxs(h))
      BY <1>3, <2>1, GrownKnowsOwn DEF ChainKnown
    <3>2. QED
      BY <1>3, <2>3, <3>1 DEF KnowsOwn
  <2>6. PoolKnown'
    <3>1. mapTx' \subseteq mapTx
      BY <1>1, BlockLeaves DEF SetPool, ThePool
    <3>2. QED
      BY <1>1, <1>3, <2>1, <3>1, PoolKept DEF ChainKnown, StillReleased
  <2>7. ASSUME suspect = {} PROVE Knows(r, ChainTxs(b), b)
    <3>1. FollowsOn(w, ChainTxs(h), h) /\ Returned(w, ChainTxs(h), ChainTxs(h))
      BY <2>1, <2>7 DEF ChainKnown, Knows
    <3>2. h \in Chain[b] /\ b \in Chain[b]
      BY <2>1, ChainClosed, ChainStep
    <3>3. FollowsOn(w, ChainTxs(h), b)
      BY <2>2, <3>1, <3>2, FollowsBelow
    <3>4. NextOn(b, b)
      BY <2>1, <2>2, <3>2, HomeOfBlock DEF NextOn
    <3>5. FollowsOn(r, ChainTxs(b), b)
      BY <1>3, <2>1, <3>3, <3>4
    <3>6. Returned(w, ChainTxs(h), ChainTxs(b))
      BY <2>3, <3>1, ReturnedMore
    <3>7. Returned(r, ChainTxs(h), ChainTxs(b)) /\ Returned(r, BlockTxs(b), ChainTxs(b))
      BY <1>4, <2>3, <3>6
    <3>8. Returned(r, ChainTxs(b), ChainTxs(b))
      BY <2>3, <3>7 DEF Returned
    <3>9. QED
      BY <3>5, <3>8 DEF Knows
  <2>8. QED
    BY <2>4, <2>5, <2>6, <2>7
<1>6. QED
  BY <1>1, <1>3, <1>5, GrownInv DEF WalletInv, Suspicions

\* The best block is extended, or a postponed block is connected.
LEMMA StepConnectTip ==
    ASSUME WalletInv, ConnectTip
    PROVE  WalletInv'
<1>1. StillReleased /\ suspect' = suspect
  BY DEF ConnectTip
<1>2. PointersInv
  BY DEF WalletInv, IndexInv
<1>3. CASE ExtendBest /\ mapWallet' = SyncBlock(mapWallet, pindexNew)
  <2>1. /\ SetBestChainInner(pindexNew) /\ pc = "set" /\ pprev[pindexNew] = pindexBest
        /\ broken' = broken
    BY <1>3 DEF ExtendBest
  <2>2. IndexInv'
    BY <1>3, IndexExtendBest DEF WalletInv
  <2>3. pindexNew \in Blocks /\ pindexNew # GenesisBlock
    BY <1>2, <2>1 DEF PointersInv
  <2>4. ~broken => pprev[pindexNew] = hashBestChain
    BY <2>1, ChainIs DEF WalletInv
  <2>5. QED
    BY <1>1, <1>3, <2>1, <2>2, <2>3, <2>4, ConnectedIs
<1>4. CASE ConnectSecondary /\ mapWallet' = SyncBlock(mapWallet, NextSecondary)
  <2> DEFINE y == NextSecondary
  <2>1. SetBestChainInner(y) /\ pc = "secondary" /\ vpindexSecondary # {} /\ broken' = broken
    BY <1>4 DEF ConnectSecondary
  <2>2. IndexInv'
    BY <1>4, IndexConnectSecondary DEF WalletInv
  <2>3. y \in Blocks
    BY <1>2, <2>1, NextSecondaryExists DEF PointersInv
  <2>4. ~broken => y # GenesisBlock /\ pprev[y] = hashBestChain
    <3> SUFFICES ASSUME ~broken PROVE y # GenesisBlock /\ pprev[y] = hashBestChain
      OBVIOUS
    <3>1. /\ hashBestChain \in Blocks /\ pindexNew \in Blocks /\ hashBestChain \in Chain[pindexNew]
          /\ vpindexSecondary = Chain[pindexNew] \ Chain[hashBestChain]
      BY <1>2, <2>1 DEF WalletInv, IndexInv, PointersInv, IndexIsClean
    <3>2. QED
      BY <2>1, <3>1, NextSecondaryIs
  <2> HIDE DEF y
  <2>5. mapWallet' = SyncBlock(mapWallet, y)
    BY <1>4 DEF y
  <2>6. QED
    BY <1>1, <2>1, <2>2, <2>3, <2>4, <2>5, ConnectedIs
<1>5. QED
  BY <1>3, <1>4 DEF ConnectTip

\* Another branch becomes the best one.
LEMMA StepSwitchBranch ==
    ASSUME WalletInv, SwitchBranch
    PROVE  WalletInv'
<1> DEFINE w == mapWallet
           a == pindexBest
           x == pindexIntermediate
           r == ToldOf(Len(vDisconnect), Len(vConnect))
<1>1. /\ Reorganize /\ mapWallet' = r /\ StillReleased /\ suspect' = suspect
      /\ hashBestChain' = x /\ broken' = broken /\ pc = "set" /\ SetPool(ReorganizedPool)
      /\ Reconnected.ok
  BY DEF SwitchBranch, Reorganize
<1>2. IndexInv' /\ PointersInv /\ WalletOK(w)
  BY <1>1, IndexReorganize DEF WalletInv, IndexInv
<1>3. Grown(w, r)
  <2>1. Len(vDisconnect) \in 0..Len(vDisconnect) /\ Len(vConnect) \in 0..Len(vConnect)
    BY <1>2, BranchesAre
  <2>2. QED
    BY <1>2, <2>1, ToldGrows
<1>4. ASSUME ~broken
      PROVE  /\ Linked'
             /\ suspect = {} => Knows(r, ChainTxs(x), x)
             /\ KnowsOwn(r, ChainTxs(x))
             /\ PoolKnown'
  <2>1. ChainKnown /\ a = hashBestChain
    BY <1>1, <1>4, ChainIs DEF WalletInv
  <2>2. /\ CleanChain(a) /\ txindex = LedgerOf(a)
        /\ nMoneySupply \in [Blocks -> Int] /\ SupplyOn(nMoneySupply, a)
    BY <1>4, <2>1 DEF WalletInv, IndexInv, IndexIsClean
  <2>3. CleanChain(x)
    BY <1>1, <1>2, <2>2, ReorganizedLedger
  <2>4. /\ \A t \in ChainTxs(x) \ ChainTxs(a) : PaysMe(t) => t \in DOMAIN r
        /\ Knows(w, ChainTxs(a), a) => Knows(r, ChainTxs(x), x)
    BY <1>2, <2>2, <2>3, ToldReorganize
  <2> HIDE DEF r
  <2>5. KnowsOwn(w, ChainTxs(a))
    BY <2>1 DEF ChainKnown
  <2>6. KnowsOwn(r, ChainTxs(x))
    BY <1>3, <2>4, <2>5 DEF KnowsOwn, Grown
  <2>7. PoolKnown'
    <3>1. \A u \in mapTx' : u \in mapTx \/ (~Minted(u) /\ u \in ChainTxs(a))
      BY <1>1, <1>2, ReorganizeEnters DEF SetPool
    <3>2. PoolKnown
      BY <2>1 DEF ChainKnown
    <3>3. released' = released \cap mapTx'
      BY <1>1 DEF StillReleased
    <3>4. \A u \in mapTx' : ~Minted(u) /\ (u \notin released' /\ PaysMe(u) => u \in DOMAIN r)
      BY <1>3, <2>5, <3>1, <3>2, <3>3 DEF PoolKnown, KnowsOwn, Grown, InWallet
    <3>5. QED
      BY <1>1, <3>4 DEF PoolKnown, InWallet
  <2>8. Linked'
    BY <1>1, <1>2, <2>1, LinkedReorganize DEF ChainKnown
  <2>9. QED
    BY <2>1, <2>4, <2>6, <2>7, <2>8 DEF ChainKnown
<1> HIDE DEF r
<1>5. QED
  BY <1>1, <1>2, <1>3, <1>4, GrownInv DEF WalletInv, Suspicions

\* A branch is abandoned after the wallet has been told of part of it.
LEMMA StepAbandonBranch ==
    ASSUME WalletInv, NEW d \in 0..Len(vDisconnect), NEW k \in 0..Len(vConnect), AbandonBranch(d, k)
    PROVE  WalletInv'
<1>1. /\ ReorganizeFails(d, k) /\ mapWallet' = ToldOf(d, k) /\ suspect' = Misled(mapWallet')
      /\ UNCHANGED <<hashBestChain, pnext, pool, broken, released>>
  BY DEF AbandonBranch, ReorganizeFails
<1>2. IndexInv' /\ PointersInv /\ WalletOK(mapWallet)
  BY <1>1, IndexReorganizeFails DEF WalletInv, IndexInv
<1>3. Grown(mapWallet, mapWallet')
  BY <1>1, <1>2, ToldGrows
<1>4. (suspect' = suspect /\ mapWallet' = mapWallet) \/ suspect' = {"spent", "place"}
  BY <1>1 DEF Misled
<1>5. ASSUME ~broken PROVE PoolKnown'
  <2>1. PoolKnown
    BY <1>5 DEF WalletInv, ChainKnown
  <2>2. QED
    BY <1>1, <1>3, <2>1, PoolKept DEF pool
<1>6. ASSUME ~broken, suspect' = {}
      PROVE  Knows(mapWallet', ChainTxs(hashBestChain), hashBestChain)
  BY <1>4, <1>6 DEF WalletInv, ChainKnown
<1>7. suspect' \in Suspicions
  BY <1>4 DEF WalletInv, Suspicions
<1>8. QED
  BY <1>1, <1>2, <1>3, <1>5, <1>6, <1>7, SameChain

\* A scan of the main chain that updates what the wallet has.
LEMMA ScanIs ==
    ASSUME NEW w, WalletOK(w), hashBestChain \in Blocks, NEW h \in 0..(nHeight[hashBestChain] + 1)
    PROVE  LET r == ScanForWalletTransactions(w, h, TRUE)
               T == TxsBelow(hashBestChain, h)
               J == ChainTxs(hashBestChain)
           IN  /\ Grown(w, r)
               /\ \A t \in J \ T : PaysMe(t) => t \in DOMAIN r
               /\ CleanChain(hashBestChain) /\ FollowsOn(w, T, hashBestChain)
                      => FollowsOn(r, J, hashBestChain)
               /\ Returned(w, J, J) \/ Returned(w, T, J) => Returned(r, J, J)
<1> DEFINE r == TellBlocks(w, UpFrom[hashBestChain][h], TRUE)
           T == TxsBelow(hashBestChain, h)
           J == ChainTxs(hashBestChain)
<1>1. ScanForWalletTransactions(w, h, TRUE) = r
  BY DEF ScanForWalletTransactions, TellBlocks, TellBlock, FoldLeft, MapThenFoldSet
<1>2. /\ Grown(w, r)
      /\ \A t \in J \ T : PaysMe(t) => t \in DOMAIN r
      /\ CleanChain(hashBestChain) /\ FollowsOn(w, T, hashBestChain) => FollowsOn(r, J, hashBestChain)
      /\ Returned(w, J, J) => Returned(r, J, J)
      /\ Returned(w, T, J) => Returned(r, J, J)
  BY TellChainIs
<1> HIDE DEF r, T, J
<1>3. QED
  BY <1>1, <1>2 DEF T, J

\* On start, what the wallet follows it goes on following.
LEMMA RescanOnStartIs ==
    ASSUME NEW w, WalletOK(w), PointersInv
    PROVE  LET r == RescanOnStart(w)
           IN  /\ Grown(w, r)
               /\ CleanChain(hashBestChain) /\ Knows(w, ChainTxs(hashBestChain), hashBestChain)
                      => Knows(r, ChainTxs(hashBestChain), hashBestChain)
<1> DEFINE b == hashBestChain
           h == nHeight[pindexRescan]
           r == ScanForWalletTransactions(w, h, TRUE)
           J == ChainTxs(b)
           T == TxsBelow(b, h)
<1>1. b \in Blocks /\ pindexRescan \in Chain[b]
  BY ForkOnChains DEF PointersInv, pindexRescan
<1>2. h \in 0..nHeight[b] /\ nHeight[b] \in Nat /\ h \in 0..(nHeight[b] + 1)
  <2>1. h \in 0..nHeight[b] /\ nHeight[b] \in Nat
    BY <1>1, AtHeightIs, TreeAssumption
  <2>2. QED
    BY <2>1
<1>3. T \subseteq J
  <2>1. CASE h = 0
    BY <2>1 DEF TxsBelow
  <2>2. CASE h # 0
    <3>1. h - 1 \in 0..nHeight[b]
      BY <1>2, <2>2
    <3>2. AtHeight(b, h - 1) \in Chain[b]
      BY <1>1, <3>1, HeightOnChain
    <3>3. Chain[AtHeight(b, h - 1)] \subseteq Chain[b]
      BY <1>1, <3>2, ChainTransitive
    <3>4. QED
      BY <2>2, <3>3 DEF TxsBelow, ChainTxs
  <2>3. QED
    BY <2>1, <2>2
<1>4. /\ Grown(w, r)
      /\ CleanChain(b) /\ FollowsOn(w, T, b) => FollowsOn(r, J, b)
      /\ Returned(w, J, J) => Returned(r, J, J)
  BY <1>1, <1>2, ScanIs
<1>5. RescanOnStart(w) = r \/ RescanOnStart(w) = w
  BY DEF RescanOnStart
<1> HIDE DEF r, h
<1>6. CleanChain(b) /\ Knows(w, J, b) => Knows(r, J, b)
  <2> SUFFICES ASSUME CleanChain(b), Knows(w, J, b) PROVE Knows(r, J, b)
    OBVIOUS
  <2>1. FollowsOn(w, J, b) /\ Returned(w, J, J)
    BY DEF Knows
  <2> HIDE DEF J, T
  <2>2. FollowsOn(w, T, b)
    BY <1>3, <2>1 DEF FollowsOn
  <2>3. QED
    BY <1>4, <2>1, <2>2 DEF Knows
<1>7. Grown(w, w)
  BY GrownSame
<1>8. QED
  BY <1>4, <1>5, <1>6, <1>7

\* What the process dies with.
LEMMA ToldBeforeDeathGrows ==
    ASSUME PointersInv, WalletOK(mapWallet), NEW told \in ToldBeforeDeath
    PROVE  Grown(mapWallet, told)
<1>1. ASSUME NEW b \in Blocks PROVE Grown(mapWallet, SyncBlock(mapWallet, b))
  <2>1. SyncBlock(mapWallet, b) = TellBlock(mapWallet, b, TRUE)
    BY DEF SyncBlock, TellBlock, FoldLeft, MapThenFoldSet
  <2>2. QED
    BY <2>1, TellBlockIs
<1>2. Len(vDisconnect) \in Nat /\ Len(vConnect) \in Nat
  BY BranchesAre
<1>3. \A d \in 0..Len(vDisconnect), k \in 0..Len(vConnect) : Grown(mapWallet, ToldOf(d, k))
  BY ToldGrows
<1>4. 0 \in 0..Len(vConnect) /\ Len(vDisconnect) \in 0..Len(vDisconnect)
  BY <1>2
<1>5. \/ told = mapWallet
      \/ \E d \in 0..Len(vDisconnect), k \in 0..Len(vConnect) : told = ToldOf(d, k)
      \/ told = SyncBlock(mapWallet, pindexNew)
      \/ vpindexSecondary # {} /\ told = SyncBlock(mapWallet, NextSecondary)
  BY <1>4 DEF ToldBeforeDeath
<1>6. CASE told = mapWallet
  BY <1>6, GrownSame
<1>7. CASE told = SyncBlock(mapWallet, pindexNew)
  BY <1>1, <1>7 DEF PointersInv
<1>8. CASE vpindexSecondary # {} /\ told = SyncBlock(mapWallet, NextSecondary)
  <2>1. NextSecondary \in Blocks
    BY <1>8, NextSecondaryExists DEF PointersInv
  <2>2. QED
    BY <1>1, <1>8, <2>1
<1>9. QED
  BY <1>3, <1>5, <1>6, <1>7, <1>8

\* The pool after the wallet's transactions have gone back to it.
LEMMA ReenteredKnown ==
    ASSUME NEW w, NEW p, NEW q, NEW S, Reentered(w, p, q), CopiesKnown(w),
           \A u \in p.mapTx : ~Minted(u) /\ (u \notin S /\ PaysMe(u) => u \in DOMAIN w)
    PROVE  \A u \in q.mapTx : ~Minted(u) /\ (u \notin S /\ PaysMe(u) => u \in DOMAIN w)
<1> SUFFICES ASSUME NEW u \in q.mapTx, u \notin p.mapTx
             PROVE  ~Minted(u) /\ (PaysMe(u) => u \in DOMAIN w)
  OBVIOUS
<1>1. ~Minted(u) /\ Known(w, u)
  BY DEF Reentered
<1>2. QED
  BY <1>1 DEF Known, CopiesKnown, KnowsOwn

\* The process dies and starts again.
LEMMA StepRestartWallet ==
    ASSUME WalletInv, NEW told \in ToldBeforeDeath, RestartWallet(told)
    PROVE  WalletInv'
<1> DEFINE b == hashBestChain
           J == ChainTxs(b)
           w1 == MarkDirty(told)
           w2 == RescanOnStart(w1)
           s == ReacceptWalletTransactions(w2, EmptyPool)
<1>1. RestartWith(s.p) /\ mapWallet' = s.w /\ released' = {} /\ suspect' = Misled(told)
  BY DEF RestartWallet, ForgetOrphans, LoadWallet
<1>2. IndexInv' /\ PointersInv /\ WalletOK(mapWallet) /\ b \in Blocks
  BY <1>1, IndexRestart DEF WalletInv, IndexInv, PointersInv
<1>3. UNCHANGED <<hashBestChain, pnext, broken>> /\ mapTx' = s.p.mapTx
  BY <1>1 DEF RestartWith, SetPool
<1>4. Grown(mapWallet, told) /\ WalletOK(told)
  BY <1>2, ToldBeforeDeathGrows DEF Grown
<1>5. /\ Remarked(told, w1) /\ \A t \in DOMAIN told : w1[t].vfSpent = told[t].vfSpent
      /\ Grown(told, w1) /\ WalletOK(w1)
  BY <1>4, MarkDirtyIs, RemarkedGrows DEF Remarked
<1> HIDE DEF w1
<1>6. /\ Grown(w1, w2) /\ WalletOK(w2)
      /\ CleanChain(b) /\ Knows(w1, J, b) => Knows(w2, J, b)
  BY <1>2, <1>5, RescanOnStartIs DEF Grown
<1> HIDE DEF w2
<1>7. Grown(w2, s.w) /\ Reentered(s.w, EmptyPool, s.p) /\ Keeps(w2, s.w)
  BY <1>2, <1>6, ReacceptIs
<1> HIDE DEF s
<1>8. Grown(mapWallet, s.w)
  BY <1>4, <1>5, <1>6, <1>7, GrownTwice
<1>9. (told = mapWallet /\ suspect' = suspect) \/ suspect' = {"spent", "place"}
  BY <1>1 DEF Misled
<1>10. ASSUME ~broken, suspect' = {} PROVE Knows(s.w, J, b)
  <2>1. told = mapWallet /\ suspect = {}
    BY <1>9, <1>10
  <2>2. Knows(told, J, b) /\ IndexOfChain /\ Sound(J) /\ CleanChain(b)
    BY <1>10, <2>1, ChainIs DEF WalletInv, ChainKnown, IndexOfChain
  <2>3. Knows(w1, J, b)
    BY <1>5, <2>2, SameKnowledge DEF Knows
  <2>4. Knows(w2, J, b)
    BY <1>6, <2>2, <2>3
  <2>5. QED
    BY <1>7, <2>2, <2>4 DEF Keeps, Knows
<1>11. ASSUME ~broken PROVE PoolKnown'
  <2>1. CopiesKnown(s.w)
    BY <1>8, <1>11, GrownKnowsOwn DEF WalletInv, ChainKnown
  <2>2. \A u \in s.p.mapTx : ~Minted(u) /\ (u \notin {} /\ PaysMe(u) => u \in DOMAIN s.w)
    BY <1>7, <2>1, ReenteredKnown DEF EmptyPool
  <2>3. QED
    BY <1>1, <1>3, <2>2 DEF PoolKnown, InWallet
<1>12. suspect' \in Suspicions
  BY <1>9 DEF WalletInv, Suspicions
<1>13. QED
  BY <1>1, <1>2, <1>3, <1>8, <1>10, <1>11, <1>12, SameChain

\* A rescan teaches the wallet the whole chain.
LEMMA StepRescan ==
    ASSUME WalletInv, Rescan
    PROVE  WalletInv'
<1> DEFINE b == hashBestChain
           J == ChainTxs(b)
           w1 == MarkDirty(mapWallet)
           w2 == ScanForWalletTransactions(w1, 0, TRUE)
           s == ReacceptWalletTransactions(w2, ThePool)
<1>1. /\ SetPool(s.p) /\ mapWallet' = s.w /\ suspect' = {}
      /\ UNCHANGED <<txindex, hashBestChain, mapBlockIndex, pnext, pindexBest, nMoneySupply,
                     handler, broken, released>>
  BY DEF Rescan
<1>2. IndexInv' /\ WalletOK(mapWallet) /\ b \in Blocks
  BY <1>1, IndexUntouched DEF handler, WalletInv, IndexInv, PointersInv
<1>3. Grown(mapWallet, w1) /\ WalletOK(w1)
  BY <1>2, MarkDirtyIs, RemarkedGrows DEF Remarked
<1> HIDE DEF w1
<1>4. /\ Grown(w1, w2) /\ WalletOK(w2)
      /\ CleanChain(b) => Knows(w2, J, b)
  <2>1. 0 \in 0..(nHeight[b] + 1) /\ TxsBelow(b, 0) = {}
    BY <1>2, TreeAssumption DEF TxsBelow
  <2>2. /\ Grown(w1, w2)
        /\ CleanChain(b) /\ FollowsOn(w1, {}, b) => FollowsOn(w2, J, b)
        /\ Returned(w1, {}, J) => Returned(w2, J, J)
    BY <1>2, <1>3, <2>1, ScanIs
  <2> HIDE DEF w2, J
  <2>3. FollowsOn(w1, {}, b) /\ Returned(w1, {}, J)
    BY DEF FollowsOn, Returned
  <2>4. QED
    BY <2>2, <2>3 DEF Grown, Knows
<1> HIDE DEF w2
<1>5. Grown(w2, s.w) /\ Reentered(s.w, ThePool, s.p) /\ Keeps(w2, s.w)
  BY <1>2, <1>4, ReacceptIs
<1> HIDE DEF s
<1>6. Grown(mapWallet, s.w)
  BY <1>3, <1>4, <1>5, GrownTwice
<1>7. ASSUME ~broken PROVE Knows(s.w, J, b)
  <2>1. IndexOfChain
    BY <1>7, ChainIs DEF WalletInv
  <2>2. Knows(w2, J, b)
    BY <1>4, <2>1 DEF IndexOfChain
  <2>3. QED
    BY <1>5, <2>1, <2>2 DEF Keeps, Knows
<1>8. ASSUME ~broken PROVE PoolKnown'
  <2>1. CopiesKnown(s.w) /\ PoolKnown
    BY <1>6, <1>8, GrownKnowsOwn DEF WalletInv, ChainKnown
  <2>2. \A u \in ThePool.mapTx : ~Minted(u) /\ (u \notin released /\ PaysMe(u) => u \in DOMAIN s.w)
    BY <1>6, <2>1 DEF PoolKnown, ThePool, Grown, InWallet
  <2>3. \A u \in s.p.mapTx : ~Minted(u) /\ (u \notin released /\ PaysMe(u) => u \in DOMAIN s.w)
    BY <1>5, <2>1, <2>2, ReenteredKnown
  <2>4. mapTx' = s.p.mapTx
    BY <1>1 DEF SetPool
  <2>5. QED
    BY <1>1, <2>3, <2>4 DEF PoolKnown, InWallet
<1>9. suspect' \in Suspicions
  BY <1>1 DEF Suspicions
<1>10. QED
  BY <1>1, <1>2, <1>6, <1>7, <1>8, <1>9, SameChain

\* The wallet is repaired: what the chain holds stays, what is not minted too.
LEMMA StepRepaired ==
    ASSUME WalletInv, pc = "idle", UNCHANGED <<vars, released>>, Cleared(mapWallet, mapWallet'),
           \A t \in DOMAIN mapWallet' :
              mapWallet'[t].vfSpent = mapWallet[t].vfSpent
              \/ (txindex[t] # NULL /\ mapWallet'[t].vfSpent = SpentInChain(t)),
           suspect' \in Suspicions, suspect' = {} => suspect = {}
    PROVE  WalletInv'
<1> DEFINE w == mapWallet
           r == mapWallet'
           b == hashBestChain
           J == ChainTxs(b)
<1>1. IndexInv'
  BY IndexUntouched DEF vars, handler, pool, WalletInv
<1>2. WalletOK(r)
  BY DEF Cleared
<1>3. \A t \in DOMAIN w : ~Minted(t) => t \in DOMAIN r
  BY DEF Cleared
<1>4. ASSUME ~broken PROVE ChainKnown'
  <2>1. ChainKnown /\ IndexOfChain /\ pindexBest = b
    BY <1>4, ChainIs DEF WalletInv
  <2>2. suspect' = {} => Knows(r, J, b)
    BY <2>1, ClearedKeeps DEF WalletInv, ChainKnown, Knows
  <2>3. \A S : KnowsOwn(w, S) => KnowsOwn(r, S)
    BY <1>3 DEF KnowsOwn
  <2>4. KnowsOwn(r, J)
    BY <2>1, <2>3 DEF ChainKnown
  <2>5. CopiesKnown(r)
    <3> SUFFICES ASSUME NEW t \in DOMAIN r PROVE KnowsOwn(r, DOMAIN r[t].vtxPrev)
      BY DEF CopiesKnown
    <3>1. t \in DOMAIN w /\ r[t].vtxPrev = w[t].vtxPrev
      BY DEF Cleared
    <3>2. KnowsOwn(w, DOMAIN w[t].vtxPrev)
      BY <2>1, <3>1 DEF ChainKnown, CopiesKnown
    <3>3. QED
      BY <2>3, <3>1, <3>2
  <2>6. PoolKnown'
    BY <1>3, <2>1 DEF ChainKnown, PoolKnown, InWallet, vars, pool
  <2>7. Linked'
    BY <2>1 DEF ChainKnown, Linked, vars
  <2>8. QED
    BY <2>2, <2>4, <2>5, <2>6, <2>7 DEF ChainKnown, vars
<1>5. QED
  BY <1>1, <1>2, <1>4 DEF WalletInv, Suspicions, vars

\* Every step of the wallet keeps the invariant.
LEMMA WalletInvStep == WalletInv /\ [WalletNext]_walletVars => WalletInv'
<1> SUFFICES ASSUME WalletInv, [WalletNext]_walletVars PROVE WalletInv'
  OBVIOUS
<1>1. ASSUME NEW t \in Txs, ReceiveTx(t) PROVE WalletInv'
  BY <1>1, StepReceiveTx
<1>2. ASSUME NEW t \in Txs, ReceiveOrphan(t) PROVE WalletInv'
  BY <1>2, StepReceiveOrphan
<1>3. ASSUME NEW t \in Txs, SendMoney(t) PROVE WalletInv'
  BY <1>3, StepSendMoney
<1>4. CASE ConnectTip
  BY <1>4, StepConnectTip
<1>5. CASE SwitchBranch
  BY <1>5, StepSwitchBranch
<1>6. CASE OtherBlockStep
  BY <1>6, StepOtherBlock
<1>7. ASSUME NEW d \in 0..Len(vDisconnect), NEW k \in 0..Len(vConnect), AbandonBranch(d, k)
      PROVE  WalletInv'
  BY <1>7, StepAbandonBranch
<1>8. ASSUME NEW told \in ToldBeforeDeath, RestartWallet(told) PROVE WalletInv'
  BY <1>8, StepRestartWallet
<1>9. CASE GetBalance
  BY <1>9, StepGetBalance
<1>10. CASE Rescan
  BY <1>10, StepRescan
<1>11. CASE FixSpentCoins
  <2>1. pc = "idle" /\ UNCHANGED <<vars, released>> /\ suspect' = suspect \ {"spent"}
    BY <1>11 DEF FixSpentCoins
  <2>2. suspect' \in Suspicions /\ (suspect' = {} => suspect = {})
    <3>1. suspect \in {{}, {"place"}, {"spent", "place"}}
      BY DEF WalletInv
    <3>2. "spent" # "place"
      OBVIOUS
    <3>3. QED
      BY <2>1, <3>1, <3>2 DEF Suspicions
  <2>3. /\ Cleared(mapWallet, mapWallet')
        /\ \A t \in DOMAIN mapWallet' :
              mapWallet'[t].vfSpent = mapWallet[t].vfSpent
              \/ (txindex[t] # NULL /\ mapWallet'[t].vfSpent = SpentInChain(t))
    BY <1>11, FixSpentCoinsIs DEF WalletInv
  <2>4. QED
    BY <2>1, <2>2, <2>3, StepRepaired
<1>12. CASE ClearOrphans
  <2>1. pc = "idle" /\ UNCHANGED <<vars, released>> /\ suspect' = suspect
    BY <1>12 DEF ClearOrphans
  <2>2. /\ Cleared(mapWallet, mapWallet')
        /\ \A t \in DOMAIN mapWallet' : mapWallet'[t].vfSpent = mapWallet[t].vfSpent
    BY <1>12, ClearOrphansIs DEF WalletInv
  <2>3. QED
    BY <2>1, <2>2, StepRepaired DEF WalletInv, Suspicions
<1>13. CASE UNCHANGED walletVars
  <2>1. UNCHANGED <<vars, released, mapWallet, suspect>>
    BY <1>13 DEF walletVars, relayVars
  <2>2. IndexInv'
    BY <2>1, IndexUntouched DEF vars, handler, pool, WalletInv
  <2>3. QED
    BY <2>1, <2>2, StepUnheard DEF vars
<1>14. QED
  BY <1>1, <1>2, <1>3, <1>4, <1>5, <1>6, <1>7, <1>8, <1>9, <1>10, <1>11, <1>12, <1>13 DEF WalletNext

-----------------------------------------------------------------------------
(***************************************************************************)
(* The properties follow from the invariant.                               *)
(***************************************************************************)
\* What is confirmed and pays the wallet is there, at its block, with its spends marked.
LEMMA FollowsFromInv == WalletInv => WalletFollowsChain
<1> SUFFICES ASSUME WalletInv, Settled, NEW t \in Txs, txindex[t] # NULL, PaysMe(t)
             PROVE  /\ "place" \notin suspect =>
                          t \in InWallet /\ mapWallet[t].hashBlock = txindex[t].pos
                    /\ suspect = {} => SpentInChain(t) \subseteq mapWallet[t].vfSpent
  BY DEF WalletFollowsChain
<1>1. "place" \notin suspect => suspect = {}
  BY DEF WalletInv
<1> SUFFICES ASSUME suspect = {}
             PROVE  /\ t \in InWallet /\ mapWallet[t].hashBlock = txindex[t].pos
                    /\ SpentInChain(t) \subseteq mapWallet[t].vfSpent
  BY <1>1
<1> DEFINE T == ChainTxs(hashBestChain)
<1>2. IndexOfChain /\ FollowsOn(mapWallet, T, hashBestChain)
  BY ChainIs DEF WalletInv, ChainKnown, Knows, Settled
<1>3. t \in T /\ txindex[t].pos = HomeOf(t, hashBestChain)
  BY <1>2, IndexedIs
<1>4. t \in InWallet /\ mapWallet[t].hashBlock = txindex[t].pos
  BY <1>2, <1>3 DEF FollowsOn, InWallet
<1>5. ASSUME NEW n \in SpentInChain(t) PROVE n \in mapWallet[t].vfSpent
  <2>1. PICK u \in T : <<t, n>> \in vin[u]
    BY <1>2, SpentByChain DEF IndexOfChain
  <2>2. <<t, n>> \in vin[u] \cap Mine
    BY <2>1 DEF SpentInChain
  <2>3. \A o \in vin[u] \cap Mine : o[2] \in mapWallet[o[1]].vfSpent
    BY <1>2, <2>1 DEF FollowsOn
  <2>4. <<t, n>>[2] \in mapWallet[<<t, n>>[1]].vfSpent
    BY <2>2, <2>3
  <2>5. QED
    BY <2>4
<1>6. QED
  BY <1>4, <1>5

\* What is marked as spent is spent.
LEMMA StakeFromInv == WalletInv => StakeIsReturned
<1> SUFFICES ASSUME WalletInv, Settled, suspect = {}, NEW t \in InWallet, txindex[t] # NULL,
                    NEW n \in mapWallet[t].vfSpent
             PROVE  \E u \in Txs : /\ <<t, n>> \in vin[u]
                                   /\ txindex[u] # NULL \/ (u \notin CoinStakes /\ u \in InWallet)
  BY DEF StakeIsReturned
<1> DEFINE T == ChainTxs(hashBestChain)
<1>1. IndexOfChain /\ Returned(mapWallet, T, T)
  BY ChainIs DEF WalletInv, ChainKnown, Knows, Settled
<1>2. t \in DOMAIN mapWallet /\ t \in Txs
  BY DEF WalletInv, WalletOK, InWallet
<1>3. t \in T
  BY <1>1, <1>2, IndexedIs
<1>4. PICK u \in Txs : /\ <<t, n>> \in vin[u]
                       /\ u \in T \/ (u \notin CoinStakes /\ u \in DOMAIN mapWallet)
  BY <1>1, <1>2, <1>3 DEF Returned, Justified
<1>5. u \in T => txindex[u] # NULL
  BY <1>1, IndexedIs
<1>6. QED
  BY <1>4, <1>5 DEF InWallet

\* A cached credit is the sum of the outputs not marked.
LEMMA FreshFromInv == WalletInv => BalanceIsFresh
<1> SUFFICES ASSUME WalletInv, NEW t \in InWallet, mapWallet[t].credit # NULL
             PROVE  mapWallet[t].credit = CreditOf(mapWallet, t)
  BY DEF BalanceIsFresh
<1>1. mapWallet[t].credit = Credit(t, mapWallet[t].vfSpent)
  BY DEF WalletInv, WalletOK, IsWtx, InWallet
<1>2. Credit(t, mapWallet[t].vfSpent) = CreditOf(mapWallet, t)
  BY DEF Credit, CreditOf, UnspentOf
<1>3. QED
  BY <1>1, <1>2

\* What is in the pool and pays the wallet is there.
LEMMA PoolFromInv == WalletInv => WalletKnowsPool
BY DEF WalletInv, ChainKnown, PoolKnown, WalletKnowsPool, Settled

(***************************************************************************)
(* The invariant holds in every state.                                     *)
(***************************************************************************)
THEOREM WalletInvHolds == WalletSpec => []WalletInv
<1>1. WalletInit => WalletInv
  BY WalletInvInit
<1>2. WalletInv /\ [WalletNext]_walletVars => WalletInv'
  BY WalletInvStep
<1>3. QED
  BY <1>1, <1>2, PTL DEF WalletSpec

(***************************************************************************)
(* What the wallet believes of the chain is true in every state in which   *)
(* no handler runs, unless an abandoned branch has misled it: through      *)
(* SyncWithWallets and DisableTransaction in whatever order blocks come    *)
(* and go, deaths between two blocks, rescans and repairs.                 *)
(***************************************************************************)
THEOREM WalletAlwaysFollowsChain == WalletSpec => []WalletFollowsChain
BY WalletInvHolds, FollowsFromInv, PTL

(***************************************************************************)
(* No coin of the chain stays marked as spent for a coinstake that was     *)
(* disconnected (DisableTransaction).                                      *)
(***************************************************************************)
THEOREM StakeIsAlwaysReturned == WalletSpec => []StakeIsReturned
BY WalletInvHolds, StakeFromInv, PTL

(***************************************************************************)
(* A cached credit is never stale: MarkSpent, MarkUnspent, UpdateSpent and *)
(* BindWallet drop it whenever they change what it is the sum of.          *)
(***************************************************************************)
THEOREM BalanceIsAlwaysFresh == WalletSpec => []BalanceIsFresh
BY WalletInvHolds, FreshFromInv, PTL

(***************************************************************************)
(* The wallet has every transaction of the pool that pays it, but for      *)
(* orphans that were released by another transaction.                      *)
(***************************************************************************)
THEOREM WalletAlwaysKnowsPool == WalletSpec => []WalletKnowsPool
BY WalletInvHolds, PoolFromInv, PTL

=============================================================================
