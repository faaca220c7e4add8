-------------------------- MODULE WalletKeysProofs --------------------------
(***************************************************************************)
(* For a key pool of any size and any number of keys, encryptions and      *)
(* deaths of the process: the keys of the wallet survive, the pool can be  *)
(* read, and a key is given out once.                                      *)
(***************************************************************************)
EXTENDS WalletKeys, WellFoundedInduction, TLAPS

\* Every write goes to memory and to the file, so the two hold the same keys.
FileIsMemory ==
    /\ file.key = keystore.key
    /\ file.ckey = keystore.ckey

\* A key that was ever generated is still there, plain or crypted; there is a default key.
NothingForgotten ==
    /\ nKeys >= 1
    /\ \A k \in Keys : k <= nKeys => k \in keystore.key \/ keystore.ckey[k] # NULL

(***************************************************************************)
(* The wallet is plain, encrypted or, until the next restart, decrypted:   *)
(* plain, it has no crypted key; encrypted, each key is under a master key *)
(* of the file, and so is the next one; decrypted, only the keys generated *)
(* since then are crypted.                                                 *)
(***************************************************************************)
Modes ==
    /\ ~fUseCrypto => Crypted(keystore) = {}
    /\ fUseCrypto /\ keystore.key = {} =>
           /\ \A k \in Crypted(keystore) : keystore.ckey[k] \in file.mkey
           /\ vMasterKey # NULL => vMasterKey \in file.mkey
    /\ ~Decrypted => mapMasterKeys = file.mkey
    /\ Decrypted => Crypted(keystore) \subseteq late

\* The file has a record for every free index, except while NewKeyPool erases them.
PoolOnFile ==
    pc.op # "erase" => \A i \in setKeyPool : file.pool[i] # NULL

\* Each record of the pool has a key of its own that was generated before.
PoolDistinct ==
    /\ \A i \in Keys : file.pool[i] # NULL => file.pool[i] <= nKeys
    /\ \A i, j \in Keys : file.pool[i] # NULL /\ file.pool[i] = file.pool[j] => i = j

\* The key of the call: just generated and in no record, or reserved with its record.
CallKey ==
    /\ pc.op \in {"topup", "fill"} /\ pc.key # NULL =>
           /\ pc.key <= nKeys /\ uses[pc.key] = 0
           /\ \A i \in Keys : file.pool[i] # pc.key
    /\ pc.op \in {"reserved", "sent"} =>
           /\ pc.n \in Keys \ setKeyPool
           /\ pc.key # NULL /\ file.pool[pc.n] = pc.key
    /\ pc.op = "erase" => pc.key = NULL

\* A key with a record was not given out, apart from the three ways it can be.
PoolUnused ==
    \A i \in Keys : file.pool[i] # NULL =>
        \/ uses[file.pool[i]] = 0
        \/ file.pool[i] \in halfKept \cup mined
        \/ pc.op = "sent" /\ file.pool[i] = pc.key

\* Only keys that were generated are given out.
UsedKnown ==
    /\ \A k \in mapNewBlock : k <= nKeys
    /\ \A k \in Keys : uses[k] > 0 => k <= nKeys

KeysInv ==
    /\ TypeOK
    /\ FileIsMemory /\ NothingForgotten /\ Modes
    /\ PoolOnFile /\ PoolDistinct /\ CallKey /\ PoolUnused /\ UsedKnown
    /\ KeyGivenOnce

USE DEF Keys, MasterKeys, Takers

-----------------------------------------------------------------------------
(***************************************************************************)
(* A set of indexes that is not empty has a least one (setKeyPool.begin()).*)
(***************************************************************************)
LEMMA MinIsMember ==
    ASSUME NEW S, S \subseteq Nat, S # {}
    PROVE  Min(S) \in S /\ \A y \in S : Min(S) <= y
  <1> DEFINE R == {ss \in Nat \X Nat : ss[1] < ss[2]}
  <1>1. R = OpToRel(<, Nat)
    BY Zenon DEF OpToRel
  <1>2. IsWellFoundedOn(R, Nat)
    BY <1>1, NatLessThanWellFounded, Zenon
  <1> HIDE DEF R
  <1>3. PICK x \in S : \A y \in S : ~(<<y, x>> \in R)
    BY <1>2, WFMin, Zenon
  <1>4. ASSUME NEW y \in S PROVE x <= y
    <2>1. x \in Nat /\ y \in Nat /\ <<y, x>> \in Nat \X Nat
      OBVIOUS
    <2>2. y < x => <<y, x>> \in R
      BY <2>1 DEF R
    <2> QED
      BY <1>3, <2>1, <2>2
  <1> QED
    BY <1>4 DEF Min

(***************************************************************************)
(* The history counts the uses of a key up to two.                         *)
(***************************************************************************)
LEMMA GiveOutCounts ==
    ASSUME TypeOK, NEW k \in Keys, GiveOut(k)
    PROVE  /\ uses' \in [Keys -> 0..2]
           /\ \A j \in Keys : j # k => uses'[j] = uses[j]
           /\ uses'[k] > 0
           /\ uses[k] = 0 => uses'[k] = 1
  <1>1. Min({uses[k] + 1, 2}) = IF uses[k] + 1 <= 2 THEN uses[k] + 1 ELSE 2
    BY DEF Min, TypeOK
  <1> QED
    BY <1>1 DEF GiveOut, TypeOK

\* After the first start the invariant holds.
LEMMA KeysInvInit == Init => KeysInv
  <1> SUFFICES ASSUME Init PROVE KeysInv
    OBVIOUS
  <1> USE KeysAssumption DEF Init, Idle
  <1>1. TypeOK
    <2>1. keystore \in [key : SUBSET Keys, ckey : CryptedKeys]
      BY DEF CryptedKeys
    <2>2. file \in [key : SUBSET Keys, ckey : CryptedKeys,
                    mkey : SUBSET MasterKeys, pool : [Keys -> Keys \cup {NULL}]]
      BY DEF CryptedKeys
    <2>3. pc \in Calls
      BY DEF Calls
    <2>4. uses \in [Keys -> 0..2] /\ setKeyPool \subseteq Keys
      OBVIOUS
    <2>5. nKeys \in 0..MaxKeys /\ nMasters \in 0..MaxEncryptions /\ nCrashes \in 0..MaxCrashes
      OBVIOUS
    <2> QED
      BY <2>1, <2>2, <2>3, <2>4, <2>5 DEF TypeOK
  <1>2. FileIsMemory
    BY DEF FileIsMemory
  <1>3. NothingForgotten
    BY DEF NothingForgotten
  <1>4. Modes
    BY DEF Modes, Crypted, Decrypted
  <1>5. \A i \in Keys : file.pool[i] = IF i \in 2..(nKeyPool + 1) THEN i ELSE NULL
    OBVIOUS
  <1>6. PoolOnFile
    BY DEF PoolOnFile
  <1>7. PoolDistinct
    <2>1. nKeys = nKeyPool + 1
      OBVIOUS
    <2> HIDE DEF Init
    <2> QED
      BY <1>5, <2>1 DEF PoolDistinct
  <1>8. CallKey
    BY DEF CallKey
  <1>9. PoolUnused
    BY DEF PoolUnused
  <1>10. UsedKnown /\ KeyGivenOnce
    BY DEF UsedKnown, KeyGivenOnce
  <1> QED
    BY <1>1, <1>2, <1>3, <1>4, <1>6, <1>7, <1>8, <1>9, <1>10 DEF KeysInv

-----------------------------------------------------------------------------
\* The parts of the invariant that are about the keys, and about the pool.
StoreInv == FileIsMemory /\ NothingForgotten /\ Modes
PoolInv  == PoolOnFile /\ PoolDistinct /\ CallKey /\ PoolUnused /\ UsedKnown /\ KeyGivenOnce

(***************************************************************************)
(* A step that leaves the keys and the crypto state alone keeps StoreInv.  *)
(***************************************************************************)
LEMMA StoreKept ==
    ASSUME StoreInv, UNCHANGED <<crypto, nKeys, late>>,
           file'.key = file.key, file'.ckey = file.ckey, file'.mkey = file.mkey
    PROVE  StoreInv'
  BY DEF StoreInv, FileIsMemory, NothingForgotten, Modes, Crypted, Decrypted, crypto

(***************************************************************************)
(* Writing or erasing a record changes this record only.                   *)
(***************************************************************************)
Written(i, k) == [file EXCEPT !.pool[i] = k]

\* The fields of the file then.
LEMMA PoolFields ==
    ASSUME TypeOK, NEW i \in Keys, NEW k \in Keys \cup {NULL}
    PROVE  /\ Written(i, k) \in [key : SUBSET Keys, ckey : CryptedKeys,
                                 mkey : SUBSET MasterKeys, pool : [Keys -> Keys \cup {NULL}]]
           /\ Written(i, k).key = file.key /\ Written(i, k).ckey = file.ckey
           /\ Written(i, k).mkey = file.mkey
           /\ Written(i, k).pool[i] = k
           /\ \A j \in Keys : j # i => Written(i, k).pool[j] = file.pool[j]
  BY DEF TypeOK, Written

\* The same of a step that writes such a file.
LEMMA PoolWritten ==
    ASSUME TypeOK, NEW i \in Keys, NEW k \in Keys \cup {NULL},
           file' = [file EXCEPT !.pool[i] = k]
    PROVE  /\ file' \in [key : SUBSET Keys, ckey : CryptedKeys,
                         mkey : SUBSET MasterKeys, pool : [Keys -> Keys \cup {NULL}]]
           /\ file'.key = file.key /\ file'.ckey = file.ckey /\ file'.mkey = file.mkey
           /\ file'.pool[i] = k
           /\ \A j \in Keys : j # i => file'.pool[j] = file.pool[j]
  <1>1. file' = Written(i, k)
    BY DEF Written
  <1>2. /\ Written(i, k) \in [key : SUBSET Keys, ckey : CryptedKeys,
                              mkey : SUBSET MasterKeys, pool : [Keys -> Keys \cup {NULL}]]
        /\ Written(i, k).key = file.key /\ Written(i, k).ckey = file.ckey
        /\ Written(i, k).mkey = file.mkey
        /\ Written(i, k).pool[i] = k
        /\ \A j \in Keys : j # i => Written(i, k).pool[j] = file.pool[j]
    BY PoolFields, Zenon
  <1> QED
    BY <1>1, <1>2, Zenon

(***************************************************************************)
(* Between two calls.                                                      *)
(***************************************************************************)
LEMMA NoCall == Idle \in Calls /\ Idle.op = "idle" /\ Idle.n = 0 /\ Idle.key = NULL
  BY KeysAssumption DEF Calls, Idle

(***************************************************************************)
(* A step of a call that writes nothing.                                   *)
(***************************************************************************)
LEMMA CallMoves ==
    ASSUME KeysInv,
           UNCHANGED <<crypto, setKeyPool, file, mapNewBlock, bounds, history>>,
           pc.op \notin {"sent", "erase"},
           pc' \in Calls,
           pc'.op \in {"topup", "take", "erase", "idle"},
           pc'.op \in {"topup", "erase"} => pc'.key = NULL
    PROVE  KeysInv'
  <1> USE DEF KeysInv
  <1>1. TypeOK'
    BY DEF TypeOK, crypto, bounds, history
  <1>2. StoreInv'
    BY StoreKept DEF bounds, history, StoreInv
  <1>3. PoolInv'
    BY DEF PoolInv, PoolOnFile, PoolDistinct, CallKey, PoolUnused, UsedKnown, KeyGivenOnce,
           bounds, history
  <1> QED
    BY <1>1, <1>2, <1>3 DEF StoreInv, PoolInv

(***************************************************************************)
(* GetKey, keypoolrefill and keypoolreset start a call, TopUpKeyPool ends  *)
(* its loop; none of them writes anything.                                 *)
(***************************************************************************)
LEMMA CallsKeep ==
    ASSUME KeysInv,
           \/ \E who \in Takers : GetKey(who)
           \/ keypoolrefill \/ TopUpKeyPool \/ keypoolreset
    PROVE  KeysInv'
  <1> USE DEF KeysInv
  <1>1. UNCHANGED <<crypto, setKeyPool, file, mapNewBlock, bounds, history>>
    BY DEF GetKey, keypoolrefill, TopUpKeyPool, keypoolreset
  <1>2. /\ pc.op \in {"idle", "topup"}
        /\ pc' \in Calls
        /\ pc'.op \in {"topup", "take", "erase", "idle"}
        /\ pc'.op \in {"topup", "erase"} => pc'.key = NULL
    <2>1. ASSUME NEW who \in Takers, GetKey(who)
          PROVE  /\ pc = Idle
                 /\ pc' = [op |-> IF IsLocked THEN "take" ELSE "topup", who |-> who,
                           n |-> 0, key |-> NULL]
      BY <2>1 DEF GetKey, Idle
    <2>2. ASSUME keypoolrefill
          PROVE  pc = Idle /\ pc' = [op |-> "topup", who |-> "refill", n |-> 0, key |-> NULL]
      BY <2>2 DEF keypoolrefill, Idle
    <2>3. ASSUME keypoolreset
          PROVE  pc = Idle /\ pc' = [op |-> "erase", who |-> "reset", n |-> 0, key |-> NULL]
      BY <2>3 DEF keypoolreset, Idle
    <2>4. CASE TopUpKeyPool
      BY <2>4, NoCall DEF TopUpKeyPool, TypeOK, Calls
    <2> QED
      BY <2>1, <2>2, <2>3, <2>4, NoCall, KeysAssumption DEF Calls
  <1> QED
    BY <1>1, <1>2, CallMoves

(***************************************************************************)
(* AddKey, in memory and in the file.                                      *)
(***************************************************************************)
LEMMA AddKeyFields ==
    ASSUME TypeOK, NEW k \in Keys, ~IsLocked
    PROVE  /\ AddKey(keystore, k) \in [key : SUBSET Keys, ckey : CryptedKeys]
           /\ AddKey(file, k) \in [key : SUBSET Keys, ckey : CryptedKeys, mkey : SUBSET MasterKeys,
                                   pool : [Keys -> Keys \cup {NULL}]]
           /\ AddKey(file, k).mkey = file.mkey /\ AddKey(file, k).pool = file.pool
           /\ fUseCrypto =>
                  /\ AddKey(keystore, k).key = keystore.key /\ AddKey(file, k).key = file.key
                  /\ AddKey(keystore, k).ckey = [keystore.ckey EXCEPT ![k] = vMasterKey]
                  /\ AddKey(file, k).ckey = [file.ckey EXCEPT ![k] = vMasterKey]
           /\ ~fUseCrypto =>
                  /\ AddKey(keystore, k).key = keystore.key \cup {k}
                  /\ AddKey(file, k).key = file.key \cup {k}
                  /\ AddKey(keystore, k).ckey = keystore.ckey /\ AddKey(file, k).ckey = file.ckey
  <1>1. CASE fUseCrypto
    <2>1. vMasterKey \in MasterKeys
      BY <1>1 DEF IsLocked, TypeOK
    <2> QED
      BY <1>1, <2>1 DEF AddKey, TypeOK, CryptedKeys
  <1>2. CASE ~fUseCrypto
    BY <1>2 DEF AddKey, TypeOK, CryptedKeys
  <1> QED
    BY <1>1, <1>2

\* A new key is in no record of the pool, was never given out, and is
\* readable later: it is plain, or under a master key of the file, or late.
LEMMA GenerateNewKeyKeeps ==
    ASSUME KeysInv, GenerateNewKey
    PROVE  KeysInv'
  <1> USE DEF KeysInv
  <1>1. CASE IsLocked
    <2>1. pc' = Idle /\ UNCHANGED <<crypto, setKeyPool, file, mapNewBlock, bounds, history>>
      BY <1>1 DEF GenerateNewKey, crypto, bounds, history
    <2>2. pc.op \in {"topup", "fill"}
      BY DEF GenerateNewKey, Wants
    <2> QED
      BY <2>1, <2>2, NoCall, CallMoves
  <1>2. CASE ~IsLocked
    <2> DEFINE k == nKeys + 1
    <2>1. /\ k \in Keys /\ nKeys' = k /\ nKeys \in 0..MaxKeys
          /\ keystore' = AddKey(keystore, k) /\ file' = AddKey(file, k)
          /\ late' = IF Decrypted THEN late \cup {k} ELSE late
          /\ pc' = [pc EXCEPT !.key = k]
          /\ pc.op \in {"topup", "fill"}
          /\ UNCHANGED <<fUseCrypto, vMasterKey, mapMasterKeys, setKeyPool, mapNewBlock, nMasters,
                         nCrashes, uses, halfKept, mined>>
      BY <1>2, KeysAssumption DEF GenerateNewKey, Wants, TypeOK
    <2> HIDE DEF k
    <2>2. pc' \in Calls /\ pc'.op = pc.op /\ pc'.key = k
      BY <2>1 DEF TypeOK, Calls
    <2>3. /\ keystore' \in [key : SUBSET Keys, ckey : CryptedKeys]
          /\ file' \in [key : SUBSET Keys, ckey : CryptedKeys, mkey : SUBSET MasterKeys,
                        pool : [Keys -> Keys \cup {NULL}]]
          /\ file'.mkey = file.mkey /\ file'.pool = file.pool
          /\ file'.key = keystore'.key /\ file'.ckey = keystore'.ckey
          /\ keystore'.key = IF fUseCrypto THEN keystore.key ELSE keystore.key \cup {k}
          /\ fUseCrypto => vMasterKey # NULL
          /\ \A j \in Keys : keystore'.ckey[j] = IF fUseCrypto /\ j = k THEN vMasterKey
                                                ELSE keystore.ckey[j]
      <3>1. fUseCrypto => vMasterKey # NULL
        BY <1>2 DEF IsLocked
      <3>2. keystore.ckey \in CryptedKeys
        BY DEF TypeOK
      <3>3. CASE fUseCrypto
        <4>1. keystore'.ckey = [keystore.ckey EXCEPT ![k] = vMasterKey]
          BY <1>2, <2>1, <3>3, AddKeyFields
        <4>2. \A j \in Keys : keystore'.ckey[j] = IF j = k THEN vMasterKey ELSE keystore.ckey[j]
          BY <2>1, <3>2, <4>1 DEF CryptedKeys
        <4> QED
          BY <1>2, <2>1, <3>1, <3>3, <4>1, <4>2, AddKeyFields DEF FileIsMemory
      <3>4. CASE ~fUseCrypto
        BY <1>2, <2>1, <3>4, AddKeyFields DEF FileIsMemory
      <3> QED
        BY <3>3, <3>4
    <2>4. TypeOK'
      BY <2>1, <2>2, <2>3 DEF TypeOK
    <2>5. FileIsMemory' /\ NothingForgotten'
      BY <2>1, <2>3 DEF FileIsMemory, NothingForgotten, k
    <2>6. Modes'
      BY <2>1, <2>3 DEF Modes, Decrypted, Crypted
    <2>7. \A i \in Keys : file.pool[i] # k
      BY <2>1, KeysAssumption DEF PoolDistinct, TypeOK, k
    <2>8. uses[k] = 0
      BY <2>1 DEF UsedKnown, TypeOK, k
    <2>9. PoolOnFile' /\ CallKey'
      BY <2>1, <2>2, <2>3, <2>7, <2>8 DEF PoolOnFile, CallKey, k
    <2>10. PoolDistinct'
      <3>1. \A i \in Keys : file.pool[i] # NULL => file.pool[i] \in Nat
        BY KeysAssumption DEF TypeOK
      <3> QED
        BY <2>1, <2>3, <3>1 DEF PoolDistinct, k
    <2>11. PoolUnused'
      BY <2>1, <2>2, <2>3 DEF PoolUnused
    <2>12. UsedKnown' /\ KeyGivenOnce'
      BY <2>1 DEF UsedKnown, KeyGivenOnce, TypeOK, k
    <2> QED
      BY <2>4, <2>5, <2>6, <2>9, <2>10, <2>11, <2>12
  <1> QED
    BY <1>1, <1>2

(***************************************************************************)
(* AddToPool writes the record of the key that was just generated.         *)
(***************************************************************************)
LEMMA AddToPoolKeeps ==
    ASSUME KeysInv, AddToPool
    PROVE  KeysInv'
  <1> USE DEF KeysInv
  <1> DEFINE i == NextIndex
             k == pc.key
  <1>1. /\ i \in Keys /\ k \in Keys
        /\ pc.op \in {"topup", "fill"}
        /\ file' = [file EXCEPT !.pool[i] = k]
        /\ setKeyPool' = setKeyPool \cup {i}
        /\ UNCHANGED <<crypto, mapNewBlock, bounds, history>>
    BY DEF AddToPool, Wants, WritePool, TypeOK, Calls
  <1>2. pc' \in Calls /\ pc'.op = pc.op /\ pc'.key = NULL
    <2>1. pc.op = "fill" => pc.n + 1 \in 0..MaxKeys
      BY KeysAssumption DEF AddToPool, Wants, TypeOK, Calls
    <2> QED
      BY <2>1 DEF AddToPool, TypeOK, Calls
  <1>3. k <= nKeys /\ uses[k] = 0 /\ \A j \in Keys : file.pool[j] # k
    BY <1>1 DEF CallKey, AddToPool
  <1> HIDE DEF i, k
  <1>4. /\ file' \in [key : SUBSET Keys, ckey : CryptedKeys,
                      mkey : SUBSET MasterKeys, pool : [Keys -> Keys \cup {NULL}]]
        /\ file'.key = file.key /\ file'.ckey = file.ckey /\ file'.mkey = file.mkey
        /\ file'.pool[i] = k
        /\ \A j \in Keys : j # i => file'.pool[j] = file.pool[j]
    BY <1>1, PoolWritten
  <1>5. TypeOK'
    BY <1>1, <1>2, <1>4 DEF TypeOK, crypto, bounds, history
  <1>6. StoreInv'
    BY <1>1, <1>4, StoreKept DEF StoreInv, bounds, history
  <1>7. PoolOnFile' /\ CallKey'
    BY <1>1, <1>2, <1>4, KeysAssumption DEF PoolOnFile, CallKey, TypeOK
  <1>8. PoolDistinct'
    <2>1. nKeys' = nKeys
      BY <1>1 DEF bounds
    <2>2. \A x \in Keys : file'.pool[x] # NULL => file'.pool[x] <= nKeys'
      BY <1>3, <1>4, <2>1 DEF PoolDistinct
    <2>3. \A x, y \in Keys : file'.pool[x] # NULL /\ file'.pool[x] = file'.pool[y] => x = y
      BY <1>3, <1>4 DEF PoolDistinct
    <2> QED
      BY <2>2, <2>3 DEF PoolDistinct
  <1>9. PoolUnused'
    BY <1>1, <1>2, <1>3, <1>4 DEF PoolUnused, history
  <1>10. UsedKnown' /\ KeyGivenOnce'
    BY <1>1 DEF UsedKnown, KeyGivenOnce, bounds, history
  <1> QED
    BY <1>5, <1>6, <1>7, <1>8, <1>9, <1>10 DEF StoreInv

(***************************************************************************)
(* An index leaves the set and its key is given out, kept, reserved or     *)
(* only shown to the miner.                                                *)
(***************************************************************************)
LEMMA ReserveKeeps ==
    ASSUME KeysInv, ReserveKeyFromKeyPool
    PROVE  KeysInv'
  <1> USE DEF KeysInv
  <1> DEFINE i == Min(setKeyPool)
             k == file.pool[i]
  <1>1. /\ pc.op = "take"
        /\ UNCHANGED <<crypto, bounds, halfKept, mined, late>>
    BY DEF ReserveKeyFromKeyPool
  <1>2. ASSUME setKeyPool # {}
        PROVE  i \in setKeyPool /\ i \in Keys /\ k # NULL /\ k \in Keys /\ k <= nKeys
    <2>1. setKeyPool \subseteq Nat
      BY KeysAssumption DEF TypeOK
    <2>2. i \in setKeyPool
      BY <1>2, <2>1, MinIsMember
    <2> QED
      BY <1>1, <2>2 DEF PoolOnFile, PoolDistinct, TypeOK
  <1> HIDE DEF i
  <1>3. CASE setKeyPool = {} /\ pc' = Idle /\ UNCHANGED <<setKeyPool, file, mapNewBlock, uses>>
    BY <1>1, <1>3, NoCall, CallMoves DEF history
  <1>4. CASE /\ setKeyPool # {} /\ setKeyPool' = setKeyPool \ {i}
             /\ file' = KeepKey(file, i) /\ GiveOut(k)
             /\ pc' = Idle /\ UNCHANGED mapNewBlock
    <2> HIDE DEF k
    <2>1. /\ file' \in [key : SUBSET Keys, ckey : CryptedKeys,
                        mkey : SUBSET MasterKeys, pool : [Keys -> Keys \cup {NULL}]]
          /\ file'.key = file.key /\ file'.ckey = file.ckey /\ file'.mkey = file.mkey
          /\ file'.pool[i] = NULL
          /\ \A j \in Keys : j # i => file'.pool[j] = file.pool[j]
      BY <1>2, <1>4, PoolWritten DEF KeepKey, ErasePool
    <2>2. /\ uses' \in [Keys -> 0..2]
          /\ \A j \in Keys : j # k => uses'[j] = uses[j]
          /\ uses'[k] > 0
          /\ uses[k] = 0 => uses'[k] = 1
      BY <1>2, <1>4, GiveOutCounts
    <2>3. TypeOK'
      BY <1>1, <1>4, <2>1, <2>2, NoCall DEF TypeOK, crypto, bounds
    <2>4. StoreInv'
      BY <1>1, <2>1, StoreKept DEF StoreInv, bounds
    <2>5. PoolOnFile' /\ CallKey'
      BY <1>1, <1>4, <2>1, NoCall DEF PoolOnFile, CallKey, TypeOK
    <2>6. PoolDistinct'
      BY <1>1, <1>2, <2>1 DEF PoolDistinct, bounds
    <2>7. PoolUnused'
      <3>1. \A j \in Keys : j # i => file.pool[j] # k
        BY <1>2, <1>4 DEF PoolDistinct, k
      <3>2. \A j \in Keys : file.pool[j] # NULL => file.pool[j] \in Keys
        BY DEF TypeOK
      <3>3. ASSUME NEW j \in Keys, file'.pool[j] # NULL
            PROVE  uses'[file'.pool[j]] = 0 \/ file'.pool[j] \in halfKept \cup mined
        <4>1. j # i /\ file'.pool[j] = file.pool[j] /\ file.pool[j] \in Keys /\ file.pool[j] # k
          BY <2>1, <3>1, <3>2, <3>3
        <4> QED
          BY <1>1, <2>2, <4>1, <3>3 DEF PoolUnused
      <3> QED
        BY <1>1, <3>3 DEF PoolUnused
    <2>8. UsedKnown'
      BY <1>1, <1>2, <1>4, <2>2 DEF UsedKnown, bounds
    <2>9. KeyGivenOnce'
      <3>1. uses[k] = 0 \/ k \in halfKept \cup mined
        BY <1>1, <1>2, <1>4 DEF PoolUnused, k
      <3> QED
        BY <1>1, <2>2, <3>1 DEF KeyGivenOnce
    <2> QED
      BY <2>3, <2>4, <2>5, <2>6, <2>7, <2>8, <2>9 DEF StoreInv
  <1>5. CASE /\ setKeyPool # {} /\ setKeyPool' = setKeyPool \ {i}
             /\ pc' = [pc EXCEPT !.op = "reserved", !.n = i, !.key = k]
             /\ UNCHANGED <<file, mapNewBlock, uses>>
    <2>1. pc' \in Calls /\ pc'.op = "reserved" /\ pc'.n = i /\ pc'.key = k
      <3>1. i \in 0..MaxKeys /\ k \in Keys
        BY <1>2, <1>5, KeysAssumption
      <3> HIDE DEF k
      <3> QED
        BY <1>5, <3>1 DEF TypeOK, Calls
    <2>2. TypeOK'
      BY <1>1, <1>5, <2>1 DEF TypeOK, crypto, bounds
    <2>3. StoreInv'
      BY <1>1, <1>5, StoreKept DEF StoreInv, bounds
    <2>4. PoolInv'
      BY <1>1, <1>2, <1>5, <2>1 DEF PoolInv, PoolOnFile, PoolDistinct, CallKey, PoolUnused,
                                    UsedKnown, KeyGivenOnce, bounds
    <2> QED
      BY <2>2, <2>3, <2>4 DEF StoreInv, PoolInv
  <1>6. CASE /\ setKeyPool # {} /\ mapNewBlock' = mapNewBlock \cup {k}
             /\ pc' = Idle /\ UNCHANGED <<setKeyPool, file, uses>>
    <2>1. TypeOK'
      BY <1>1, <1>2, <1>6, NoCall DEF TypeOK, crypto, bounds
    <2>2. StoreInv'
      BY <1>1, <1>6, StoreKept DEF StoreInv, bounds
    <2>3. PoolInv'
      BY <1>1, <1>2, <1>6, NoCall DEF PoolInv, PoolOnFile, PoolDistinct, CallKey, PoolUnused,
                                      UsedKnown, KeyGivenOnce, bounds
    <2> QED
      BY <2>1, <2>2, <2>3 DEF StoreInv, PoolInv
  <1>7. CASE /\ setKeyPool' \subseteq setKeyPool
             /\ pc' = Idle /\ UNCHANGED <<file, mapNewBlock, uses>>
    <2>1. TypeOK'
      BY <1>1, <1>7, NoCall DEF TypeOK, crypto, bounds
    <2>2. StoreInv'
      BY <1>1, <1>7, StoreKept DEF StoreInv, bounds
    <2>3. PoolInv'
      BY <1>1, <1>7, NoCall DEF PoolInv, PoolOnFile, PoolDistinct, CallKey, PoolUnused,
                                UsedKnown, KeyGivenOnce, bounds
    <2> QED
      BY <2>1, <2>2, <2>3 DEF StoreInv, PoolInv
  <1> QED
    BY <1>3, <1>4, <1>5, <1>6, <1>7 DEF ReserveKeyFromKeyPool, i

\* The index goes back to the set; its record never left the file.
LEMMA ReturnKeyKeeps ==
    ASSUME KeysInv, ReturnKey
    PROVE  KeysInv'
  <1> USE DEF KeysInv
  <1>1. /\ pc.op = "reserved" /\ pc' = Idle
        /\ setKeyPool' = setKeyPool \cup {pc.n}
        /\ UNCHANGED <<crypto, file, mapNewBlock, bounds, history>>
    BY DEF ReturnKey
  <1>2. pc.n \in Keys /\ file.pool[pc.n] # NULL
    BY <1>1 DEF CallKey
  <1>3. TypeOK'
    BY <1>1, <1>2, NoCall DEF TypeOK, crypto, bounds, history
  <1>4. StoreInv'
    BY <1>1, StoreKept DEF StoreInv, bounds, history
  <1>5. PoolInv'
    BY <1>1, <1>2, NoCall DEF PoolInv, PoolOnFile, PoolDistinct, CallKey, PoolUnused, UsedKnown,
                              KeyGivenOnce, bounds, history
  <1> QED
    BY <1>3, <1>4, <1>5 DEF StoreInv, PoolInv

(***************************************************************************)
(* The transaction is sent while the record of its change key is still in  *)
(* the file: only the step that follows keeps the key.                     *)
(***************************************************************************)
LEMMA SendKeeps ==
    ASSUME KeysInv, SendTransaction
    PROVE  KeysInv'
  <1> USE DEF KeysInv
  <1> DEFINE k == pc.key
  <1>1. /\ pc.op = "reserved" /\ GiveOut(k)
        /\ UNCHANGED <<crypto, setKeyPool, file, mapNewBlock, bounds, halfKept, mined, late>>
    BY DEF SendTransaction
  <1>2. /\ pc.n \in Keys \ setKeyPool /\ file.pool[pc.n] = k
        /\ k # NULL /\ k \in Keys /\ k <= nKeys
    BY <1>1 DEF CallKey, PoolDistinct, TypeOK, Calls
  <1>3. pc' \in Calls /\ pc'.op = "sent" /\ pc'.n = pc.n /\ pc'.key = k
    BY DEF SendTransaction, TypeOK, Calls
  <1>4. uses[k] = 0 \/ k \in halfKept \cup mined
    BY <1>1, <1>2 DEF PoolUnused
  <1> HIDE DEF k
  <1>5. /\ uses' \in [Keys -> 0..2]
        /\ \A j \in Keys : j # k => uses'[j] = uses[j]
        /\ uses'[k] > 0
        /\ uses[k] = 0 => uses'[k] = 1
    BY <1>1, <1>2, GiveOutCounts
  <1>6. TypeOK'
    BY <1>1, <1>3, <1>5 DEF TypeOK, crypto, bounds
  <1>7. StoreInv'
    BY <1>1, StoreKept DEF StoreInv, bounds
  <1>8. PoolOnFile' /\ PoolDistinct' /\ CallKey'
    BY <1>1, <1>2, <1>3 DEF PoolOnFile, PoolDistinct, CallKey, bounds
  <1>9. PoolUnused'
    <2>1. \A j \in Keys : file.pool[j] # NULL => file.pool[j] \in Keys
      BY DEF TypeOK
    <2> QED
      BY <1>1, <1>3, <1>5, <2>1 DEF PoolUnused
  <1>10. UsedKnown' /\ KeyGivenOnce'
    BY <1>1, <1>2, <1>4, <1>5 DEF UsedKnown, KeyGivenOnce, bounds
  <1> QED
    BY <1>6, <1>7, <1>8, <1>9, <1>10 DEF StoreInv

\* KeepKey erases the record of the key that was sent.
LEMMA CommitKeeps ==
    ASSUME KeysInv, CommitTransaction
    PROVE  KeysInv'
  <1> USE DEF KeysInv
  <1> DEFINE i == pc.n
  <1>1. /\ pc.op = "sent" /\ pc' = Idle
        /\ file' = [file EXCEPT !.pool[i] = NULL]
        /\ UNCHANGED <<crypto, setKeyPool, mapNewBlock, bounds, history>>
    BY DEF CommitTransaction, KeepKey, ErasePool
  <1>2. i \in Keys \ setKeyPool /\ file.pool[i] = pc.key /\ pc.key # NULL
    BY <1>1 DEF CallKey
  <1> HIDE DEF i
  <1>3. /\ file' \in [key : SUBSET Keys, ckey : CryptedKeys,
                      mkey : SUBSET MasterKeys, pool : [Keys -> Keys \cup {NULL}]]
        /\ file'.key = file.key /\ file'.ckey = file.ckey /\ file'.mkey = file.mkey
        /\ file'.pool[i] = NULL
        /\ \A j \in Keys : j # i => file'.pool[j] = file.pool[j]
    BY <1>1, <1>2, PoolWritten
  <1>4. TypeOK'
    BY <1>1, <1>3, NoCall DEF TypeOK, crypto, bounds, history
  <1>5. StoreInv'
    BY <1>1, <1>3, StoreKept DEF StoreInv, bounds, history
  <1>6. PoolOnFile' /\ CallKey'
    BY <1>1, <1>2, <1>3, NoCall DEF PoolOnFile, CallKey, TypeOK
  <1>7. PoolDistinct'
    BY <1>1, <1>3 DEF PoolDistinct, bounds
  <1>8. PoolUnused'
    <2>1. \A j \in Keys : j # i => file.pool[j] # pc.key
      BY <1>2 DEF PoolDistinct
    <2> QED
      BY <1>1, <1>3, <2>1 DEF PoolUnused, history
  <1>9. UsedKnown' /\ KeyGivenOnce'
    BY <1>1 DEF UsedKnown, KeyGivenOnce, bounds, history
  <1> QED
    BY <1>4, <1>5, <1>6, <1>7, <1>8, <1>9 DEF StoreInv

\* A solved block gives out the key of getwork, which stays in the pool.
LEMMA CheckWorkKeeps ==
    ASSUME KeysInv, NEW k \in Keys, CheckWork(k)
    PROVE  KeysInv'
  <1> USE DEF KeysInv
  <1>1. /\ pc = Idle /\ pc' = pc /\ k \in mapNewBlock /\ GiveOut(k)
        /\ mined' = mined \cup {k} /\ mapNewBlock' = {}
        /\ UNCHANGED <<crypto, setKeyPool, file, bounds, halfKept, late>>
    BY DEF CheckWork
  <1>2. /\ uses' \in [Keys -> 0..2]
        /\ \A j \in Keys : j # k => uses'[j] = uses[j]
    BY <1>1, GiveOutCounts
  <1>3. TypeOK'
    BY <1>1, <1>2 DEF TypeOK, crypto, bounds
  <1>4. StoreInv'
    BY <1>1, StoreKept DEF StoreInv, bounds
  <1>5. PoolOnFile' /\ PoolDistinct' /\ CallKey'
    BY <1>1, NoCall DEF PoolOnFile, PoolDistinct, CallKey, bounds
  <1>6. PoolUnused'
    <2>1. \A j \in Keys : file.pool[j] # NULL => file.pool[j] \in Keys
      BY DEF TypeOK
    <2> QED
      BY <1>1, <1>2, <2>1, NoCall DEF PoolUnused
  <1>7. UsedKnown' /\ KeyGivenOnce'
    BY <1>1, <1>2 DEF UsedKnown, KeyGivenOnce, bounds
  <1> QED
    BY <1>3, <1>4, <1>5, <1>6, <1>7 DEF StoreInv

\* NewKeyPool erases one record.
LEMMA EraseOldKeeps ==
    ASSUME KeysInv, EraseOld
    PROVE  KeysInv'
  <1> USE DEF KeysInv
  <1> DEFINE i == Min(Unerased)
  <1>1. /\ pc.op = "erase"
        /\ file' = [file EXCEPT !.pool[i] = NULL]
        /\ pc' = [pc EXCEPT !.n = i]
        /\ UNCHANGED <<crypto, setKeyPool, mapNewBlock, bounds, history>>
    BY DEF EraseOld, ErasePool
  <1>2. i \in Keys
    <2>1. Unerased \subseteq Nat /\ Unerased \subseteq Keys /\ Unerased # {}
      BY KeysAssumption DEF Unerased, TypeOK, EraseOld
    <2> QED
      BY <2>1, MinIsMember
  <1> HIDE DEF i
  <1>3. pc' \in Calls /\ pc'.op = "erase" /\ pc'.key = NULL
    <2>1. i \in 0..MaxKeys
      BY <1>2, KeysAssumption
    <2>2. pc' \in Calls /\ pc'.op = "erase" /\ pc'.key = pc.key
      BY <1>1, <2>1 DEF TypeOK, Calls
    <2> QED
      BY <1>1, <2>2 DEF CallKey
  <1>4. /\ file' \in [key : SUBSET Keys, ckey : CryptedKeys,
                      mkey : SUBSET MasterKeys, pool : [Keys -> Keys \cup {NULL}]]
        /\ file'.key = file.key /\ file'.ckey = file.ckey /\ file'.mkey = file.mkey
        /\ file'.pool[i] = NULL
        /\ \A j \in Keys : j # i => file'.pool[j] = file.pool[j]
    BY <1>1, <1>2, PoolWritten
  <1>5. TypeOK'
    BY <1>1, <1>3, <1>4 DEF TypeOK, crypto, bounds, history
  <1>6. StoreInv'
    BY <1>1, <1>4, StoreKept DEF StoreInv, bounds, history
  <1>7. PoolOnFile' /\ CallKey'
    BY <1>3 DEF PoolOnFile, CallKey
  <1>8. PoolDistinct'
    BY <1>1, <1>4 DEF PoolDistinct, bounds
  <1>9. PoolUnused'
    BY <1>1, <1>4 DEF PoolUnused, history
  <1>10. UsedKnown' /\ KeyGivenOnce'
    BY <1>1 DEF UsedKnown, KeyGivenOnce, bounds, history
  <1> QED
    BY <1>5, <1>6, <1>7, <1>8, <1>9, <1>10 DEF StoreInv

\* NewKeyPool clears the set.
LEMMA ErasedKeeps ==
    ASSUME KeysInv, Erased
    PROVE  KeysInv'
  <1> USE DEF KeysInv
  <1>1. /\ pc.op = "erase" /\ pc.key = NULL /\ setKeyPool' = {}
        /\ UNCHANGED <<crypto, file, mapNewBlock, bounds, history>>
    BY DEF Erased, CallKey
  <1>2. pc' \in Calls /\ pc'.op \in {"idle", "fill"} /\ pc'.key = NULL
    <2>1. CASE IsLocked
      BY <2>1, NoCall DEF Erased
    <2>2. CASE ~IsLocked
      <3>1. pc' = [pc EXCEPT !.op = "fill", !.n = 0]
        BY <2>2 DEF Erased
      <3>2. 0 \in 0..MaxKeys
        BY KeysAssumption
      <3>3. pc' \in Calls /\ pc'.op = "fill" /\ pc'.key = pc.key
        BY <3>1, <3>2 DEF TypeOK, Calls
      <3> QED
        BY <1>1, <3>3
    <2> QED
      BY <2>1, <2>2
  <1>3. TypeOK'
    BY <1>1, <1>2 DEF TypeOK, crypto, bounds, history
  <1>4. StoreInv'
    BY <1>1, StoreKept DEF StoreInv, bounds, history
  <1>5. PoolInv'
    BY <1>1, <1>2 DEF PoolInv, PoolOnFile, PoolDistinct, CallKey, PoolUnused, UsedKnown,
                      KeyGivenOnce, bounds, history
  <1> QED
    BY <1>3, <1>4, <1>5 DEF StoreInv, PoolInv

(***************************************************************************)
(* A step that touches neither the pool nor the history nor the number of  *)
(* keys keeps PoolInv when the call goes on as it was or ends.             *)
(***************************************************************************)
LEMMA PoolKept ==
    ASSUME PoolInv, UNCHANGED <<setKeyPool, mapNewBlock, nKeys, history>>,
           file'.pool = file.pool,
           (pc.op \notin {"sent", "erase"} /\ pc'.op = "idle") \/ pc' = pc
    PROVE  PoolInv'
  BY DEF PoolInv, PoolOnFile, PoolDistinct, CallKey, PoolUnused, UsedKnown, KeyGivenOnce, history

(***************************************************************************)
(* NewKeyPool ends, Unlock and Lock: the master key in memory changes.     *)
(***************************************************************************)
LEMMA LocksKeep ==
    ASSUME KeysInv,
           NewKeyPool \/ Lock \/ \E m \in MasterKeys : Unlock(m)
    PROVE  KeysInv'
  <1> USE DEF KeysInv
  <1>1. /\ UNCHANGED <<keystore, fUseCrypto, mapMasterKeys, setKeyPool, file, mapNewBlock, bounds,
                       history>>
        /\ vMasterKey' = NULL \/ vMasterKey' = vMasterKey
              \/ (vMasterKey' \in MasterKeys /\ vMasterKey' \in mapMasterKeys)
    BY DEF NewKeyPool, Lock, Unlock
  <1>2. (pc' = Idle /\ pc.op = "fill") \/ pc' = pc
    BY DEF NewKeyPool, Lock, Unlock
  <1>3. TypeOK'
    BY <1>1, <1>2, NoCall DEF TypeOK, bounds, history
  <1>4. FileIsMemory' /\ NothingForgotten'
    BY <1>1 DEF FileIsMemory, NothingForgotten, bounds
  <1>5. Modes'
    BY <1>1 DEF Modes, Decrypted, Crypted, history
  <1>6. PoolInv'
    <2>1. (pc.op \notin {"sent", "erase"} /\ pc'.op = "idle") \/ pc' = pc
      BY <1>2, NoCall
    <2>2. UNCHANGED nKeys /\ PoolInv
      BY <1>1 DEF bounds, PoolInv
    <2> QED
      BY <1>1, <2>1, <2>2, PoolKept
  <1> QED
    BY <1>3, <1>4, <1>5, <1>6 DEF PoolInv

(***************************************************************************)
(* EncryptWallet puts every plain key under the new master key, which the  *)
(* same transaction writes to the file.                                    *)
(***************************************************************************)
LEMMA EncryptKeeps ==
    ASSUME KeysInv, EncryptWallet
    PROVE  KeysInv'
  <1> USE DEF KeysInv
  <1> DEFINE m == nMasters + 1
  <1>1. /\ pc = Idle /\ ~fUseCrypto /\ m \in MasterKeys
        /\ nMasters' = m /\ m \in 0..MaxEncryptions
        /\ mapMasterKeys' = mapMasterKeys \cup {m}
        /\ keystore' = EncryptKeys(keystore, keystore.key, m)
        /\ file' = [EncryptKeys(file, keystore.key, m) EXCEPT !.mkey = @ \cup {m}]
        /\ fUseCrypto' = TRUE /\ vMasterKey' = m
        /\ UNCHANGED <<setKeyPool, mapNewBlock, nKeys, nCrashes, history>>
    BY KeysAssumption DEF EncryptWallet, TypeOK
  <1>2. pc' = [op |-> "erase", who |-> "encrypt", n |-> 0, key |-> NULL]
    BY DEF EncryptWallet, Idle
  <1>3. pc' \in Calls /\ pc'.op = "erase" /\ pc'.key = NULL
    BY <1>2, KeysAssumption DEF Calls
  <1> HIDE DEF m
  <1>4. /\ keystore' \in [key : SUBSET Keys, ckey : CryptedKeys]
        /\ keystore'.key = {}
        /\ \A k \in Keys : keystore'.ckey[k] = IF k \in keystore.key THEN m ELSE keystore.ckey[k]
    BY <1>1 DEF EncryptKeys, TypeOK, CryptedKeys
  <1>5. /\ file' \in [key : SUBSET Keys, ckey : CryptedKeys,
                      mkey : SUBSET MasterKeys, pool : [Keys -> Keys \cup {NULL}]]
        /\ file'.key = keystore'.key /\ file'.ckey = keystore'.ckey
        /\ file'.mkey = file.mkey \cup {m}
        /\ file'.pool = file.pool
    BY <1>1 DEF EncryptKeys, TypeOK, CryptedKeys, FileIsMemory
  <1>6. TypeOK'
    BY <1>1, <1>3, <1>4, <1>5 DEF TypeOK, history
  <1>7. FileIsMemory' /\ NothingForgotten'
    BY <1>1, <1>4, <1>5, KeysAssumption DEF FileIsMemory, NothingForgotten
  <1>8. Modes'
    <2>1. mapMasterKeys' = file'.mkey
      BY <1>1, <1>5 DEF Modes, Decrypted
    <2>2. \A k \in Keys : keystore.ckey[k] = NULL
      BY <1>1 DEF Modes, Crypted
    <2> QED
      BY <1>1, <1>4, <1>5, <2>1, <2>2 DEF Modes, Decrypted, Crypted
  <1>9. PoolInv'
    BY <1>1, <1>3, <1>5, NoCall
       DEF PoolInv, PoolOnFile, PoolDistinct, CallKey, PoolUnused, UsedKnown, KeyGivenOnce, history
  <1> QED
    BY <1>6, <1>7, <1>8, <1>9 DEF PoolInv

(***************************************************************************)
(* DecryptWallet makes all keys plain and erases the master keys.          *)
(***************************************************************************)
LEMMA DecryptKeeps ==
    ASSUME KeysInv, NEW m \in MasterKeys, DecryptWallet(m)
    PROVE  KeysInv'
  <1> USE DEF KeysInv
  <1> DEFINE known == keystore.key \cup Crypted(keystore)
  <1>1. /\ pc' = pc /\ fUseCrypto /\ fUseCrypto'
        /\ vMasterKey' = m
        /\ keystore' = DecryptKeys(keystore, known)
        /\ file' = [DecryptKeys(file, known) EXCEPT !.mkey = @ \ mapMasterKeys]
        /\ UNCHANGED <<mapMasterKeys, setKeyPool, mapNewBlock, bounds, history>>
    BY DEF DecryptWallet
  <1>2. known \subseteq Keys /\ \A k \in Keys : k \notin known => keystore.ckey[k] = NULL
    BY DEF TypeOK, Crypted
  <1>3. \A k \in Keys : k <= nKeys => k \in known
    BY DEF NothingForgotten, Crypted
  <1> HIDE DEF known
  <1>4. /\ keystore' \in [key : SUBSET Keys, ckey : CryptedKeys]
        /\ keystore'.key = keystore.key \cup known
        /\ \A k \in Keys : keystore'.ckey[k] = NULL
    BY <1>1, <1>2 DEF DecryptKeys, TypeOK, CryptedKeys
  <1>5. /\ file' \in [key : SUBSET Keys, ckey : CryptedKeys,
                      mkey : SUBSET MasterKeys, pool : [Keys -> Keys \cup {NULL}]]
        /\ file'.key = keystore'.key /\ file'.ckey = keystore'.ckey
        /\ file'.pool = file.pool
    BY <1>1, <1>2 DEF DecryptKeys, TypeOK, CryptedKeys, FileIsMemory
  <1>6. TypeOK'
    BY <1>1, <1>4, <1>5 DEF TypeOK, bounds, history
  <1>7. FileIsMemory' /\ NothingForgotten'
    BY <1>1, <1>3, <1>4, <1>5 DEF FileIsMemory, NothingForgotten, bounds
  <1>8. Modes'
    <2>1. keystore'.key # {}
      <3>1. 1 \in Keys /\ 1 <= nKeys
        BY KeysAssumption DEF NothingForgotten, TypeOK
      <3> QED
        BY <1>3, <1>4, <3>1
    <2> QED
      BY <1>1, <1>4, <2>1 DEF Modes, Decrypted, Crypted
  <1>9. PoolInv'
    BY <1>1, <1>5, PoolKept DEF PoolInv, bounds
  <1> QED
    BY <1>6, <1>7, <1>8, <1>9 DEF PoolInv

(***************************************************************************)
(* The process dies and the wallet is loaded from its file.                *)
(***************************************************************************)
LEMMA LoadKeeps ==
    ASSUME KeysInv, LoadWallet
    PROVE  KeysInv'
  <1> USE DEF KeysInv
  <1>1. /\ pc.op # "corrupt"
        /\ nCrashes' \in 0..MaxCrashes
        /\ keystore' = [key |-> file.key, ckey |-> file.ckey]
        /\ fUseCrypto' = (Crypted(file) # {})
        /\ vMasterKey' = NULL /\ mapMasterKeys' = file.mkey
        /\ setKeyPool' = {i \in Keys : file.pool[i] # NULL}
        /\ mapNewBlock' = {}
        /\ halfKept' = IF pc.op = "sent" THEN halfKept \cup {pc.key} ELSE halfKept
        /\ UNCHANGED <<file, nKeys, nMasters, uses, mined, late>>
    BY KeysAssumption DEF LoadWallet, TypeOK
  <1>2. pc' \in Calls /\ pc'.op \in {"idle", "corrupt"} /\ pc'.key = NULL
    <2>1. [Idle EXCEPT !.op = "corrupt"] = [op |-> "corrupt", who |-> NULL, n |-> 0, key |-> NULL]
      BY DEF Idle
    <2> QED
      BY <2>1, NoCall, KeysAssumption DEF LoadWallet, Calls
  <1>3. pc.op = "sent" => pc.key \in Keys
    BY DEF CallKey, TypeOK, Calls
  <1>4. TypeOK'
    BY <1>1, <1>2, <1>3 DEF TypeOK
  <1>5. keystore'.key = keystore.key /\ keystore'.ckey = keystore.ckey
    BY <1>1 DEF FileIsMemory
  <1>6. FileIsMemory' /\ NothingForgotten'
    BY <1>1, <1>5 DEF FileIsMemory, NothingForgotten
  <1>7. Modes'
    <2>1. Crypted(file) = Crypted(keystore)
      BY DEF Crypted, FileIsMemory
    <2>2. CASE fUseCrypto /\ keystore.key = {}
      BY <1>1, <1>5, <2>1, <2>2 DEF Modes, Decrypted, Crypted
    <2>3. CASE ~fUseCrypto
      BY <1>1, <1>5, <2>1, <2>3 DEF Modes, Decrypted, Crypted
    <2>4. CASE Decrypted
      BY <1>1, <1>5, <2>1, <2>4 DEF Modes, Decrypted, Crypted
    <2> QED
      BY <2>2, <2>3, <2>4 DEF Decrypted
  <1>8. PoolOnFile' /\ PoolDistinct' /\ CallKey' /\ UsedKnown'
    BY <1>1, <1>2 DEF PoolOnFile, PoolDistinct, CallKey, UsedKnown
  <1>9. PoolUnused' /\ KeyGivenOnce'
    BY <1>1, <1>2 DEF PoolUnused, KeyGivenOnce
  <1> QED
    BY <1>4, <1>6, <1>7, <1>8, <1>9

-----------------------------------------------------------------------------
\* Every step keeps the invariant.
LEMMA KeysInvNext ==
    ASSUME KeysInv, [Next]_vars
    PROVE  KeysInv'
  <1>1. CASE \/ \E who \in Takers : GetKey(who)
             \/ keypoolrefill \/ TopUpKeyPool \/ keypoolreset
    BY <1>1, CallsKeep
  <1>2. CASE GenerateNewKey
    BY <1>2, GenerateNewKeyKeeps
  <1>3. CASE AddToPool
    BY <1>3, AddToPoolKeeps
  <1>4. CASE ReserveKeyFromKeyPool
    BY <1>4, ReserveKeeps
  <1>5. CASE ReturnKey
    BY <1>5, ReturnKeyKeeps
  <1>6. CASE SendTransaction
    BY <1>6, SendKeeps
  <1>7. CASE CommitTransaction
    BY <1>7, CommitKeeps
  <1>8. CASE \E k \in Keys : CheckWork(k)
    BY <1>8, CheckWorkKeeps
  <1>9. CASE EraseOld
    BY <1>9, EraseOldKeeps
  <1>10. CASE Erased
    BY <1>10, ErasedKeeps
  <1>11. CASE NewKeyPool \/ Lock \/ \E m \in MasterKeys : Unlock(m)
    BY <1>11, LocksKeep
  <1>12. CASE EncryptWallet
    BY <1>12, EncryptKeeps
  <1>13. CASE \E m \in MasterKeys : DecryptWallet(m)
    BY <1>13, DecryptKeeps
  <1>14. CASE LoadWallet
    BY <1>14, LoadKeeps
  <1>15. CASE UNCHANGED vars
    BY <1>15 DEF vars, KeysInv, TypeOK, FileIsMemory, NothingForgotten, Modes, Decrypted, Crypted,
                 PoolOnFile, PoolDistinct, CallKey, PoolUnused, UsedKnown, KeyGivenOnce
  <1> QED
    BY <1>1, <1>2, <1>3, <1>4, <1>5, <1>6, <1>7, <1>8, <1>9, <1>10, <1>11, <1>12, <1>13, <1>14,
       <1>15 DEF Next

(***************************************************************************)
(* KeysInv is an invariant of the wallet's keys.                           *)
(***************************************************************************)
LEMMA KeysInvHolds == Spec => []KeysInv
  BY KeysInvInit, KeysInvNext, PTL DEF Spec

(***************************************************************************)
(* The state of the key store, of the file and of the calls is always well *)
(* formed: a record of the pool names a key, an index is within bounds.    *)
(***************************************************************************)
THEOREM KeysTypeCorrect == Spec => []TypeOK
  <1>1. KeysInv => TypeOK
    BY DEF KeysInv
  <1> QED
    BY <1>1, KeysInvHolds, PTL

(***************************************************************************)
(* No key that was given out is lost, whichever write of AddKey,           *)
(* EncryptWallet or DecryptWallet the process dies after: the file loads   *)
(* and holds the key, plain or under a master key of the file (except keys *)
(* generated between DecryptWallet and the restart).                       *)
(***************************************************************************)
THEOREM KeysAlwaysSurvive == Spec => []KeysSurvive
  <1>1. ASSUME KeysInv PROVE KeysSurvive
    <2> USE <1>1 DEF KeysInv
    <2>1. Crypted(file) = Crypted(keystore)
      BY DEF Crypted, FileIsMemory
    <2>2. late = {} => Loads(file)
      BY <2>1 DEF Loads, Modes, Decrypted, FileIsMemory
    <2>3. ASSUME NEW k \in Keys \ late, uses[k] > 0
          PROVE  k \in file.key \/ file.ckey[k] \in file.mkey
      <3>1. k \in keystore.key \/ k \in Crypted(keystore)
        BY <2>3 DEF UsedKnown, NothingForgotten, Crypted
      <3> QED
        BY <2>3, <3>1 DEF Modes, Decrypted, FileIsMemory
    <2> QED
      BY <2>2, <2>3 DEF KeysSurvive
  <1> QED
    BY <1>1, KeysInvHolds, PTL

(***************************************************************************)
(* ReserveKeyFromKeyPool always finds the record and the key of a free     *)
(* index, except between DecryptWallet and the restart.                    *)
(***************************************************************************)
THEOREM PoolAlwaysReadable == Spec => []PoolReadable
  <1>1. ASSUME KeysInv PROVE PoolReadable
    <2> USE <1>1 DEF KeysInv
    <2> SUFFICES ASSUME pc.op # "erase", ~Decrypted, NEW i \in setKeyPool
                 PROVE  file.pool[i] # NULL /\ HaveKey(file.pool[i])
      BY DEF PoolReadable
    <2>1. i \in Keys /\ file.pool[i] # NULL /\ file.pool[i] \in Keys /\ file.pool[i] <= nKeys
      BY DEF PoolOnFile, PoolDistinct, TypeOK
    <2>2. file.pool[i] \in keystore.key \/ file.pool[i] \in Crypted(keystore)
      BY <2>1 DEF NothingForgotten, Crypted
    <2> QED
      BY <2>1, <2>2 DEF HaveKey, Decrypted, Modes
  <1> QED
    BY <1>1, KeysInvHolds, PTL

(***************************************************************************)
(* No key is given out twice, by any mix of addresses, transactions, resets*)
(* and restarts, unless the process died inside CommitTransaction or a     *)
(* block was mined to the key.                                             *)
(***************************************************************************)
THEOREM KeyAlwaysGivenOnce == Spec => []KeyGivenOnce
  <1>1. KeysInv => KeyGivenOnce
    BY DEF KeysInv
  <1> QED
    BY <1>1, KeysInvHolds, PTL

=============================================================================
