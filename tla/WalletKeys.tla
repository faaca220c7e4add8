----------------------------- MODULE WalletKeys -----------------------------
(***************************************************************************)
(* The keys of the wallet: the key pool, the keys taken from it, the       *)
(* encryption of the wallet and its file (wallet.cpp, keystore.cpp,        *)
(* walletdb.cpp, miner.cpp).                                               *)
(*                                                                         *)
(* Whoever takes a key holds cs_wallet until the key is kept or returned   *)
(* (the RPC commands and the window take it for the whole call), so one    *)
(* call at a time is in this code; pc says where it is.  Beside it run     *)
(* Lock, which the timer of walletpassphrase calls without cs_wallet, and  *)
(* the death of the process.  A write to the file is permanent when it is  *)
(* done, except inside the transactions of EncryptWallet and               *)
(* DecryptWallet, which are permanent as a whole.                          *)
(***************************************************************************)
EXTENDS Integers, FiniteSetsExt

CONSTANTS
    nKeyPool,           \* the -keypool argument
    MaxKeys,            \* bound on the keys ever generated
    MaxEncryptions,     \* bound on the master keys ever made
    MaxCrashes,         \* bound on the restarts
    NULL

ASSUME KeysAssumption ==
    /\ nKeyPool \in Nat \ {0} /\ MaxKeys \in Nat /\ nKeyPool < MaxKeys
    /\ MaxEncryptions \in Nat /\ MaxCrashes \in Nat
    /\ NULL \notin Nat

Keys       == 1..MaxKeys        \* a key is its number in the order of generation
MasterKeys == 1..MaxEncryptions

VARIABLES
    keystore,           \* mapKeys, and mapCryptedKeys with the master key each is under
    fUseCrypto,
    vMasterKey,         \* the master key in memory, NULL when locked
    mapMasterKeys,
    setKeyPool,         \* the indexes of the pool that are free
    file,               \* wallet.dat
    pc,                 \* the call that holds cs_wallet: its step, who called, the index, the key
    mapNewBlock,        \* the keys that the unsolved blocks of getwork pay to
    nKeys,              \* keys generated so far
    nMasters,           \* master keys made so far
    nCrashes,
    uses,               \* history: how often each key was given out (2: more than once)
    halfKept,           \* history: keys that were out but not kept when the process died
    mined,              \* history: keys that a solved block pays to
    late                \* history: keys generated after DecryptWallet without a restart

vars == <<keystore, fUseCrypto, vMasterKey, mapMasterKeys, setKeyPool, file, pc, mapNewBlock,
          nKeys, nMasters, nCrashes, uses, halfKept, mined, late>>

history == <<uses, halfKept, mined, late>>
crypto  == <<keystore, fUseCrypto, vMasterKey, mapMasterKeys>>
bounds  == <<nKeys, nMasters, nCrashes>>

Takers == {"address", "send", "mine"}
Idle   == [op |-> "idle", who |-> NULL, n |-> 0, key |-> NULL]

\* The call that holds cs_wallet: "corrupt" stands for a file that does not load.
Calls ==
    [op : {"idle", "topup", "take", "reserved", "sent", "erase", "fill", "corrupt"},
     who : Takers \cup {"refill", "reset", "encrypt", NULL},
     n : 0..MaxKeys, key : Keys \cup {NULL}]

CryptedKeys == [Keys -> MasterKeys \cup {NULL}]

TypeOK ==
    /\ keystore \in [key : SUBSET Keys, ckey : CryptedKeys]
    /\ fUseCrypto \in BOOLEAN
    /\ vMasterKey \in MasterKeys \cup {NULL}
    /\ mapMasterKeys \subseteq MasterKeys
    /\ setKeyPool \subseteq Keys
    /\ file \in [key : SUBSET Keys, ckey : CryptedKeys,
                 mkey : SUBSET MasterKeys, pool : [Keys -> Keys \cup {NULL}]]
    /\ pc \in Calls
    /\ mapNewBlock \subseteq Keys
    /\ nKeys \in 0..MaxKeys /\ nMasters \in 0..MaxEncryptions /\ nCrashes \in 0..MaxCrashes
    /\ uses \in [Keys -> 0..2]
    /\ halfKept \subseteq Keys /\ mined \subseteq Keys /\ late \subseteq Keys

\* After the first start: the first key of the new pool is the default key.
Init ==
    LET made == 1..(nKeyPool + 1)
    IN  /\ keystore = [key |-> made, ckey |-> [k \in Keys |-> NULL]]
        /\ fUseCrypto = FALSE
        /\ vMasterKey = NULL
        /\ mapMasterKeys = {}
        /\ setKeyPool = made \ {1}
        /\ file = [key |-> made, ckey |-> [k \in Keys |-> NULL], mkey |-> {},
                   pool |-> [i \in Keys |-> IF i \in made \ {1} THEN i ELSE NULL]]
        /\ pc = Idle
        /\ mapNewBlock = {}
        /\ nKeys = nKeyPool + 1 /\ nMasters = 0 /\ nCrashes = 0
        /\ uses = [k \in Keys |-> IF k = 1 THEN 1 ELSE 0]
        /\ halfKept = {} /\ mined = {} /\ late = {}

-----------------------------------------------------------------------------
IsLocked   == fUseCrypto /\ vMasterKey = NULL
Crypted(s) == {k \in Keys : s.ckey[k] # NULL}
HaveKey(k) == IF fUseCrypto THEN k \in Crypted(keystore) ELSE k \in keystore.key
Decrypted  == fUseCrypto /\ keystore.key # {}       \* DecryptWallet leaves fUseCrypto set

\* AddKey, into memory and into the file: plain, or under the master key in memory.
AddKey(s, k) ==
    IF fUseCrypto THEN [s EXCEPT !.ckey[k] = vMasterKey] ELSE [s EXCEPT !.key = @ \cup {k}]

WritePool(f, i, k) == [f EXCEPT !.pool[i] = k]
ErasePool(f, i)    == [f EXCEPT !.pool[i] = NULL]

GiveOut(k) == uses' = [uses EXCEPT ![k] = Min({@ + 1, 2})]

\* TopUpKeyPool makes one key more than -keypool says, NewKeyPool exactly as many.
Wants ==
    \/ pc.op = "topup" /\ Cardinality(setKeyPool) < nKeyPool + 1
    \/ pc.op = "fill" /\ pc.n < nKeyPool

nEnd == IF setKeyPool = {} THEN 1 ELSE Max(setKeyPool) + 1

\* The index of the next key: after the last one, or from 1 in a new pool.
NextIndex == IF pc.op = "topup" THEN nEnd ELSE pc.n + 1

(***************************************************************************)
(* GenerateNewKey, in TopUpKeyPool and NewKeyPool: the key is in the file  *)
(* before the pool's record.  A wallet that was locked in the meantime     *)
(* refuses the key, and the exception ends the call.                       *)
(***************************************************************************)
GenerateNewKey ==
    LET k == nKeys + 1
    IN  /\ Wants /\ pc.key = NULL
        /\ IF IsLocked
           THEN pc' = Idle /\ UNCHANGED <<keystore, file, nKeys, late>>
           ELSE /\ nKeys < MaxKeys
                /\ nKeys' = k
                /\ keystore' = AddKey(keystore, k)
                /\ file' = AddKey(file, k)
                /\ late' = IF Decrypted THEN late \cup {k} ELSE late
                /\ pc' = [pc EXCEPT !.key = k]
        /\ UNCHANGED <<fUseCrypto, vMasterKey, mapMasterKeys, setKeyPool, mapNewBlock, nMasters,
                       nCrashes, uses, halfKept, mined>>

AddToPool ==
    /\ Wants /\ pc.key # NULL
    /\ NextIndex \in Keys
    /\ file' = WritePool(file, NextIndex, pc.key)
    /\ setKeyPool' = setKeyPool \cup {NextIndex}
    /\ pc' = [pc EXCEPT !.key = NULL, !.n = IF pc.op = "fill" THEN @ + 1 ELSE @]
    /\ UNCHANGED <<crypto, mapNewBlock, bounds, history>>

-----------------------------------------------------------------------------
(***************************************************************************)
(* getnewaddress, the change of a transaction, the coinbase of getwork:    *)
(* top up the pool unless the wallet is locked, then take the oldest key.  *)
(***************************************************************************)
GetKey(who) ==
    /\ pc = Idle
    /\ who = "send" => ~IsLocked
    /\ pc' = [Idle EXCEPT !.op = IF IsLocked THEN "take" ELSE "topup", !.who = who]
    /\ UNCHANGED <<crypto, setKeyPool, file, mapNewBlock, bounds, history>>

\* keypoolrefill, and the thread that walletpassphrase starts.
keypoolrefill ==
    /\ pc = Idle /\ ~IsLocked
    /\ pc' = [Idle EXCEPT !.op = "topup", !.who = "refill"]
    /\ UNCHANGED <<crypto, setKeyPool, file, mapNewBlock, bounds, history>>

TopUpKeyPool ==
    /\ pc.op = "topup" /\ ~Wants
    /\ pc' = IF pc.who \in Takers THEN [pc EXCEPT !.op = "take"] ELSE Idle
    /\ UNCHANGED <<crypto, setKeyPool, file, mapNewBlock, bounds, history>>

KeepForgets(f, i) == f
KeepKey(f, i)     == ErasePool(f, i)

(***************************************************************************)
(* ReserveKeyFromKeyPool: the index leaves the set before its record is    *)
(* read.  An address keeps the key at once; the change of a transaction    *)
(* stays reserved; CreateNewBlock returns the key when its CReserveKey     *)
(* goes out of scope.  An empty pool gives the default key and changes     *)
(* nothing.  A record that is missing or names an unknown key ends the     *)
(* call with an exception, which also returns the index of a CReserveKey.  *)
(***************************************************************************)
ReserveKeyFromKeyPool ==
    LET i     == Min(setKeyPool)
        k     == file.pool[i]
        found == k # NULL /\ HaveKey(k)
    IN  /\ pc.op = "take"
        /\ \/ /\ setKeyPool = {}
              /\ pc' = Idle
              /\ UNCHANGED <<setKeyPool, file, mapNewBlock, uses>>
           \/ /\ setKeyPool # {} /\ found /\ pc.who = "address"
              /\ setKeyPool' = setKeyPool \ {i}
              /\ file' = KeepKey(file, i)
              /\ GiveOut(k)
              /\ pc' = Idle
              /\ UNCHANGED mapNewBlock
           \/ /\ setKeyPool # {} /\ found /\ pc.who = "send"
              /\ setKeyPool' = setKeyPool \ {i}
              /\ pc' = [pc EXCEPT !.op = "reserved", !.n = i, !.key = k]
              /\ UNCHANGED <<file, mapNewBlock, uses>>
           \/ /\ setKeyPool # {} /\ found /\ pc.who = "mine"
              /\ mapNewBlock' = mapNewBlock \cup {k}
              /\ pc' = Idle
              /\ UNCHANGED <<setKeyPool, file, uses>>
           \/ /\ setKeyPool # {} /\ ~found
              /\ setKeyPool' = IF pc.who = "address" THEN setKeyPool \ {i} ELSE setKeyPool
              /\ pc' = Idle
              /\ UNCHANGED <<file, mapNewBlock, uses>>
        /\ UNCHANGED <<crypto, bounds, halfKept, mined, late>>

\* The transaction needs no change, the fee is declined or the pool refuses it.
ReturnKey ==
    /\ pc.op = "reserved"
    /\ setKeyPool' = setKeyPool \cup {pc.n}
    /\ pc' = Idle
    /\ UNCHANGED <<crypto, file, mapNewBlock, bounds, history>>

\* CommitTransaction sends the transaction, and then keeps the key of its change.
SendTransaction ==
    /\ pc.op = "reserved"
    /\ GiveOut(pc.key)
    /\ pc' = [pc EXCEPT !.op = "sent"]
    /\ UNCHANGED <<crypto, setKeyPool, file, mapNewBlock, bounds, halfKept, mined, late>>

CommitTransaction ==
    /\ pc.op = "sent"
    /\ file' = KeepKey(file, pc.n)
    /\ pc' = Idle
    /\ UNCHANGED <<crypto, setKeyPool, mapNewBlock, bounds, history>>

(***************************************************************************)
(* CheckWork for a solved block: the CReserveKey of getwork never reserved *)
(* a key, so its KeepKey does nothing.  The other blocks are stale now.    *)
(***************************************************************************)
CheckWork(k) ==
    /\ pc = Idle
    /\ k \in mapNewBlock
    /\ GiveOut(k)
    /\ mined' = mined \cup {k}
    /\ mapNewBlock' = {}
    /\ UNCHANGED <<crypto, setKeyPool, file, pc, bounds, halfKept, late>>

-----------------------------------------------------------------------------
\* keypoolreset starts NewKeyPool.
keypoolreset ==
    /\ pc = Idle /\ ~IsLocked
    /\ pc' = [Idle EXCEPT !.op = "erase", !.who = "reset"]
    /\ UNCHANGED <<crypto, setKeyPool, file, mapNewBlock, bounds, history>>

\* NewKeyPool erases the records of the free indexes one by one.
Unerased == {i \in setKeyPool : i > pc.n}

EraseOld ==
    /\ pc.op = "erase" /\ Unerased # {}
    /\ file' = ErasePool(file, Min(Unerased))
    /\ pc' = [pc EXCEPT !.n = Min(Unerased)]
    /\ UNCHANGED <<crypto, setKeyPool, mapNewBlock, bounds, history>>

ErasedForgetsSet ==
    /\ pc.op = "erase" /\ Unerased = {}
    /\ pc' = IF IsLocked THEN Idle ELSE [pc EXCEPT !.op = "fill", !.n = 0]
    /\ UNCHANGED <<crypto, setKeyPool, file, mapNewBlock, bounds, history>>

\* It clears the set, and goes on unless the wallet is locked.
Erased ==
    /\ pc.op = "erase" /\ Unerased = {}
    /\ setKeyPool' = {}
    /\ pc' = IF IsLocked THEN Idle ELSE [pc EXCEPT !.op = "fill", !.n = 0]
    /\ UNCHANGED <<crypto, file, mapNewBlock, bounds, history>>

\* The new pool is there.  EncryptWallet locks the wallet again.
NewKeyPool ==
    /\ pc.op = "fill" /\ ~Wants
    /\ vMasterKey' = IF pc.who = "encrypt" THEN NULL ELSE vMasterKey
    /\ pc' = Idle
    /\ UNCHANGED <<keystore, fUseCrypto, mapMasterKeys, setKeyPool, file, mapNewBlock, bounds,
                   history>>

-----------------------------------------------------------------------------
EncryptKeys(s, known, m) ==
    [s EXCEPT !.key = @ \ known, !.ckey = [k \in Keys |-> IF k \in known THEN m ELSE @[k]]]

(***************************************************************************)
(* EncryptWallet: a new master key, all keys under it, in one transaction; *)
(* then the wallet is unlocked for a new key pool.                         *)
(***************************************************************************)
EncryptWallet ==
    LET m == nMasters + 1
    IN  /\ pc = Idle
        /\ ~fUseCrypto
        /\ nMasters < MaxEncryptions
        /\ nMasters' = m
        /\ mapMasterKeys' = mapMasterKeys \cup {m}
        /\ keystore' = EncryptKeys(keystore, keystore.key, m)
        /\ file' = [EncryptKeys(file, keystore.key, m) EXCEPT !.mkey = @ \cup {m}]
        /\ fUseCrypto' = TRUE
        /\ vMasterKey' = m
        /\ pc' = [Idle EXCEPT !.op = "erase", !.who = "encrypt"]
        /\ UNCHANGED <<setKeyPool, mapNewBlock, nKeys, nCrashes, history>>

\* Unlock tries the master key on the first of the keys.
Opens(m) == Crypted(keystore) # {} => keystore.ckey[Min(Crypted(keystore))] = m

DecryptForgetsErase(s, known) == [s EXCEPT !.key = @ \cup known]

DecryptKeys(s, known) ==
    [s EXCEPT !.key = @ \cup known,
              !.ckey = [k \in Keys |-> IF k \in known THEN NULL ELSE @[k]]]

(***************************************************************************)
(* DecryptWallet: all keys plain and no master key, in one transaction; in *)
(* memory fUseCrypto and the master key stay.                              *)
(***************************************************************************)
DecryptWallet(m) ==
    LET known == keystore.key \cup Crypted(keystore)
    IN  /\ pc = Idle
        /\ fUseCrypto
        /\ m \in mapMasterKeys /\ \A n \in mapMasterKeys : Opens(n)
        /\ vMasterKey' = m
        /\ keystore' = DecryptKeys(keystore, known)
        /\ file' = [DecryptKeys(file, known) EXCEPT !.mkey = @ \ mapMasterKeys]
        /\ UNCHANGED <<fUseCrypto, mapMasterKeys, setKeyPool, pc, mapNewBlock, bounds, history>>

Unlock(m) ==
    /\ pc = Idle
    /\ IsLocked
    /\ m \in mapMasterKeys /\ Opens(m)
    /\ vMasterKey' = m
    /\ UNCHANGED <<keystore, fUseCrypto, mapMasterKeys, setKeyPool, file, pc, mapNewBlock, bounds,
                   history>>

Lock ==
    /\ pc.op # "corrupt"
    /\ fUseCrypto /\ vMasterKey # NULL
    /\ vMasterKey' = NULL
    /\ UNCHANGED <<keystore, fUseCrypto, mapMasterKeys, setKeyPool, file, pc, mapNewBlock, bounds,
                   history>>

-----------------------------------------------------------------------------
\* Plain keys are read first; a crypted one beside them makes the file corrupt.
Loads(f) == f.key = {} \/ Crypted(f) = {}

(***************************************************************************)
(* The process ends at any moment and LoadWallet reads the file.           *)
(***************************************************************************)
LoadWallet ==
    /\ pc.op # "corrupt"
    /\ nCrashes < MaxCrashes
    /\ nCrashes' = nCrashes + 1
    /\ keystore' = [key |-> file.key, ckey |-> file.ckey]
    /\ fUseCrypto' = (Crypted(file) # {})
    /\ vMasterKey' = NULL
    /\ mapMasterKeys' = file.mkey
    /\ setKeyPool' = {i \in Keys : file.pool[i] # NULL}
    /\ mapNewBlock' = {}
    /\ pc' = IF Loads(file) THEN Idle ELSE [Idle EXCEPT !.op = "corrupt"]
    /\ halfKept' = IF pc.op = "sent" THEN halfKept \cup {pc.key} ELSE halfKept
    /\ UNCHANGED <<file, nKeys, nMasters, uses, mined, late>>

Next ==
    \/ \E who \in Takers : GetKey(who)
    \/ keypoolrefill \/ GenerateNewKey \/ AddToPool \/ TopUpKeyPool
    \/ ReserveKeyFromKeyPool \/ ReturnKey \/ SendTransaction \/ CommitTransaction
    \/ \E k \in Keys : CheckWork(k)
    \/ keypoolreset \/ EraseOld \/ Erased \/ NewKeyPool
    \/ EncryptWallet \/ Lock
    \/ \E m \in MasterKeys : DecryptWallet(m) \/ Unlock(m)
    \/ LoadWallet

Spec == Init /\ [][Next]_vars

-----------------------------------------------------------------------------
(***************************************************************************)
(* No key that was given out is ever lost: at every instant the file can   *)
(* be loaded and holds each of them, plain or under a master key that the  *)
(* file holds too, although EncryptWallet and DecryptWallet replace all    *)
(* keys and the process may die at any write.  Only keys generated after   *)
(* DecryptWallet in the same session are lost: they are written under the  *)
(* master key that was just erased.                                        *)
(***************************************************************************)
KeysSurvive ==
    /\ late = {} => Loads(file)
    /\ \A k \in Keys \ late : uses[k] > 0 => k \in file.key \/ file.ckey[k] \in file.mkey

(***************************************************************************)
(* ReserveKeyFromKeyPool never throws: each free index of the pool has its *)
(* record in the file and a key that the wallet has, whatever was          *)
(* reserved, kept, returned, reset, encrypted, locked or interrupted.  It  *)
(* does throw between DecryptWallet and the restart.                       *)
(***************************************************************************)
PoolReadable ==
    pc.op \notin {"erase", "corrupt"} /\ ~Decrypted =>
        \A i \in setKeyPool : file.pool[i] # NULL /\ HaveKey(file.pool[i])

(***************************************************************************)
(* No key is given out twice, by any mix of addresses, transactions and    *)
(* restarts ("Take key pair from key pool so it won't be used again"),     *)
(* unless the process died after CommitTransaction had sent a transaction  *)
(* and before it kept the key, or a block was mined to the key.            *)
(***************************************************************************)
KeyGivenOnce ==
    \A k \in Keys \ (halfKept \cup mined) : uses[k] <= 1

=============================================================================
