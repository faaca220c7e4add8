------------------------------ MODULE AddrMan ------------------------------
(***************************************************************************)
(* The address manager (addrman.cpp, addrman.h): the tables of "new" and   *)
(* "tried" peer addresses, the indexes kept beside them, and peers.dat.    *)
(*                                                                         *)
(* Every method runs under the lock cs, so one action is one call.  am is  *)
(* the object, with its fields under their own names.  Bucket hashes are   *)
(* constant functions.  The statistics nTime, nLastTry, nAttempts and      *)
(* nServices are left out: Attempt_, Connected_ and GetOnlineAddr_ touch   *)
(* nothing else, and the decisions taken from them (IsTerrible, the        *)
(* stochastic test of Add_, "no new information") may go either way.       *)
(***************************************************************************)
EXTENDS Naturals, Sequences, FiniteSets, TLC

CONSTANTS
    Services,          \* CService: pairs of a CNetAddr and a port, all routable
    Sources,           \* CNetAddr of the peer that told us
    NewBuckets, TriedBuckets,
    GetNewBucket,      \* [CNetAddr \X Sources -> NewBuckets]
    GetTriedBucket,    \* [Services -> TriedBuckets]
    NewBucketSize, TriedBucketSize, NewBucketsPerAddress,
    InspectOnEvict, GetAddrMaxPct,
    Times,             \* the adjusted times at which peers answer
    MaxId,             \* bound on nIdCount
    NULL

Host(s) == s[1]
Hosts   == {Host(s) : s \in Services}

ASSUME BucketsAssumption ==
    /\ GetNewBucket \in [Hosts \X Sources -> NewBuckets]
    /\ GetTriedBucket \in [Services -> TriedBuckets]

ASSUME SizesAssumption ==
    /\ {NewBucketSize, TriedBucketSize, NewBucketsPerAddress, InspectOnEvict} \subseteq Nat \ {0}
    /\ Times \subseteq Nat \ {0}

VARIABLE am    \* the CAddrMan object

Empty ==
    [nIdCount |-> 0, mapInfo |-> <<>>, mapAddr |-> <<>>, vRandom |-> <<>>,
     nTried |-> 0, vvTried |-> [b \in TriedBuckets |-> <<>>],
     nNew |-> 0, vvNew |-> [b \in NewBuckets |-> {}]]

Without(f, x) == [y \in DOMAIN f \ {x} |-> f[y]]
Swap(s, i, j) == [s EXCEPT ![i] = s[j], ![j] = s[i]]

(***************************************************************************)
(* Helpers of the tables.                                                  *)
(***************************************************************************)
Known(a, s) == Host(s) \in DOMAIN a.mapAddr

Create(a, s, src) ==
    [a EXCEPT !.nIdCount = @ + 1,
              !.mapInfo  = @ @@ a.nIdCount :>
                  [addr |-> s, source |-> src, nLastSuccess |-> 0, nRefCount |-> 0,
                   fInTried |-> FALSE, nRandomPos |-> Len(a.vRandom) + 1],
              !.mapAddr  = @ @@ Host(s) :> a.nIdCount,
              !.vRandom  = Append(@, a.nIdCount)]

SwapForgetsFirst(a, i, j) ==
    [a EXCEPT !.mapInfo[a.vRandom[j]].nRandomPos = i, !.vRandom = Swap(@, i, j)]

SwapRandom(a, i, j) ==
    IF i = j THEN a
    ELSE [a EXCEPT !.mapInfo[a.vRandom[i]].nRandomPos = j,
                   !.mapInfo[a.vRandom[j]].nRandomPos = i,
                   !.vRandom = Swap(@, i, j)]

\* The entry leaves every index; it was counted as new.
Delete(a, id) ==
    LET last == Len(a.vRandom)
        s    == SwapRandom(a, a.mapInfo[id].nRandomPos, last)
    IN  [s EXCEPT !.vRandom = SubSeq(@, 1, last - 1),
                  !.mapAddr = Without(@, Host(a.mapInfo[id].addr)),
                  !.mapInfo = Without(@, id),
                  !.nNew    = @ - 1]

\* Out of one new bucket, and out of the tables with the last reference.
Unreference(a, b, id) ==
    LET u == [a EXCEPT !.mapInfo[id].nRefCount = @ - 1]
    IN  [(IF u.mapInfo[id].nRefCount = 0 THEN Delete(u, id) ELSE u)
            EXCEPT !.vvNew[b] = @ \ {id}]

(***************************************************************************)
(* Either the first terrible entry of the bucket goes or the oldest of     *)
(* four chosen at random, so any entry may.                                *)
(***************************************************************************)
ShrinkNew(a, b) == {Unreference(a, b, id) : id \in a.vvNew[b]}

InsertNew(a, b, id) ==
    IF id \in a.vvNew[b] THEN {a}
    ELSE LET r == [a EXCEPT !.mapInfo[id].nRefCount = @ + 1]
         IN  {[t EXCEPT !.vvNew[b] = @ \cup {id}] :
                 t \in IF Cardinality(a.vvNew[b]) = NewBucketSize THEN ShrinkNew(r, b) ELSE {r}}

(***************************************************************************)
(* The outcomes of the loop of SelectTried: the shuffled bucket, the       *)
(* entries it inspected and the position it returns.                       *)
(***************************************************************************)
SelectTried(a, k) ==
    LET v    == a.vvTried[k]
        n    == IF InspectOnEvict < Len(v) THEN InspectOnEvict ELSE Len(v)
        Run(pos) ==
            LET nLastSuccess(id) == a.mapInfo[id].nLastSuccess
                loop[i \in 0..n] ==
                    IF i = 0
                    THEN [vTried |-> v, inspected |-> {}, nOldest |-> NULL, nPos |-> 0]
                    ELSE LET p  == loop[i - 1]
                             id == p.vTried[pos[i]]
                             s  == [p EXCEPT !.vTried = Swap(@, i, pos[i]), !.inspected = @ \cup {id}]
                         IN  IF i = 1 \/ nLastSuccess(id) < nLastSuccess(p.nOldest)
                             THEN [s EXCEPT !.nOldest = id, !.nPos = pos[i]]
                             ELSE s
            IN  loop[n]
    IN  {Run(pos) : pos \in {q \in [1..n -> 1..Len(v)] : \A i \in 1..n : q[i] >= i}}

OutOfOrigin(a, id, origin) ==
    [a EXCEPT !.vvNew[origin] = @ \ {id}, !.nNew = @ - 1, !.mapInfo[id].nRefCount = 0]

\* The entry leaves all new buckets, whichever of them it was found in.
OutOfNew(a, id, origin) ==
    [a EXCEPT !.vvNew = [b \in NewBuckets |-> @[b] \ {id}],
              !.nNew  = @ - 1,
              !.mapInfo[id].nRefCount = @ - Cardinality({b \in NewBuckets : id \in a.vvNew[b]})]

OwnBucket(a, old, origin) ==
    GetNewBucket[<<Host(a.mapInfo[old].addr), a.mapInfo[old].source>>]

\* An evicted entry goes back to its own new bucket, or to the one the new entry came from.
BucketToReturnTo(a, old, origin) ==
    LET own == GetNewBucket[<<Host(a.mapInfo[old].addr), a.mapInfo[old].source>>]
    IN  IF Cardinality(a.vvNew[own]) < NewBucketSize THEN own ELSE origin

MakeTried(a, id, origin) ==
    LET k   == GetTriedBucket[a.mapInfo[id].addr]
        out == OutOfNew(a, id, origin)
        Evict(s) ==
            LET old == s.vTried[s.nPos]
            IN  [out EXCEPT !.mapInfo[old].fInTried  = FALSE,
                            !.mapInfo[old].nRefCount = 1,
                            !.vvNew[BucketToReturnTo(out, old, origin)] = @ \cup {old},
                            !.nNew       = @ + 1,
                            !.vvTried[k] = [s.vTried EXCEPT ![s.nPos] = id],
                            !.mapInfo[id].fInTried = TRUE]
    IN  IF Len(a.vvTried[k]) < TriedBucketSize
        THEN {[out EXCEPT !.vvTried[k] = Append(@, id),
                          !.nTried     = @ + 1,
                          !.mapInfo[id].fInTried = TRUE]}
        ELSE {Evict(s) : s \in SelectTried(out, k)}

(***************************************************************************)
(* Add_ and Good_.                                                         *)
(***************************************************************************)
AddUnknown(s, src) ==
    /\ ~Known(am, s)
    /\ am.nIdCount < MaxId
    /\ LET c == [Create(am, s, src) EXCEPT !.nNew = @ + 1]
       IN  am' \in InsertNew(c, GetNewBucket[<<Host(s), src>>], am.nIdCount)

\* An entry found by its CNetAddr keeps its port and its source.
AddKnown(s, src) ==
    /\ Known(am, s)
    /\ LET id   == am.mapAddr[Host(s)]
           info == am.mapInfo[id]
       IN  /\ ~info.fInTried
           /\ info.nRefCount # NewBucketsPerAddress
           /\ am' \in InsertNew(am, GetNewBucket[<<Host(s), src>>], id)

Add(s, src) ==
    AddUnknown(s, src) \/ AddKnown(s, src)

\* The new bucket found by searching from a random one may be any that holds it.
Good(s, t) ==
    /\ Known(am, s)
    /\ LET id == am.mapAddr[Host(s)]
           g  == [am EXCEPT !.mapInfo[id].nLastSuccess = t]
       IN  /\ am.mapInfo[id].addr = s
           /\ IF \/ am.mapInfo[id].fInTried
                 \/ \A b \in NewBuckets : id \notin am.vvNew[b]
              THEN am' = g
              ELSE \E b \in NewBuckets : id \in am.vvNew[b] /\ am' \in MakeTried(g, id, b)

\* GetAddr_ shuffles the front of vRandom, one random swap per address it returns.
GetAddr ==
    LET n == (GetAddrMaxPct * Len(am.vRandom)) \div 100
    IN  /\ n > 0
        /\ \E pos \in {q \in [1..n -> 1..Len(am.vRandom)] : \A i \in 1..n : q[i] >= i} :
               LET loop[i \in 0..n] ==
                       IF i = 0 THEN am ELSE SwapRandom(loop[i - 1], i, pos[i])
               IN  am' = loop[n]

(***************************************************************************)
(* peers.dat.  The entries of the new table are written first, then those  *)
(* of the tried table, each in the order of their ids, then the buckets by *)
(* position in the first list (from 0).  The memory-only fields are not    *)
(* written.                                                                *)
(***************************************************************************)
Saved(info) == [addr |-> info.addr, source |-> info.source, nLastSuccess |-> info.nLastSuccess]

\* The entries in S, in the order of their ids.
InIdOrder(a, S) ==
    [n \in 0..(Cardinality(S) - 1) |->
        Saved(a.mapInfo[CHOOSE id \in S : Cardinality({j \in S : j < id}) = n])]

InNewTable(a) == {id \in DOMAIN a.mapInfo : a.mapInfo[id].nRefCount # 0}

MapsEveryId(a, id) == Cardinality({j \in DOMAIN a.mapInfo : j < id})

\* The position of an entry in the first list, as far as the loop that fills the map gets.
mapUnkIds(a, id) ==
    LET nIds == Cardinality({j \in InNewTable(a) : j < id})
    IN  IF nIds < a.nNew THEN nIds ELSE 0

Serialize(a) ==
    LET new   == InNewTable(a)
        tried == {id \in DOMAIN a.mapInfo : a.mapInfo[id].fInTried}
    IN  [nNew |-> a.nNew, nTried |-> a.nTried,
         infoNew |-> InIdOrder(a, new), infoTried |-> InIdOrder(a, tried),
         vvNew |-> [b \in NewBuckets |-> {mapUnkIds(a, id) : id \in a.vvNew[b]}]]

(***************************************************************************)
(* Ids are given out again: 0.. to the new entries, then to the tried ones *)
(* that fit into their bucket.  A new entry is referred to by at most      *)
(* NewBucketsPerAddress buckets, which are read in order.                  *)
(***************************************************************************)
Deserialize(f) ==
    LET Bucket(n) == GetTriedBucket[f.infoTried[n].addr]
        Fits(n)   == Cardinality({m \in 0..(n - 1) : Bucket(m) = Bucket(n)}) < TriedBucketSize
        kept      == {n \in 0..(f.nTried - 1) : Fits(n)}
        Id(n)     == f.nNew + Cardinality({m \in kept : m < n})
        IdsIn(k)  == {Id(n) : n \in {m \in kept : Bucket(m) = k}}
        ids       == 0..(f.nNew + Cardinality(kept) - 1)
        Refers(n, b) == /\ n \in f.vvNew[b]
                        /\ Cardinality({c \in NewBuckets : c < b /\ n \in f.vvNew[c]})
                               < NewBucketsPerAddress
        Info(id)  == IF id < f.nNew THEN f.infoNew[id]
                     ELSE f.infoTried[CHOOSE n \in kept : Id(n) = id]
    IN  [nIdCount |-> f.nNew + Cardinality(kept),
         mapInfo  |-> [id \in ids |->
             [nRefCount  |-> Cardinality({b \in NewBuckets : Refers(id, b)}),
              fInTried   |-> id >= f.nNew,
              nRandomPos |-> id + 1] @@ Info(id)],
         mapAddr  |-> [h \in {Host(Info(id).addr) : id \in ids} |->
                          CHOOSE id \in ids : Host(Info(id).addr) = h],
         vRandom  |-> [p \in 1..Cardinality(ids) |-> p - 1],
         nTried   |-> Cardinality(kept),
         vvTried  |-> [k \in TriedBuckets |->
             [p \in 1..Cardinality(IdsIn(k)) |->
                 CHOOSE id \in IdsIn(k) : Cardinality({j \in IdsIn(k) : j < id}) = p - 1]],
         nNew     |-> f.nNew,
         vvNew    |-> [b \in NewBuckets |-> {n \in f.vvNew[b] : Refers(n, b)}]]

(***************************************************************************)
(* The node dumps the tables, ends, and starts from the file.  A file that *)
(* is older, because the node died before the next dump, gives a state     *)
(* that this step reaches from the older tables; without one, Init.        *)
(***************************************************************************)
DumpAndRestart == am' = Deserialize(Serialize(am))

Init == am = Empty

Next ==
    \/ \E s \in Services, src \in Sources : Add(s, src)
    \/ \E s \in Services, t \in Times : Good(s, t)
    \/ GetAddr
    \/ DumpAndRestart

Spec == Init /\ [][Next]_am

-----------------------------------------------------------------------------
Infos == [addr : Services, source : Sources, nLastSuccess : Times \cup {0}, nRefCount : Nat,
          fInTried : BOOLEAN, nRandomPos : Nat]

TypeOK ==
    /\ am.nIdCount \in Nat /\ am.nTried \in Nat /\ am.nNew \in Nat
    /\ DOMAIN am.mapInfo \subseteq 0..(am.nIdCount - 1)
    /\ \A id \in DOMAIN am.mapInfo : am.mapInfo[id] \in Infos
    /\ DOMAIN am.mapAddr \subseteq Hosts
    /\ \A k \in TriedBuckets : am.vvTried[k] \in Seq(0..(am.nIdCount - 1))
    /\ \A b \in NewBuckets : am.vvNew[b] \subseteq 0..(am.nIdCount - 1)

TriedIds == {id \in DOMAIN am.mapInfo : am.mapInfo[id].fInTried}
NewIds   == DOMAIN am.mapInfo \ TriedIds

(***************************************************************************)
(* The code's own consistency check, which only a build with DEBUG_ADDRMAN *)
(* runs: Check_ returns 0 after every call.  The counters agree with the   *)
(* tables; every entry is found by its address and at its place of the     *)
(* random order; a tried entry is in one tried bucket, once, and in no new *)
(* one; a new entry is in exactly nRefCount new buckets, between one and   *)
(* NewBucketsPerAddress of them.                                           *)
(***************************************************************************)
CheckPasses ==
    /\ Len(am.vRandom) = am.nTried + am.nNew
    /\ Cardinality(TriedIds) = am.nTried
    /\ Cardinality(NewIds) = am.nNew
    /\ \A id \in DOMAIN am.mapInfo :
          LET info == am.mapInfo[id]
          IN  /\ Known(am, info.addr) /\ am.mapAddr[Host(info.addr)] = id
              /\ info.nRandomPos \in DOMAIN am.vRandom /\ am.vRandom[info.nRandomPos] = id
              /\ info.fInTried => info.nLastSuccess # 0 /\ info.nRefCount = 0
              /\ ~info.fInTried => info.nRefCount \in 1..NewBucketsPerAddress
              /\ Cardinality({b \in NewBuckets : id \in am.vvNew[b]}) = info.nRefCount
              /\ Cardinality({p \in TriedBuckets \X (1..TriedBucketSize) :
                                  /\ p[2] \in DOMAIN am.vvTried[p[1]]
                                  /\ am.vvTried[p[1]][p[2]] = id})
                     = IF info.fInTried THEN 1 ELSE 0
    /\ \A b \in NewBuckets : am.vvNew[b] \subseteq NewIds
    /\ \A k \in TriedBuckets : \A p \in DOMAIN am.vvTried[k] : am.vvTried[k][p] \in TriedIds

(***************************************************************************)
(* "Only keep a limited number of addresses around": no bucket ever holds  *)
(* more than its size, although an evicted tried entry goes back to a new  *)
(* bucket without ShrinkNew ("there is certainly place there").            *)
(***************************************************************************)
BucketsLimited ==
    /\ \A b \in NewBuckets : Cardinality(am.vvNew[b]) <= NewBucketSize
    /\ \A k \in TriedBuckets : Len(am.vvTried[k]) <= TriedBucketSize

(***************************************************************************)
(* "They are never deleted while in the tried table, only possibly evicted *)
(* back to the new table": an address that was tried is still known after  *)
(* any call and any restart.                                               *)
(***************************************************************************)
TriedNeverDeleted ==
    [][\A id \in TriedIds : Host(am.mapInfo[id].addr) \in DOMAIN am'.mapAddr]_am

\* What a table says of addresses, whatever their ids are.
HostsIn(a, S) == {Host(a.mapInfo[id].addr) : id \in S}
Meaning(a) ==
    [entries |-> {[i \in {"addr", "source", "nLastSuccess", "nRefCount", "fInTried"} |->
                      a.mapInfo[id][i]] : id \in DOMAIN a.mapInfo},
     new     |-> [b \in NewBuckets |-> HostsIn(a, a.vvNew[b])],
     tried   |-> [k \in TriedBuckets |->
                     HostsIn(a, {a.vvTried[k][p] : p \in DOMAIN a.vvTried[k]})]]

(***************************************************************************)
(* A dump that is read back says the same of every address, although ids,  *)
(* tried buckets, mapAddr and vRandom are not in the file and are built    *)
(* again (the serialization of CAddrMan).                                  *)
(***************************************************************************)
SurvivesRestart == Meaning(Deserialize(Serialize(am))) = Meaning(am)
=============================================================================
