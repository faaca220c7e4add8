---------------------------- MODULE LedgerProofs ----------------------------
(***************************************************************************)
(* The theorems about the transaction index: whatever branches have been   *)
(* connected and disconnected, it is the ledger of the chain the database  *)
(* stands at, the money supply is the value of its unspent outputs, and    *)
(* ConnectBlock decides as the rule ValidBlock does, so that the ledger    *)
(* implements BestChain.  The last part is about the memory pool and the   *)
(* orphan transactions: two transactions of the pool never spend the same  *)
(* output, none is in the chain, and the two maps of orphans agree.        *)
(***************************************************************************)
EXTENDS TxRelay, BlockTreeProofs, FiniteSetTheorems

-----------------------------------------------------------------------------
(***************************************************************************)
(* The index that a set T of transactions should have.  home is the block  *)
(* of each of them.                                                        *)
(***************************************************************************)
Spent(T, o) == IF \E u \in T : o \in vin[u] THEN CHOOSE u \in T : o \in vin[u] ELSE NULL

Entry(T, home, t) == [pos |-> home[t], vSpent |-> [n \in 1..Len(vout[t]) |-> Spent(T, <<t, n>>)]]

Table(T, home) == [t \in Txs |-> IF t \in T THEN Entry(T, home, t) ELSE NULL]

\* No output is spent twice, and what is spent exists.
Sound(T) ==
    /\ T \subseteq Txs
    /\ \A t, u \in T : \A o \in vin[t] : o \in vin[u] => t = u
    /\ \A t \in T : \A o \in vin[t] : o[1] \in T /\ o[2] \in 1..Len(vout[o[1]])

\* An outpoint is a pair of a transaction and a number.
LEMMA OutpointPair ==
    ASSUME NEW t \in Txs, NEW o \in vin[t]
    PROVE  o \in Outpoints /\ o = <<o[1], o[2]>> /\ o[1] \in Txs /\ o[1] \in Prevs(t)
<1>1. o \in Outpoints
  BY LedgerAssumption
<1>2. o = <<o[1], o[2]>> /\ o[1] \in Txs
  BY <1>1 DEF Outpoints
<1>3. QED
  BY <1>1, <1>2 DEF Prevs

\* The one who spends an output is found.
LEMMA SpentIs ==
    ASSUME NEW T, Sound(T), NEW u \in T, NEW o \in vin[u]
    PROVE  Spent(T, o) = u /\ u # NULL
<1>1. \A w \in T : o \in vin[w] => w = u
  BY DEF Sound
<1>2. u # NULL
  BY LedgerAssumption DEF Sound
<1>3. QED
  BY <1>1, <1>2 DEF Spent

\* With one transaction more, only the outputs that it spends change hands.
LEMMA SpentSame ==
    ASSUME NEW T, NEW t \in Txs, Sound(T), Sound(T \cup {t}), NEW o, o \notin vin[t]
    PROVE  Spent(T \cup {t}, o) = Spent(T, o)
<1>1. CASE \E u \in T : o \in vin[u]
  <2>1. PICK u \in T : o \in vin[u]
    BY <1>1
  <2>2. Spent(T, o) = u
    BY <2>1, SpentIs
  <2>3. u \in T \cup {t}
    OBVIOUS
  <2>4. Spent(T \cup {t}, o) = u
    BY <2>1, <2>3, SpentIs
  <2>5. QED
    BY <2>2, <2>4
<1>2. CASE ~ \E u \in T : o \in vin[u]
  BY <1>2 DEF Spent
<1>3. QED
  BY <1>1, <1>2

\* An entry is never the null pointer.
LEMMA EntryNotNull ==
    ASSUME NEW T \in SUBSET Txs, NEW home \in [Txs -> Blocks], NEW t \in Txs
    PROVE  Entry(T, home, t) # NULL
<1>1. \A o : Spent(T, o) \in Txs \cup {NULL}
  BY DEF Spent
<1>2. Len(vout[t]) \in Nat
  BY LedgerAssumption
<1>3. [n \in 1..Len(vout[t]) |-> Spent(T, <<t, n>>)] \in Seq(Txs \cup {NULL})
  BY <1>1, <1>2
<1>4. Entry(T, home, t) \in [pos : Blocks, vSpent : Seq(Txs \cup {NULL})]
  BY <1>3 DEF Entry
<1>5. QED
  BY <1>4, LedgerAssumption

\* Another spender in an entry.
LEMMA EntryWithSpent ==
    ASSUME NEW p, NEW v, NEW w, NEW e, e = [pos |-> p, vSpent |-> v]
    PROVE  [e EXCEPT !.vSpent = w] = [pos |-> p, vSpent |-> w]
OBVIOUS

\* The index after a transaction of b is connected, and after t is disconnected.
WithTx(idx, t, b) == [MarkSpent(idx, t) EXCEPT ![t] = NewEntry(t, b)]
WithoutTx(idx, t) == [GiveBack(idx, t) EXCEPT ![t] = NULL]

(***************************************************************************)
(* A transaction that spends outputs that exist and nobody has spent may   *)
(* be added, and the index of ConnectInputs is the one it should be.       *)
(***************************************************************************)
LEMMA AddTx ==
    ASSUME NEW T, Sound(T), NEW home, NEW t \in Txs, t \notin T,
           FetchInputs(Table(T, home), t),
           \A o \in vin[t] : Table(T, home)[o[1]].vSpent[o[2]] = NULL
    PROVE  /\ Sound(T \cup {t})
           /\ WithTx(Table(T, home), t, home[t]) = Table(T \cup {t}, home)
<1> DEFINE b   == home[t]
           idx == Table(T, home)
<1> DEFINE U == T \cup {t}
<1>1. ASSUME NEW o \in vin[t]
      PROVE  /\ o[1] \in T /\ o[1] # t /\ o[2] \in 1..Len(vout[o[1]])
             /\ \A u \in T : o \notin vin[u]
  <2>1. o = <<o[1], o[2]>> /\ o[1] \in Txs
    BY OutpointPair
  <2>2. idx[o[1]] # NULL /\ o[2] \in 1..Len(vout[o[1]])
    BY DEF FetchInputs
  <2>3. o[1] \in T
    BY <2>1, <2>2 DEF Table
  <2>4. idx[o[1]].vSpent[o[2]] = Spent(T, o)
    BY <2>1, <2>2, <2>3 DEF Table, Entry
  <2>5. ASSUME NEW u \in T, o \in vin[u] PROVE FALSE
    BY <2>4, <2>5, SpentIs
  <2>6. QED
    BY <2>2, <2>3, <2>5
<1>2. Sound(U)
  <2>1. U \subseteq Txs
    BY DEF Sound
  <2>2. \A v, u \in U : \A o \in vin[v] : o \in vin[u] => v = u
    BY <1>1 DEF Sound
  <2>3. \A v \in U : \A o \in vin[v] : o[1] \in U /\ o[2] \in 1..Len(vout[o[1]])
    BY <1>1 DEF Sound
  <2>4. QED
    BY <2>1, <2>2, <2>3 DEF Sound
<1>3. \A n : Spent(U, <<t, n>>) = NULL
  <2> SUFFICES ASSUME NEW n, NEW u \in U, <<t, n>> \in vin[u] PROVE FALSE
    BY DEF Spent
  <2>1. CASE u = t
    BY <1>1, <2>1
  <2>2. CASE u \in T
    BY <2>2 DEF Sound
  <2>3. QED
    BY <2>1, <2>2
<1>4. Prevs(t) \subseteq T
  BY <1>1 DEF Prevs
<1> DEFINE r == WithTx(idx, t, b)
<1>5. r = [u \in Txs |-> IF u = t THEN NewEntry(t, b) ELSE MarkSpent(idx, t)[u]]
  BY DEF MarkSpent, WithTx
<1>6. ASSUME NEW u \in Txs PROVE r[u] = Table(U, home)[u]
  <2>1. CASE u = t
    <3>1. r[u] = NewEntry(t, b)
      BY <1>5, <2>1
    <3>2. [n \in 1..Len(vout[t]) |-> Spent(U, <<t, n>>)] = [n \in 1..Len(vout[t]) |-> NULL]
      BY <1>3
    <3>3. Table(U, home)[u] = Entry(U, home, t)
      BY <2>1 DEF Table
    <3>4. QED
      BY <3>1, <3>2, <3>3 DEF Entry, NewEntry
  <2>2. CASE u # t /\ u \notin T
    <3>1. r[u] = idx[u]
      BY <1>4, <1>5, <2>2 DEF MarkSpent
    <3>2. QED
      BY <2>2, <3>1 DEF Table
  <2>3. CASE u # t /\ u \in T /\ u \notin Prevs(t)
    <3>1. r[u] = Entry(T, home, u)
      BY <1>5, <2>3 DEF MarkSpent, Table
    <3>2. \A n : <<u, n>> \notin vin[t]
      <4> SUFFICES ASSUME NEW n, <<u, n>> \in vin[t] PROVE FALSE
        OBVIOUS
      <4>1. <<u, n>>[1] = u
        OBVIOUS
      <4>2. QED
        BY <2>3, <4>1 DEF Prevs
    <3>3. \A n : Spent(U, <<u, n>>) = Spent(T, <<u, n>>)
      BY <1>2, <3>2, SpentSame
    <3>4. Entry(U, home, u) = Entry(T, home, u)
      BY <3>3 DEF Entry
    <3>5. QED
      BY <2>3, <3>1, <3>4 DEF Table
  <2>4. CASE u # t /\ u \in T /\ u \in Prevs(t)
    <3> DEFINE x == Entry(T, home, u)
               v == [n \in 1..Len(vout[u]) |-> Spent(T, <<u, n>>)]
    <3>1. x = [pos |-> home[u], vSpent |-> v] /\ idx[u] = x
      BY <2>4 DEF Entry, Table
    <3>2. r[u] = [idx[u] EXCEPT !.vSpent = [n \in DOMAIN @ |->
                     IF <<u, n>> \in vin[t] THEN t ELSE @[n]]]
      BY <1>5, <2>4 DEF MarkSpent
    <3>3. r[u] = [pos |-> home[u], vSpent |-> [n \in 1..Len(vout[u]) |->
                     IF <<u, n>> \in vin[t] THEN t ELSE Spent(T, <<u, n>>)]]
      <4> DEFINE y == idx[u].vSpent
                 w == [n \in DOMAIN y |-> IF <<u, n>> \in vin[t] THEN t ELSE y[n]]
      <4>1. y = [n \in 1..Len(vout[u]) |-> Spent(T, <<u, n>>)]
        BY <3>1
      <4>2. w = [n \in 1..Len(vout[u]) |->
                    IF <<u, n>> \in vin[t] THEN t ELSE Spent(T, <<u, n>>)]
        BY <4>1
      <4>3. r[u] = [idx[u] EXCEPT !.vSpent = w]
        BY <3>2
      <4> HIDE DEF y, w
      <4>4. r[u] = [pos |-> home[u], vSpent |-> w]
        <5>1. [idx[u] EXCEPT !.vSpent = w] = [pos |-> home[u], vSpent |-> w]
          BY <3>1, EntryWithSpent
        <5>2. QED
          BY <4>3, <5>1
      <4>5. QED
        BY <4>2, <4>4
    <3>4. ASSUME NEW n \in 1..Len(vout[u])
          PROVE  Spent(U, <<u, n>>) = IF <<u, n>> \in vin[t] THEN t ELSE Spent(T, <<u, n>>)
      <4>1. CASE <<u, n>> \in vin[t]
        <5>1. t \in U
          OBVIOUS
        <5>2. QED
          BY <1>2, <4>1, <5>1, SpentIs
      <4>2. CASE <<u, n>> \notin vin[t]
        BY <1>2, <4>2, SpentSame
      <4>3. QED
        BY <4>1, <4>2
    <3> HIDE DEF x, v, r
    <3>5. Entry(U, home, u) = r[u]
      BY <3>3, <3>4 DEF Entry
    <3>6. QED
      BY <2>4, <3>5 DEF Table
  <2>5. QED
    BY <2>1, <2>2, <2>3, <2>4
<1>7. DOMAIN r = Txs /\ Table(U, home) = [u \in Txs |-> Table(U, home)[u]]
  BY <1>5 DEF Table
<1>8. r = Table(U, home)
  <2> HIDE DEF U
  <2>1. r = [u \in Txs |-> r[u]]
    BY <1>5
  <2> HIDE DEF r
  <2>2. QED
    BY <1>6, <1>7, <2>1
<1>9. QED
  BY <1>2, <1>8

(***************************************************************************)
(* DisconnectInputs of a transaction that was added last takes it out, and *)
(* does not fail.                                                          *)
(***************************************************************************)
LEMMA RemoveTx ==
    ASSUME NEW T, Sound(T), NEW home \in [Txs -> Blocks], NEW t \in Txs, t \notin T,
           Sound(T \cup {t})
    PROVE  /\ FetchInputs(Table(T \cup {t}, home), t)
           /\ WithoutTx(Table(T \cup {t}, home), t) = Table(T, home)
<1> DEFINE idx == Table(T \cup {t}, home)
<1> DEFINE U == T \cup {t}
<1>1. U \in SUBSET Txs /\ t \in U
  BY DEF Sound
<1>2. Prevs(t) \subseteq U
  BY <1>1 DEF Prevs, Sound
<1>3. FetchInputs(idx, t)
  <2> SUFFICES ASSUME NEW o \in vin[t]
               PROVE  idx[o[1]] # NULL /\ o[2] \in 1..Len(vout[o[1]])
    BY DEF FetchInputs
  <2>1. o[1] \in U /\ o[2] \in 1..Len(vout[o[1]])
    BY <1>1 DEF Sound
  <2>2. o[1] \in Txs /\ idx[o[1]] = Entry(U, home, o[1])
    BY <1>1, <2>1 DEF Table
  <2>3. QED
    BY <1>1, <2>1, <2>2, EntryNotNull
<1> DEFINE r == WithoutTx(idx, t)
<1>4. r = [u \in Txs |-> IF u = t THEN NULL ELSE GiveBack(idx, t)[u]]
  BY DEF GiveBack, WithoutTx
<1>5. ASSUME NEW u \in Txs PROVE r[u] = Table(T, home)[u]
  <2>1. CASE u = t
    BY <1>4, <2>1 DEF Table
  <2>2. CASE u # t /\ u \notin T
    <3>1. r[u] = idx[u]
      BY <1>2, <1>4, <2>2 DEF GiveBack
    <3>2. QED
      BY <2>2, <3>1 DEF Table
  <2>3. CASE u # t /\ u \in T /\ u \notin Prevs(t)
    <3>1. r[u] = Entry(U, home, u)
      BY <1>4, <2>3 DEF GiveBack, Table
    <3>2. \A n : <<u, n>> \notin vin[t]
      <4> SUFFICES ASSUME NEW n, <<u, n>> \in vin[t] PROVE FALSE
        OBVIOUS
      <4>1. <<u, n>>[1] = u
        OBVIOUS
      <4>2. QED
        BY <2>3, <4>1 DEF Prevs
    <3>3. \A n : Spent(U, <<u, n>>) = Spent(T, <<u, n>>)
      BY <3>2, SpentSame
    <3>4. Entry(U, home, u) = Entry(T, home, u)
      BY <3>3 DEF Entry
    <3>5. QED
      BY <2>3, <3>1, <3>4 DEF Table
  <2>4. CASE u # t /\ u \in T /\ u \in Prevs(t)
    <3> DEFINE v == [n \in 1..Len(vout[u]) |-> Spent(U, <<u, n>>)]
    <3>1. idx[u] = [pos |-> home[u], vSpent |-> v]
      BY <2>4 DEF Entry, Table
    <3> HIDE DEF v
    <3>2. r[u] = [idx[u] EXCEPT !.vSpent = [n \in DOMAIN @ |->
                     IF <<u, n>> \in vin[t] THEN NULL ELSE @[n]]]
      BY <1>4, <2>4 DEF GiveBack
    <3>3. r[u] = [pos |-> home[u], vSpent |-> [n \in 1..Len(vout[u]) |->
                     IF <<u, n>> \in vin[t] THEN NULL ELSE Spent(U, <<u, n>>)]]
      <4> DEFINE y == idx[u].vSpent
                 w == [n \in DOMAIN y |-> IF <<u, n>> \in vin[t] THEN NULL ELSE y[n]]
      <4>0. y = v
        BY <3>1
      <4>1. y = [n \in 1..Len(vout[u]) |-> Spent(U, <<u, n>>)]
        BY <4>0 DEF v
      <4>2. w = [n \in 1..Len(vout[u]) |->
                    IF <<u, n>> \in vin[t] THEN NULL ELSE Spent(U, <<u, n>>)]
        BY <4>1
      <4>3. r[u] = [idx[u] EXCEPT !.vSpent = w]
        BY <3>2
      <4> HIDE DEF y, w
      <4>4. r[u] = [pos |-> home[u], vSpent |-> w]
        <5>1. [idx[u] EXCEPT !.vSpent = w] = [pos |-> home[u], vSpent |-> w]
          BY <3>1, EntryWithSpent
        <5>2. QED
          BY <4>3, <5>1
      <4>5. QED
        BY <4>2, <4>4
    <3>4. ASSUME NEW n \in 1..Len(vout[u])
          PROVE  Spent(T, <<u, n>>) = IF <<u, n>> \in vin[t] THEN NULL ELSE Spent(U, <<u, n>>)
      <4>1. CASE <<u, n>> \in vin[t]
        <5>1. \A w \in T : <<u, n>> \notin vin[w]
          BY <4>1, <1>1 DEF Sound
        <5>2. QED
          BY <4>1, <5>1 DEF Spent
      <4>2. CASE <<u, n>> \notin vin[t]
        BY <4>2, SpentSame
      <4>3. QED
        BY <4>1, <4>2
    <3> HIDE DEF r
    <3>5. Entry(T, home, u) = r[u]
      BY <3>3, <3>4 DEF Entry
    <3>6. QED
      BY <2>4, <3>5 DEF Table
  <2>5. QED
    BY <2>1, <2>2, <2>3, <2>4
<1>6. r = Table(T, home)
  <2>1. r = [u \in Txs |-> r[u]] /\ Table(T, home) = [u \in Txs |-> Table(T, home)[u]]
    BY <1>4 DEF Table
  <2> HIDE DEF r
  <2>2. QED
    BY <1>5, <2>1
<1>7. QED
  BY <1>3, <1>6

-----------------------------------------------------------------------------
(***************************************************************************)
(* The transactions of the chain up to the k-th of the block b, and their  *)
(* blocks.  A block is clean when each of its transactions is new and      *)
(* keeps the whole sound.                                                  *)
(***************************************************************************)
Upto(b, k) == ChainTxs(pprev[b]) \cup {vtx[b][j] : j \in 1..k}

Home(b) == [u \in Txs |-> IF u \in ChainTxs(pprev[b]) THEN HomeOf(u, pprev[b]) ELSE b]

CleanTo(b, k) ==
    /\ Sound(Upto(b, 0))
    /\ \A j \in 1..k : /\ vtx[b][j] \notin Upto(b, j - 1) /\ Sound(Upto(b, j))
                       /\ \A o \in vin[vtx[b][j]] : o[1] \in Upto(b, j - 1)

Clean(b) == CleanTo(b, Len(vtx[b]))

CleanChain(b) == \A c \in Chain[b] \ {GenesisBlock} : Clean(c)

\* One transaction more.
LEMMA UptoNext ==
    ASSUME NEW b \in Blocks, NEW k \in 1..Len(vtx[b])
    PROVE  Upto(b, k) = Upto(b, k - 1) \cup {vtx[b][k]} /\ vtx[b][k] \in Txs
<1>1. vtx[b] \in Seq(Txs) /\ Len(vtx[b]) \in Nat
  BY LedgerAssumption
<1>2. 1..k = (1..(k - 1)) \cup {k}
  BY <1>1
<1>3. QED
  BY <1>1, <1>2 DEF Upto

\* The block of a transaction of a chain is on the chain.
LEMMA HomeOnChain ==
    ASSUME NEW b \in Blocks, NEW t \in ChainTxs(b)
    PROVE  HomeOf(t, b) \in Chain[b] \ {GenesisBlock} /\ t \in BlockTxs(HomeOf(t, b))
<1>1. \E c \in Chain[b] \ {GenesisBlock} : t \in BlockTxs(c)
  BY DEF ChainTxs
<1>2. QED
  BY <1>1 DEF HomeOf

\* Home names blocks.
LEMMA HomeType ==
    ASSUME NEW b \in Blocks \ {GenesisBlock}
    PROVE  Home(b) \in [Txs -> Blocks]
<1>1. pprev[b] \in Blocks
  BY TreeAssumption
<1>2. \A u \in ChainTxs(pprev[b]) : HomeOf(u, pprev[b]) \in Blocks
  BY <1>1, HomeOnChain, ChainClosed
<1>3. QED
  BY <1>2 DEF Home

\* A coinbase is not in a lower block of the chain.
LEMMA CoinBaseIsNew ==
    ASSUME NEW b \in Blocks \ {GenesisBlock}, NEW t \in BlockTxs(b), t \in CoinBases
    PROVE  t \notin ChainTxs(pprev[b])
<1> SUFFICES ASSUME t \in ChainTxs(pprev[b]) PROVE FALSE
  OBVIOUS
<1>1. pprev[b] \in Blocks /\ nHeight[b] = nHeight[pprev[b]] + 1
  BY TreeAssumption
<1>2. PICK c \in Chain[pprev[b]] \ {GenesisBlock} : t \in BlockTxs(c)
  BY DEF ChainTxs
<1>3. c \in Blocks /\ (c = pprev[b] \/ nHeight[c] < nHeight[pprev[b]])
  BY <1>1, ChainClosed, ChainBelow
<1>4. nHeight[c] # nHeight[b]
  BY <1>1, <1>3, TreeAssumption
<1>5. ToSet(vtx[b]) \cap ToSet(vtx[c]) \cap CoinBases = {}
  BY <1>2, <1>3, <1>4, CheckedBlocks
<1>6. QED
  BY <1>2, <1>5 DEF BlockTxs

-----------------------------------------------------------------------------
(***************************************************************************)
(* Sums over finite sets.                                                  *)
(***************************************************************************)
Total(f, S) == FoldFunction(+, 0, [x \in S |-> f[x]])

Pick(s) == CHOOSE x \in s : TRUE

\* The subsets of S of at most n elements, and it is the sum of f on each of them.
Small(S, n) == {s \in SUBSET S : Cardinality(s) <= n}

SumsOf(f, S, n, it) ==
    it = [s \in Small(S, n) |-> IF s = {} THEN 0 ELSE f[Pick(s)] + it[s \ {Pick(s)}]]

(***************************************************************************)
(* The value of the outputs that nobody in a set T of transactions spends. *)
(***************************************************************************)
Values  == [o \in Outpoints |-> Value(o)]
Outs(t) == {<<t, n>> : n \in 1..Len(vout[t])}

Free(T) == {o \in Outpoints : /\ o[1] \in T /\ o[2] \in 1..Len(vout[o[1]])
                              /\ \A u \in T : o \notin vin[u]}

Worth(T) == Total(Values, Free(T))

(***************************************************************************)
(* ConnectBlock.  TxOk says that the k-th transaction of b passes on the   *)
(* index of those before it.  As long as all do, the index is the one it   *)
(* should be, mint is what the free outputs have gained and fees is what   *)
(* the ordinary transactions leave to the coinbase.                        *)
(***************************************************************************)
TxOk(b, k) ==
    LET idx == Table(Upto(b, k - 1), Home(b))
    IN  /\ FetchInputs(idx, vtx[b][k])
        /\ vtx[b][k] \in CoinBases \/ ConnectInputs(idx, vtx[b][k], b)

FeeOf == [t \in Txs |-> GetValueIn[t] - GetValueOut[t]]

Paying(b, k) == {t \in {vtx[b][j] : j \in 1..k} : ~Minted(t)}

ConnectTxIn(e, s, t) == ConnectTx(e.db, e.b, s, t)

Connected(e, k, s) ==
    /\ s = [ok |-> s.ok, idx |-> s.idx, mint |-> s.mint, fees |-> s.fees] /\ s.ok \in BOOLEAN
    /\ s.ok <=> \A j \in 1..k : TxOk(e.b, j)
    /\ s.ok => /\ s.idx = Table(Upto(e.b, k), Home(e.b)) /\ CleanTo(e.b, k)
               /\ s.mint = Worth(Upto(e.b, k)) - Worth(Upto(e.b, 0))
               /\ s.fees = Total(FeeOf, Paying(e.b, k))

ConnectLoop == INSTANCE FoldInduction WITH Op <- ConnectTxIn, Good <- Connected

-----------------------------------------------------------------------------
\* A set without its first element.
LEMMA WithoutPick ==
    ASSUME NEW S, IsFiniteSet(S), NEW n \in Nat, NEW s \in Small(S, n + 1), s # {}
    PROVE  /\ Pick(s) \in s
           /\ s \ {Pick(s)} \in Small(S, n)
<1>1. Pick(s) \in s
  BY DEF Pick
<1>2. IsFiniteSet(s) /\ Cardinality(s) \in Nat
  BY FS_Subset, FS_CardinalityType DEF Small
<1>3. IsFiniteSet(s \ {Pick(s)}) /\ Cardinality(s \ {Pick(s)}) = Cardinality(s) - 1
  BY <1>1, <1>2, FS_RemoveElement
<1>4. QED
  BY <1>1, <1>2, <1>3 DEF Small

\* The function for sets of one element more.
LEMMA SumsNext ==
    ASSUME NEW S, IsFiniteSet(S), NEW f, NEW n \in Nat, NEW g, SumsOf(f, S, n, g)
    PROVE  \E h : SumsOf(f, S, n + 1, h)
<1> DEFINE h == [s \in Small(S, n + 1) |-> IF s = {} THEN 0 ELSE f[Pick(s)] + g[s \ {Pick(s)}]]
<1>1. ASSUME NEW s \in Small(S, n) PROVE h[s] = g[s]
  <2>1. s \in Small(S, n + 1)
    BY FS_Subset, FS_CardinalityType DEF Small
  <2>2. g[s] = IF s = {} THEN 0 ELSE f[Pick(s)] + g[s \ {Pick(s)}]
    BY DEF SumsOf
  <2>3. QED
    BY <2>1, <2>2
<1>2. ASSUME NEW s \in Small(S, n + 1)
      PROVE  h[s] = IF s = {} THEN 0 ELSE f[Pick(s)] + h[s \ {Pick(s)}]
  <2>1. CASE s = {}
    BY <2>1
  <2>2. CASE s # {}
    <3>1. s \ {Pick(s)} \in Small(S, n)
      BY <2>2, WithoutPick
    <3>2. h[s \ {Pick(s)}] = g[s \ {Pick(s)}]
      BY <1>1, <3>1
    <3>3. h[s] = f[Pick(s)] + g[s \ {Pick(s)}]
      BY <2>2
    <3>4. QED
      BY <2>2, <3>2, <3>3
  <2>3. QED
    BY <2>1, <2>2
<1>3. h = [s \in Small(S, n + 1) |-> IF s = {} THEN 0 ELSE f[Pick(s)] + h[s \ {Pick(s)}]]
  BY <1>2
<1>4. SumsOf(f, S, n + 1, h)
  BY <1>3 DEF SumsOf
<1>5. QED
  BY <1>4

\* The function exists for sets of any number of elements.
LEMMA SumsExist ==
    ASSUME NEW S, IsFiniteSet(S), NEW f, NEW n \in Nat
    PROVE  \E g : SumsOf(f, S, n, g)
<1> DEFINE N == {k \in Nat : \E g : SumsOf(f, S, k, g)}
<1>1. 0 \in N
  <2> DEFINE g == [s \in Small(S, 0) |-> 0]
  <2>1. \A s \in Small(S, 0) : s = {}
    <3> SUFFICES ASSUME NEW s \in Small(S, 0) PROVE s = {}
      OBVIOUS
    <3>1. IsFiniteSet(s) /\ Cardinality(s) \in Nat /\ Cardinality(s) <= 0
      BY FS_Subset, FS_CardinalityType DEF Small
    <3>2. Cardinality(s) = 0
      BY <3>1
    <3>3. QED
      BY <3>1, <3>2, FS_EmptySet
  <2>2. SumsOf(f, S, 0, g)
    BY <2>1 DEF SumsOf
  <2>3. QED
    BY <2>2
<1>2. ASSUME NEW k \in Nat, k \in N PROVE k + 1 \in N
  <2>1. PICK g : SumsOf(f, S, k, g)
    BY <1>2
  <2>2. \E h : SumsOf(f, S, k + 1, h)
    BY <2>1, SumsNext
  <2>3. QED
    BY <2>2
<1> HIDE DEF N
<1>3. Nat \subseteq N
  BY <1>1, <1>2, ConnectLoop!SetInduction
<1>4. QED
  BY <1>3 DEF N

\* Total is the value of that function at the whole set.
LEMMA TotalIsSum ==
    ASSUME NEW S, IsFiniteSet(S), NEW f
    PROVE  \E g : SumsOf(f, S, Cardinality(S), g) /\ Total(f, S) = g[S]
<1> DEFINE F == [x \in S |-> f[x]]
           n == Cardinality(S)
           D(g) == g = [s \in SUBSET S |->
                          IF s = {} THEN 0 ELSE F[Pick(s)] + g[s \ {Pick(s)}]]
           it == CHOOSE g : D(g)
<1>0. n \in Nat
  BY FS_CardinalityType
<1>1. Total(f, S) = it[S]
  BY DEF Total, FoldFunction, FoldFunctionOnSet, MapThenFoldSet, Pick
<1>2. Small(S, n) = SUBSET S
  BY FS_Subset DEF Small
<1>3. ASSUME NEW s \in SUBSET S, s # {} PROVE F[Pick(s)] = f[Pick(s)]
  BY <1>3 DEF Pick
<1>4. ASSUME NEW g PROVE D(g) <=> SumsOf(f, S, n, g)
  <2>1. [s \in SUBSET S |-> IF s = {} THEN 0 ELSE F[Pick(s)] + g[s \ {Pick(s)}]]
          = [s \in SUBSET S |-> IF s = {} THEN 0 ELSE f[Pick(s)] + g[s \ {Pick(s)}]]
    BY <1>3
  <2> HIDE DEF F, n
  <2>2. QED
    BY <1>2, <2>1 DEF SumsOf
<1>5. \E g : D(g)
  BY <1>0, <1>4, SumsExist
<1>6. D(it)
  BY <1>5
<1> HIDE DEF it, n, D
<1>7. QED
  BY <1>1, <1>4, <1>6 DEF n

\* The sums are numbers, and may be taken in any order.
LEMMA SumsInAnyOrder ==
    ASSUME NEW S, IsFiniteSet(S), NEW f, \A x \in S : f[x] \in Int, NEW n \in Nat, NEW g, SumsOf(f, S, n, g)
    PROVE  \A s \in Small(S, n) : g[s] \in Int /\ \A x \in s : g[s] = f[x] + g[s \ {x}]
<1> DEFINE N == {k \in Nat : \A s \in Small(S, n) : Cardinality(s) <= k =>
                    g[s] \in Int /\ \A x \in s : g[s] = f[x] + g[s \ {x}]}
<1>0. ASSUME NEW s \in Small(S, n) PROVE IsFiniteSet(s) /\ Cardinality(s) \in Nat
  BY FS_Subset, FS_CardinalityType DEF Small
<1>a. ASSUME NEW s \in Small(S, n)
      PROVE  s \subseteq S /\ g[s] = IF s = {} THEN 0 ELSE f[Pick(s)] + g[s \ {Pick(s)}]
  BY DEF Small, SumsOf
<1>b. ASSUME NEW s \in Small(S, n), NEW x \in s
      PROVE  s \ {x} \in Small(S, n) /\ Cardinality(s \ {x}) = Cardinality(s) - 1
  <2>1. Cardinality(s \ {x}) = Cardinality(s) - 1
    BY <1>0, FS_RemoveElement
  <2>2. s \subseteq S /\ Cardinality(s) <= n
    BY DEF Small
  <2>3. QED
    BY <1>0, <2>1, <2>2 DEF Small
<1>1. 0 \in N
  <2> SUFFICES ASSUME NEW s \in Small(S, n), Cardinality(s) <= 0
               PROVE  g[s] \in Int /\ \A x \in s : g[s] = f[x] + g[s \ {x}]
    OBVIOUS
  <2>1. Cardinality(s) = 0
    BY <1>0
  <2>2. s = {}
    BY <1>0, <2>1, FS_EmptySet
  <2>3. QED
    BY <1>a, <2>2
<1>2. ASSUME NEW k \in Nat, k \in N PROVE k + 1 \in N
  <2> SUFFICES ASSUME NEW s \in Small(S, n), Cardinality(s) <= k + 1
               PROVE  g[s] \in Int /\ \A x \in s : g[s] = f[x] + g[s \ {x}]
    OBVIOUS
  <2>0. CASE s = {}
    BY <1>a, <2>0
  <2>1. CASE s # {}
    <3> DEFINE p == Pick(s)
               sp == s \ {p}
    <3>1. p \in s /\ g[s] = f[p] + g[sp] /\ f[p] \in Int
      BY <1>a, <2>1 DEF Pick
    <3> HIDE DEF p
    <3>2. ASSUME NEW x \in s PROVE s \ {x} \in Small(S, n) /\ Cardinality(s \ {x}) <= k
      BY <1>0, <1>b
    <3>3. g[sp] \in Int /\ \A x \in sp : g[sp] = f[x] + g[sp \ {x}]
      BY <1>2, <3>1, <3>2
    <3>4. ASSUME NEW x \in s PROVE g[s] = f[x] + g[s \ {x}]
      <4>1. CASE x = p
        BY <3>1, <4>1
      <4>2. CASE x # p
        <5>1. p \in s \ {x} /\ x \in sp /\ (s \ {x}) \ {p} = sp \ {x}
          BY <3>1, <4>2
        <5>2. s \ {x} \in Small(S, n) /\ Cardinality(s \ {x}) <= k
          BY <3>2
        <5>3. g[s \ {x}] \in Int /\ g[s \ {x}] = f[p] + g[(s \ {x}) \ {p}]
          BY <1>2, <5>1, <5>2
        <5>4. g[sp] = f[x] + g[sp \ {x}]
          BY <3>3, <5>1
        <5>5. sp \ {x} \in Small(S, n) /\ Cardinality(sp \ {x}) <= k
          <6>1. sp \in Small(S, n) /\ Cardinality(sp) <= k
            BY <3>1, <3>2
          <6>2. sp \ {x} \in Small(S, n) /\ Cardinality(sp \ {x}) = Cardinality(sp) - 1 /\ Cardinality(sp) \in Nat
            BY <1>0, <1>b, <5>1, <6>1
          <6>3. QED
            BY <6>1, <6>2
        <5>6. g[sp \ {x}] \in Int
          BY <1>2, <5>5
        <5>7. f[x] \in Int
          BY <1>a
        <5> DEFINE u == g[sp \ {x}]
                   v == g[s \ {x}]
        <5>8. g[s] = f[p] + (f[x] + u) /\ v = f[p] + u
          BY <3>1, <5>1, <5>3, <5>4
        <5> HIDE DEF u, v, sp
        <5>9. u \in Int
          BY <5>6 DEF u
        <5>10. f[p] + (f[x] + u) = f[x] + (f[p] + u)
          BY <3>1, <5>7, <5>9
        <5>11. QED
          BY <5>8, <5>10 DEF v
      <4>3. QED
        BY <4>1, <4>2
    <3>5. g[s] \in Int
      BY <3>1, <3>3
    <3>6. QED
      BY <3>4, <3>5
  <2>2. QED
    BY <2>0, <2>1
<1> HIDE DEF N
<1>3. Nat \subseteq N
  BY <1>1, <1>2, ConnectLoop!SetInduction
<1>4. QED
  BY <1>0, <1>3 DEF N

\* The sum of a set does not depend on the set it is part of.
LEMMA SumsAgree ==
    ASSUME NEW S, IsFiniteSet(S), NEW f, NEW n \in Nat, NEW g, SumsOf(f, S, n, g),
           NEW T \in SUBSET S, NEW m \in Nat, NEW h, SumsOf(f, T, m, h)
    PROVE  \A s \in Small(S, n) \cap Small(T, m) : g[s] = h[s]
<1> DEFINE W == Small(S, n) \cap Small(T, m)
           N == {k \in Nat : \A s \in W : Cardinality(s) <= k => g[s] = h[s]}
<1>0. ASSUME NEW s \in W PROVE IsFiniteSet(s) /\ Cardinality(s) \in Nat
  BY FS_Subset, FS_CardinalityType DEF Small
<1>a. ASSUME NEW s \in W, s = {} PROVE g[s] = h[s]
  BY <1>a DEF SumsOf
<1>b. ASSUME NEW s \in W, s # {}
      PROVE  /\ g[s] = f[Pick(s)] + g[s \ {Pick(s)}] /\ h[s] = f[Pick(s)] + h[s \ {Pick(s)}]
             /\ s \ {Pick(s)} \in W /\ Cardinality(s \ {Pick(s)}) = Cardinality(s) - 1
  <2>1. s \subseteq S /\ s \subseteq T /\ Cardinality(s) <= n /\ Cardinality(s) <= m
    BY DEF Small
  <2>2. IsFiniteSet(s) /\ Cardinality(s) \in Nat
    BY <1>0
  <2>3. g[s] = f[Pick(s)] + g[s \ {Pick(s)}]
    BY <1>b DEF SumsOf
  <2>4. h[s] = f[Pick(s)] + h[s \ {Pick(s)}]
    BY <1>b DEF SumsOf
  <2>5. Pick(s) \in s
    BY <1>b DEF Pick
  <2>6. Cardinality(s \ {Pick(s)}) = Cardinality(s) - 1
    BY <2>2, <2>5, FS_RemoveElement
  <2>7. s \ {Pick(s)} \in W
    BY <2>1, <2>2, <2>6 DEF Small
  <2>8. QED
    BY <2>3, <2>4, <2>6, <2>7
<1>1. 0 \in N
  <2> SUFFICES ASSUME NEW s \in W, Cardinality(s) <= 0 PROVE g[s] = h[s]
    OBVIOUS
  <2>1. Cardinality(s) = 0
    BY <1>0
  <2>2. s = {}
    BY <1>0, <2>1, FS_EmptySet
  <2>3. QED
    BY <1>a, <2>2
<1> HIDE DEF W
<1>2. ASSUME NEW k \in Nat, k \in N PROVE k + 1 \in N
  <2> SUFFICES ASSUME NEW s \in W, Cardinality(s) <= k + 1 PROVE g[s] = h[s]
    OBVIOUS
  <2>1. CASE s = {}
    BY <1>a, <2>1
  <2>2. CASE s # {}
    <3> DEFINE sp == s \ {Pick(s)}
    <3>0. /\ g[s] = f[Pick(s)] + g[sp] /\ h[s] = f[Pick(s)] + h[sp]
          /\ sp \in W /\ Cardinality(sp) = Cardinality(s) - 1
      BY <1>b, <2>2
    <3> HIDE DEF sp
    <3>1. sp \in W /\ Cardinality(sp) <= k /\ g[s] = f[Pick(s)] + g[sp] /\ h[s] = f[Pick(s)] + h[sp]
      BY <1>0, <3>0
    <3>2. g[sp] = h[sp]
      BY <1>2, <3>1
    <3>3. QED
      BY <3>1, <3>2
  <2>3. QED
    BY <2>1, <2>2
<1> HIDE DEF N
<1>3. Nat \subseteq N
  BY <1>1, <1>2, ConnectLoop!SetInduction
<1>4. QED
  BY <1>0, <1>3 DEF N, W

\* The sum over no elements.
LEMMA SumOfNone ==
    ASSUME NEW f
    PROVE  Total(f, {}) = 0
<1>1. IsFiniteSet({}) /\ Cardinality({}) = 0
  BY FS_EmptySet
<1>2. PICK g : SumsOf(f, {}, Cardinality({}), g) /\ Total(f, {}) = g[{}]
  BY <1>1, TotalIsSum
<1>3. {} \in Small({}, Cardinality({}))
  BY <1>1 DEF Small
<1>4. QED
  BY <1>2, <1>3 DEF SumsOf

\* One element is taken out of a sum.
LEMMA SumWithout ==
    ASSUME NEW S, IsFiniteSet(S), NEW f, \A y \in S : f[y] \in Int, NEW x \in S
    PROVE  /\ Total(f, S) \in Int /\ Total(f, S \ {x}) \in Int
           /\ Total(f, S) = f[x] + Total(f, S \ {x})
<1> DEFINE n == Cardinality(S)
           T == S \ {x}
<1>1. n \in Nat /\ IsFiniteSet(T) /\ Cardinality(T) = n - 1
  BY FS_CardinalityType, FS_RemoveElement
<1>2. n - 1 \in Nat
  BY <1>1, FS_CardinalityType
<1>3. PICK g : SumsOf(f, S, n, g) /\ Total(f, S) = g[S]
  BY TotalIsSum
<1>4. PICK h : SumsOf(f, T, n - 1, h) /\ Total(f, T) = h[T]
  BY <1>1, TotalIsSum
<1>5. S \in Small(S, n) /\ T \in Small(S, n) /\ T \in Small(T, n - 1)
  BY <1>1 DEF Small
<1> HIDE DEF n
<1>6. g[S] \in Int /\ g[S] = f[x] + g[T] /\ g[T] \in Int
  <2>1. \A s \in Small(S, n) : g[s] \in Int /\ \A y \in s : g[s] = f[y] + g[s \ {y}]
    BY <1>1, <1>3, SumsInAnyOrder
  <2>2. QED
    BY <1>5, <2>1
<1>7. g[T] = h[T]
  BY <1>1, <1>2, <1>3, <1>4, <1>5, SumsAgree
<1>8. QED
  BY <1>3, <1>4, <1>6, <1>7

\* A sum of numbers is a number.
LEMMA SumType ==
    ASSUME NEW S, IsFiniteSet(S), NEW f, \A y \in S : f[y] \in Int
    PROVE  Total(f, S) \in Int
<1>1. CASE S = {}
  BY <1>1, SumOfNone
<1>2. CASE S # {}
  <2>1. PICK x \in S : TRUE
    BY <1>2
  <2>2. QED
    BY SumWithout
<1>3. QED
  BY <1>1, <1>2

\* One element is added to a sum.
LEMMA SumWith ==
    ASSUME NEW S, IsFiniteSet(S), NEW f, NEW x, x \notin S, \A y \in S \cup {x} : f[y] \in Int
    PROVE  /\ Total(f, S \cup {x}) \in Int /\ Total(f, S) \in Int
           /\ Total(f, S \cup {x}) = Total(f, S) + f[x]
<1> DEFINE T == S \cup {x}
<1>1. IsFiniteSet(T) /\ x \in T /\ T \ {x} = S /\ \A y \in T : f[y] \in Int
  BY FS_AddElement
<1> HIDE DEF T
<1>2. Total(f, T) \in Int /\ Total(f, T \ {x}) \in Int /\ Total(f, T) = f[x] + Total(f, T \ {x})
  BY <1>1, SumWithout
<1>3. f[x] \in Int
  BY <1>1
<1> DEFINE u == Total(f, S)
<1>4. u \in Int /\ Total(f, T) \in Int /\ Total(f, T) = f[x] + u
  BY <1>1, <1>2
<1> HIDE DEF u
<1>5. Total(f, T) = u + f[x]
  BY <1>3, <1>4
<1>6. QED
  BY <1>4, <1>5 DEF T, u

\* The sum over two sets without a common element.
LEMMA SumOfBoth ==
    ASSUME NEW S, IsFiniteSet(S), NEW T, IsFiniteSet(T), S \cap T = {},
           NEW f, \A y \in S \cup T : f[y] \in Int
    PROVE  Total(f, S \cup T) = Total(f, S) + Total(f, T)
<1> DEFINE N == {k \in Nat : \A R \in SUBSET T : Cardinality(R) <= k =>
                    Total(f, S \cup R) = Total(f, S) + Total(f, R)}
<1>0. Total(f, S) \in Int
  BY SumType
<1>1. 0 \in N
  <2> SUFFICES ASSUME NEW R \in SUBSET T, Cardinality(R) <= 0
               PROVE  Total(f, S \cup R) = Total(f, S) + Total(f, R)
    OBVIOUS
  <2>1. IsFiniteSet(R) /\ Cardinality(R) \in Nat
    BY FS_Subset, FS_CardinalityType
  <2>2. Cardinality(R) = 0
    BY <2>1
  <2>3. R = {}
    BY <2>1, <2>2, FS_EmptySet
  <2>4. S \cup R = S
    BY <2>3
  <2>5. Total(f, R) = 0
    BY <2>3, SumOfNone
  <2>6. QED
    BY <1>0, <2>4, <2>5
<1>2. ASSUME NEW k \in Nat, k \in N PROVE k + 1 \in N
  <2> SUFFICES ASSUME NEW R \in SUBSET T, Cardinality(R) <= k + 1
               PROVE  Total(f, S \cup R) = Total(f, S) + Total(f, R)
    OBVIOUS
  <2>1. IsFiniteSet(R) /\ Cardinality(R) \in Nat
    BY FS_Subset, FS_CardinalityType
  <2>2. CASE R = {}
    <3>1. S \cup R = S
      BY <2>2
    <3>2. Total(f, R) = 0
      BY <2>2, SumOfNone
    <3>3. Total(f, S \cup R) = Total(f, S)
      BY <3>1, Zenon
    <3>4. QED
      BY <1>0, <3>2, <3>3
  <2>3. CASE R # {}
    <3>1. PICK x \in R : TRUE
      BY <2>3
    <3> DEFINE Q == R \ {x}
    <3>2. IsFiniteSet(Q) /\ Cardinality(Q) <= k /\ Q \in SUBSET T
      <4>1. IsFiniteSet(Q) /\ Cardinality(Q) = Cardinality(R) - 1
        BY <2>1, FS_RemoveElement
      <4>2. QED
        BY <2>1, <4>1
    <3>3. Total(f, S \cup Q) = Total(f, S) + Total(f, Q)
      BY <1>2, <3>2
    <3>4. x \notin S \cup Q /\ (S \cup Q) \cup {x} = S \cup R /\ Q \cup {x} = R /\ x \notin Q
      BY <3>1
    <3> HIDE DEF Q
    <3>5. IsFiniteSet(S \cup Q)
      BY <3>2, FS_Union
    <3> DEFINE U == S \cup Q
    <3>6. \A y \in U \cup {x} : f[y] \in Int
      BY <3>2
    <3>6a. x \notin U /\ IsFiniteSet(U)
      BY <3>4, <3>5
    <3> HIDE DEF U
    <3>7. Total(f, U \cup {x}) = Total(f, U) + f[x]
      BY <3>6, <3>6a, SumWith
    <3>8. \A y \in Q \cup {x} : f[y] \in Int
      BY <3>2
    <3>9. Total(f, Q \cup {x}) = Total(f, Q) + f[x] /\ Total(f, Q) \in Int
      BY <3>2, <3>4, <3>8, SumWith
    <3>10. f[x] \in Int
      BY <3>8
    <3>11. Total(f, S \cup R) = (Total(f, S) + Total(f, Q)) + f[x]
      BY <3>3, <3>4, <3>7 DEF U
    <3>12. Total(f, R) = Total(f, Q) + f[x]
      BY <3>4, <3>9
    <3>13. QED
      BY <1>0, <3>9, <3>10, <3>11, <3>12
  <2>4. QED
    BY <2>2, <2>3
<1> HIDE DEF N
<1>3. Nat \subseteq N
  BY <1>1, <1>2, ConnectLoop!SetInduction
<1>4. Cardinality(T) \in Nat
  BY FS_CardinalityType
<1>5. QED
  BY <1>3, <1>4 DEF N

-----------------------------------------------------------------------------
\* There are finitely many transactions and outputs.
LEMMA FinitelyMany == IsFiniteSet(Txs) /\ IsFiniteSet(Outpoints)
<1> DEFINE n == Len(HashOrder)
           f == [i \in 1..n |-> HashOrder[i]]
<1>1. n \in Nat /\ HashOrder \in Seq(Txs) /\ ToSet(HashOrder) = Txs
  BY TxRelayAssumption
<1>2. \A t \in Txs : \E i \in 1..n : HashOrder[i] = t
  BY <1>1 DEF ToSet
<1>3. f \in Surjection(1..n, Txs)
  BY <1>1, <1>2 DEF Surjection
<1>4. IsFiniteSet(1..n)
  BY <1>1, FS_Interval
<1>5. IsFiniteSet(Txs)
  BY <1>3, <1>4, FS_Surjection
<1>6. IsFiniteSet(Txs \X (1..MaxOutputs))
  <2>1. MaxOutputs \in Int
    BY LedgerAssumption
  <2>2. IsFiniteSet(1..MaxOutputs)
    BY <2>1, FS_Interval
  <2>3. QED
    BY <1>5, <2>2, FS_Product
<1>7. Outpoints \subseteq Txs \X (1..MaxOutputs)
  BY DEF Outpoints
<1>8. QED
  BY <1>5, <1>6, <1>7, FS_Subset

\* The outputs of a transaction.
LEMMA OutsAre ==
    ASSUME NEW t \in Txs
    PROVE  /\ Len(vout[t]) \in Nat /\ Outs(t) \subseteq Outpoints
           /\ \A n \in 1..Len(vout[t]) : vout[t][n] \in Nat /\ Values[<<t, n>>] = vout[t][n]
           /\ \A o \in Outpoints : o \in Outs(t) <=> o[1] = t /\ o[2] \in 1..Len(vout[t])
<1>1. vout[t] \in Seq(Nat) /\ Len(vout[t]) \in Nat /\ MaxOutputs \in Nat /\ Len(vout[t]) <= MaxOutputs
  BY LedgerAssumption
<1>2. \A n \in 1..Len(vout[t]) : <<t, n>> \in Outpoints
  BY <1>1 DEF Outpoints
<1>3. \A n \in 1..Len(vout[t]) : vout[t][n] \in Nat /\ Values[<<t, n>>] = vout[t][n]
  BY <1>1, <1>2 DEF Values, Value
<1>4. \A o \in Outpoints : o \in Outs(t) <=> o[1] = t /\ o[2] \in 1..Len(vout[t])
  BY DEF Outs, Outpoints
<1>5. QED
  BY <1>1, <1>2, <1>3, <1>4 DEF Outs

\* An output that exists has a value.
LEMMA ValueType ==
    ASSUME NEW o \in Outpoints, o[2] \in 1..Len(vout[o[1]])
    PROVE  Values[o] \in Nat
<1>1. o[1] \in Txs /\ o = <<o[1], o[2]>>
  BY DEF Outpoints
<1>2. QED
  BY <1>1, OutsAre

\* GetValueOut, as the value of outputs.
LEMMA ValueOutIs ==
    ASSUME NEW t \in Txs
    PROVE  GetValueOut[t] = Total(Values, Outs(t)) /\ GetValueOut[t] \in Int
<1> DEFINE f == vout[t]
           len == Len(vout[t])
           P(m) == {<<t, n>> : n \in 1..m}
           N == {m \in Nat : m <= len => Total(f, 1..m) = Total(Values, P(m))}
<1>0. len \in Nat /\ \A n \in 1..len : f[n] \in Nat /\ Values[<<t, n>>] = f[n]
  BY OutsAre
<1>a. \A n \in 1..len : f[n] \in Int
  BY LedgerAssumption
<1>1. GetValueOut[t] = Total(f, 1..len)
  BY DEF GetValueOut, SumOver, Total
<1> HIDE DEF len, f
<1>2. ASSUME NEW m \in Nat, m <= len
      PROVE  IsFiniteSet(1..m) /\ IsFiniteSet(P(m)) /\ P(m) \subseteq Outpoints
             /\ \A o \in P(m) : Values[o] \in Int
  <2>1. P(m) \subseteq Outs(t)
    BY <1>0, <1>2 DEF Outs, len
  <2>2. P(m) \subseteq Outpoints
    BY <2>1, OutsAre
  <2>3. \A o \in P(m) : Values[o] \in Int
    BY <1>0, <1>2
  <2>4. QED
    BY <2>2, <2>3, FinitelyMany, FS_Subset, FS_Interval
<1>3. 0 \in N
  <2>1. 1..0 = {} /\ P(0) = {}
    OBVIOUS
  <2>2. QED
    BY <2>1, SumOfNone
<1>4. ASSUME NEW m \in Nat, m \in N PROVE m + 1 \in N
  <2> SUFFICES ASSUME m + 1 <= len PROVE Total(f, 1..(m + 1)) = Total(Values, P(m + 1))
    OBVIOUS
  <2>1. m <= len /\ m + 1 \in 1..len
    BY <1>0
  <2>2. 1..(m + 1) = (1..m) \cup {m + 1} /\ m + 1 \notin 1..m
    OBVIOUS
  <2>3. P(m + 1) = P(m) \cup {<<t, m + 1>>} /\ <<t, m + 1>> \notin P(m)
    BY <2>2
  <2>4. \A n \in (1..m) \cup {m + 1} : f[n] \in Int
    <3>1. \A n \in (1..m) \cup {m + 1} : n \in 1..len
      BY <1>0, <2>1
    <3>2. QED
      BY <1>a, <3>1
  <2>5. Total(f, (1..m) \cup {m + 1}) = Total(f, 1..m) + f[m + 1]
    <3> DEFINE Q == 1..m
               x == m + 1
    <3>1. IsFiniteSet(Q) /\ x \notin Q /\ \A n \in Q \cup {x} : f[n] \in Int
      BY <1>2, <2>1, <2>2, <2>4
    <3> HIDE DEF Q, x
    <3>2. Total(f, Q \cup {x}) = Total(f, Q) + f[x]
      BY <3>1, SumWith
    <3>3. QED
      BY <3>2 DEF Q, x
  <2> DEFINE Q == P(m)
             x == <<t, m + 1>>
  <2>6. IsFiniteSet(Q) /\ x \notin Q /\ \A o \in Q \cup {x} : Values[o] \in Int
    BY <1>0, <1>2, <2>1, <2>3
  <2>7. Total(f, 1..m) = Total(Values, Q) /\ Values[x] = f[m + 1]
    BY <1>0, <1>4, <2>1
  <2> HIDE DEF Q, x
  <2>8. Total(Values, Q \cup {x}) = Total(Values, Q) + Values[x]
    BY <2>6, SumWith
  <2>9. QED
    BY <2>2, <2>3, <2>5, <2>7, <2>8 DEF Q, x
<1> HIDE DEF N
<1>5. Nat \subseteq N
  BY <1>3, <1>4, ConnectLoop!SetInduction
<1>6. Total(f, 1..len) = Total(Values, Outs(t))
  BY <1>0, <1>5 DEF N, Outs, len
<1>7. Total(f, 1..len) \in Int
  <2>1. IsFiniteSet(1..len)
    BY <1>0, FS_Interval
  <2>2. QED
    BY <1>a, <2>1, SumType
<1>8. QED
  BY <1>1, <1>6, <1>7

\* GetValueIn of a transaction whose inputs exist.
LEMMA ValueInIs ==
    ASSUME NEW t \in Txs, \A o \in vin[t] : o[2] \in 1..Len(vout[o[1]])
    PROVE  /\ GetValueIn[t] = Total(Values, vin[t]) /\ GetValueIn[t] \in Int
           /\ IsFiniteSet(vin[t]) /\ \A o \in vin[t] : Values[o] \in Int
<1>1. vin[t] \subseteq Outpoints
  BY LedgerAssumption
<1>2. [o \in vin[t] |-> Value(o)] = [o \in vin[t] |-> Values[o]]
  BY <1>1 DEF Values
<1>3. GetValueIn[t] = Total(Values, vin[t])
  BY <1>2 DEF GetValueIn, SumOver, Total
<1>4. \A o \in vin[t] : Values[o] \in Int
  BY <1>1, ValueType
<1>5. IsFiniteSet(vin[t])
  BY <1>1, FinitelyMany, FS_Subset
<1>6. QED
  BY <1>3, <1>4, <1>5, SumType

(***************************************************************************)
(* A transaction takes the outputs that it spends out of the free ones and *)
(* adds its own, so the worth changes by what it pays out and takes in.    *)
(***************************************************************************)
LEMMA WorthNext ==
    ASSUME NEW T, Sound(T), NEW t \in Txs, t \notin T, Sound(T \cup {t}),
           \A o \in vin[t] : o[1] \in T
    PROVE  /\ Worth(T) \in Int /\ Worth(T \cup {t}) \in Int
           /\ Worth(T \cup {t}) = Worth(T) + GetValueOut[t] - GetValueIn[t]
<1> DEFINE A == Free(T) \ vin[t]
<1>1. vin[t] \subseteq Outpoints /\ \A o \in vin[t] : o[2] \in 1..Len(vout[o[1]])
  BY LedgerAssumption DEF Sound
<1>2. vin[t] \subseteq Free(T)
  BY <1>1 DEF Free, Sound
<1>3. Free(T) = A \cup vin[t] /\ A \cap vin[t] = {}
  BY <1>2
<1>4. Outs(t) \cap A = {}
  BY OutsAre DEF Free
<1>5. Free(T \cup {t}) = A \cup Outs(t)
  <2>1. ASSUME NEW o \in Outpoints PROVE o \in Free(T \cup {t}) <=> o \in A \cup Outs(t)
    <3>1. o \in Outs(t) <=> o[1] = t /\ o[2] \in 1..Len(vout[t])
      BY OutsAre
    <3>2. o[1] = t => \A u \in T : o \notin vin[u]
      BY DEF Sound
    <3>3. o[1] = t => o \notin vin[t]
      OBVIOUS
    <3>4. QED
      BY <3>1, <3>2, <3>3 DEF Free
  <2>2. Free(T \cup {t}) \subseteq Outpoints /\ A \cup Outs(t) \subseteq Outpoints
    BY OutsAre DEF Free
  <2>3. QED
    BY <2>1, <2>2
<1>6. IsFiniteSet(A) /\ IsFiniteSet(Outs(t)) /\ IsFiniteSet(vin[t])
  <2>1. A \subseteq Outpoints /\ Outs(t) \subseteq Outpoints
    BY OutsAre DEF Free
  <2>2. QED
    BY <1>1, <2>1, FinitelyMany, FS_Subset
<1>7. \A o \in A \cup vin[t] \cup Outs(t) : Values[o] \in Int
  <2>1. \A o \in A : Values[o] \in Int
    BY ValueType DEF Free
  <2>2. \A o \in vin[t] : Values[o] \in Int
    BY <1>1, ValueType
  <2>3. \A o \in Outs(t) : Values[o] \in Int
    BY OutsAre DEF Outs
  <2>4. QED
    BY <2>1, <2>2, <2>3
<1> HIDE DEF A
<1>8. Total(Values, A \cup vin[t]) = Total(Values, A) + Total(Values, vin[t])
  BY <1>3, <1>6, <1>7, SumOfBoth
<1>9. Total(Values, A \cup Outs(t)) = Total(Values, A) + Total(Values, Outs(t))
  <2>1. A \cap Outs(t) = {}
    BY <1>4
  <2>2. QED
    BY <2>1, <1>6, <1>7, SumOfBoth
<1>10. /\ GetValueIn[t] = Total(Values, vin[t]) /\ GetValueIn[t] \in Int
       /\ GetValueOut[t] = Total(Values, Outs(t)) /\ GetValueOut[t] \in Int
  BY <1>1, ValueInIs, ValueOutIs
<1>11. Total(Values, A) \in Int
  BY <1>6, <1>7, SumType
<1> DEFINE a == Total(Values, A)
<1>12. Worth(T) = a + GetValueIn[t] /\ Worth(T \cup {t}) = a + GetValueOut[t] /\ a \in Int
  BY <1>3, <1>5, <1>8, <1>9, <1>10, <1>11 DEF Worth
<1> HIDE DEF a
<1>13. QED
  BY <1>10, <1>12

\* The unspent outputs of an index.
CoinsOf(idx) == {o \in Outpoints : /\ idx[o[1]] # NULL
                                   /\ o[2] \in DOMAIN idx[o[1]].vSpent
                                   /\ idx[o[1]].vSpent[o[2]] = NULL}

\* They are those that the transactions leave free.
LEMMA CoinsAreFree ==
    ASSUME NEW T, Sound(T), NEW home \in [Txs -> Blocks]
    PROVE  CoinsOf(Table(T, home)) = Free(T)
<1> SUFFICES ASSUME NEW o \in Outpoints
             PROVE  o \in CoinsOf(Table(T, home)) <=> o \in Free(T)
  BY DEF CoinsOf, Free
<1> DEFINE x == Table(T, home)[o[1]]
<1>1. o[1] \in Txs /\ o = <<o[1], o[2]>> /\ T \subseteq Txs
  BY DEF Outpoints, Sound
<1>2. CASE o[1] \notin T
  BY <1>1, <1>2 DEF CoinsOf, Free, Table
<1>3. CASE o[1] \in T
  <2>1. x = Entry(T, home, o[1]) /\ x # NULL
    BY <1>1, <1>3, EntryNotNull DEF Table
  <2>2. x.vSpent = [n \in 1..Len(vout[o[1]]) |-> Spent(T, <<o[1], n>>)]
    BY <2>1 DEF Entry
  <2>3. o[2] \in 1..Len(vout[o[1]]) => x.vSpent[o[2]] = Spent(T, o)
    BY <1>1, <2>2
  <2>4. Spent(T, o) = NULL <=> \A u \in T : o \notin vin[u]
    <3>1. CASE \E u \in T : o \in vin[u]
      BY <3>1, SpentIs
    <3>2. CASE ~ \E u \in T : o \in vin[u]
      BY <3>2 DEF Spent
    <3>3. QED
      BY <3>1, <3>2
  <2> HIDE DEF x
  <2>5. QED
    BY <1>3, <2>1, <2>2, <2>3, <2>4 DEF CoinsOf, Free, x
<1>4. QED
  BY <1>2, <1>3

\* What a transaction fetches is in the set the index is of.
LEMMA FetchedIsIn ==
    ASSUME NEW T, NEW home, NEW t \in Txs, FetchInputs(Table(T, home), t)
    PROVE  \A o \in vin[t] : o[1] \in T
BY OutpointPair DEF FetchInputs, Table

\* One transaction of the block.
LEMMA ConnectTxLedger ==
    ASSUME NEW db, NEW b \in Blocks \ {GenesisBlock}, NEW k \in 1..Len(vtx[b]), NEW s,
           s.idx = Table(Upto(b, k - 1), Home(b)), CleanTo(b, k - 1),
           FetchInputs(s.idx, vtx[b][k]),
           vtx[b][k] \in CoinBases \/ ConnectInputs(s.idx, vtx[b][k], b)
    PROVE  /\ WithTx(s.idx, vtx[b][k], b) = Table(Upto(b, k), Home(b))
           /\ CleanTo(b, k)
<1> DEFINE t == vtx[b][k]
           T == Upto(b, k - 1)
<1>0. vtx[b] \in Seq(Txs) /\ Len(vtx[b]) \in Nat
  BY LedgerAssumption
<1>1. Upto(b, k) = T \cup {t} /\ t \in Txs
  BY UptoNext
<1>2. Sound(T)
  <2>1. CASE k = 1
    BY <2>1 DEF CleanTo
  <2>2. CASE k # 1
    <3>1. k - 1 \in 1..(k - 1)
      BY <1>0, <2>2
    <3>2. QED
      BY <3>1 DEF CleanTo
  <2>3. QED
    BY <2>1, <2>2
<1>3. \A o \in vin[t] : s.idx[o[1]].vSpent[o[2]] = NULL
  <2>1. CASE t \in CoinBases
    BY <2>1, LedgerAssumption
  <2>2. CASE ConnectInputs(s.idx, t, b)
    BY <2>2 DEF ConnectInputs
  <2>3. QED
    BY <2>1, <2>2
<1>4. t \notin T
  <2>1. CASE t \in CoinBases
    <3>1. k = 1
      BY <2>1, LedgerAssumption
    <3>2. T = ChainTxs(pprev[b])
      BY <3>1 DEF Upto
    <3>3. t \in BlockTxs(b)
      BY <1>0 DEF BlockTxs, ToSet
    <3>4. QED
      BY <2>1, <3>2, <3>3, CoinBaseIsNew
  <2>2. CASE t \notin CoinBases
    <3> SUFFICES ASSUME t \in T PROVE FALSE
      OBVIOUS
    <3>1. k \in 2..Len(vtx[b])
      BY <1>0, <2>2, LedgerAssumption
    <3>2. PICK o \in vin[t] : TRUE
      BY <3>1, CheckedBlocks
    <3>3. o = <<o[1], o[2]>> /\ o[1] \in T /\ o[1] \in Txs /\ o[2] \in 1..Len(vout[o[1]])
      BY <1>1, <1>2, OutpointPair DEF Sound
    <3>4. s.idx[o[1]].vSpent[o[2]] = Spent(T, o)
      BY <3>3 DEF Table, Entry
    <3>5. Spent(T, o) # NULL
      BY <1>2, SpentIs
    <3>6. QED
      BY <1>3, <3>4, <3>5
  <2>3. QED
    BY <2>1, <2>2
<1>5. Home(b)[t] = b
  BY <1>1, <1>4 DEF Home, Upto
<1> HIDE DEF t, T
<1>6. FetchInputs(s.idx, t) /\ s.idx = Table(T, Home(b))
  BY DEF t, T
<1>7. /\ Sound(T \cup {t})
      /\ WithTx(Table(T, Home(b)), t, Home(b)[t]) = Table(T \cup {t}, Home(b))
  <2> DEFINE home == Home(b)
  <2>1. FetchInputs(Table(T, home), t)
    BY <1>6
  <2>2. \A o \in vin[t] : Table(T, home)[o[1]].vSpent[o[2]] = NULL
    BY <1>3, <1>6
  <2> HIDE DEF home
  <2>3. Sound(T \cup {t}) /\ WithTx(Table(T, home), t, home[t]) = Table(T \cup {t}, home)
    BY <1>1, <1>2, <1>4, <2>1, <2>2, AddTx
  <2>4. QED
    BY <2>3 DEF home
<1>8. CleanTo(b, k)
  <2>1. \A j \in 1..k : j \in 1..(k - 1) \/ j = k
    BY <1>0
  <2>2. vtx[b][k] \notin Upto(b, k - 1) /\ Sound(Upto(b, k))
    BY <1>1, <1>4, <1>7 DEF t, T
  <2>3. \A o \in vin[vtx[b][k]] : o[1] \in Upto(b, k - 1)
    BY <1>1, <1>6, FetchedIsIn DEF t, T
  <2>4. QED
    BY <2>1, <2>2, <2>3 DEF CleanTo
<1>9. QED
  BY <1>1, <1>5, <1>6, <1>7, <1>8 DEF t

\* Free outputs of sound transactions are worth a number.
LEMMA WorthType ==
    ASSUME NEW T
    PROVE  Worth(T) \in Int
<1>1. IsFiniteSet(Free(T))
  BY FinitelyMany, FS_Subset DEF Free
<1>2. \A o \in Free(T) : Values[o] \in Int
  BY ValueType DEF Free
<1>3. QED
  BY <1>1, <1>2, SumType DEF Worth

\* One transaction more pays its fee.
LEMMA FeesNext ==
    ASSUME NEW b \in Blocks, NEW k \in 1..Len(vtx[b]), CleanTo(b, k)
    PROVE  /\ Total(FeeOf, Paying(b, k - 1)) \in Int
           /\ Total(FeeOf, Paying(b, k)) =
                 IF Minted(vtx[b][k]) THEN Total(FeeOf, Paying(b, k - 1))
                 ELSE Total(FeeOf, Paying(b, k - 1)) + GetValueIn[vtx[b][k]] - GetValueOut[vtx[b][k]]
<1> DEFINE t == vtx[b][k]
           S == Paying(b, k - 1)
<1>1. vtx[b] \in Seq(Txs) /\ Len(vtx[b]) \in Nat /\ t \in Txs
  BY LedgerAssumption
<1>2. 1..k = (1..(k - 1)) \cup {k}
  BY <1>1
<1>3. Paying(b, k) = IF Minted(t) THEN S ELSE S \cup {t}
  BY <1>2 DEF Paying
<1>4. t \notin S /\ Sound(Upto(b, k))
  BY <1>1 DEF Paying, CleanTo, Upto
<1>5. S \cup {t} \subseteq Upto(b, k) /\ Upto(b, k) \subseteq Txs
  BY <1>2, <1>4 DEF Paying, Upto, Sound
<1>6. ASSUME NEW u \in Upto(b, k)
      PROVE  FeeOf[u] \in Int /\ FeeOf[u] = GetValueIn[u] - GetValueOut[u] /\ GetValueIn[u] \in Int /\ GetValueOut[u] \in Int
  <2>1. u \in Txs /\ \A o \in vin[u] : o[2] \in 1..Len(vout[o[1]])
    BY <1>4, <1>5 DEF Sound
  <2>2. GetValueIn[u] \in Int /\ GetValueOut[u] \in Int
    BY <2>1, ValueInIs, ValueOutIs
  <2>3. QED
    BY <2>1, <2>2 DEF FeeOf
<1>7. IsFiniteSet(S)
  BY <1>5, FinitelyMany, FS_Subset
<1>8. \A u \in S \cup {t} : FeeOf[u] \in Int
  BY <1>5, <1>6
<1> HIDE DEF S, t
<1>9. Total(FeeOf, S) \in Int /\ Total(FeeOf, S \cup {t}) = Total(FeeOf, S) + FeeOf[t]
  BY <1>4, <1>7, <1>8, SumWith
<1>10. FeeOf[t] = GetValueIn[t] - GetValueOut[t] /\ GetValueIn[t] \in Int /\ GetValueOut[t] \in Int
  BY <1>5, <1>6
<1>11. Total(FeeOf, S) + FeeOf[t] = Total(FeeOf, S) + GetValueIn[t] - GetValueOut[t]
  BY <1>9, <1>10
<1>12. Total(FeeOf, Paying(b, k)) = IF Minted(t) THEN Total(FeeOf, S) ELSE Total(FeeOf, S \cup {t})
  BY <1>3
<1>13. QED
  BY <1>9, <1>11, <1>12 DEF S, t

\* One transaction of the loop.
LEMMA ConnectTxStep ==
    ASSUME NEW db, NEW b \in Blocks \ {GenesisBlock}, NEW k \in 1..Len(vtx[b]), NEW s,
           db = Table(ChainTxs(pprev[b]), Home(b)), NEW e, e.b = b, e.db = db,
           Connected(e, k - 1, s)
    PROVE  Connected(e, k, ConnectTx(db, b, s, vtx[b][k]))
<1> DEFINE t == vtx[b][k]
           T == Upto(b, k - 1)
           r == ConnectTx(db, b, s, t)
           Pass == MayOverwrite(db, t) /\ FetchInputs(s.idx, t) /\ (t \in CoinBases \/ ConnectInputs(s.idx, t, b))
<1>0. vtx[b] \in Seq(Txs) /\ Len(vtx[b]) \in Nat /\ t \in Txs
  BY LedgerAssumption
<1>1. s = [ok |-> s.ok, idx |-> s.idx, mint |-> s.mint, fees |-> s.fees] /\ s.ok \in BOOLEAN
  BY DEF Connected
<1>2. s.ok <=> \A j \in 1..(k - 1) : TxOk(b, j)
  BY DEF Connected
<1>3. (\A j \in 1..k : TxOk(b, j)) <=> s.ok /\ TxOk(b, k)
  <2>1. \A j \in 1..k : j \in 1..(k - 1) \/ j = k
    BY <1>0
  <2>2. k \in 1..k /\ \A j \in 1..(k - 1) : j \in 1..k
    BY <1>0
  <2>3. QED
    BY <1>2, <2>1, <2>2
<1>4. CASE s.ok /\ TxOk(b, k)
  <2>1. /\ s.idx = Table(T, Home(b)) /\ CleanTo(b, k - 1)
        /\ s.mint = Worth(T) - Worth(Upto(b, 0))
        /\ s.fees = Total(FeeOf, Paying(b, k - 1))
    BY <1>4 DEF Connected
  <2>2. FetchInputs(s.idx, t) /\ (t \in CoinBases \/ ConnectInputs(s.idx, t, b))
    BY <1>4, <2>1 DEF TxOk
  <2>3. WithTx(s.idx, t, b) = Table(Upto(b, k), Home(b)) /\ CleanTo(b, k)
    BY <2>1, <2>2, ConnectTxLedger
  <2>4. t \notin T /\ Upto(b, k) = T \cup {t} /\ Sound(Upto(b, k))
    BY <1>0, <2>3, UptoNext DEF CleanTo
  <2>5. Sound(T)
    <3>1. CASE k = 1
      BY <2>1, <3>1 DEF CleanTo
    <3>2. CASE k # 1
      <4>1. k - 1 \in 1..(k - 1)
        BY <1>0, <3>2
      <4>2. QED
        BY <2>1, <4>1 DEF CleanTo
    <3>3. QED
      BY <3>1, <3>2
  <2>6. MayOverwrite(db, t)
    <3>1. t \notin ChainTxs(pprev[b])
      BY <2>4 DEF Upto
    <3>2. db[t] = NULL
      BY <1>0, <3>1 DEF Table
    <3>3. QED
      BY <3>2 DEF MayOverwrite
  <2>7. \A o \in vin[t] : o[1] \in T
    BY <1>0, <2>1, <2>2, FetchedIsIn
  <2> HIDE DEF T
  <2>8. /\ Worth(T) \in Int /\ Worth(T \cup {t}) \in Int
        /\ Worth(T \cup {t}) = Worth(T) + GetValueOut[t] - GetValueIn[t]
    BY <1>0, <2>4, <2>5, <2>7, WorthNext
  <2>9. GetValueOut[t] \in Int /\ GetValueIn[t] \in Int
    <3>1. \A o \in vin[t] : o[2] \in 1..Len(vout[o[1]])
      BY <2>2 DEF FetchInputs
    <3>2. QED
      BY <1>0, <3>1, ValueInIs, ValueOutIs
  <2>10. Worth(Upto(b, 0)) \in Int
    BY WorthType
  <2>11. s.mint + GetValueOut[t] - GetValueIn[t] = Worth(Upto(b, k)) - Worth(Upto(b, 0))
    <3> DEFINE w == Worth(T)
               v == Worth(Upto(b, 0))
               x == GetValueOut[t]
               y == GetValueIn[t]
    <3>1. w \in Int /\ v \in Int /\ x \in Int /\ y \in Int
      BY <2>8, <2>9, <2>10
    <3>2. s.mint = w - v /\ Worth(Upto(b, k)) = w + x - y
      BY <2>1, <2>4, <2>8
    <3> HIDE DEF w, v, x, y
    <3>3. (w - v) + x - y = (w + x - y) - v
      BY <3>1
    <3>4. QED
      BY <3>2, <3>3 DEF x, y, v
  <2>12. (IF Minted(t) THEN s.fees ELSE s.fees + GetValueIn[t] - GetValueOut[t]) = Total(FeeOf, Paying(b, k))
    BY <2>1, <2>3, FeesNext
  <2>13. /\ r = [ok |-> TRUE, idx |-> WithTx(s.idx, t, b), mint |-> s.mint + GetValueOut[t] - GetValueIn[t],
                 fees |-> IF Minted(t) THEN s.fees ELSE s.fees + GetValueIn[t] - GetValueOut[t]]
    BY <1>4, <2>2, <2>6 DEF ConnectTx, WithTx
  <2> HIDE DEF r, t
  <2>14. r = [ok |-> TRUE, idx |-> Table(Upto(b, k), Home(b)), mint |-> Worth(Upto(b, k)) - Worth(Upto(b, 0)),
              fees |-> Total(FeeOf, Paying(b, k))]
    BY <2>3, <2>11, <2>12, <2>13
  <2>15. Connected(e, k, r)
    BY <1>3, <1>4, <2>3, <2>14 DEF Connected
  <2>16. QED
    BY <2>15 DEF r, t
<1>5. CASE ~(s.ok /\ TxOk(b, k))
  <2>1. ASSUME s.ok PROVE ~Pass
    <3>1. s.idx = Table(T, Home(b))
      BY <2>1 DEF Connected
    <3>2. QED
      BY <1>5, <2>1, <3>1 DEF TxOk
  <2>2. r = [s EXCEPT !.ok = FALSE]
    BY <2>1 DEF ConnectTx
  <2> HIDE DEF r, t
  <2>3. r = [ok |-> FALSE, idx |-> s.idx, mint |-> s.mint, fees |-> s.fees]
    BY <1>1, <2>2
  <2>4. Connected(e, k, r)
    BY <1>3, <1>5, <2>3 DEF Connected
  <2>5. QED
    BY <2>4 DEF r, t
<1>6. QED
  BY <1>4, <1>5

\* The whole block.
LEMMA ConnectBlockLedger ==
    ASSUME NEW db, NEW b \in Blocks \ {GenesisBlock}, Sound(ChainTxs(pprev[b])),
           db = Table(ChainTxs(pprev[b]), Home(b))
    PROVE  LET r == ConnectBlock(db, b)
               n == Len(vtx[b])
           IN  /\ r.ok <=> /\ \A j \in 1..n : TxOk(b, j)
                           /\ IsProofOfWork(b) =>
                                 GetValueOut[vtx[b][1]] <= nReward + Total(FeeOf, Paying(b, n))
               /\ r.ok => /\ r.idx = Table(Upto(b, n), Home(b)) /\ Clean(b)
                          /\ r.mint = Worth(Upto(b, n)) - Worth(ChainTxs(pprev[b]))
<1> DEFINE q == vtx[b]
           n == Len(q)
           e == [db |-> db, b |-> b]
           s0 == [ok |-> TRUE, idx |-> db, mint |-> 0, fees |-> 0]
           last == FoldLeft(LAMBDA r, t : ConnectTx(db, b, r, t), s0, q)
<1>0. e.db = db /\ e.b = b
  OBVIOUS
<1>1. q \in Seq(Txs)
  BY LedgerAssumption
<1>3. ConnectBlock(db, b) = [last EXCEPT !.ok = @ /\ (IsProofOfWork(b) =>
                                GetValueOut[vtx[b][1]] <= nReward + last.fees)]
  BY DEF ConnectBlock
<1>4. ConnectLoop!Loop(e, s0, q) = last
  BY <1>0 DEF ConnectLoop!Loop, FoldLeft, MapThenFoldSet,
         Max, ConnectLoop!Max, ConnectTxIn
<1>5. Upto(b, 0) = ChainTxs(pprev[b]) /\ Paying(b, 0) = {}
  BY DEF Upto, Paying
<1>6. Connected(e, 0, s0)
  <2>1. Worth(Upto(b, 0)) \in Int
    BY WorthType
  <2>2. Worth(Upto(b, 0)) - Worth(Upto(b, 0)) = 0
    BY <2>1
  <2>3. Total(FeeOf, Paying(b, 0)) = 0
    BY <1>5, SumOfNone
  <2>4. CleanTo(b, 0)
    BY <1>5 DEF CleanTo
  <2> HIDE DEF e
  <2>5. QED
    BY <1>0, <1>5, <2>2, <2>3, <2>4 DEF Connected
<1> HIDE DEF e, s0, last
<1>7. ASSUME NEW k \in 1..Len(q), NEW s, Connected(e, k - 1, s)
      PROVE  Connected(e, k, ConnectTxIn(e, s, q[k]))
  <2>1. Connected(e, k, ConnectTx(db, b, s, vtx[b][k]))
    BY <1>0, <1>7, ConnectTxStep
  <2>2. QED
    BY <1>0, <2>1 DEF ConnectTxIn
<1>8. Connected(e, n, last)
  BY <1>1, <1>4, <1>6, <1>7, ConnectLoop!FoldInvariant
<1>9. /\ last = [ok |-> last.ok, idx |-> last.idx, mint |-> last.mint, fees |-> last.fees] /\ last.ok \in BOOLEAN
      /\ last.ok <=> \A j \in 1..n : TxOk(b, j)
      /\ last.ok => /\ last.idx = Table(Upto(b, n), Home(b)) /\ CleanTo(b, n)
                    /\ last.mint = Worth(Upto(b, n)) - Worth(Upto(b, 0))
                    /\ last.fees = Total(FeeOf, Paying(b, n))
  BY <1>0, <1>8 DEF Connected
<1> DEFINE F(fees) == IsProofOfWork(b) => GetValueOut[vtx[b][1]] <= nReward + fees
           r == ConnectBlock(db, b)
<1>10. r.ok = (last.ok /\ F(last.fees)) /\ r.idx = last.idx /\ r.mint = last.mint
  <2> DEFINE x == F(last.fees)
  <2>1. r = [last EXCEPT !.ok = @ /\ x]
    BY <1>3
  <2> HIDE DEF x, r, F
  <2>2. QED
    BY <1>9, <2>1 DEF x
<1> HIDE DEF r, n
<1>11. r.ok <=> (\A j \in 1..n : TxOk(b, j)) /\ F(Total(FeeOf, Paying(b, n)))
  <2> HIDE DEF F
  <2>1. QED
    BY <1>9, <1>10
<1>12. r.ok => r.idx = Table(Upto(b, n), Home(b)) /\ Clean(b) /\ r.mint = Worth(Upto(b, n)) - Worth(ChainTxs(pprev[b]))
  <2> HIDE DEF F
  <2>1. QED
    BY <1>5, <1>9, <1>10 DEF Clean, n
<1>13. QED
  BY <1>11, <1>12 DEF n, r

(***************************************************************************)
(* DisconnectBlock of a clean block: after k transactions the index is     *)
(* that of all but the last k, and nothing fails.                          *)
(***************************************************************************)
DisconnectInputsIn(e, s, t) == DisconnectInputs(s, t)

Undone(e, k, s) ==
    s = [ok |-> TRUE, idx |-> Table(Upto(e, Len(vtx[e]) - k), Home(e))]

DisconnectLoop == INSTANCE FoldInduction WITH Op <- DisconnectInputsIn, Good <- Undone

\* The whole block.
LEMMA DisconnectBlockLedger ==
    ASSUME NEW b \in Blocks \ {GenesisBlock}, Clean(b)
    PROVE  DisconnectBlock([ok |-> TRUE, idx |-> Table(Upto(b, Len(vtx[b])), Home(b))], b)
              = [ok |-> TRUE, idx |-> Table(ChainTxs(pprev[b]), Home(b))]
<1> DEFINE n  == Len(vtx[b])
           q  == DisconnectOrder(b)
           s0 == [ok |-> TRUE, idx |-> Table(Upto(b, n), Home(b))]
<1>1. vtx[b] \in Seq(Txs) /\ n \in Nat
  BY LedgerAssumption
<1>2. /\ q \in Seq(Txs) /\ Len(q) = n
      /\ \A k \in 1..n : q[k] = vtx[b][(n - k) + 1]
  <2>1. q = [i \in 1..n |-> vtx[b][(n - i) + 1]]
    BY DEF DisconnectOrder, Reverse
  <2>2. \A i \in 1..n : vtx[b][(n - i) + 1] \in Txs
    BY <1>1
  <2> HIDE DEF q, n
  <2>3. QED
    BY <1>1, <2>1, <2>2
<1>3. DisconnectLoop!Loop(b, s0, q) = DisconnectBlock(s0, b)
  BY DEF DisconnectBlock, DisconnectLoop!Loop, FoldLeft, MapThenFoldSet,
         Max, DisconnectLoop!Max, DisconnectInputsIn
<1>4. Undone(b, 0, s0)
  BY <1>1 DEF Undone
<1> HIDE DEF q, n
<1>5. ASSUME NEW k \in 1..Len(q), NEW s, Undone(b, k - 1, s)
      PROVE  Undone(b, k, DisconnectInputsIn(b, s, q[k]))
  <2> DEFINE m == n - k
             t == vtx[b][m + 1]
             T == Upto(b, m)
             home == Home(b)
  <2>1. /\ m \in Nat /\ m + 1 \in 1..Len(vtx[b]) /\ q[k] = t
        /\ n - (k - 1) = m + 1 /\ (m + 1) - 1 = m
    BY <1>1, <1>2 DEF n
  <2>2. Upto(b, m + 1) = T \cup {t} /\ t \in Txs
    <3>1. Upto(b, m + 1) = Upto(b, (m + 1) - 1) \cup {vtx[b][m + 1]} /\ vtx[b][m + 1] \in Txs
      BY <2>1, UptoNext
    <3>2. QED
      BY <2>1, <3>1
  <2>3. t \notin T /\ Sound(T \cup {t})
    <3>1. t \notin Upto(b, (m + 1) - 1) /\ Sound(Upto(b, m + 1))
      BY <2>1 DEF Clean, CleanTo
    <3>2. QED
      BY <2>1, <2>2, <3>1
  <2>4. Sound(T)
    <3>1. CASE m = 0
      BY <3>1 DEF Clean, CleanTo
    <3>2. CASE m # 0
      <4>1. m \in 1..Len(vtx[b])
        BY <2>1, <3>2
      <4>2. QED
        BY <4>1 DEF Clean, CleanTo
    <3>3. QED
      BY <3>1, <3>2
  <2>5. home \in [Txs -> Blocks]
    BY HomeType
  <2>6. s = [ok |-> TRUE, idx |-> Table(T \cup {t}, home)]
    <3>1. s = [ok |-> TRUE, idx |-> Table(Upto(b, n - (k - 1)), Home(b))]
      BY <1>5 DEF Undone, n
    <3>2. QED
      BY <2>1, <2>2, <3>1
  <2> HIDE DEF t, T, m, home
  <2>7. FetchInputs(Table(T \cup {t}, home), t) /\ WithoutTx(Table(T \cup {t}, home), t) = Table(T, home)
    BY <2>2, <2>3, <2>4, <2>5, RemoveTx
  <2>8. s.ok /\ s.idx = Table(T \cup {t}, home)
    BY <2>6
  <2>9. DisconnectInputs(s, t) = [s EXCEPT !.idx = WithoutTx(s.idx, t)]
    BY <2>7, <2>8 DEF DisconnectInputs, WithoutTx
  <2>10. DisconnectInputs(s, t) = [ok |-> TRUE, idx |-> Table(T, home)]
    BY <2>6, <2>7, <2>8, <2>9
  <2>11. QED
    BY <2>1, <2>10 DEF Undone, DisconnectInputsIn, T, home, m, n
<1>6. Undone(b, Len(q), DisconnectBlock(s0, b))
  BY <1>2, <1>3, <1>4, <1>5, DisconnectLoop!FoldInvariant
<1>7. DisconnectBlock(s0, b) = [ok |-> TRUE, idx |-> Table(Upto(b, 0), Home(b))]
  <2>1. Len(vtx[b]) - Len(q) = 0
    BY <1>1, <1>2 DEF n
  <2>2. QED
    BY <1>6, <2>1 DEF Undone
<1>8. Upto(b, 0) = ChainTxs(pprev[b])
  BY DEF Upto
<1>9. QED
  BY <1>7, <1>8 DEF n

-----------------------------------------------------------------------------
(***************************************************************************)
(* Chains of clean blocks.                                                 *)
(***************************************************************************)
\* The transactions of a chain are those of its last block and those before it.
LEMMA ChainTxsStep ==
    ASSUME NEW b \in Blocks \ {GenesisBlock}
    PROVE  ChainTxs(b) = ChainTxs(pprev[b]) \cup BlockTxs(b) /\ ChainTxs(b) = Upto(b, Len(vtx[b]))
<1>1. pprev[b] \in Blocks /\ Chain[b] = Chain[pprev[b]] \cup {b}
  BY ChainStep
<1>2. ChainTxs(b) = ChainTxs(pprev[b]) \cup BlockTxs(b)
  BY <1>1 DEF ChainTxs
<1>3. vtx[b] \in Seq(Txs)
  BY LedgerAssumption
<1>4. BlockTxs(b) = {vtx[b][j] : j \in 1..Len(vtx[b])}
  BY <1>3 DEF BlockTxs, ToSet
<1>5. QED
  BY <1>2, <1>4 DEF Upto

\* The genesis block has no transactions in the index.
LEMMA ChainTxsGenesis == ChainTxs(GenesisBlock) = {}
BY ChainGenesis DEF ChainTxs

\* The transactions of a clean chain are sound.
LEMMA CleanIsSound ==
    ASSUME NEW b \in Blocks, CleanChain(b)
    PROVE  Sound(ChainTxs(b))
<1>1. CASE b = GenesisBlock
  BY <1>1, ChainTxsGenesis DEF Sound
<1>2. CASE b # GenesisBlock
  <2>1. Clean(b)
    BY <1>2, ChainClosed DEF CleanChain
  <2>2. ChainTxs(b) = Upto(b, Len(vtx[b])) /\ Len(vtx[b]) \in Nat
    BY <1>2, ChainTxsStep, LedgerAssumption
  <2>3. CASE Len(vtx[b]) = 0
    BY <2>1, <2>2, <2>3 DEF Clean, CleanTo
  <2>4. CASE Len(vtx[b]) # 0
    <3>1. Len(vtx[b]) \in 1..Len(vtx[b])
      BY <2>2, <2>4
    <3>2. QED
      BY <2>1, <2>2, <3>1 DEF Clean, CleanTo
  <2>5. QED
    BY <2>3, <2>4
<1>3. QED
  BY <1>1, <1>2

\* The chain below a block of a clean chain is clean.
LEMMA CleanBelow ==
    ASSUME NEW b \in Blocks, CleanChain(b), NEW c \in Chain[b]
    PROVE  CleanChain(c)
BY ChainTransitive DEF CleanChain

\* A clean block on top of a clean chain.
LEMMA CleanNext ==
    ASSUME NEW b \in Blocks \ {GenesisBlock}, CleanChain(pprev[b]), Clean(b)
    PROVE  CleanChain(b)
BY ChainStep DEF CleanChain

\* The transactions of a clean block are not in a lower block.
LEMMA CleanIsNew ==
    ASSUME NEW b \in Blocks \ {GenesisBlock}, Clean(b)
    PROVE  BlockTxs(b) \cap ChainTxs(pprev[b]) = {}
<1> SUFFICES ASSUME NEW t \in BlockTxs(b), t \in ChainTxs(pprev[b]) PROVE FALSE
  OBVIOUS
<1>1. vtx[b] \in Seq(Txs)
  BY LedgerAssumption
<1>2. PICK j \in 1..Len(vtx[b]) : vtx[b][j] = t
  BY <1>1 DEF BlockTxs, ToSet
<1>3. t \notin Upto(b, j - 1)
  BY <1>2 DEF Clean, CleanTo
<1>4. QED
  BY <1>3 DEF Upto

\* On a clean chain a transaction is in one block.
LEMMA HomeUnique ==
    ASSUME NEW b \in Blocks, CleanChain(b),
           NEW c \in Chain[b] \ {GenesisBlock}, NEW d \in Chain[b] \ {GenesisBlock},
           NEW t \in BlockTxs(c), t \in BlockTxs(d)
    PROVE  c = d
<1>1. ASSUME NEW x \in Chain[b] \ {GenesisBlock}, NEW y \in Chain[b] \ {GenesisBlock},
             t \in BlockTxs(x), t \in BlockTxs(y), x \in Chain[y]
      PROVE  x = y
  <2> SUFFICES ASSUME x # y PROVE FALSE
    OBVIOUS
  <2>1. y \in Blocks \ {GenesisBlock} /\ Clean(y)
    BY ChainClosed DEF CleanChain
  <2>2. x \in Chain[pprev[y]] /\ pprev[y] \in Blocks
    BY <1>1, <2>1, ChainStep
  <2>3. t \in ChainTxs(pprev[y])
    BY <1>1, <2>2 DEF ChainTxs
  <2>4. QED
    BY <1>1, <2>1, <2>3, CleanIsNew
<1>2. c \in Chain[d] \/ d \in Chain[c]
  BY ChainLinear
<1>3. QED
  BY <1>1, <1>2

\* The ledger of a clean chain is the index of its transactions.
LEMMA LedgerIsTable ==
    ASSUME NEW b \in Blocks, CleanChain(b), NEW home,
           \A t \in ChainTxs(b) : home[t] = HomeOf(t, b)
    PROVE  LedgerOf(b) = Table(ChainTxs(b), home)
<1> DEFINE T == ChainTxs(b)
<1>1. Sound(T)
  BY CleanIsSound
<1>2. ASSUME NEW o
      PROVE  Spent(T, o) = IF SpendersOf(o, b) = {} THEN NULL
                           ELSE CHOOSE u \in SpendersOf(o, b) : TRUE
  <2>1. CASE SpendersOf(o, b) = {}
    <3>1. ~ \E u \in T : o \in vin[u]
      BY <2>1 DEF SpendersOf
    <3>2. QED
      BY <2>1, <3>1 DEF Spent
  <2>2. CASE SpendersOf(o, b) # {}
    <3> DEFINE u == CHOOSE u \in SpendersOf(o, b) : TRUE
    <3>1. u \in SpendersOf(o, b)
      BY <2>2
    <3> HIDE DEF u
    <3>2. u \in T /\ o \in vin[u]
      BY <3>1 DEF SpendersOf
    <3>3. Spent(T, o) = u
      BY <1>1, <3>2, SpentIs
    <3>4. QED
      BY <2>2, <3>3 DEF u
  <2>3. QED
    BY <2>1, <2>2
<1>3. ASSUME NEW t \in Txs PROVE LedgerOf(b)[t] = Table(T, home)[t]
  <2>1. CASE t \notin T
    BY <2>1 DEF LedgerOf, Table
  <2>2. CASE t \in T
    <3>1. LedgerOf(b)[t] = [pos |-> HomeOf(t, b), vSpent |-> [n \in 1..Len(vout[t]) |->
              IF SpendersOf(<<t, n>>, b) = {} THEN NULL
              ELSE CHOOSE u \in SpendersOf(<<t, n>>, b) : TRUE]]
      BY <2>2 DEF LedgerOf
    <3>2. LedgerOf(b)[t] = [pos |-> HomeOf(t, b),
                            vSpent |-> [n \in 1..Len(vout[t]) |-> Spent(T, <<t, n>>)]]
      BY <1>2, <3>1
    <3>3. home[t] = HomeOf(t, b)
      BY <2>2
    <3>4. Table(T, home)[t] = Entry(T, home, t)
      BY <2>2 DEF Table
    <3>5. QED
      BY <3>2, <3>3, <3>4 DEF Entry
  <2>3. QED
    BY <2>1, <2>2
<1>4. LedgerOf(b) = [t \in Txs |-> LedgerOf(b)[t]]
  BY DEF LedgerOf
<1>5. Table(T, home) = [t \in Txs |-> Table(T, home)[t]]
  BY DEF Table
<1>6. QED
  BY <1>3, <1>4, <1>5

\* The ledger before a block, as the index that ConnectBlock starts from.
LEMMA LedgerBefore ==
    ASSUME NEW b \in Blocks \ {GenesisBlock}, CleanChain(pprev[b])
    PROVE  LedgerOf(pprev[b]) = Table(ChainTxs(pprev[b]), Home(b))
<1>1. pprev[b] \in Blocks
  BY TreeAssumption
<1>2. ChainTxs(pprev[b]) \subseteq Txs
  BY <1>1, CleanIsSound DEF Sound
<1>3. \A t \in ChainTxs(pprev[b]) : Home(b)[t] = HomeOf(t, pprev[b])
  BY <1>2 DEF Home
<1>4. QED
  BY <1>1, <1>3, LedgerIsTable

\* The ledger after a block, as the index that ConnectBlock ends with.
LEMMA LedgerAfter ==
    ASSUME NEW b \in Blocks \ {GenesisBlock}, CleanChain(b)
    PROVE  LedgerOf(b) = Table(Upto(b, Len(vtx[b])), Home(b))
<1>1. /\ pprev[b] \in Blocks /\ Chain[b] = Chain[pprev[b]] \cup {b}
      /\ ChainTxs(b) = ChainTxs(pprev[b]) \cup BlockTxs(b)
      /\ ChainTxs(b) = Upto(b, Len(vtx[b]))
  BY ChainStep, ChainTxsStep
<1>2. ChainTxs(b) \subseteq Txs
  BY CleanIsSound DEF Sound
<1>3. ASSUME NEW t \in ChainTxs(b) PROVE Home(b)[t] = HomeOf(t, b)
  <2>1. HomeOf(t, b) \in Chain[b] \ {GenesisBlock} /\ t \in BlockTxs(HomeOf(t, b))
    BY HomeOnChain
  <2>2. CASE t \in ChainTxs(pprev[b])
    <3>1. /\ HomeOf(t, pprev[b]) \in Chain[pprev[b]] \ {GenesisBlock}
          /\ t \in BlockTxs(HomeOf(t, pprev[b]))
      BY <1>1, <2>2, HomeOnChain
    <3>2. HomeOf(t, pprev[b]) = HomeOf(t, b)
      BY <1>1, <2>1, <3>1, HomeUnique
    <3>3. QED
      BY <1>2, <2>2, <3>2 DEF Home
  <2>3. CASE t \notin ChainTxs(pprev[b])
    <3>1. t \in BlockTxs(b) /\ b \in Chain[b] \ {GenesisBlock}
      BY <1>1, <2>3
    <3>2. HomeOf(t, b) = b
      BY <2>1, <3>1, HomeUnique
    <3>3. QED
      BY <1>2, <2>3, <3>2 DEF Home
  <2>4. QED
    BY <2>2, <2>3
<1>4. QED
  BY <1>1, <1>3, LedgerIsTable

\* The block of a transaction, when those of b are new on a clean chain.
LEMMA HomeIs ==
    ASSUME NEW b \in Blocks \ {GenesisBlock}, CleanChain(pprev[b]),
           BlockTxs(b) \cap ChainTxs(pprev[b]) = {}, NEW u \in ChainTxs(b)
    PROVE  /\ u \in Txs /\ Home(b)[u] = HomeOf(u, b) /\ HomeOf(u, b) \in Chain[b]
<1>1. /\ pprev[b] \in Blocks /\ Chain[b] = Chain[pprev[b]] \cup {b}
      /\ ChainTxs(b) = ChainTxs(pprev[b]) \cup BlockTxs(b)
  BY ChainStep, ChainTxsStep
<1>2. HomeOf(u, b) \in Chain[b] \ {GenesisBlock} /\ u \in BlockTxs(HomeOf(u, b))
  BY HomeOnChain
<1>3. u \in Txs
  <2>1. HomeOf(u, b) \in Blocks
    BY <1>2, ChainClosed
  <2>2. QED
    BY <1>2, <2>1, LedgerAssumption DEF BlockTxs, ToSet
<1>4. CASE u \in ChainTxs(pprev[b])
  <2>1. /\ HomeOf(u, pprev[b]) \in Chain[pprev[b]] \ {GenesisBlock}
        /\ u \in BlockTxs(HomeOf(u, pprev[b]))
    BY <1>1, <1>4, HomeOnChain
  <2>2. HomeOf(u, b) \in Chain[pprev[b]] \ {GenesisBlock}
    BY <1>1, <1>2, <1>4
  <2>3. HomeOf(u, pprev[b]) = HomeOf(u, b)
    BY <1>1, <1>2, <2>1, <2>2, HomeUnique
  <2>4. QED
    BY <1>2, <1>3, <1>4, <2>3 DEF Home
<1>5. CASE u \notin ChainTxs(pprev[b])
  <2>1. HomeOf(u, b) \notin Chain[pprev[b]] \ {GenesisBlock}
    BY <1>2, <1>5 DEF ChainTxs
  <2>2. HomeOf(u, b) = b
    BY <1>1, <1>2, <2>1
  <2>3. QED
    BY <1>2, <1>3, <1>5, <2>2 DEF Home
<1>6. QED
  BY <1>4, <1>5

\* A transaction has one position in its block.
LEMMA PositionIs ==
    ASSUME NEW b \in Blocks \ {GenesisBlock}, NEW i \in 1..Len(vtx[b])
    PROVE  PositionIn(vtx[b][i], b) = i
BY CheckedBlocks DEF PositionIn

\* The fees, as the rule of consensus counts them.
LEMMA FeesAre ==
    ASSUME NEW b \in Blocks
    PROVE  Fees(b) = Total(FeeOf, Paying(b, Len(vtx[b])))
<1> DEFINE S == Paying(b, Len(vtx[b]))
<1>1. vtx[b] \in Seq(Txs)
  BY LedgerAssumption
<1>2. BlockTxs(b) = {vtx[b][j] : j \in 1..Len(vtx[b])} /\ BlockTxs(b) \subseteq Txs
  BY <1>1 DEF BlockTxs, ToSet
<1>3. {t \in BlockTxs(b) : ~Minted(t)} = S /\ S \subseteq Txs
  BY <1>2 DEF Paying
<1> HIDE DEF S
<1>4. [t \in S |-> GetValueIn[t] - GetValueOut[t]] = [t \in S |-> FeeOf[t]]
  BY <1>3 DEF FeeOf
<1>5. Fees(b) = FoldFunction(+, 0, [t \in S |-> GetValueIn[t] - GetValueOut[t]])
  BY <1>3 DEF Fees, SumOver
<1>6. QED
  BY <1>4, <1>5 DEF Total, S

\* Whether the inputs of a transaction are mature, in both wordings.
LEMMA MatureIs ==
    ASSUME NEW b \in Blocks, NEW u, NEW entry, entry.pos \in Chain[b]
    PROVE  IsMature(entry, u, b) <=> (Minted(u) => nHeight[b] - nHeight[entry.pos] >= nCoinbaseMaturity)
<1>1. entry.pos \in Blocks
  BY ChainClosed
<1>2. nHeight[b] \in Nat /\ nHeight[entry.pos] \in Nat /\ nCoinbaseMaturity \in Nat
  BY <1>1, TreeAssumption, LedgerAssumption
<1>3. nHeight[b] - nHeight[entry.pos] < nCoinbaseMaturity <=> ~(nHeight[b] - nHeight[entry.pos] >= nCoinbaseMaturity)
  BY <1>2
<1>4. QED
  BY <1>3 DEF IsMature

\* What the index says of an input: where it was created and whether it is spent.
LEMMA InputEntry ==
    ASSUME NEW b \in Blocks \ {GenesisBlock}, NEW T \in SUBSET Txs, NEW t \in Txs, NEW o \in vin[t], o[1] \in T,
           o[2] \in 1..Len(vout[o[1]])
    PROVE  LET x == Table(T, Home(b))[o[1]]
           IN  x # NULL /\ x.pos = Home(b)[o[1]] /\ x.vSpent[o[2]] = Spent(T, o)
<1>1. o = <<o[1], o[2]>> /\ o[1] \in Txs
  BY OutpointPair
<1>2. Table(T, Home(b))[o[1]] = Entry(T, Home(b), o[1])
  BY <1>1 DEF Table
<1>3. Entry(T, Home(b), o[1]) # NULL
  BY <1>1, HomeType, EntryNotNull
<1>4. Entry(T, Home(b), o[1]).vSpent[o[2]] = Spent(T, o)
  BY <1>1 DEF Entry
<1>5. Entry(T, Home(b), o[1]).pos = Home(b)[o[1]]
  BY DEF Entry
<1>6. QED
  BY <1>2, <1>3, <1>4, <1>5

\* The rule for one transaction.
ValidTx(b, t) ==
    /\ t \in Verifies \cup CoinBases
    /\ \A o \in vin[t] :
          /\ CreatedBefore(o, t, b)
          /\ SpendersOf(o, b) = {t}
          /\ Minted(o[1]) => nHeight[b] - nHeight[HomeOf(o[1], b)] >= nCoinbaseMaturity
    /\ t \in CoinStakes => GetValueOut[t] <= GetValueIn[t] + nReward
    /\ ~Minted(t) => GetValueOut[t] <= GetValueIn[t]

\* The rule about values, in both wordings.
LEMMA ValuesCovered ==
    ASSUME NEW t \in Txs, t \notin CoinBases, \A o \in vin[t] : o[2] \in 1..Len(vout[o[1]])
    PROVE  (IF t \in CoinStakes THEN GetValueOut[t] - GetValueIn[t] <= nReward
                                ELSE GetValueIn[t] >= GetValueOut[t])
           <=> /\ t \in CoinStakes => GetValueOut[t] <= GetValueIn[t] + nReward
               /\ ~Minted(t) => GetValueOut[t] <= GetValueIn[t]
<1> DEFINE x == GetValueOut[t]
           y == GetValueIn[t]
<1>1. x \in Int /\ y \in Int /\ nReward \in Int
  BY ValueInIs, ValueOutIs, LedgerAssumption
<1> HIDE DEF x, y
<1>2. (x - y <= nReward) <=> (x <= y + nReward)
  BY <1>1
<1>3. (y >= x) <=> (x <= y)
  BY <1>1
<1>4. Minted(t) <=> t \in CoinStakes
  BY DEF Minted
<1>5. QED
  BY <1>2, <1>3, <1>4 DEF x, y

\* A transaction that connects is valid.
LEMMA ConnectedIsValid ==
    ASSUME NEW b \in Blocks \ {GenesisBlock}, CleanChain(b), CleanChain(pprev[b]),
           NEW k \in 1..Len(vtx[b]), TxOk(b, k)
    PROVE  ValidTx(b, vtx[b][k])
<1> DEFINE t == vtx[b][k]
           T == Upto(b, k - 1)
           idx == Table(T, Home(b))
<1>0. vtx[b] \in Seq(Txs) /\ Len(vtx[b]) \in Nat /\ t \in Txs
  BY LedgerAssumption
<1>1. /\ Clean(b) /\ BlockTxs(b) \cap ChainTxs(pprev[b]) = {} /\ Sound(ChainTxs(b))
      /\ ChainTxs(b) = Upto(b, Len(vtx[b])) /\ ChainTxs(b) = ChainTxs(pprev[b]) \cup BlockTxs(b)
  BY ChainClosed, CleanIsNew, CleanIsSound, ChainTxsStep DEF CleanChain
<1>2. CASE t \in CoinBases
  <2>1. vin[t] = {} /\ Minted(t) /\ t \notin CoinStakes
    BY <1>2, LedgerAssumption DEF Minted
  <2>2. QED
    BY <1>2, <2>1 DEF ValidTx
<1>3. CASE t \notin CoinBases
  <2>1. FetchInputs(idx, t) /\ ConnectInputs(idx, t, b)
    BY <1>3 DEF TxOk
  <2>2. \A o \in vin[t] : o[2] \in 1..Len(vout[o[1]])
    BY <2>1 DEF FetchInputs
  <2>3. \A o \in vin[t] : o[1] \in T
    BY <1>0, <2>1, FetchedIsIn
  <2>4. T \subseteq ChainTxs(b) /\ T \subseteq Txs /\ t \in ChainTxs(b)
    BY <1>0, <1>1 DEF Upto, Sound
  <2>5. ASSUME NEW o \in vin[t]
        PROVE  /\ CreatedBefore(o, t, b)
               /\ SpendersOf(o, b) = {t}
               /\ Minted(o[1]) => nHeight[b] - nHeight[HomeOf(o[1], b)] >= nCoinbaseMaturity
    <3>1. CreatedBefore(o, t, b)
      <4>1. CASE o[1] \in ChainTxs(pprev[b])
        BY <2>2, <4>1 DEF CreatedBefore
      <4>2. CASE o[1] \notin ChainTxs(pprev[b])
        <5>1. PICK i \in 1..(k - 1) : o[1] = vtx[b][i]
          BY <2>3, <4>2 DEF Upto
        <5>2. i \in 1..Len(vtx[b]) /\ i < k
          BY <1>0
        <5>3. PositionIn(o[1], b) = i /\ PositionIn(t, b) = k
          BY <5>1, <5>2, PositionIs
        <5>4. o[1] \in BlockTxs(b)
          BY <1>0, <5>1, <5>2 DEF BlockTxs, ToSet
        <5>5. QED
          BY <2>2, <5>2, <5>3, <5>4 DEF CreatedBefore
      <4>3. QED
        BY <4>1, <4>2
    <3>2. SpendersOf(o, b) = {t}
      BY <1>1, <2>4 DEF SpendersOf, Sound
    <3>3. Home(b)[o[1]] = HomeOf(o[1], b) /\ HomeOf(o[1], b) \in Chain[b]
      BY <1>1, <2>3, <2>4, HomeIs
    <3>4. idx[o[1]].pos = HomeOf(o[1], b)
      BY <1>0, <2>2, <2>3, <2>4, <3>3, InputEntry
    <3>5. IsMature(idx[o[1]], o[1], b)
      BY <2>1 DEF ConnectInputs
    <3> DEFINE entry == idx[o[1]]
    <3>6. entry.pos \in Chain[b] /\ IsMature(entry, o[1], b) /\ entry.pos = HomeOf(o[1], b)
      BY <3>3, <3>4, <3>5
    <3> HIDE DEF entry
    <3>7. Minted(o[1]) => nHeight[b] - nHeight[HomeOf(o[1], b)] >= nCoinbaseMaturity
      BY <3>6, MatureIs
    <3>8. QED
      BY <3>1, <3>2, <3>7
  <2>6. /\ t \in CoinStakes => GetValueOut[t] <= GetValueIn[t] + nReward
        /\ ~Minted(t) => GetValueOut[t] <= GetValueIn[t]
    BY <1>0, <1>3, <2>1, <2>2, ValuesCovered DEF ConnectInputs
  <2>7. t \in Verifies
    BY <2>1 DEF ConnectInputs
  <2>8. QED
    BY <2>5, <2>6, <2>7 DEF ValidTx
<1>4. QED
  BY <1>2, <1>3

\* A valid transaction connects.
LEMMA ValidIsConnected ==
    ASSUME NEW b \in Blocks \ {GenesisBlock}, CleanChain(pprev[b]),
           BlockTxs(b) \cap ChainTxs(pprev[b]) = {},
           NEW k \in 1..Len(vtx[b]), ValidTx(b, vtx[b][k])
    PROVE  TxOk(b, k)
<1> DEFINE t == vtx[b][k]
           T == Upto(b, k - 1)
           idx == Table(T, Home(b))
<1>0. vtx[b] \in Seq(Txs) /\ Len(vtx[b]) \in Nat /\ t \in Txs
  BY LedgerAssumption
<1>1. ChainTxs(b) = ChainTxs(pprev[b]) \cup BlockTxs(b) /\ ChainTxs(b) = Upto(b, Len(vtx[b])) /\ t \in BlockTxs(b)
  BY <1>0, ChainTxsStep DEF BlockTxs, ToSet
<1>2. T \subseteq ChainTxs(b) /\ T \subseteq Txs
  <2>1. T \subseteq ChainTxs(b)
    BY <1>0, <1>1 DEF Upto
  <2>2. QED
    BY <2>1, HomeIs
<1>3. t \notin T
  <2> SUFFICES ASSUME t \in T PROVE FALSE
    OBVIOUS
  <2>1. t \notin ChainTxs(pprev[b])
    BY <1>1
  <2>2. PICK i \in 1..(k - 1) : t = vtx[b][i]
    BY <2>1 DEF Upto
  <2>3. i \in 1..Len(vtx[b]) /\ i # k
    BY <1>0
  <2>4. QED
    BY <2>2, <2>3, CheckedBlocks
<1>4. ASSUME NEW o \in vin[t]
      PROVE  /\ o[1] \in T /\ o[2] \in 1..Len(vout[o[1]])
             /\ idx[o[1]] # NULL /\ IsMature(idx[o[1]], o[1], b) /\ idx[o[1]].vSpent[o[2]] = NULL
  <2>1. CreatedBefore(o, t, b) /\ SpendersOf(o, b) = {t}
    BY DEF ValidTx
  <2>2. o[2] \in 1..Len(vout[o[1]])
    BY <2>1 DEF CreatedBefore
  <2>3. o[1] \in T
    <3>1. CASE o[1] \in ChainTxs(pprev[b])
      BY <3>1 DEF Upto
    <3>2. CASE o[1] \in BlockTxs(b) /\ PositionIn(o[1], b) < PositionIn(t, b)
      <4>1. PICK i \in 1..Len(vtx[b]) : o[1] = vtx[b][i]
        BY <1>0, <3>2 DEF BlockTxs, ToSet
      <4>2. PositionIn(o[1], b) = i /\ PositionIn(t, b) = k
        BY <4>1, PositionIs
      <4>3. i \in 1..(k - 1)
        BY <1>0, <3>2, <4>2
      <4>4. QED
        BY <4>1, <4>3 DEF Upto
    <3>3. QED
      BY <2>1, <3>1, <3>2 DEF CreatedBefore
  <2>4. idx[o[1]] # NULL /\ idx[o[1]].pos = Home(b)[o[1]] /\ idx[o[1]].vSpent[o[2]] = Spent(T, o)
    BY <1>0, <1>2, <2>2, <2>3, InputEntry
  <2>5. Spent(T, o) = NULL
    <3>1. ASSUME NEW u \in T, o \in vin[u] PROVE FALSE
      <4>1. u \in SpendersOf(o, b)
        BY <1>2, <3>1 DEF SpendersOf
      <4>2. QED
        BY <1>3, <2>1, <4>1
    <3>2. QED
      BY <3>1 DEF Spent
  <2>6. Home(b)[o[1]] = HomeOf(o[1], b) /\ HomeOf(o[1], b) \in Chain[b]
    BY <1>2, <2>3, HomeIs
  <2> DEFINE entry == idx[o[1]]
  <2>7. entry.pos = HomeOf(o[1], b) /\ entry.pos \in Chain[b]
    BY <2>4, <2>6
  <2>8. Minted(o[1]) => nHeight[b] - nHeight[HomeOf(o[1], b)] >= nCoinbaseMaturity
    BY DEF ValidTx
  <2> HIDE DEF entry
  <2>9. IsMature(entry, o[1], b)
    BY <2>7, <2>8, MatureIs
  <2>10. QED
    BY <2>2, <2>3, <2>4, <2>5, <2>9 DEF entry
<1>5. FetchInputs(idx, t)
  BY <1>4 DEF FetchInputs
<1>6. ASSUME t \notin CoinBases PROVE ConnectInputs(idx, t, b)
  <2>1. t \in Verifies
    BY <1>6 DEF ValidTx
  <2>2. \A o \in vin[t] : o[2] \in 1..Len(vout[o[1]])
    BY <1>4
  <2>3. /\ t \in CoinStakes => GetValueOut[t] <= GetValueIn[t] + nReward
        /\ ~Minted(t) => GetValueOut[t] <= GetValueIn[t]
    BY DEF ValidTx
  <2>4. IF t \in CoinStakes THEN GetValueOut[t] - GetValueIn[t] <= nReward
                            ELSE GetValueIn[t] >= GetValueOut[t]
    BY <1>0, <1>6, <2>2, <2>3, ValuesCovered
  <2>5. QED
    BY <1>4, <2>1, <2>4 DEF ConnectInputs
<1>7. QED
  BY <1>5, <1>6 DEF TxOk

(***************************************************************************)
(* On the ledger of a clean chain, ConnectBlock succeeds exactly for the   *)
(* blocks that are valid, and then the index is the ledger of the block's  *)
(* chain and mint is what the unspent outputs have gained.                 *)
(***************************************************************************)
LEMMA ConnectLedger ==
    ASSUME NEW b \in Blocks \ {GenesisBlock}, CleanChain(pprev[b])
    PROVE  LET r == ConnectBlock(LedgerOf(pprev[b]), b)
           IN  /\ r.ok <=> ValidBlock(b)
               /\ r.ok => /\ r.idx = LedgerOf(b) /\ CleanChain(b)
                          /\ r.mint = Worth(ChainTxs(b)) - Worth(ChainTxs(pprev[b]))
<1> DEFINE db == LedgerOf(pprev[b])
           n == Len(vtx[b])
           r == ConnectBlock(db, b)
           F == IsProofOfWork(b) => GetValueOut[vtx[b][1]] <= nReward + Fees(b)
           G == BlockTxs(b) \cap ChainTxs(pprev[b]) = {}
<1>1. db = Table(ChainTxs(pprev[b]), Home(b))
  BY LedgerBefore
<1>2. Sound(ChainTxs(pprev[b]))
  BY CleanIsSound, TreeAssumption
<1>3. Fees(b) = Total(FeeOf, Paying(b, n))
  BY FeesAre
<1>4. BlockTxs(b) = {vtx[b][j] : j \in 1..n}
  BY LedgerAssumption DEF BlockTxs, ToSet
<1>5. ValidBlock(b) <=> G /\ (\A j \in 1..n : ValidTx(b, vtx[b][j])) /\ F
  <2>1. (\A t \in BlockTxs(b) : ValidTx(b, t)) <=> \A j \in 1..n : ValidTx(b, vtx[b][j])
    BY <1>4
  <2>2. ValidBlock(b) <=> G /\ (\A t \in BlockTxs(b) : ValidTx(b, t)) /\ F
    BY DEF ValidBlock, ValidTx
  <2>3. QED
    BY <2>1, <2>2
<1>6. /\ r.ok <=> (\A j \in 1..n : TxOk(b, j)) /\ F
      /\ r.ok => /\ r.idx = Table(Upto(b, n), Home(b)) /\ Clean(b)
                 /\ r.mint = Worth(Upto(b, n)) - Worth(ChainTxs(pprev[b]))
  <2> HIDE DEF db
  <2>1. QED
    BY <1>1, <1>2, <1>3, ConnectBlockLedger
<1> HIDE DEF r, F
<1>7. ASSUME r.ok PROVE /\ CleanChain(b) /\ r.idx = LedgerOf(b)
                        /\ r.mint = Worth(ChainTxs(b)) - Worth(ChainTxs(pprev[b]))
  <2>1. CleanChain(b)
    BY <1>6, <1>7, CleanNext
  <2>2. LedgerOf(b) = Table(Upto(b, n), Home(b)) /\ ChainTxs(b) = Upto(b, n)
    BY <2>1, LedgerAfter, ChainTxsStep
  <2>3. QED
    BY <1>6, <1>7, <2>1, <2>2
<1>8. ASSUME r.ok PROVE ValidBlock(b)
  <2>1. Clean(b) /\ G
    BY <1>6, <1>8, CleanIsNew
  <2>2. \A j \in 1..n : ValidTx(b, vtx[b][j])
    BY <1>6, <1>7, <1>8, ConnectedIsValid
  <2>3. QED
    BY <1>5, <1>6, <1>8, <2>1, <2>2
<1>9. ASSUME ValidBlock(b) PROVE r.ok
  <2>1. \A j \in 1..n : TxOk(b, j)
    BY <1>5, <1>9, ValidIsConnected
  <2>2. QED
    BY <1>5, <1>6, <1>9, <2>1
<1>10. QED
  BY <1>7, <1>8, <1>9 DEF r

\* DisconnectBlock takes the ledger of the block back to that of its parent, and succeeds.
LEMMA DisconnectLedger ==
    ASSUME NEW b \in Blocks \ {GenesisBlock}, CleanChain(b)
    PROVE  /\ DisconnectBlock([ok |-> TRUE, idx |-> LedgerOf(b)], b)
                 = [ok |-> TRUE, idx |-> LedgerOf(pprev[b])]
           /\ CleanChain(pprev[b])
<1>1. Clean(b) /\ pprev[b] \in Chain[b]
  BY ChainClosed, ChainStep DEF CleanChain
<1>2. CleanChain(pprev[b])
  BY <1>1, CleanBelow
<1>3. LedgerOf(b) = Table(Upto(b, Len(vtx[b])), Home(b))
  BY LedgerAfter
<1>4. LedgerOf(pprev[b]) = Table(ChainTxs(pprev[b]), Home(b))
  BY <1>2, LedgerBefore
<1>5. DisconnectBlock([ok |-> TRUE, idx |-> Table(Upto(b, Len(vtx[b])), Home(b))], b)
         = [ok |-> TRUE, idx |-> Table(ChainTxs(pprev[b]), Home(b))]
  BY <1>1, DisconnectBlockLedger
<1>6. QED
  BY <1>2, <1>3, <1>4, <1>5

-----------------------------------------------------------------------------
(***************************************************************************)
(* The branches of Reorganize.                                             *)
(***************************************************************************)
\* The branch of b above its fork with c, height by height.
LEMMA BranchShape ==
    ASSUME NEW b \in Blocks, NEW c \in Blocks
    PROVE  LET h == nHeight[Fork[b][c]]
               n == nHeight[b] - h
           IN  /\ h \in Nat /\ n \in Nat /\ nHeight[b] \in Nat
               /\ Branch(b, c) \in Seq(Blocks) /\ Len(Branch(b, c)) = n
               /\ \A i \in 1..n : Branch(b, c)[i] = AtHeight(b, h + i)
               /\ AtHeight(b, h) = Fork[b][c]
<1> DEFINE h == nHeight[Fork[b][c]]
           n == nHeight[b] - h
<1>1. Fork[b][c] \in Chain[b] /\ Fork[b][c] \in Blocks /\ nHeight \in [Blocks -> Nat]
  BY ForkOnChains, ChainClosed, TreeAssumption
<1>2. AtHeight(b, h) = Fork[b][c] /\ h \in 0..nHeight[b]
  BY <1>1, AtHeightIs
<1>3. h \in Nat /\ n \in Nat /\ nHeight[b] \in Nat /\ h + 1 \in 0..(nHeight[b] + 1)
  BY <1>1, <1>2
<1>4. Branch(b, c) = [i \in 1..(nHeight[b] - (h + 1) + 1) |-> AtHeight(b, (h + 1) + i - 1)]
  <2>1. UpFrom[b][h + 1] = [i \in 1..(nHeight[b] - (h + 1) + 1) |-> AtHeight(b, (h + 1) + i - 1)]
    BY <1>3 DEF UpFrom
  <2>2. QED
    BY <2>1 DEF Branch
<1> HIDE DEF h
<1>5. nHeight[b] - (h + 1) + 1 = n
  BY <1>3
<1>6. \A i \in 1..n : (h + 1) + i - 1 = h + i /\ h + i \in 0..nHeight[b]
  BY <1>3
<1>7. \A i \in 1..n : AtHeight(b, h + i) \in Blocks
  BY <1>6, HeightOnChain, ChainClosed
<1> HIDE DEF n
<1>8. Branch(b, c) = [i \in 1..n |-> AtHeight(b, h + i)]
  BY <1>4, <1>5, <1>6
<1>9. Branch(b, c) \in Seq(Blocks) /\ Len(Branch(b, c)) = n
  BY <1>3, <1>7, <1>8
<1>10. QED
  BY <1>2, <1>3, <1>8, <1>9 DEF h, n

\* Downwards: e is the block the loop starts at.
DisconnectBlockIn(e, s, b) == DisconnectBlock(s, b)

DownTo(e, k, s) == s = [ok |-> TRUE, idx |-> LedgerOf(AtHeight(e, nHeight[e] - k))]

DisconnectBranchLoop == INSTANCE FoldInduction WITH Op <- DisconnectBlockIn, Good <- DownTo

\* The blocks of a branch, downwards.
LEMMA BranchDown ==
    ASSUME NEW b \in Blocks, NEW c \in Blocks, NEW d \in 0..Len(Branch(b, c))
    PROVE  LET q == SubSeq(Reverse(Branch(b, c)), 1, d)
           IN  /\ q \in Seq(Blocks) /\ Len(q) = d
               /\ \A k \in 1..d : q[k] = AtHeight(b, nHeight[b] - k + 1)
               /\ d \in 0..nHeight[b]
<1> DEFINE h == nHeight[Fork[b][c]]
           n == nHeight[b] - h
           w == Reverse(Branch(b, c))
           q == SubSeq(w, 1, d)
<1>1. /\ h \in Nat /\ n \in Nat /\ nHeight[b] \in Nat
      /\ Branch(b, c) \in Seq(Blocks) /\ Len(Branch(b, c)) = n
      /\ \A i \in 1..n : Branch(b, c)[i] = AtHeight(b, h + i)
      /\ AtHeight(b, h) = Fork[b][c]
  BY BranchShape
<1>2. /\ q \in Seq(Blocks) /\ Len(q) = d
      /\ \A k \in 1..d : q[k] = AtHeight(b, nHeight[b] - k + 1)
  <2>1. w = [i \in 1..n |-> Branch(b, c)[(n - i) + 1]]
    BY <1>1 DEF Reverse
  <2>2. \A i \in 1..n : (n - i) + 1 \in 1..n /\ h + ((n - i) + 1) = nHeight[b] - i + 1
    <3> DEFINE t == nHeight[b]
    <3>1. h \in Nat /\ n \in Nat /\ t \in Nat /\ n = t - h
      BY <1>1
    <3> HIDE DEF h, n, t
    <3>2. \A i \in 1..n : (n - i) + 1 \in 1..n /\ h + ((n - i) + 1) = t - i + 1
      BY <3>1
    <3>3. QED
      BY <3>2 DEF t
  <2> HIDE DEF h, n, w
  <2>3. w = [i \in 1..n |-> AtHeight(b, nHeight[b] - i + 1)]
    BY <1>1, <2>1, <2>2
  <2>4. \A i \in 1..n : Branch(b, c)[(n - i) + 1] \in Blocks
    BY <1>1, <2>2
  <2>5. w \in Seq(Blocks) /\ Len(w) = n
    BY <1>1, <2>1, <2>4
  <2>6. d \in Nat /\ d <= n
    BY <1>1
  <2>7. q = [i \in 1..d |-> w[i]]
    BY <2>5, <2>6
  <2>8. \A i \in 1..d : i \in 1..n /\ w[i] \in Blocks
    BY <2>5, <2>6, <1>1
  <2> HIDE DEF q
  <2>9. q \in Seq(Blocks) /\ Len(q) = d
    BY <2>6, <2>7, <2>8
  <2>10. QED
    BY <2>3, <2>7, <2>8, <2>9
<1>3. d \in 0..nHeight[b]
  <2> DEFINE t == nHeight[b]
  <2>1. t \in Nat /\ h \in Nat /\ n \in Nat /\ n = t - h /\ d \in 0..n
    BY <1>1
  <2> HIDE DEF t, h, n
  <2>2. d \in 0..t
    BY <2>1
  <2>3. QED
    BY <2>2 DEF t
<1>4. QED
  BY <1>2, <1>3

\* Disconnecting d blocks of a branch leads to the ledger of the block below them.
LEMMA DisconnectBranchLedger ==
    ASSUME NEW b \in Blocks, NEW c \in Blocks, CleanChain(b), NEW d \in 0..Len(Branch(b, c))
    PROVE  FoldLeft(DisconnectBlock, [ok |-> TRUE, idx |-> LedgerOf(b)],
                    SubSeq(Reverse(Branch(b, c)), 1, d))
              = [ok |-> TRUE, idx |-> LedgerOf(AtHeight(b, nHeight[b] - d))]
<1> DEFINE h == nHeight[Fork[b][c]]
           n == nHeight[b] - h
           w == Reverse(Branch(b, c))
           q == SubSeq(w, 1, d)
           s0 == [ok |-> TRUE, idx |-> LedgerOf(b)]
<1>1. /\ h \in Nat /\ n \in Nat /\ nHeight[b] \in Nat
      /\ Branch(b, c) \in Seq(Blocks) /\ Len(Branch(b, c)) = n
      /\ \A i \in 1..n : Branch(b, c)[i] = AtHeight(b, h + i)
      /\ AtHeight(b, h) = Fork[b][c]
  BY BranchShape
<1>2. /\ q \in Seq(Blocks) /\ Len(q) = d
      /\ \A k \in 1..d : q[k] = AtHeight(b, nHeight[b] - k + 1)
  BY BranchDown
<1>3. DisconnectBranchLoop!Loop(b, s0, q) = FoldLeft(DisconnectBlock, s0, q)
  BY DEF DisconnectBranchLoop!Loop, FoldLeft, MapThenFoldSet,
         Max, DisconnectBranchLoop!Max, DisconnectBlockIn
<1>4. DownTo(b, 0, s0)
  <2>1. AtHeight(b, nHeight[b]) = b
    BY AtHeightIs, ChainClosed
  <2>2. nHeight[b] - 0 = nHeight[b]
    BY <1>1
  <2>3. QED
    BY <2>1, <2>2 DEF DownTo
<1>5. d \in 0..n
  BY <1>1
<1> HIDE DEF q, n, h
<1>6. ASSUME NEW k \in 1..Len(q), NEW s, DownTo(b, k - 1, s)
      PROVE  DownTo(b, k, DisconnectBlockIn(b, s, q[k]))
  <2> DEFINE g == nHeight[b] - k + 1
             x == AtHeight(b, g)
  <2>1. g \in 1..nHeight[b] /\ nHeight[b] - (k - 1) = g /\ g - 1 = nHeight[b] - k /\ g \in 0..nHeight[b]
    BY <1>5, <1>1, <1>2 DEF n
  <2>2. x \in Blocks \ {GenesisBlock} /\ pprev[x] = AtHeight(b, g - 1)
    BY <2>1, AtHeightPrev
  <2>3. x \in Chain[b]
    BY <2>1, HeightOnChain
  <2>4. CleanChain(x)
    BY <2>3, CleanBelow
  <2>5. q[k] = x
    BY <1>2
  <2>6. s = [ok |-> TRUE, idx |-> LedgerOf(x)]
    BY <1>6, <2>1 DEF DownTo
  <2> HIDE DEF x
  <2>7. DisconnectBlock(s, x) = [ok |-> TRUE, idx |-> LedgerOf(pprev[x])]
    BY <2>2, <2>4, <2>6, DisconnectLedger
  <2>8. QED
    BY <2>1, <2>2, <2>5, <2>7 DEF DownTo, DisconnectBlockIn
<1>7. DownTo(b, Len(q), FoldLeft(DisconnectBlock, s0, q))
  BY <1>2, <1>3, <1>4, <1>6, DisconnectBranchLoop!FoldInvariant
<1>8. QED
  BY <1>2, <1>7 DEF DownTo, q

(***************************************************************************)
(* Upwards: the loop connects the branch of e.b above height e.h, where it *)
(* leaves the chain of e.c, and starts in the state e.s.  It goes on until *)
(* a block is not valid; the money supply it has recorded is the worth of  *)
(* the free outputs, and that of the old branch is not touched.            *)
(***************************************************************************)
SupplyOn(supply, b) == \A x \in Chain[b] : supply[x] = Worth(ChainTxs(x))

ConnectNextIn(e, s, b) == ConnectNext(s, b)

UpTo(e, k, s) ==
    /\ s.ok <=> \A i \in 1..k : ValidBlock(AtHeight(e.b, e.h + i))
    /\ s.ok => /\ CleanChain(AtHeight(e.b, e.h + k))
               /\ s.idx = LedgerOf(AtHeight(e.b, e.h + k))
               /\ SupplyOn(s.supply, AtHeight(e.b, e.h + k))
    /\ s.supply \in [Blocks -> Int]
    /\ \A x \in Chain[e.c] : s.supply[x] = e.supply[x]

ConnectBranchLoop == INSTANCE FoldInduction WITH Op <- ConnectNextIn, Good <- UpTo

\* The blocks of a branch are not on the chain it leaves.
LEMMA BranchIsOff ==
    ASSUME NEW b \in Blocks, NEW c \in Blocks, NEW i \in 1..Len(Branch(b, c))
    PROVE  AtHeight(b, nHeight[Fork[b][c]] + i) \notin Chain[c]
<1> DEFINE h == nHeight[Fork[b][c]]
           n == nHeight[b] - h
           x == AtHeight(b, h + i)
<1>1. h \in Nat /\ n \in Nat /\ nHeight[b] \in Nat /\ Len(Branch(b, c)) = n
  BY BranchShape
<1> HIDE DEF h
<1>2. h + i \in 0..nHeight[b] /\ ~(h + i <= h)
  BY <1>1
<1>3. x \in Chain[b] /\ nHeight[x] = h + i
  BY <1>2, HeightOnChain
<1>4. x \in Chain[c] => nHeight[x] <= h
  BY <1>3, ForkOnChains DEF h
<1>5. QED
  BY <1>2, <1>3, <1>4 DEF h

\* The money supply of a block that connects.
LEMMA SupplyNext ==
    ASSUME NEW b \in Blocks \ {GenesisBlock}, NEW r, NEW supply \in [Blocks -> Int],
           SupplyOn(supply, pprev[b]), r.ok,
           r.mint = Worth(ChainTxs(b)) - Worth(ChainTxs(pprev[b]))
    PROVE  /\ WithSupply(supply, b, r) = [supply EXCEPT ![b] = Worth(ChainTxs(b))]
           /\ WithSupply(supply, b, r) \in [Blocks -> Int]
           /\ SupplyOn(WithSupply(supply, b, r), b)
<1> DEFINE p == pprev[b]
           v == Worth(ChainTxs(b))
<1>1. p \in Blocks /\ Chain[b] = Chain[p] \cup {b} /\ p \in Chain[p] /\ Chain[p] \subseteq Blocks
  BY ChainStep, ChainClosed
<1>2. supply[p] = Worth(ChainTxs(p)) /\ Worth(ChainTxs(p)) \in Int /\ v \in Int
  BY <1>1, WorthType DEF SupplyOn
<1>3. supply[p] + r.mint = v
  BY <1>2
<1> HIDE DEF v
<1>4. WithSupply(supply, b, r) = [supply EXCEPT ![b] = v]
  BY <1>3 DEF WithSupply
<1>5. [supply EXCEPT ![b] = v] \in [Blocks -> Int]
  BY <1>2
<1>6. SupplyOn([supply EXCEPT ![b] = v], b)
  BY <1>1 DEF SupplyOn, v
<1>7. QED
  BY <1>4, <1>5, <1>6 DEF v

\* Connecting k blocks of a branch on top of the fork.
LEMMA ConnectBranchLedger ==
    ASSUME NEW b \in Blocks, NEW c \in Blocks, CleanChain(Fork[b][c]),
           NEW supply \in [Blocks -> Int], SupplyOn(supply, c),
           NEW k \in 0..Len(Branch(b, c))
    PROVE  UpTo([b |-> b, h |-> nHeight[Fork[b][c]], c |-> c, supply |-> supply], k,
                FoldLeft(ConnectNext,
                         [ok |-> TRUE, idx |-> LedgerOf(Fork[b][c]), supply |-> supply],
                         SubSeq(Branch(b, c), 1, k)))
<1> DEFINE h == nHeight[Fork[b][c]]
           n == nHeight[b] - h
           w == Branch(b, c)
           q == SubSeq(w, 1, k)
           e == [b |-> b, h |-> h, c |-> c, supply |-> supply]
           s0 == [ok |-> TRUE, idx |-> LedgerOf(Fork[b][c]), supply |-> supply]
<1>1. e.b = b /\ e.h = h /\ e.c = c /\ e.supply = supply
  OBVIOUS
<1>2. /\ h \in Nat /\ n \in Nat /\ nHeight[b] \in Nat
      /\ w \in Seq(Blocks) /\ Len(w) = n
      /\ \A i \in 1..n : w[i] = AtHeight(b, h + i)
      /\ AtHeight(b, h) = Fork[b][c]
  BY BranchShape
<1>3. k \in Nat /\ k <= n
  BY <1>2
<1>4. /\ q \in Seq(Blocks) /\ Len(q) = k
      /\ \A i \in 1..k : q[i] = AtHeight(b, h + i)
  <2> HIDE DEF h, n, w
  <2>1. q = [i \in 1..k |-> w[i]]
    BY <1>2, <1>3
  <2>2. \A i \in 1..k : i \in 1..n /\ w[i] \in Blocks
    BY <1>2, <1>3
  <2> HIDE DEF q
  <2>3. q \in Seq(Blocks) /\ Len(q) = k
    BY <1>3, <2>1, <2>2
  <2>4. QED
    BY <1>2, <2>1, <2>2, <2>3
<1>5. ConnectBranchLoop!Loop(e, s0, q) = FoldLeft(ConnectNext, s0, q)
  BY DEF ConnectBranchLoop!Loop, FoldLeft, MapThenFoldSet,
         Max, ConnectBranchLoop!Max, ConnectNextIn
<1>6. \A i \in 1..k : AtHeight(b, h + i) \notin Chain[c]
  <2>1. \A i \in 1..k : i \in 1..Len(Branch(b, c))
    BY <1>2, <1>3
  <2>2. QED
    BY <2>1, BranchIsOff
<1> HIDE DEF e, h, n, w, q
<1>7. UpTo(e, 0, s0)
  <2>1. h + 0 = h /\ 1..0 = {}
    BY <1>2
  <2>2. SupplyOn(supply, Fork[b][c])
    BY ForkOnChains, ChainTransitive DEF SupplyOn
  <2>3. /\ s0.ok /\ s0.idx = LedgerOf(Fork[b][c]) /\ s0.supply = supply
        /\ AtHeight(e.b, e.h + 0) = Fork[b][c]
    BY <1>1, <1>2, <2>1
  <2> HIDE DEF s0
  <2>4. s0.ok <=> \A i \in 1..0 : ValidBlock(AtHeight(e.b, e.h + i))
    BY <2>1, <2>3
  <2>5. QED
    BY <1>1, <2>2, <2>3, <2>4 DEF UpTo
<1>8. ASSUME NEW i \in 1..Len(q), NEW s, UpTo(e, i - 1, s)
      PROVE  UpTo(e, i, ConnectNextIn(e, s, q[i]))
  <2> DEFINE x == AtHeight(b, h + i)
             r == ConnectBlock(s.idx, x)
             u == ConnectNext(s, x)
  <2>1. h + i \in 1..nHeight[b] /\ (h + i) - 1 = h + (i - 1) /\ i \in 1..k
    BY <1>2, <1>3, <1>4 DEF n
  <2>2. x \in Blocks \ {GenesisBlock} /\ pprev[x] = AtHeight(b, h + (i - 1))
    BY <2>1, AtHeightPrev
  <2>3. q[i] = x /\ x \notin Chain[c]
    BY <1>4, <1>6, <2>1
  <2>4. AtHeight(e.b, e.h + i) = x /\ AtHeight(e.b, e.h + (i - 1)) = pprev[x]
    BY <1>1, <2>2
  <2> HIDE DEF x
  <2>5. (\A j \in 1..i : ValidBlock(AtHeight(e.b, e.h + j)))
           <=> (\A j \in 1..(i - 1) : ValidBlock(AtHeight(e.b, e.h + j))) /\ ValidBlock(x)
    <3>1. 1..i = 1..(i - 1) \cup {i}
      BY <2>1
    <3>2. QED
      BY <2>4, <3>1
  <2>6. /\ s.ok <=> \A j \in 1..(i - 1) : ValidBlock(AtHeight(e.b, e.h + j))
        /\ s.ok => /\ CleanChain(pprev[x]) /\ s.idx = LedgerOf(pprev[x])
                   /\ SupplyOn(s.supply, pprev[x])
        /\ s.supply \in [Blocks -> Int]
        /\ \A y \in Chain[c] : s.supply[y] = supply[y]
    BY <1>1, <1>8, <2>4 DEF UpTo
  <2>7. ASSUME /\ u.ok <=> s.ok /\ ValidBlock(x)
               /\ u.ok => CleanChain(x) /\ u.idx = LedgerOf(x) /\ SupplyOn(u.supply, x)
               /\ u.supply \in [Blocks -> Int]
               /\ \A y \in Chain[c] : u.supply[y] = supply[y]
        PROVE  UpTo(e, i, ConnectNextIn(e, s, q[i]))
    <3> HIDE DEF u
    <3>1. u.ok <=> \A j \in 1..i : ValidBlock(AtHeight(e.b, e.h + j))
      BY <2>5, <2>6, <2>7
    <3>2. ConnectNextIn(e, s, q[i]) = u
      BY <2>3 DEF ConnectNextIn, u
    <3>3. QED
      BY <1>1, <2>4, <2>7, <3>1, <3>2 DEF UpTo
  <2>8. CASE s.ok /\ r.ok
    <3>1. /\ r.idx = LedgerOf(x) /\ CleanChain(x) /\ ValidBlock(x)
          /\ r.mint = Worth(ChainTxs(x)) - Worth(ChainTxs(pprev[x]))
      BY <2>2, <2>6, <2>8, ConnectLedger
    <3>2. u.ok = r.ok /\ u.idx = r.idx /\ u.supply = WithSupply(s.supply, x, r)
      BY <2>8 DEF ConnectNext
    <3> HIDE DEF r, u
    <3>3. /\ u.supply = [s.supply EXCEPT ![x] = Worth(ChainTxs(x))]
          /\ u.supply \in [Blocks -> Int] /\ SupplyOn(u.supply, x)
      <4> DEFINE m == s.supply
      <4>1. m \in [Blocks -> Int] /\ SupplyOn(m, pprev[x]) /\ u.supply = WithSupply(m, x, r)
        BY <2>6, <2>8, <3>2
      <4> HIDE DEF m
      <4>2. /\ WithSupply(m, x, r) = [m EXCEPT ![x] = Worth(ChainTxs(x))]
            /\ WithSupply(m, x, r) \in [Blocks -> Int] /\ SupplyOn(WithSupply(m, x, r), x)
        BY <2>2, <2>8, <3>1, <4>1, SupplyNext
      <4>3. QED
        BY <4>1, <4>2 DEF m
    <3>4. \A y \in Chain[c] : u.supply[y] = supply[y]
      BY <2>3, <2>6, <3>3, ChainClosed
    <3>5. u.ok <=> s.ok /\ ValidBlock(x)
      BY <2>8, <3>1, <3>2
    <3>6. QED
      BY <2>7, <3>1, <3>2, <3>3, <3>4, <3>5
  <2>9. CASE s.ok /\ ~r.ok
    <3>1. ~ValidBlock(x)
      BY <2>2, <2>6, <2>9, ConnectLedger
    <3>2. u.ok = r.ok /\ u.supply = s.supply
      BY <2>9 DEF ConnectNext, WithSupply
    <3> HIDE DEF r, u
    <3>3. QED
      BY <2>6, <2>7, <2>9, <3>1, <3>2
  <2>10. CASE ~s.ok
    <3>1. u = s
      BY <2>10 DEF ConnectNext
    <3> HIDE DEF u
    <3>2. QED
      BY <2>6, <2>7, <2>10, <3>1
  <2>11. QED
    BY <2>8, <2>9, <2>10
<1>9. UpTo(e, Len(q), FoldLeft(ConnectNext, s0, q))
  <2> HIDE DEF s0
  <2>1. QED
    BY <1>4, <1>5, <1>7, <1>8, ConnectBranchLoop!FoldInvariant
<1>10. QED
  BY <1>4, <1>9 DEF e, h, q, w

\* Two chains part at the same block from either side.
LEMMA ForkSymmetric ==
    ASSUME NEW b \in Blocks, NEW c \in Blocks
    PROVE  Fork[b][c] = Fork[c][b]
<1> DEFINE Highest(S) == CHOOSE d \in S : \A x \in S : nHeight[x] <= nHeight[d]
<1>1. Fork[b][c] = Highest(Chain[b] \cap Chain[c])
  BY DEF Fork
<1>2. Fork[c][b] = Highest(Chain[c] \cap Chain[b])
  BY DEF Fork
<1>3. Chain[b] \cap Chain[c] = Chain[c] \cap Chain[b]
  OBVIOUS
<1> HIDE DEF Highest
<1>4. QED
  BY <1>1, <1>2, <1>3

-----------------------------------------------------------------------------
(***************************************************************************)
(* The invariant.  While postponed blocks are connected the database is    *)
(* ahead of pindexBest, and what is left to connect is the rest of the     *)
(* chain of pindexNew.                                                     *)
(***************************************************************************)
PointersInv ==
    /\ hashBestChain \in Blocks /\ pindexBest \in Blocks /\ pindexNew \in Blocks
    /\ mapBlockIndex \subseteq Blocks /\ vpindexSecondary \subseteq Blocks
    /\ pc \in {"idle", "set", "secondary", "pending"}
    /\ pc = "set" => pindexNew # GenesisBlock

IndexIsClean ==
    /\ CleanChain(hashBestChain)
    /\ txindex = LedgerOf(hashBestChain)
    /\ nMoneySupply \in [Blocks -> Int]
    /\ SupplyOn(nMoneySupply, hashBestChain)
    /\ pc # "secondary" => hashBestChain = pindexBest
    /\ pc = "secondary" => /\ hashBestChain \in Chain[pindexNew]
                           /\ vpindexSecondary = Chain[pindexNew] \ Chain[hashBestChain]

IndexInv == PointersInv /\ (~broken => IndexIsClean)

\* The database starts at the genesis block, with an empty index.
LEMMA IndexInvInit == RelayInit => IndexInv
<1> SUFFICES ASSUME RelayInit PROVE IndexInv
  OBVIOUS
<1>1. GenesisBlock \in Blocks
  BY TreeAssumption
<1>2. PointersInv
  BY <1>1 DEF RelayInit, Init, PointersInv
<1>3. CleanChain(GenesisBlock)
  BY ChainGenesis DEF CleanChain
<1>4. LedgerOf(GenesisBlock) = [t \in Txs |-> NULL]
  BY ChainTxsGenesis DEF LedgerOf
<1>5. nMoneySupply \in [Blocks -> Int] /\ SupplyOn(nMoneySupply, GenesisBlock)
  <2>1. nMoneySupply = [b \in Blocks |-> 0]
    BY DEF RelayInit, Init
  <2>2. Worth(ChainTxs(GenesisBlock)) = 0
    <3>1. Free(ChainTxs(GenesisBlock)) = {}
      BY ChainTxsGenesis DEF Free
    <3>2. QED
      BY <3>1, SumOfNone DEF Worth
  <2>3. QED
    BY <1>1, <2>1, <2>2, ChainGenesis DEF SupplyOn
<1>6. IndexIsClean
  BY <1>3, <1>4, <1>5 DEF RelayInit, Init, IndexIsClean
<1>7. QED
  BY <1>2, <1>6 DEF IndexInv

\* The first branch point heavier than the best block.
LEMMA IntermediateIs ==
    ASSUME PointersInv
    PROVE  pindexIntermediate \in Chain[pindexNew] /\ pindexIntermediate \in Blocks
<1>1. pindexNew \in Blocks /\ pindexBest \in Blocks
  BY DEF PointersInv
<1>2. pindexIntermediate \in Chain[pindexNew]
  BY <1>1, FirstHeavierExists DEF pindexIntermediate
<1>3. QED
  BY <1>1, <1>2, ChainClosed

\* The two lists of blocks of Reorganize.
LEMMA BranchesAre ==
    ASSUME PointersInv
    PROVE  LET b == pindexBest
               c == pindexIntermediate
           IN  /\ b \in Blocks /\ c \in Blocks /\ Fork[b][c] = Fork[c][b]
               /\ vDisconnect = Reverse(Branch(b, c)) /\ vConnect = Branch(c, b)
               /\ vDisconnect \in Seq(Blocks) /\ vConnect \in Seq(Blocks)
               /\ Len(vDisconnect) = Len(Branch(b, c))
               /\ Len(vDisconnect) \in Nat /\ Len(vConnect) \in Nat
<1> DEFINE b == pindexBest
           c == pindexIntermediate
<1>1. b \in Blocks /\ c \in Blocks
  BY IntermediateIs DEF PointersInv
<1>2. vDisconnect = Reverse(Branch(b, c)) /\ vConnect = Branch(c, b)
  BY DEF vDisconnect, vConnect
<1> HIDE DEF b, c
<1>3. Branch(b, c) \in Seq(Blocks) /\ Branch(c, b) \in Seq(Blocks)
  BY <1>1, BranchShape
<1>4. Reverse(Branch(b, c)) \in Seq(Blocks) /\ Len(Reverse(Branch(b, c))) = Len(Branch(b, c))
  BY <1>3 DEF Reverse
<1>5. Fork[b][c] = Fork[c][b]
  BY <1>1, ForkSymmetric
<1>6. QED
  BY <1>1, <1>2, <1>3, <1>4, <1>5 DEF b, c

\* Disconnecting what is connected succeeds, and leads to the ledger of the fork.
LEMMA DisconnectedLedger ==
    ASSUME PointersInv, CleanChain(pindexBest), txindex = LedgerOf(pindexBest)
    PROVE  /\ \A d \in 0..Len(vDisconnect) : DisconnectedUpTo(d).ok
           /\ Disconnected = [ok |-> TRUE, idx |-> LedgerOf(Fork[pindexIntermediate][pindexBest])]
<1> DEFINE b == pindexBest
           c == pindexIntermediate
           h == nHeight[Fork[b][c]]
<1>1. /\ b \in Blocks /\ c \in Blocks /\ Fork[b][c] = Fork[c][b]
      /\ vDisconnect = Reverse(Branch(b, c)) /\ Len(vDisconnect) = Len(Branch(b, c))
      /\ Len(vDisconnect) \in Nat
  BY BranchesAre
<1> HIDE DEF c
<1>2. ASSUME NEW d \in 0..Len(vDisconnect)
      PROVE  DisconnectedUpTo(d) = [ok |-> TRUE, idx |-> LedgerOf(AtHeight(b, nHeight[b] - d))]
  BY <1>1, DisconnectBranchLedger DEF DisconnectedUpTo
<1>3. /\ Len(vDisconnect) = nHeight[b] - h /\ h \in Nat /\ nHeight[b] \in Nat
      /\ AtHeight(b, h) = Fork[b][c]
  BY <1>1, BranchShape
<1>4. nHeight[b] - Len(vDisconnect) = h /\ Len(vDisconnect) \in 0..Len(vDisconnect)
  BY <1>1, <1>3
<1>5. Disconnected = [ok |-> TRUE, idx |-> LedgerOf(Fork[c][b])]
  BY <1>1, <1>2, <1>3, <1>4 DEF Disconnected
<1>6. \A d \in 0..Len(vDisconnect) : DisconnectedUpTo(d).ok
  BY <1>2
<1>7. QED
  BY <1>5, <1>6 DEF c

\* What the reorganisation has done when k blocks are to be connected.
LEMMA ReconnectedLedger ==
    ASSUME PointersInv, CleanChain(pindexBest), txindex = LedgerOf(pindexBest),
           nMoneySupply \in [Blocks -> Int], SupplyOn(nMoneySupply, pindexBest),
           NEW k \in 0..Len(vConnect)
    PROVE  UpTo([b |-> pindexIntermediate, h |-> nHeight[Fork[pindexIntermediate][pindexBest]],
                 c |-> pindexBest, supply |-> nMoneySupply], k, ReconnectedUpTo(k))
<1> DEFINE b == pindexBest
           c == pindexIntermediate
           s0 == [ok |-> TRUE, idx |-> LedgerOf(Fork[c][b]), supply |-> nMoneySupply]
<1>1. /\ b \in Blocks /\ c \in Blocks /\ vConnect = Branch(c, b)
  BY BranchesAre
<1>2. Disconnected.ok = TRUE /\ Disconnected.idx = LedgerOf(Fork[c][b])
  BY DisconnectedLedger
<1> HIDE DEF c
<1>3. CleanChain(Fork[c][b])
  BY <1>1, ForkOnChains, CleanBelow
<1>4. ReconnectedUpTo(k) = FoldLeft(ConnectNext, s0, SubSeq(vConnect, 1, k))
  BY <1>2 DEF ReconnectedUpTo
<1>5. UpTo([b |-> c, h |-> nHeight[Fork[c][b]], c |-> b, supply |-> nMoneySupply], k,
           ReconnectedUpTo(k))
  BY <1>1, <1>3, <1>4, ConnectBranchLedger
<1>6. QED
  BY <1>5 DEF c

(***************************************************************************)
(* A reorganisation succeeds exactly when the blocks of the new branch are *)
(* valid, and ends at its ledger; on the way it does not touch the money   *)
(* supply recorded for the best chain.                                     *)
(***************************************************************************)
LEMMA ReorganizedLedger ==
    ASSUME PointersInv, CleanChain(pindexBest), txindex = LedgerOf(pindexBest),
           nMoneySupply \in [Blocks -> Int], SupplyOn(nMoneySupply, pindexBest)
    PROVE  /\ \A k \in 0..Len(vConnect) :
                 /\ ReconnectedUpTo(k).ok <=> \A i \in 1..k : ValidBlock(vConnect[i])
                 /\ ReconnectedUpTo(k).supply \in [Blocks -> Int]
                 /\ SupplyOn(ReconnectedUpTo(k).supply, pindexBest)
           /\ Reconnected.ok =>
                 /\ Reconnected.idx = LedgerOf(pindexIntermediate)
                 /\ CleanChain(pindexIntermediate)
                 /\ SupplyOn(Reconnected.supply, pindexIntermediate)
<1> DEFINE b == pindexBest
           c == pindexIntermediate
           h == nHeight[Fork[c][b]]
           n == Len(vConnect)
           e == [b |-> c, h |-> h, c |-> b, supply |-> nMoneySupply]
           s(k) == ReconnectedUpTo(k)
<1>1. b \in Blocks /\ c \in Blocks /\ vConnect = Branch(c, b) /\ n \in Nat
  BY BranchesAre
<1>2. e.b = c /\ e.h = h /\ e.c = b /\ e.supply = nMoneySupply
  OBVIOUS
<1>3. \A k \in 0..n : UpTo(e, k, s(k))
  BY ReconnectedLedger
<1> HIDE DEF e, c
<1>4. /\ h \in Nat /\ nHeight[c] \in Nat /\ n = nHeight[c] - h
      /\ \A i \in 1..n : vConnect[i] = AtHeight(c, h + i)
  BY <1>1, BranchShape
<1> HIDE DEF h, n, s
<1>5. ASSUME NEW k \in 0..n
      PROVE  /\ s(k).ok <=> \A i \in 1..k : ValidBlock(vConnect[i])
             /\ s(k).supply \in [Blocks -> Int] /\ SupplyOn(s(k).supply, b)
  <2>1. /\ s(k).ok <=> \A i \in 1..k : ValidBlock(AtHeight(c, h + i))
        /\ s(k).supply \in [Blocks -> Int]
        /\ \A x \in Chain[b] : s(k).supply[x] = nMoneySupply[x]
    BY <1>2, <1>3 DEF UpTo
  <2>2. \A i \in 1..k : vConnect[i] = AtHeight(c, h + i)
    BY <1>1, <1>4
  <2>3. QED
    BY <2>1, <2>2 DEF SupplyOn
<1>6. ASSUME s(n).ok PROVE s(n).idx = LedgerOf(c) /\ CleanChain(c) /\ SupplyOn(s(n).supply, c)
  <2>1. n \in 0..n /\ h + n = nHeight[c]
    BY <1>1, <1>4
  <2>2. AtHeight(e.b, e.h + n) = c
    BY <1>1, <1>2, <2>1, AtHeightIs, ChainClosed
  <2>3. UpTo(e, n, s(n))
    BY <1>3, <2>1
  <2>4. QED
    BY <1>6, <2>2, <2>3 DEF UpTo
<1>7. s(n) = Reconnected
  BY DEF s, n, Reconnected
<1>8. QED
  BY <1>5, <1>6, <1>7 DEF s, c, n

\* A step that leaves the database and the handler's chain alone.
LEMMA IndexUntouched ==
    ASSUME IndexInv, UNCHANGED <<txindex, hashBestChain, mapBlockIndex, nMoneySupply, pindexBest,
                                 pc, pindexNew, vpindexSecondary, broken>>
    PROVE  IndexInv'
BY DEF IndexInv, PointersInv, IndexIsClean, CleanChain, Clean, CleanTo

\* The block at hand joins the index; the chain of the database stays.
LEMMA IndexAcceptBlock ==
    ASSUME IndexInv, NEW b \in Blocks, AcceptBlock(b)
    PROVE  IndexInv'
<1>1. pprev[b] \in Blocks /\ b # GenesisBlock
  BY TreeAssumption DEF AcceptBlock, IndexInv, PointersInv
<1>2. PointersInv'
  BY <1>1 DEF AcceptBlock, IndexInv, PointersInv
<1>3. pc # "secondary" /\ pc' # "secondary"
  BY DEF AcceptBlock
<1>4. UNCHANGED <<txindex, hashBestChain, pindexBest, nMoneySupply, broken>>
  BY DEF AcceptBlock
<1>5. ~broken' => IndexIsClean'
  BY <1>3, <1>4 DEF IndexInv, IndexIsClean
<1>6. QED
  BY <1>2, <1>5 DEF IndexInv

\* A block is connected on top of the database.
LEMMA InnerLedger ==
    ASSUME NEW b \in Blocks \ {GenesisBlock}, CleanChain(pprev[b]), txindex = LedgerOf(pprev[b]),
           nMoneySupply \in [Blocks -> Int], SupplyOn(nMoneySupply, pprev[b]),
           SetBestChainInner(b)
    PROVE  /\ txindex' = LedgerOf(b) /\ CleanChain(b) /\ ValidBlock(b)
           /\ nMoneySupply' \in [Blocks -> Int] /\ SupplyOn(nMoneySupply', b)
<1> DEFINE r == ConnectBlock(txindex, b)
<1>1. r.ok /\ txindex' = r.idx /\ nMoneySupply' = WithSupply(nMoneySupply, b, r)
  BY DEF SetBestChainInner
<1>2. /\ r.idx = LedgerOf(b) /\ CleanChain(b) /\ ValidBlock(b)
      /\ r.mint = Worth(ChainTxs(b)) - Worth(ChainTxs(pprev[b]))
  BY <1>1, ConnectLedger
<1> HIDE DEF r
<1>3. /\ WithSupply(nMoneySupply, b, r) \in [Blocks -> Int]
      /\ SupplyOn(WithSupply(nMoneySupply, b, r), b)
  BY <1>1, <1>2, SupplyNext
<1>4. QED
  BY <1>1, <1>2, <1>3

\* The new block is connected on top of the best one.
LEMMA IndexExtendBest ==
    ASSUME IndexInv, ExtendBest
    PROVE  IndexInv'
<1> DEFINE b == pindexNew
<1>1. b \in Blocks \ {GenesisBlock} /\ pprev[b] = pindexBest
  BY DEF IndexInv, PointersInv, ExtendBest
<1>2. /\ hashBestChain' = b /\ pindexBest' = b /\ pindexNew' = b /\ pc' = "pending"
      /\ UNCHANGED <<mapBlockIndex, vpindexSecondary, broken>>
  BY DEF ExtendBest, SetBestChainInner
<1>3. PointersInv'
  BY <1>1, <1>2 DEF IndexInv, PointersInv
<1>4. ASSUME ~broken PROVE IndexIsClean'
  <2>1. /\ hashBestChain = pindexBest /\ CleanChain(pprev[b]) /\ txindex = LedgerOf(pprev[b])
        /\ nMoneySupply \in [Blocks -> Int] /\ SupplyOn(nMoneySupply, pprev[b])
    BY <1>1, <1>4 DEF IndexInv, IndexIsClean, ExtendBest
  <2>2. SetBestChainInner(b)
    BY DEF ExtendBest
  <2>3. /\ txindex' = LedgerOf(b) /\ CleanChain(b)
        /\ nMoneySupply' \in [Blocks -> Int] /\ SupplyOn(nMoneySupply', b)
    BY <1>1, <2>1, <2>2, InnerLedger
  <2>4. QED
    BY <1>2, <2>3 DEF IndexIsClean
<1>5. QED
  BY <1>2, <1>3, <1>4 DEF IndexInv

\* A block or a reorganisation that fails leaves the database alone.
LEMMA IndexFails ==
    ASSUME IndexInv, pc = "set", pc' = "idle",
           ~broken => nMoneySupply' \in [Blocks -> Int] /\ SupplyOn(nMoneySupply', pindexBest),
           UNCHANGED <<txindex, hashBestChain, mapBlockIndex, pindexBest, pindexNew,
                       vpindexSecondary, broken>>
    PROVE  IndexInv'
<1>1. PointersInv'
  BY DEF IndexInv, PointersInv
<1>2. ~broken' => IndexIsClean'
  BY DEF IndexInv, IndexIsClean
<1>3. QED
  BY <1>1, <1>2 DEF IndexInv

\* The database moves to the new branch, as far as Reorganize takes it.
LEMMA IndexReorganize ==
    ASSUME IndexInv, Reorganize
    PROVE  IndexInv'
<1> DEFINE c == pindexIntermediate
<1>1. PointersInv /\ c \in Chain[pindexNew] /\ c \in Blocks
  BY IntermediateIs DEF IndexInv
<1>2. Reconnected.ok /\ txindex' = Reconnected.idx /\ nMoneySupply' = Reconnected.supply
  BY DEF Reorganize
<1>3. /\ hashBestChain' = c /\ vpindexSecondary' = Chain[pindexNew] \ Chain[c] /\ pc' = "secondary"
      /\ UNCHANGED <<mapBlockIndex, pindexBest, pindexNew, broken>> /\ pc = "set"
  BY DEF Reorganize
<1> HIDE DEF c
<1>4. PointersInv'
  <2>1. Chain[pindexNew] \subseteq Blocks
    BY <1>1, ChainClosed DEF PointersInv
  <2>2. QED
    BY <1>1, <1>3, <2>1 DEF PointersInv
<1>5. ASSUME ~broken PROVE IndexIsClean'
  <2>1. /\ CleanChain(pindexBest) /\ txindex = LedgerOf(pindexBest)
        /\ nMoneySupply \in [Blocks -> Int] /\ SupplyOn(nMoneySupply, pindexBest)
    BY <1>3, <1>5 DEF IndexInv, IndexIsClean
  <2>2. /\ txindex' = LedgerOf(c) /\ CleanChain(c) /\ SupplyOn(nMoneySupply', c)
    BY <1>1, <1>2, <2>1, ReorganizedLedger DEF c
  <2>3. nMoneySupply' \in [Blocks -> Int]
    <3>1. Len(vConnect) \in 0..Len(vConnect)
      BY <1>1, BranchesAre
    <3>2. QED
      BY <1>1, <1>2, <2>1, <3>1, ReorganizedLedger DEF Reconnected
  <2>4. QED
    BY <1>1, <1>3, <2>2, <2>3 DEF IndexIsClean
<1>6. QED
  BY <1>3, <1>4, <1>5 DEF IndexInv

\* It fails: only money supplies off the best chain have changed.
LEMMA IndexReorganizeFails ==
    ASSUME IndexInv, NEW d, NEW k \in 0..Len(vConnect), ReorganizeFails(d, k)
    PROVE  IndexInv'
<1>1. /\ pc = "set" /\ pc' = "idle" /\ nMoneySupply' = ReconnectedUpTo(k).supply
      /\ UNCHANGED <<txindex, hashBestChain, mapBlockIndex, pindexBest, pindexNew,
                     vpindexSecondary, broken>>
  BY DEF ReorganizeFails
<1>2. ASSUME ~broken
      PROVE  nMoneySupply' \in [Blocks -> Int] /\ SupplyOn(nMoneySupply', pindexBest)
  <2>1. /\ PointersInv /\ CleanChain(pindexBest) /\ txindex = LedgerOf(pindexBest)
        /\ nMoneySupply \in [Blocks -> Int] /\ SupplyOn(nMoneySupply, pindexBest)
    BY <1>1, <1>2 DEF IndexInv, IndexIsClean
  <2>2. QED
    BY <1>1, <2>1, ReorganizedLedger
<1>3. QED
  BY <1>1, <1>2, IndexFails

(***************************************************************************)
(* The lowest postponed block is the child of the block the database       *)
(* stands at.                                                              *)
(***************************************************************************)
LEMMA NextSecondaryIs ==
    ASSUME NEW h \in Blocks, NEW x \in Blocks, h \in Chain[x],
           vpindexSecondary = Chain[x] \ Chain[h], vpindexSecondary # {}
    PROVE  LET y == NextSecondary
           IN  /\ y \in Blocks \ {GenesisBlock} /\ y \in Chain[x] /\ y \in vpindexSecondary
               /\ pprev[y] = h
               /\ Chain[x] \ Chain[y] = vpindexSecondary \ {y}
<1> DEFINE S == vpindexSecondary
           y == NextSecondary
<1>1. S \subseteq Blocks /\ S # {}
  BY ChainClosed
<1>2. y \in S /\ pprev[y] \notin S
  BY <1>1, LowestExists DEF NextSecondary
<1> HIDE DEF y
<1>3. y \in Chain[x] /\ y \notin Chain[h] /\ y \in Blocks
  BY <1>1, <1>2
<1>4. y # GenesisBlock
  BY <1>3, GenesisOnChain
<1>5. pprev[y] \in Chain[x] /\ pprev[y] \in Chain[h] /\ pprev[y] \in Blocks
  BY <1>2, <1>3, <1>4, ChainClosed DEF ClosedUnderPrev
<1>6. pprev[y] = h
  <2> SUFFICES ASSUME pprev[y] # h PROVE FALSE
    OBVIOUS
  <2>1. PICK d \in Chain[h] : d # GenesisBlock /\ pprev[d] = pprev[y]
    BY <1>5, ChainHasChild
  <2>2. d \in Chain[x]
    BY ChainTransitive
  <2>3. pprev[d] # NULL
    BY <1>5, <2>1, TreeAssumption
  <2>4. d = y
    BY <1>3, <2>1, <2>2, <2>3, ChainUniqueChild
  <2>5. QED
    BY <1>3, <2>4
<1>7. Chain[y] = Chain[h] \cup {y}
  BY <1>3, <1>4, <1>6, ChainStep
<1>8. QED
  BY <1>2, <1>3, <1>4, <1>6, <1>7 DEF y

\* A postponed block is connected.
LEMMA IndexConnectSecondary ==
    ASSUME IndexInv, ConnectSecondary
    PROVE  IndexInv'
<1> DEFINE y == NextSecondary
<1>1. /\ hashBestChain' = y /\ vpindexSecondary' = vpindexSecondary \ {y}
      /\ pc = "secondary" /\ pc' = "secondary" /\ vpindexSecondary # {}
      /\ UNCHANGED <<mapBlockIndex, pindexBest, pindexNew, broken>>
  BY DEF ConnectSecondary, SetBestChainInner
<1>2. SetBestChainInner(y)
  BY DEF ConnectSecondary
<1> HIDE DEF y
<1>3. PointersInv'
  <2>1. y \in Blocks
    BY <1>1, LowestExists DEF IndexInv, PointersInv, NextSecondary, y
  <2>2. QED
    BY <1>1, <2>1 DEF IndexInv, PointersInv
<1>4. ASSUME ~broken PROVE IndexIsClean'
  <2>1. /\ hashBestChain \in Blocks /\ pindexNew \in Blocks /\ hashBestChain \in Chain[pindexNew]
        /\ vpindexSecondary = Chain[pindexNew] \ Chain[hashBestChain]
        /\ CleanChain(hashBestChain) /\ txindex = LedgerOf(hashBestChain)
        /\ nMoneySupply \in [Blocks -> Int] /\ SupplyOn(nMoneySupply, hashBestChain)
    BY <1>1, <1>4 DEF IndexInv, PointersInv, IndexIsClean
  <2>2. /\ y \in Blocks \ {GenesisBlock} /\ y \in Chain[pindexNew] /\ pprev[y] = hashBestChain
        /\ Chain[pindexNew] \ Chain[y] = vpindexSecondary \ {y}
    BY <1>1, <2>1, NextSecondaryIs DEF y
  <2>3. /\ txindex' = LedgerOf(y) /\ CleanChain(y)
        /\ nMoneySupply' \in [Blocks -> Int] /\ SupplyOn(nMoneySupply', y)
    BY <1>2, <2>1, <2>2, InnerLedger
  <2>4. QED
    BY <1>1, <2>2, <2>3 DEF IndexIsClean
<1>5. QED
  BY <1>1, <1>3, <1>4 DEF IndexInv

\* All postponed blocks are connected: the new block is best.
LEMMA IndexNewBest ==
    ASSUME IndexInv, NewBest
    PROVE  IndexInv'
<1>1. /\ pc = "secondary" /\ pc' = "pending" /\ vpindexSecondary = {} /\ pindexBest' = pindexNew
      /\ UNCHANGED <<txindex, hashBestChain, mapBlockIndex, nMoneySupply, pindexNew,
                     vpindexSecondary, broken>>
  BY DEF NewBest
<1>2. PointersInv'
  BY <1>1 DEF IndexInv, PointersInv
<1>3. ASSUME ~broken PROVE IndexIsClean'
  <2>1. /\ hashBestChain \in Blocks /\ pindexNew \in Blocks /\ hashBestChain \in Chain[pindexNew]
        /\ Chain[pindexNew] \subseteq Chain[hashBestChain]
        /\ CleanChain(hashBestChain) /\ txindex = LedgerOf(hashBestChain)
        /\ nMoneySupply \in [Blocks -> Int] /\ SupplyOn(nMoneySupply, hashBestChain)
    BY <1>1, <1>3 DEF IndexInv, PointersInv, IndexIsClean
  <2>2. hashBestChain = pindexNew
    <3> SUFFICES ASSUME hashBestChain # pindexNew PROVE FALSE
      OBVIOUS
    <3>1. pindexNew \in Chain[hashBestChain]
      BY <2>1, ChainClosed
    <3>2. nHeight[hashBestChain] < nHeight[pindexNew] /\ nHeight[pindexNew] < nHeight[hashBestChain]
      BY <2>1, <3>1, ChainBelow
    <3>3. nHeight[hashBestChain] \in Nat /\ nHeight[pindexNew] \in Nat
      BY <2>1, TreeAssumption
    <3>4. QED
      BY <3>2, <3>3
  <2>3. QED
    BY <1>1, <2>1, <2>2 DEF IndexIsClean
<1>4. QED
  BY <1>1, <1>2, <1>3 DEF IndexInv

\* Every step of SetBestChain and of what leads to it.
LEMMA IndexBlockStep ==
    ASSUME IndexInv, BlockStep
    PROVE  IndexInv'
<1>1. ASSUME NEW b \in Blocks, AcceptBlock(b) PROVE IndexInv'
  BY <1>1, IndexAcceptBlock
<1>2. CASE ExtendBest
  BY <1>2, IndexExtendBest
<1>3. CASE ExtendBestFails
  <2>1. /\ pc = "set" /\ pc' = "idle"
        /\ UNCHANGED <<txindex, hashBestChain, mapBlockIndex, nMoneySupply, pindexBest, pindexNew,
                       vpindexSecondary, broken>>
    BY <1>3 DEF ExtendBestFails
  <2>2. ~broken => nMoneySupply' \in [Blocks -> Int] /\ SupplyOn(nMoneySupply', pindexBest)
    BY <2>1 DEF IndexInv, IndexIsClean
  <2>3. QED
    BY <2>1, <2>2, IndexFails
<1>4. CASE Reorganize
  BY <1>4, IndexReorganize
<1>5. ASSUME NEW d, NEW k \in 0..Len(vConnect), ReorganizeFails(d, k) PROVE IndexInv'
  BY <1>5, IndexReorganizeFails
<1>6. CASE ConnectSecondary
  BY <1>6, IndexConnectSecondary
<1>7. CASE BreakSecondary
  BY <1>7 DEF BreakSecondary, IndexInv, PointersInv
<1>8. CASE NewBest
  BY <1>8, IndexNewBest
<1>9. CASE NoPending
  <2>1. PointersInv'
    BY <1>9 DEF NoPending, IndexInv, PointersInv
  <2>2. ~broken' => IndexIsClean'
    BY <1>9 DEF NoPending, IndexInv, IndexIsClean
  <2>3. QED
    BY <2>1, <2>2 DEF IndexInv
<1>10. QED
  BY <1>1, <1>2, <1>3, <1>4, <1>5, <1>6, <1>7, <1>8, <1>9 DEF BlockStep

\* A restart stands where the database does.
LEMMA IndexRestart ==
    ASSUME IndexInv, NEW p, RestartWith(p)
    PROVE  IndexInv'
<1>1. PointersInv'
  BY DEF RestartWith, IndexInv, PointersInv
<1>2. ~broken' => IndexIsClean'
  BY DEF RestartWith, IndexInv, IndexIsClean
<1>3. QED
  BY <1>1, <1>2 DEF IndexInv

\* Every step keeps the invariant.
LEMMA IndexInvStep == IndexInv /\ [RelayNext]_relayVars => IndexInv'
<1> SUFFICES ASSUME IndexInv, [RelayNext]_relayVars PROVE IndexInv'
  OBVIOUS
<1>1. ASSUME NEW t \in Txs, AcceptTx(t) PROVE IndexInv'
  BY <1>1, IndexUntouched DEF AcceptTx, handler
<1>2. ASSUME NEW t \in Txs, KeepOrphan(t) PROVE IndexInv'
  BY <1>2, IndexUntouched DEF KeepOrphan, vars, handler
<1>3. CASE BlockStep
  BY <1>3, IndexBlockStep
<1>4. ASSUME NEW t \in Txs, AcceptToMemoryPool(t) PROVE IndexInv'
  BY <1>4, IndexUntouched DEF AcceptToMemoryPool, handler
<1>5. CASE RestartWith(EmptyPool)
  BY <1>5, IndexRestart
<1>6. CASE UNCHANGED relayVars
  BY <1>6, IndexUntouched DEF relayVars, vars, handler
<1>7. QED
  BY <1>1, <1>2, <1>3, <1>4, <1>5, <1>6 DEF RelayNext

(***************************************************************************)
(* Until SetBestChain gives up on a postponed block, the transaction index *)
(* is the ledger of the chain the database stands at, and no output of     *)
(* that chain is spent twice: for every tree of blocks, every content of   *)
(* the blocks, any number of reorganisations of any depth, failed ones     *)
(* included, and restarts at any point (ConnectBlock, DisconnectBlock,     *)
(* Reorganize, SetBestChain).                                              *)
(***************************************************************************)
THEOREM IndexIsAlwaysLedger == RelaySpec => []IndexIsLedger
<1>1. IndexInv => IndexIsLedger
  <2> SUFFICES ASSUME IndexInv, ~broken
               PROVE  /\ txindex = LedgerOf(hashBestChain)
                      /\ \A o \in Outpoints : Cardinality(SpendersOf(o, hashBestChain)) <= 1
                      /\ pc = "set" => Disconnected =
                             [ok |-> TRUE, idx |-> LedgerOf(Fork[pindexIntermediate][pindexBest])]
    BY DEF IndexIsLedger
  <2>1. /\ hashBestChain \in Blocks /\ txindex = LedgerOf(hashBestChain)
        /\ Sound(ChainTxs(hashBestChain))
    BY CleanIsSound DEF IndexInv, PointersInv, IndexIsClean
  <2>2. ASSUME NEW o \in Outpoints PROVE Cardinality(SpendersOf(o, hashBestChain)) <= 1
    <3> DEFINE S == SpendersOf(o, hashBestChain)
    <3>1. \A t, u \in S : t = u
      BY <2>1 DEF Sound, SpendersOf
    <3> HIDE DEF S
    <3>2. CASE S = {}
      BY <3>2, FS_EmptySet DEF S
    <3>3. CASE S # {}
      <4>1. PICK t : S = {t}
        BY <3>1, <3>3
      <4>2. Cardinality({t}) = 1
        BY FS_Singleton
      <4>3. QED
        BY <4>1, <4>2 DEF S
    <3>4. QED
      BY <3>2, <3>3
  <2>3. pc = "set" => Disconnected =
            [ok |-> TRUE, idx |-> LedgerOf(Fork[pindexIntermediate][pindexBest])]
    <3>1. PointersInv /\ (pc = "set" => CleanChain(pindexBest) /\ txindex = LedgerOf(pindexBest))
      BY DEF IndexInv, IndexIsClean
    <3>2. QED
      BY <3>1, DisconnectedLedger
  <2>4. QED
    BY <2>1, <2>2, <2>3
<1>2. QED
  BY <1>1, IndexInvInit, IndexInvStep, PTL DEF RelaySpec

(***************************************************************************)
(* Until then the money supply recorded for the block the database stands  *)
(* at is the value of all outputs that the index has as unspent.  The      *)
(* invariant says more: it holds for every block of the chain, so it is    *)
(* still there when a reorganisation goes back to one of them              *)
(* (nMoneySupply in ConnectBlock).                                         *)
(***************************************************************************)
THEOREM SupplyIsAlwaysUnspent == RelaySpec => []SupplyIsUnspent
<1>1. IndexInv => SupplyIsUnspent
  <2> SUFFICES ASSUME IndexInv, ~broken
               PROVE  nMoneySupply[hashBestChain] = SumOver(Value, Unspent)
    BY DEF SupplyIsUnspent
  <2> DEFINE b == hashBestChain
             T == ChainTxs(b)
             home == [u \in Txs |-> IF u \in T THEN HomeOf(u, b) ELSE GenesisBlock]
  <2>1. /\ b \in Blocks /\ CleanChain(b) /\ txindex = LedgerOf(b)
        /\ SupplyOn(nMoneySupply, b)
    BY DEF IndexInv, PointersInv, IndexIsClean
  <2>2. Sound(T) /\ T \subseteq Txs
    BY <2>1, CleanIsSound DEF Sound
  <2>3. home \in [Txs -> Blocks]
    <3>1. \A u \in T : HomeOf(u, b) \in Blocks
      BY <2>1, HomeOnChain, ChainClosed
    <3>2. QED
      BY <3>1, TreeAssumption
  <2>4. \A u \in T : home[u] = HomeOf(u, b)
    BY <2>2
  <2> HIDE DEF home
  <2>5. txindex = Table(T, home)
    BY <2>1, <2>4, LedgerIsTable
  <2> HIDE DEF T
  <2>6. Unspent = Free(T)
    <3>1. Unspent = CoinsOf(txindex)
      BY DEF Unspent, CoinsOf
    <3>2. QED
      BY <2>2, <2>3, <2>5, <3>1, CoinsAreFree
  <2>7. SumOver(Value, Unspent) = Total(Values, Unspent)
    <3>1. Unspent \subseteq Outpoints
      BY DEF Unspent
    <3>2. [o \in Unspent |-> Value(o)] = [o \in Unspent |-> Values[o]]
      BY <3>1 DEF Values
    <3>3. QED
      BY <3>2 DEF SumOver, Total
  <2>8. nMoneySupply[b] = Worth(T)
    BY <2>1, ChainClosed DEF SupplyOn, T
  <2>9. QED
    BY <2>6, <2>7, <2>8 DEF Worth
<1>2. QED
  BY <1>1, IndexInvInit, IndexInvStep, PTL DEF RelaySpec

-----------------------------------------------------------------------------
(***************************************************************************)
(* The refinement.  The invariant it needs beside the one of the index:    *)
(* what LoadBlockIndex reads back is what memory holds.                    *)
(***************************************************************************)
LinksInv ==
    /\ pnext \in [Blocks -> BlockOrNull]
    /\ ClosedUnderPrev(mapBlockIndex)
    /\ {hashBestChain, pindexBest, pindexNew} \subseteq mapBlockIndex
    /\ \A b \in Blocks : /\ pnext[b] \in mapBlockIndex \cup {NULL}
                         /\ b \notin mapBlockIndex => pnext[b] = NULL

MappingInv == IndexInv /\ (~broken => LinksInv)

\* The chains of BestChain are those of this module.
LEMMA SameChains == Abstract!Chain = Chain
BY DEF Abstract!Chain, Chain, Abstract!ClosedUnderPrev, ClosedUnderPrev

\* The blocks of a branch, as a set.
LEMMA BranchSet ==
    ASSUME NEW b \in Blocks, NEW c \in Blocks
    PROVE  ToSet(Branch(b, c)) = Chain[b] \ Chain[c]
<1> DEFINE f == Fork[b][c]
           h == nHeight[f]
           n == nHeight[b] - h
           w == Branch(b, c)
<1>1. /\ h \in Nat /\ n \in Nat /\ nHeight[b] \in Nat
      /\ w \in Seq(Blocks) /\ Len(w) = n
      /\ \A i \in 1..n : w[i] = AtHeight(b, h + i)
  BY BranchShape
<1>2. f \in Chain[b] /\ f \in Chain[c] /\ f \in Blocks
  BY ForkOnChains, ChainClosed
<1>3. \A i \in 1..n : AtHeight(b, h + i) \notin Chain[c]
  BY <1>1, BranchIsOff
<1> HIDE DEF f, n, w
<1>4. ToSet(w) = {w[i] : i \in 1..n}
  <2>1. w \in Seq(Blocks) /\ Len(w) = n
    BY <1>1
  <2>2. QED
    BY <2>1 DEF ToSet
<1>5. ASSUME NEW i \in 1..n PROVE w[i] \in Chain[b] \ Chain[c]
  <2>1. h + i \in 0..nHeight[b]
    BY <1>1 DEF n
  <2>2. AtHeight(b, h + i) \in Chain[b]
    BY <2>1, HeightOnChain
  <2>3. QED
    BY <1>1, <1>3, <2>2
<1>6. ASSUME NEW x \in Chain[b] \ Chain[c] PROVE \E i \in 1..n : w[i] = x
  <2>1. AtHeight(b, nHeight[x]) = x /\ nHeight[x] \in 0..nHeight[b] /\ x \in Blocks
    BY AtHeightIs, ChainClosed
  <2>2. x \notin Chain[f] /\ x # f
    BY <1>2, ChainTransitive
  <2>3. f \in Chain[x]
    BY <1>2, <2>2, ChainLinear
  <2>4. h < nHeight[x]
    BY <2>1, <2>2, <2>3, ChainBelow DEF h
  <2> DEFINE i == nHeight[x] - h
  <2>5. i \in 1..n /\ h + i = nHeight[x]
    BY <1>1, <2>1, <2>4 DEF n
  <2>6. w[i] = x
    BY <1>1, <2>1, <2>5
  <2>7. QED
    BY <2>5, <2>6
<1>7. QED
  BY <1>4, <1>5, <1>6 DEF w

\* The two lists of Reorganize, as the sets BestChain has.
LEMMA BranchSets ==
    ASSUME PointersInv
    PROVE  /\ ToSet(vConnect) = Chain[pindexIntermediate] \ Chain[pindexBest]
           /\ ToSet(vDisconnect) = Chain[pindexBest] \ Chain[pindexIntermediate]
<1> DEFINE b == pindexBest
           c == pindexIntermediate
           w == Branch(b, c)
<1>1. /\ b \in Blocks /\ c \in Blocks
      /\ vDisconnect = Reverse(w) /\ vConnect = Branch(c, b)
      /\ vDisconnect \in Seq(Blocks)
  BY BranchesAre
<1> HIDE DEF c
<1>2. w \in Seq(Blocks)
  BY <1>1, BranchShape
<1>3. ToSet(w) = Chain[b] \ Chain[c] /\ ToSet(Branch(c, b)) = Chain[c] \ Chain[b]
  BY <1>1, BranchSet
<1> HIDE DEF w
<1>4. ToSet(Reverse(w)) = ToSet(w)
  <2> DEFINE n == Len(w)
  <2>1. Reverse(w) = [i \in 1..n |-> w[(n - i) + 1]] /\ n \in Nat
    BY <1>2 DEF Reverse
  <2>2. \A i \in 1..n : (n - i) + 1 \in 1..n /\ (n - ((n - i) + 1)) + 1 = i
    BY <2>1
  <2>3. ToSet(w) = {w[i] : i \in 1..n}
    BY <1>2 DEF ToSet
  <2>4. ToSet(Reverse(w)) = {w[(n - i) + 1] : i \in 1..n}
    BY <2>1 DEF ToSet
  <2> HIDE DEF n
  <2>5. QED
    BY <2>2, <2>3, <2>4
<1>5. QED
  BY <1>1, <1>3, <1>4 DEF c

\* The whole of the new branch connects exactly when its blocks are valid.
LEMMA ReorganizeOk ==
    ASSUME IndexInv, ~broken, pc = "set"
    PROVE  /\ Reconnected.ok <=> Chain[pindexIntermediate] \ Chain[pindexBest] \subseteq ValidBlocks
           /\ \A k \in 0..Len(vConnect) : Reconnected.ok => ReconnectedUpTo(k).ok
           /\ \A d \in 0..Len(vDisconnect) : DisconnectedUpTo(d).ok
<1> DEFINE n == Len(vConnect)
           S == Chain[pindexIntermediate] \ Chain[pindexBest]
<1>1. /\ PointersInv /\ CleanChain(pindexBest) /\ txindex = LedgerOf(pindexBest)
      /\ nMoneySupply \in [Blocks -> Int] /\ SupplyOn(nMoneySupply, pindexBest)
  BY DEF IndexInv, IndexIsClean
<1>2. n \in Nat /\ vConnect \in Seq(Blocks) /\ pindexBest \in Blocks
  BY <1>1, BranchesAre
<1>3. \A k \in 0..n : ReconnectedUpTo(k).ok <=> \A i \in 1..k : ValidBlock(vConnect[i])
  BY <1>1, ReorganizedLedger
<1>4. \A d \in 0..Len(vDisconnect) : DisconnectedUpTo(d).ok
  BY <1>1, DisconnectedLedger
<1>5. Reconnected.ok <=> \A i \in 1..n : ValidBlock(vConnect[i])
  BY <1>2, <1>3 DEF Reconnected
<1>6. \A k \in 0..n : Reconnected.ok => ReconnectedUpTo(k).ok
  <2>1. \A k \in 0..n : \A i \in 1..k : i \in 1..n
    BY <1>2
  <2>2. QED
    BY <1>3, <1>5, <2>1
<1>7. S = {vConnect[i] : i \in 1..n}
  BY <1>1, <1>2, BranchSets DEF ToSet
<1>8. S \subseteq Blocks \ {GenesisBlock}
  <2>1. S \subseteq Blocks
    BY <1>2, <1>7
  <2>2. GenesisBlock \in Chain[pindexBest]
    BY <1>2, GenesisOnChain
  <2>3. QED
    BY <2>1, <2>2
<1> HIDE DEF S
<1>9. S \subseteq ValidBlocks <=> \A x \in S : ValidBlock(x)
  BY <1>8 DEF ValidBlocks
<1>10. QED
  BY <1>4, <1>5, <1>6, <1>7, <1>9 DEF S

\* A block that extends the database is linked alike in memory and on disk.
LEMMA LinkedNext ==
    ASSUME LinksInv, NEW y \in Blocks \ {GenesisBlock}
    PROVE  /\ Abstract!RelinkMemory({}, {y}) = [pnext EXCEPT ![pprev[y]] = y]
           /\ Abstract!RelinkDisk({}, {y}) = [pnext EXCEPT ![pprev[y]] = y]
<1>1. pnext \in [Blocks -> BlockOrNull] /\ pprev[y] \in Blocks
  BY TreeAssumption DEF LinksInv
<1>2. \A b : Abstract!HasChildIn({y}, b) <=> b = pprev[y]
  BY DEF Abstract!HasChildIn
<1>3. \A b : ~Abstract!HasChildIn({}, b)
  BY DEF Abstract!HasChildIn
<1>4. Abstract!ChildIn({y}, pprev[y]) = y
  BY DEF Abstract!ChildIn
<1>5. Abstract!RelinkMemory({}, {y}) = [b \in Blocks |-> IF b = pprev[y] THEN y ELSE pnext[b]]
  BY <1>2, <1>3, <1>4 DEF Abstract!RelinkMemory
<1>6. Abstract!RelinkDisk({}, {y}) = [b \in Blocks |-> IF b = pprev[y] THEN y ELSE pnext[b]]
  BY <1>2, <1>3, <1>4 DEF Abstract!RelinkDisk
<1>7. [pnext EXCEPT ![pprev[y]] = y] = [b \in Blocks |-> IF b = pprev[y] THEN y ELSE pnext[b]]
  BY <1>1
<1>8. QED
  BY <1>5, <1>6, <1>7

\* So are the blocks of a reorganisation: no block that leaves has its parent among the new ones.
LEMMA RelinkedNext ==
    ASSUME NEW b \in Blocks, NEW c \in Blocks
    PROVE  LET D == Chain[b] \ Chain[c]
               C == Chain[c] \ Chain[b]
           IN  Abstract!RelinkDisk(D, C) = Abstract!RelinkMemory(D, C)
<1> DEFINE D == Chain[b] \ Chain[c]
           C == Chain[c] \ Chain[b]
<1>1. ASSUME NEW x \in C PROVE ~Abstract!HasChildIn(D, x)
  <2> SUFFICES ASSUME NEW d \in D, pprev[d] = x PROVE FALSE
    BY DEF Abstract!HasChildIn
  <2>1. d # GenesisBlock /\ x \notin Chain[b] /\ d \in Chain[b]
    BY GenesisOnChain
  <2>2. QED
    BY <2>1, ChainClosed DEF ClosedUnderPrev
<1> HIDE DEF D, C
<1>2. QED
  BY <1>1 DEF Abstract!RelinkDisk, Abstract!RelinkMemory, D, C

\* AcceptBlock is the one of BestChain.
LEMMA MapsAcceptBlock ==
    ASSUME IndexInv, LinksInv, NEW b \in Blocks, AcceptBlock(b)
    PROVE  Abstract!AcceptBlock(b) /\ LinksInv'
<1>1. /\ pc = "idle" /\ b \notin mapBlockIndex /\ pprev[b] \in mapBlockIndex
      /\ mapBlockIndex' = mapBlockIndex \cup {b}
      /\ IF HeavierThanBest(b) THEN pc' = "set" /\ pindexNew' = b
                               ELSE pc' = "pending" /\ UNCHANGED pindexNew
      /\ UNCHANGED <<hashBestChain, pnext, pindexBest, nBestInvalidTrust, vpindexSecondary,
                     nCrashes>>
  BY DEF AcceptBlock
<1>2. b # GenesisBlock /\ mapBlockIndex \subseteq Blocks
  BY <1>1, TreeAssumption DEF IndexInv, PointersInv
<1>3. Abstract!CheckHardened(b)
  <2>1. nHeight[b] = nHeight[pprev[b]] + 1 /\ nHeight[pprev[b]] \in Nat /\ nHeight[GenesisBlock] = 0
    BY <1>1, <1>2, TreeAssumption
  <2>2. QED
    BY <2>1 DEF Abstract!CheckHardened
<1>4. pnext = [pnext EXCEPT ![b] = pnext[b]]
  BY DEF LinksInv
<1>5. Abstract!HeavierThanBest(b) <=> HeavierThanBest(b)
  BY DEF Abstract!HeavierThanBest, HeavierThanBest
<1>6. LinksInv'
  <2>1. ClosedUnderPrev(mapBlockIndex')
    BY <1>1 DEF LinksInv, ClosedUnderPrev
  <2>2. {hashBestChain, pindexBest, pindexNew}' \subseteq mapBlockIndex'
    BY <1>1 DEF LinksInv
  <2>3. QED
    BY <1>1, <2>1, <2>2 DEF LinksInv, ClosedUnderPrev
<1>7. Abstract!AcceptBlock(b)
  BY <1>1, <1>3, <1>4, <1>5 DEF Abstract!AcceptBlock, Abstract!checkpts
<1>8. QED
  BY <1>6, <1>7

\* ConnectBlock has an answer that BestChain knows.
LEMMA SameAnswer ==
    ASSUME NEW b \in Blocks \ {GenesisBlock}, pprev[b] = hashBestChain,
           CleanChain(pprev[b]), txindex = LedgerOf(pprev[b])
    PROVE  /\ ConnectBlock(txindex, b).ok => TRUE \in Abstract!ConnectBlock(b)
           /\ ~ConnectBlock(txindex, b).ok => FALSE \in Abstract!ConnectBlock(b)
<1>1. ConnectBlock(txindex, b).ok <=> ValidBlock(b)
  BY ConnectLedger
<1>2. b \in ValidBlocks <=> ValidBlock(b)
  BY DEF ValidBlocks
<1>3. hashBestChain = pprev[b]
  OBVIOUS
<1>4. ASSUME b \in ValidBlocks PROVE TRUE \in Abstract!ConnectBlock(b)
  BY <1>3, <1>4 DEF Abstract!ConnectBlock
<1>5. ASSUME b \notin ValidBlocks PROVE FALSE \in Abstract!ConnectBlock(b)
  <2>1. (b \in ValidBlocks) = FALSE
    BY <1>5
  <2>2. QED
    BY <1>3, <2>1, Zenon DEF Abstract!ConnectBlock
<1>6. QED
  BY <1>1, <1>2, <1>4, <1>5

\* The links after SetBestChainInner.
LEMMA LinksInner ==
    ASSUME LinksInv, mapBlockIndex \subseteq Blocks,
           NEW y \in mapBlockIndex, y # GenesisBlock,
           pnext' = [pnext EXCEPT ![pprev[y]] = y], hashBestChain' = y,
           UNCHANGED <<mapBlockIndex, pindexNew>>, pindexBest' \in mapBlockIndex
    PROVE  LinksInv'
<1>1. pprev[y] \in mapBlockIndex /\ pprev[y] \in Blocks
  BY DEF LinksInv, ClosedUnderPrev
<1>2. pnext' \in [Blocks -> BlockOrNull]
  BY DEF LinksInv, BlockOrNull
<1>3. \A b \in Blocks : /\ pnext'[b] \in mapBlockIndex \cup {NULL}
                        /\ b \notin mapBlockIndex => pnext'[b] = NULL
  BY <1>1 DEF LinksInv
<1>4. QED
  BY <1>2, <1>3 DEF LinksInv, ClosedUnderPrev

\* SetBestChain on the best block.
LEMMA MapsExtendBest ==
    ASSUME IndexInv, LinksInv, ~broken, ExtendBest
    PROVE  Abstract!ExtendBest /\ LinksInv'
<1> DEFINE b == pindexNew
<1>1. /\ pc = "set" /\ pprev[b] = pindexBest /\ SetBestChainInner(b) /\ pindexBest' = b
      /\ pc' = "pending"
      /\ UNCHANGED <<mapBlockIndex, nBestInvalidTrust, pindexNew, vpindexSecondary, nCrashes>>
  BY DEF ExtendBest
<1>2. /\ ConnectBlock(txindex, b).ok /\ hashBestChain' = b
      /\ pnext' = [pnext EXCEPT ![pprev[b]] = b]
  BY <1>1 DEF SetBestChainInner
<1>3. /\ b \in Blocks \ {GenesisBlock} /\ pprev[b] = hashBestChain /\ CleanChain(pprev[b])
      /\ txindex = LedgerOf(pprev[b])
  BY <1>1 DEF IndexInv, PointersInv, IndexIsClean
<1>4. TRUE \in Abstract!ConnectBlock(b)
  BY <1>2, <1>3, SameAnswer
<1>5. pnext' = Abstract!RelinkMemory({}, {b}) /\ pnext' = Abstract!RelinkDisk({}, {b})
  BY <1>2, <1>3, LinkedNext
<1>6. Abstract!ReturnTrue
  BY <1>1 DEF Abstract!ReturnTrue
<1>7. Abstract!ExtendBest
  BY <1>1, <1>2, <1>4, <1>5, <1>6 DEF Abstract!ExtendBest
<1>8. LinksInv'
  BY <1>1, <1>2, <1>3, LinksInner DEF LinksInv, IndexInv, PointersInv
<1>9. QED
  BY <1>7, <1>8

\* It fails.
LEMMA MapsExtendBestFails ==
    ASSUME IndexInv, LinksInv, ~broken, ExtendBestFails
    PROVE  Abstract!ExtendBestFails /\ LinksInv'
<1> DEFINE b == pindexNew
<1>1. /\ pc = "set" /\ pprev[b] = pindexBest /\ ~ConnectBlock(txindex, b).ok
      /\ InvalidChainFound(b) /\ pc' = "idle"
      /\ UNCHANGED <<hashBestChain, mapBlockIndex, pnext, pindexBest, pindexNew,
                     vpindexSecondary, nCrashes>>
  BY DEF ExtendBestFails
<1>2. /\ b \in Blocks \ {GenesisBlock} /\ pprev[b] = hashBestChain /\ CleanChain(pprev[b])
      /\ txindex = LedgerOf(pprev[b])
  BY <1>1 DEF IndexInv, PointersInv, IndexIsClean
<1>3. FALSE \in Abstract!ConnectBlock(b)
  BY <1>1, <1>2, SameAnswer
<1>4. Abstract!ReturnFalse /\ Abstract!InvalidChainFound(b)
  BY <1>1 DEF Abstract!ReturnFalse, Abstract!InvalidChainFound, InvalidChainFound
<1>5. Abstract!ExtendBestFails
  BY <1>1, <1>3, <1>4 DEF Abstract!ExtendBestFails, Abstract!memory, Abstract!disk
<1>6. LinksInv'
  BY <1>1 DEF LinksInv, ClosedUnderPrev
<1>7. QED
  BY <1>5, <1>6

\* The block Reorganize goes to is the first one heavier than the best block.
LEMMA SameIntermediate ==
    ASSUME PointersInv
    PROVE  Abstract!IsIntermediate(pindexIntermediate)
<1>1. pindexNew \in Blocks /\ pindexBest \in Blocks
  BY DEF PointersInv
<1>2. \E x \in Chain[pindexNew] :
         /\ x # pindexNew => nChainTrust[x] > nChainTrust[pindexBest]
         /\ x # GenesisBlock => nChainTrust[pprev[x]] <= nChainTrust[pindexBest]
  BY <1>1, FirstHeavierExists
<1>3. /\ pindexIntermediate \in Chain[pindexNew]
      /\ pindexIntermediate # pindexNew => nChainTrust[pindexIntermediate] > nChainTrust[pindexBest]
      /\ pindexIntermediate # GenesisBlock =>
            nChainTrust[pprev[pindexIntermediate]] <= nChainTrust[pindexBest]
  BY <1>2 DEF pindexIntermediate
<1>4. QED
  BY <1>3, SameChains DEF Abstract!IsIntermediate

\* The answers of Reorganize: yes when the new branch is valid, no when not, or on an I/O error.
LEMMA SameReorganizeAnswers ==
    ASSUME IndexInv, ~broken, pc = "set"
    PROVE  /\ Reconnected.ok => TRUE \in Abstract!ReorganizeAnswers(pindexIntermediate)
           /\ ~Reconnected.ok => FALSE \in Abstract!ReorganizeAnswers(pindexIntermediate)
           /\ IOErrors => FALSE \in Abstract!ReorganizeAnswers(pindexIntermediate)
<1> DEFINE S == Chain[pindexIntermediate] \ Chain[pindexBest]
<1>1. hashBestChain = pindexBest
  BY DEF IndexInv, IndexIsClean
<1>2. Reconnected.ok <=> S \subseteq ValidBlocks
  BY ReorganizeOk
<1>3. Abstract!vConnect(pindexIntermediate) = S
  BY SameChains DEF Abstract!vConnect
<1>4. Abstract!ReorganizeAnswers(pindexIntermediate)
         = {S \subseteq ValidBlocks} \cup (IF IOErrors THEN {FALSE} ELSE {})
  BY <1>1, <1>3, Zenon DEF Abstract!ReorganizeAnswers
<1>5. IOErrors => FALSE \in Abstract!ReorganizeAnswers(pindexIntermediate)
  BY <1>4
<1>6. (S \subseteq ValidBlocks) \in Abstract!ReorganizeAnswers(pindexIntermediate)
  BY <1>4, Zenon
<1>7. CASE S \subseteq ValidBlocks
  <2>1. (S \subseteq ValidBlocks) = TRUE
    BY <1>7
  <2>2. TRUE \in Abstract!ReorganizeAnswers(pindexIntermediate)
    BY <1>6, <2>1, Zenon
  <2>3. QED
    BY <1>2, <1>5, <1>7, <2>2
<1>8. CASE ~(S \subseteq ValidBlocks)
  <2>1. (S \subseteq ValidBlocks) = FALSE
    BY <1>8
  <2>2. FALSE \in Abstract!ReorganizeAnswers(pindexIntermediate)
    BY <1>6, <2>1, Zenon
  <2>3. QED
    BY <1>2, <1>5, <1>8, <2>2
<1>9. QED
  BY <1>7, <1>8

\* SetBestChain on another branch.
LEMMA MapsReorganize ==
    ASSUME IndexInv, LinksInv, ~broken, Reorganize
    PROVE  Abstract!Reorganize /\ LinksInv'
<1> DEFINE b == pindexBest
           c == pindexIntermediate
           C == Chain[c] \ Chain[b]
           D == Chain[b] \ Chain[c]
<1>1. /\ pc = "set" /\ pprev[pindexNew] # pindexBest /\ Reconnected.ok
      /\ hashBestChain' = c /\ vpindexSecondary' = Chain[pindexNew] \ Chain[c]
      /\ pc' = "secondary"
      /\ UNCHANGED <<mapBlockIndex, pindexBest, nBestInvalidTrust, pindexNew, nCrashes>>
  BY DEF Reorganize
<1>2. /\ PointersInv /\ b \in Blocks /\ c \in Blocks /\ c \in Chain[pindexNew]
      /\ pindexNew \in Blocks
  BY IntermediateIs DEF IndexInv, PointersInv
<1>3. ToSet(vConnect) = C /\ ToSet(vDisconnect) = D
  BY <1>2, BranchSets
<1>4. pnext' = [x \in Blocks |->
                    IF HasChildIn(C, x) THEN CHOOSE d \in C : pprev[d] = x
                    ELSE IF HasChildIn(D, x) THEN NULL ELSE pnext[x]]
  <2> HIDE DEF C, D
  <2>1. QED
    BY <1>3 DEF Reorganize
<1>5. Abstract!IsIntermediate(c) /\ c \in Abstract!Chain[pindexNew]
  BY <1>2, SameIntermediate, SameChains
<1>6. TRUE \in Abstract!ReorganizeAnswers(c)
  BY <1>1, SameReorganizeAnswers
<1>7. Abstract!vConnect(c) = C /\ Abstract!vDisconnect(c) = D
  BY SameChains DEF Abstract!vConnect, Abstract!vDisconnect
<1> HIDE DEF c
<1>8. Abstract!RelinkDisk(D, C) = Abstract!RelinkMemory(D, C)
  BY <1>2, RelinkedNext
<1>9. pnext' = Abstract!RelinkMemory(D, C)
  <2> HIDE DEF C, D
  <2>1. QED
    BY <1>4 DEF Abstract!RelinkMemory, Abstract!HasChildIn, Abstract!ChildIn, HasChildIn
<1>10. C \subseteq mapBlockIndex /\ mapBlockIndex \subseteq Blocks
  <2>1. Chain[pindexNew] \subseteq mapBlockIndex /\ mapBlockIndex \subseteq Blocks
    BY <1>2, ChainLeast DEF LinksInv, PointersInv
  <2>2. QED
    BY <1>2, <2>1, ChainTransitive
<1>11. c \in mapBlockIndex
  BY <1>2, ChainLeast DEF LinksInv, PointersInv
<1>12. ASSUME NEW x \in Blocks
       PROVE  pnext'[x] \in mapBlockIndex \cup {NULL} /\ (x \notin mapBlockIndex => pnext'[x] = NULL)
  <2>1. CASE HasChildIn(C, x)
    <3>1. PICK d \in C : pprev[d] = x
      BY <2>1 DEF HasChildIn
    <3>2. pnext'[x] \in C
      <4> HIDE DEF C
      <4>1. pnext'[x] = CHOOSE e \in C : pprev[e] = x
        BY <1>4, <2>1
      <4>2. QED
        BY <3>1, <4>1
    <3>3. d # GenesisBlock /\ d \in mapBlockIndex
      BY <1>2, <1>10, GenesisOnChain
    <3>4. x \in mapBlockIndex
      BY <3>1, <3>3 DEF LinksInv, ClosedUnderPrev
    <3>5. QED
      BY <1>10, <3>2, <3>4
  <2>2. CASE ~HasChildIn(C, x)
    <3> HIDE DEF C, D
    <3>1. pnext'[x] = IF HasChildIn(D, x) THEN NULL ELSE pnext[x]
      BY <1>4, <2>2
    <3>2. QED
      BY <3>1 DEF LinksInv
  <2>3. QED
    BY <2>1, <2>2
<1> HIDE DEF C, D
<1>13. pnext' \in [Blocks -> BlockOrNull]
  <2>1. \A x \in Blocks : pnext'[x] \in BlockOrNull
    BY <1>10, <1>12 DEF BlockOrNull
  <2>2. QED
    BY <1>4, <2>1
<1>14. LinksInv'
  BY <1>1, <1>11, <1>12, <1>13 DEF LinksInv, ClosedUnderPrev
<1>15. Abstract!Reorganize
  <2>1. vpindexSecondary' = Abstract!Chain[pindexNew] \ Abstract!Chain[c]
    BY <1>1, SameChains DEF c
  <2>2. /\ pnext' = Abstract!RelinkDisk(Abstract!vDisconnect(c), Abstract!vConnect(c))
        /\ pnext' = Abstract!RelinkMemory(Abstract!vDisconnect(c), Abstract!vConnect(c))
    BY <1>7, <1>8, <1>9
  <2>3. hashBestChain' = c
    BY <1>1 DEF c
  <2>4. QED
    BY <1>1, <1>5, <1>6, <2>1, <2>2, <2>3 DEF Abstract!Reorganize, Abstract!checkpts
<1>16. QED
  BY <1>14, <1>15

\* It fails, on a block that is not valid or on an I/O error.
LEMMA MapsReorganizeFails ==
    ASSUME IndexInv, LinksInv, ~broken, NEW d \in 0..Len(vDisconnect), NEW k \in 0..Len(vConnect),
           ReorganizeFails(d, k)
    PROVE  Abstract!ReorganizeFails /\ LinksInv'
<1> DEFINE c == pindexIntermediate
<1>1. /\ pc = "set" /\ pprev[pindexNew] # pindexBest /\ StopsAt(d, k)
      /\ InvalidChainFound(pindexNew) /\ pc' = "idle"
      /\ UNCHANGED <<hashBestChain, mapBlockIndex, pnext, pindexBest, pindexNew,
                     vpindexSecondary, nCrashes>>
  BY DEF ReorganizeFails
<1>2. PointersInv /\ Len(vDisconnect) \in Nat /\ Len(vConnect) \in Nat
  BY BranchesAre DEF IndexInv
<1>3. Abstract!IsIntermediate(c) /\ c \in Abstract!Chain[pindexNew]
  BY <1>2, SameIntermediate, SameChains, IntermediateIs
<1>4. FALSE \in Abstract!ReorganizeAnswers(c)
  <2>1. CASE IOErrors
    BY <1>1, <2>1, SameReorganizeAnswers
  <2>2. CASE ~IOErrors
    <3>1. ~(d < Len(vDisconnect) /\ ~DisconnectedUpTo(d + 1).ok)
      <4>1. d < Len(vDisconnect) => d + 1 \in 0..Len(vDisconnect)
        BY <1>2
      <4>2. QED
        BY <1>1, <4>1, ReorganizeOk
    <3>2. k < Len(vConnect) /\ ~ReconnectedUpTo(k + 1).ok
      BY <1>1, <2>2, <3>1 DEF StopsAt
    <3>3. k + 1 \in 0..Len(vConnect)
      BY <1>2, <3>2
    <3>4. ~Reconnected.ok
      BY <1>1, <3>2, <3>3, ReorganizeOk
    <3>5. QED
      BY <1>1, <3>4, SameReorganizeAnswers
  <2>3. QED
    BY <2>1, <2>2
<1> HIDE DEF c
<1>5. Abstract!ReturnFalse /\ Abstract!InvalidChainFound(pindexNew)
  BY <1>1 DEF Abstract!ReturnFalse, Abstract!InvalidChainFound, InvalidChainFound
<1>6. Abstract!ReorganizeFails
  BY <1>1, <1>3, <1>4, <1>5 DEF Abstract!ReorganizeFails, Abstract!memory, Abstract!disk
<1>7. LinksInv'
  BY <1>1 DEF LinksInv, ClosedUnderPrev
<1>8. QED
  BY <1>6, <1>7

\* A postponed block is connected.
LEMMA MapsConnectSecondary ==
    ASSUME IndexInv, LinksInv, ~broken, ConnectSecondary
    PROVE  Abstract!ConnectSecondary /\ LinksInv'
<1> DEFINE y == NextSecondary
<1>1. /\ pc = "secondary" /\ vpindexSecondary # {} /\ SetBestChainInner(y)
      /\ vpindexSecondary' = vpindexSecondary \ {y}
      /\ UNCHANGED <<mapBlockIndex, pindexBest, nBestInvalidTrust, pc, pindexNew, nCrashes>>
  BY DEF ConnectSecondary
<1>2. /\ ConnectBlock(txindex, y).ok /\ hashBestChain' = y
      /\ pnext' = [pnext EXCEPT ![pprev[y]] = y]
  BY <1>1 DEF SetBestChainInner
<1>3. /\ hashBestChain \in Blocks /\ pindexNew \in Blocks /\ hashBestChain \in Chain[pindexNew]
      /\ vpindexSecondary = Chain[pindexNew] \ Chain[hashBestChain]
      /\ CleanChain(hashBestChain) /\ txindex = LedgerOf(hashBestChain)
      /\ mapBlockIndex \subseteq Blocks
  BY <1>1 DEF IndexInv, PointersInv, IndexIsClean
<1>4. /\ y \in Blocks \ {GenesisBlock} /\ y \in Chain[pindexNew] /\ y \in vpindexSecondary
      /\ pprev[y] = hashBestChain /\ pprev[y] \notin vpindexSecondary
  BY <1>1, <1>3, NextSecondaryIs, ChainClosed
<1> HIDE DEF y
<1>5. TRUE \in Abstract!ConnectBlock(y)
  BY <1>2, <1>3, <1>4, SameAnswer
<1>6. pnext' = Abstract!RelinkMemory({}, {y}) /\ pnext' = Abstract!RelinkDisk({}, {y})
  BY <1>2, <1>4, LinkedNext
<1>7. Abstract!ConnectSecondary
  BY <1>1, <1>2, <1>4, <1>5, <1>6
     DEF Abstract!ConnectSecondary, Abstract!NextSecondary, Abstract!checkpts
<1>8. y \in mapBlockIndex
  BY <1>3, <1>4, ChainLeast DEF LinksInv
<1>9. LinksInv'
  BY <1>1, <1>2, <1>3, <1>4, <1>8, LinksInner DEF LinksInv
<1>10. QED
  BY <1>7, <1>9

\* It is refused, or cannot be read.  From here on SetBestChain has given up.
LEMMA MapsBreakSecondary ==
    ASSUME IndexInv, LinksInv, ~broken, BreakSecondary
    PROVE  Abstract!BreakSecondary
<1> DEFINE y == NextSecondary
<1>1. /\ pc = "secondary" /\ vpindexSecondary # {}
      /\ \/ ~ConnectBlock(txindex, y).ok /\ InvalidChainFound(y)
         \/ IOErrors /\ UNCHANGED nBestInvalidTrust
      /\ vpindexSecondary' = {}
      /\ UNCHANGED <<hashBestChain, mapBlockIndex, pnext, pindexBest, pc, pindexNew, nCrashes>>
  BY DEF BreakSecondary
<1>2. /\ hashBestChain \in Blocks /\ pindexNew \in Blocks /\ hashBestChain \in Chain[pindexNew]
      /\ vpindexSecondary = Chain[pindexNew] \ Chain[hashBestChain]
      /\ CleanChain(hashBestChain) /\ txindex = LedgerOf(hashBestChain)
  BY <1>1 DEF IndexInv, PointersInv, IndexIsClean
<1>3. /\ y \in Blocks \ {GenesisBlock} /\ y \in vpindexSecondary
      /\ pprev[y] = hashBestChain /\ pprev[y] \notin vpindexSecondary
  BY <1>1, <1>2, NextSecondaryIs, ChainClosed
<1> HIDE DEF y
<1>4. \/ FALSE \in Abstract!ConnectBlock(y) /\ Abstract!InvalidChainFound(y)
      \/ IOErrors /\ UNCHANGED nBestInvalidTrust
  BY <1>1, <1>2, <1>3, SameAnswer DEF Abstract!InvalidChainFound, InvalidChainFound
<1>5. QED
  BY <1>1, <1>3, <1>4 DEF Abstract!BreakSecondary, Abstract!NextSecondary, Abstract!memory,
                          Abstract!checkpts, Abstract!disk

\* The new block is best.
LEMMA MapsNewBest ==
    ASSUME IndexInv, LinksInv, NewBest
    PROVE  Abstract!NewBest /\ LinksInv'
<1>1. Abstract!ReturnTrue
  BY DEF NewBest, Abstract!ReturnTrue
<1>2. Abstract!NewBest
  BY <1>1 DEF NewBest, Abstract!NewBest, Abstract!disk
<1>3. LinksInv'
  BY DEF NewBest, LinksInv, ClosedUnderPrev
<1>4. QED
  BY <1>2, <1>3

\* AcceptBlock ends without a checkpoint.
LEMMA MapsNoPending ==
    ASSUME IndexInv, LinksInv, NoPending
    PROVE  Abstract!NoPending /\ LinksInv'
<1>1. ~Abstract!PendingArrived
  BY DEF Abstract!PendingArrived
<1>2. Abstract!NoPending
  BY <1>1 DEF NoPending, Abstract!NoPending, Abstract!memory, Abstract!checkpts, Abstract!disk
<1>3. LinksInv'
  BY DEF NoPending, LinksInv, ClosedUnderPrev
<1>4. QED
  BY <1>2, <1>3

\* A restart finds the index and the links of memory in the database.
LEMMA MapsRestart ==
    ASSUME IndexInv, LinksInv, NEW p, RestartWith(p)
    PROVE  Abstract!Restart /\ LinksInv'
<1>1. /\ nCrashes < MaxCrashes /\ nCrashes' = nCrashes + 1 /\ pindexBest' = hashBestChain
      /\ vpindexSecondary' = {} /\ pc' = "idle"
      /\ UNCHANGED <<hashBestChain, mapBlockIndex, pnext, nBestInvalidTrust, pindexNew>>
  BY DEF RestartWith
<1>2. mapBlockIndex \subseteq Blocks /\ NULL \notin mapBlockIndex
  BY TreeAssumption DEF IndexInv, PointersInv
<1>3. Abstract!LoadedIndex = mapBlockIndex
  <2>1. \A b \in mapBlockIndex : pprev[b] \in mapBlockIndex \cup {NULL}
    BY <1>2, TreeAssumption DEF LinksInv, ClosedUnderPrev
  <2>2. \A b \in mapBlockIndex : pnext[b] \in mapBlockIndex \cup {NULL}
    BY <1>2 DEF LinksInv
  <2>3. QED
    BY <1>2, <2>1, <2>2 DEF Abstract!LoadedIndex
<1>4. Abstract!LoadedNext = pnext
  <2>1. Abstract!LoadedNext = [b \in Blocks |-> pnext[b]]
    BY DEF LinksInv, Abstract!LoadedNext
  <2>2. QED
    BY <2>1 DEF LinksInv
<1>5. hashBestChain \in mapBlockIndex
  BY DEF LinksInv
<1>6. Abstract!LoadBlockIndex
  BY <1>1, <1>3, <1>4, <1>5 DEF Abstract!LoadBlockIndex, Abstract!disk
<1>7. Abstract!Restart
  BY <1>1, <1>6 DEF Abstract!Restart
<1>8. LinksInv'
  BY <1>1 DEF LinksInv, ClosedUnderPrev
<1>9. QED
  BY <1>7, <1>8

\* Every step of a handler.
LEMMA MapsBlockStep ==
    ASSUME IndexInv, LinksInv, ~broken, BlockStep
    PROVE  Abstract!Next /\ (~broken' => LinksInv')
<1>1. ASSUME NEW b \in Blocks, AcceptBlock(b) PROVE Abstract!Next /\ LinksInv'
  BY <1>1, MapsAcceptBlock DEF Abstract!Next
<1>2. CASE ExtendBest
  BY <1>2, MapsExtendBest DEF Abstract!Next, Abstract!HandlerStep
<1>3. CASE ExtendBestFails
  BY <1>3, MapsExtendBestFails DEF Abstract!Next, Abstract!HandlerStep
<1>4. CASE Reorganize
  BY <1>4, MapsReorganize DEF Abstract!Next, Abstract!HandlerStep
<1>5. ASSUME NEW d \in 0..Len(vDisconnect), NEW k \in 0..Len(vConnect), ReorganizeFails(d, k)
      PROVE  Abstract!Next /\ LinksInv'
  BY <1>5, MapsReorganizeFails DEF Abstract!Next, Abstract!HandlerStep
<1>6. CASE ConnectSecondary
  BY <1>6, MapsConnectSecondary DEF Abstract!Next, Abstract!HandlerStep
<1>7. CASE BreakSecondary
  <2>1. broken'
    BY <1>7 DEF BreakSecondary
  <2>2. QED
    BY <1>7, <2>1, MapsBreakSecondary DEF Abstract!Next, Abstract!HandlerStep
<1>8. CASE NewBest
  BY <1>8, MapsNewBest DEF Abstract!Next, Abstract!HandlerStep
<1>9. CASE NoPending
  BY <1>9, MapsNoPending DEF Abstract!Next, Abstract!HandlerStep
<1>10. QED
  BY <1>1, <1>2, <1>3, <1>4, <1>5, <1>6, <1>7, <1>8, <1>9 DEF BlockStep

\* A step that changes nothing of BestChain.
LEMMA MapsStutter ==
    ASSUME MappingInv, UNCHANGED <<hashBestChain, mapBlockIndex, pnext, pindexBest,
                                   nBestInvalidTrust, pc, pindexNew, vpindexSecondary, broken,
                                   nCrashes>>
    PROVE  UNCHANGED Abstract!vars /\ (~broken' => LinksInv')
<1>1. UNCHANGED Abstract!vars
  BY DEF Abstract!vars, Abstract!memory, Abstract!checkpts, Abstract!disk, Abstract!handler
<1>2. ~broken' => LinksInv'
  BY DEF MappingInv, LinksInv, ClosedUnderPrev
<1>3. QED
  BY <1>1, <1>2

\* Every step is one of BestChain, or leaves its variables alone.
LEMMA MapsStep ==
    ASSUME MappingInv, [RelayNext]_relayVars
    PROVE  MappingInv' /\ [broken \/ Abstract!Next]_(Abstract!vars)
<1>1. IndexInv'
  BY IndexInvStep DEF MappingInv
<1>2. ASSUME BlockStep \/ RestartWith(EmptyPool)
      PROVE  (~broken' => LinksInv') /\ (broken \/ Abstract!Next)
  <2>1. CASE broken
    <3>1. broken'
      BY <1>2, <2>1 DEF BlockStep, AcceptBlock, ExtendBest, ExtendBestFails, Reorganize,
         ReorganizeFails, ConnectSecondary, BreakSecondary, NewBest, NoPending, RestartWith
    <3>2. QED
      BY <2>1, <3>1
  <2>2. CASE ~broken /\ BlockStep
    BY <2>2, MapsBlockStep DEF MappingInv
  <2>3. CASE ~broken /\ RestartWith(EmptyPool)
    BY <2>3, MapsRestart DEF MappingInv, Abstract!Next
  <2>4. QED
    BY <1>2, <2>1, <2>2, <2>3
<1>3. ASSUME NEW t \in Txs, AcceptTx(t) PROVE UNCHANGED Abstract!vars /\ (~broken' => LinksInv')
  BY <1>3, MapsStutter DEF AcceptTx, handler
<1>4. ASSUME NEW t \in Txs, KeepOrphan(t) PROVE UNCHANGED Abstract!vars /\ (~broken' => LinksInv')
  BY <1>4, MapsStutter DEF KeepOrphan, vars, handler
<1>5. ASSUME NEW t \in Txs, AcceptToMemoryPool(t)
      PROVE  UNCHANGED Abstract!vars /\ (~broken' => LinksInv')
  BY <1>5, MapsStutter DEF AcceptToMemoryPool, handler
<1>6. ASSUME UNCHANGED relayVars PROVE UNCHANGED Abstract!vars /\ (~broken' => LinksInv')
  BY <1>6, MapsStutter DEF relayVars, vars, handler
<1>7. QED
  BY <1>1, <1>2, <1>3, <1>4, <1>5, <1>6 DEF RelayNext, MappingInv

(***************************************************************************)
(* The ledger implements BestChain: the answer BestChain takes as a        *)
(* parameter, whether a block connects, is the one that ConnectBlock       *)
(* computes from the transaction index, and it is the rule ValidBlock;     *)
(* every step of SetBestChain, Reorganize and LoadBlockIndex here is one   *)
(* there, until SetBestChain has given up on a postponed block.            *)
(***************************************************************************)
THEOREM LedgerImplementsBestChain == RelaySpec => ImplementsBestChain
<1>1. RelayInit => Abstract!Init
  BY DEF RelayInit, Init, Abstract!Init
<1>2. RelayInit => MappingInv
  <2> SUFFICES ASSUME RelayInit PROVE LinksInv
    BY IndexInvInit DEF MappingInv
  <2>1. /\ pnext = [b \in Blocks |-> NULL] /\ mapBlockIndex = {GenesisBlock}
        /\ hashBestChain = GenesisBlock /\ pindexBest = GenesisBlock /\ pindexNew = GenesisBlock
    BY DEF RelayInit, Init
  <2>2. QED
    BY <2>1 DEF LinksInv, ClosedUnderPrev, BlockOrNull
<1>3. MappingInv /\ [RelayNext]_relayVars
         => MappingInv' /\ [broken \/ Abstract!Next]_(Abstract!vars)
  BY MapsStep
<1>4. QED
  BY <1>1, <1>2, <1>3, PTL DEF RelaySpec, ImplementsBestChain
-----------------------------------------------------------------------------
(***************************************************************************)
(* The memory pool agrees with itself and with the transaction index, and  *)
(* the two maps of orphan transactions with each other.                    *)
(***************************************************************************)

\* A sequence backwards is a sequence of the same elements.
LEMMA ReverseIsSeq ==
    ASSUME NEW T, NEW q \in Seq(T)
    PROVE  /\ Reverse(q) \in Seq(T) /\ Len(Reverse(q)) = Len(q)
           /\ \A i \in 1..Len(q) : \E j \in 1..Len(q) : Reverse(q)[j] = q[i]
<1>1. Len(q) \in Nat /\ Reverse(q) = [i \in 1..Len(q) |-> q[(Len(q) - i) + 1]]
  BY DEF Reverse
<1>2. \A i \in 1..Len(q) : (Len(q) - i) + 1 \in 1..Len(q) /\ (Len(q) - ((Len(q) - i) + 1)) + 1 = i
  BY <1>1
<1>3. Reverse(q) \in Seq(T) /\ Len(Reverse(q)) = Len(q)
  BY <1>1, <1>2
<1>4. ASSUME NEW i \in 1..Len(q) PROVE \E j \in 1..Len(q) : Reverse(q)[j] = q[i]
  <2>1. Reverse(q)[(Len(q) - i) + 1] = q[i] /\ (Len(q) - i) + 1 \in 1..Len(q)
    BY <1>1, <1>2
  <2>2. QED
    BY <2>1
<1>5. QED
  BY <1>3, <1>4

-----------------------------------------------------------------------------
(***************************************************************************)
(* A pool that agrees with itself.                                         *)
(***************************************************************************)
PoolGood(p) ==
    /\ p.mapTx \subseteq Txs
    /\ p.mapNextTx \in [Outpoints -> Txs \cup {NULL}]
    /\ \A o \in Outpoints : \A t \in Txs :
          p.mapNextTx[o] = t <=> t \in p.mapTx /\ o \in vin[t]

\* addUnchecked keeps the pool in agreement when no input is spent in it.
LEMMA AddKeepsPool ==
    ASSUME NEW p, NEW t \in Txs, PoolGood(p), ~Conflicts(p, t)
    PROVE  PoolGood(addUnchecked(p, t)) /\ addUnchecked(p, t).mapTx = p.mapTx \cup {t}
<1> DEFINE q == addUnchecked(p, t)
<1>1. /\ q.mapTx = p.mapTx \cup {t}
      /\ q.mapNextTx = [o \in Outpoints |-> IF o \in vin[t] THEN t ELSE p.mapNextTx[o]]
  BY DEF addUnchecked
<1> HIDE DEF q
<1>2. q.mapTx \subseteq Txs /\ q.mapNextTx \in [Outpoints -> Txs \cup {NULL}]
  BY <1>1 DEF PoolGood
<1>3. ASSUME NEW o \in Outpoints, NEW u \in Txs
      PROVE  q.mapNextTx[o] = u <=> u \in q.mapTx /\ o \in vin[u]
  <2>1. p.mapNextTx[o] = u <=> u \in p.mapTx /\ o \in vin[u]
    BY DEF PoolGood
  <2>2. CASE o \in vin[t]
    <3>1. p.mapNextTx[o] = NULL
      BY <2>2 DEF Conflicts
    <3>2. u # NULL
      BY LedgerAssumption
    <3>3. QED
      BY <1>1, <2>1, <2>2, <3>1, <3>2
  <2>3. CASE o \notin vin[t]
    BY <1>1, <2>1, <2>3
  <2>4. QED
    BY <2>2, <2>3
<1>4. QED
  BY <1>1, <1>2, <1>3 DEF PoolGood, q

\* remove keeps it in agreement.
LEMMA RemoveKeepsPool ==
    ASSUME NEW p, NEW t \in Txs, PoolGood(p)
    PROVE  PoolGood(remove(p, t)) /\ remove(p, t).mapTx = p.mapTx \ {t}
<1>1. CASE t \notin p.mapTx
  BY <1>1 DEF remove
<1>2. CASE t \in p.mapTx
  <2> DEFINE q == remove(p, t)
  <2>1. /\ q.mapTx = p.mapTx \ {t}
        /\ q.mapNextTx = [o \in Outpoints |-> IF o \in vin[t] THEN NULL ELSE p.mapNextTx[o]]
    BY <1>2 DEF remove
  <2> HIDE DEF q
  <2>2. q.mapTx \subseteq Txs /\ q.mapNextTx \in [Outpoints -> Txs \cup {NULL}]
    BY <2>1 DEF PoolGood
  <2>3. ASSUME NEW o \in Outpoints, NEW u \in Txs
        PROVE  q.mapNextTx[o] = u <=> u \in q.mapTx /\ o \in vin[u]
    <3>1. /\ p.mapNextTx[o] = u <=> u \in p.mapTx /\ o \in vin[u]
          /\ p.mapNextTx[o] = t <=> t \in p.mapTx /\ o \in vin[t]
      BY DEF PoolGood
    <3>2. u # NULL
      BY LedgerAssumption
    <3>3. CASE o \in vin[t]
      BY <1>2, <2>1, <3>1, <3>2, <3>3
    <3>4. CASE o \notin vin[t]
      BY <2>1, <3>1, <3>4
    <3>5. QED
      BY <3>3, <3>4
  <2>4. QED
    BY <2>1, <2>2, <2>3 DEF PoolGood, q
<1>3. QED
  BY <1>1, <1>2

-----------------------------------------------------------------------------
(***************************************************************************)
(* The loop of SetBestChainInner and Reorganize over the transactions of a *)
(* connected block.  e.mapTx is the pool before the loop.                  *)
(***************************************************************************)
RemoveIn(e, p, t) == remove(p, t)

Removed(e, k, p) ==
    /\ PoolGood(p)
    /\ p.mapTx \subseteq e.mapTx
    /\ \A j \in 1..k : e.seq[j] \notin p.mapTx

RemoveLoop == INSTANCE FoldInduction WITH Op <- RemoveIn, Good <- Removed

\* The transactions of a connected block leave the pool, which stays in agreement.
LEMMA RemoveBlockKeepsPool ==
    ASSUME NEW p, NEW b \in Blocks, PoolGood(p)
    PROVE  /\ PoolGood(RemoveBlock(p, b))
           /\ RemoveBlock(p, b).mapTx \subseteq p.mapTx
           /\ BlockTxs(b) \cap RemoveBlock(p, b).mapTx = {}
<1> DEFINE q == vtx[b]
           e == [mapTx |-> p.mapTx, seq |-> q]
<1>0. e.mapTx = p.mapTx /\ e.seq = q
  OBVIOUS
<1>1. q \in Seq(Txs)
  BY LedgerAssumption
<1> HIDE DEF e, q
<1>2. Removed(e, 0, p)
  BY <1>0 DEF Removed
<1>3. ASSUME NEW k \in 1..Len(q), NEW s, Removed(e, k - 1, s)
      PROVE  Removed(e, k, RemoveIn(e, s, q[k]))
  <2>1. q[k] \in Txs
    BY <1>1
  <2>2. PoolGood(remove(s, q[k])) /\ remove(s, q[k]).mapTx = s.mapTx \ {q[k]}
    BY <1>3, <2>1, RemoveKeepsPool DEF Removed
  <2>3. \A j \in 1..k : j \in 1..(k - 1) \/ j = k
    BY <1>1
  <2>4. QED
    BY <1>0, <1>3, <2>2, <2>3 DEF Removed, RemoveIn
<1>4. Removed(e, Len(q), RemoveLoop!Loop(e, p, q))
  BY <1>1, <1>2, <1>3, RemoveLoop!FoldInvariant
<1>5. RemoveLoop!Loop(e, p, q) = RemoveBlock(p, b)
  BY DEF RemoveBlock, RemoveLoop!Loop, FoldLeft, MapThenFoldSet,
         Max, RemoveLoop!Max, RemoveIn, q
<1>6. \A t \in BlockTxs(b) : \E j \in 1..Len(q) : q[j] = t
  BY <1>1 DEF BlockTxs, ToSet, q
<1>7. QED
  BY <1>0, <1>4, <1>5, <1>6 DEF Removed

(***************************************************************************)
(* The loop over the transactions of a disconnected block.                 *)
(***************************************************************************)
ResurrectIn(e, p, t) == Resurrect(p, t)

Resurrected(e, k, p) ==
    /\ PoolGood(p)
    /\ \A t \in p.mapTx : t \in e.mapTx \/ \E j \in 1..k : e.seq[j] = t

ResurrectLoop == INSTANCE FoldInduction WITH Op <- ResurrectIn, Good <- Resurrected

\* Only transactions of the disconnected block enter the pool.
LEMMA ResurrectBlockKeepsPool ==
    ASSUME NEW p, NEW b \in Blocks, PoolGood(p)
    PROVE  /\ PoolGood(ResurrectBlock(p, b))
           /\ ResurrectBlock(p, b).mapTx \subseteq p.mapTx \cup BlockTxs(b)
<1> DEFINE q == vtx[b]
           e == [mapTx |-> p.mapTx, seq |-> q]
<1>0. e.mapTx = p.mapTx /\ e.seq = q
  OBVIOUS
<1>1. q \in Seq(Txs)
  BY LedgerAssumption
<1> HIDE DEF e, q
<1>2. Resurrected(e, 0, p)
  BY <1>0 DEF Resurrected
<1>3. ASSUME NEW k \in 1..Len(q), NEW s, Resurrected(e, k - 1, s)
      PROVE  Resurrected(e, k, ResurrectIn(e, s, q[k]))
  <2>1. q[k] \in Txs
    BY <1>1
  <2>2. \A j \in 1..(k - 1) : j \in 1..k
    BY <1>1
  <2>3. PoolGood(s) /\ \A t \in s.mapTx : t \in e.mapTx \/ \E j \in 1..k : e.seq[j] = t
    BY <1>3, <2>2 DEF Resurrected
  <2>4. CASE ~Minted(q[k]) /\ accept(s, q[k], FALSE)
    <3>1. ~Conflicts(s, q[k])
      BY <2>4 DEF accept
    <3>2. PoolGood(addUnchecked(s, q[k])) /\ addUnchecked(s, q[k]).mapTx = s.mapTx \cup {q[k]}
      BY <2>1, <2>3, <3>1, AddKeepsPool
    <3>3. Resurrect(s, q[k]) = addUnchecked(s, q[k])
      BY <2>4 DEF Resurrect
    <3>4. k \in 1..k /\ e.seq[k] = q[k]
      BY <1>0, <1>1
    <3>5. QED
      BY <2>3, <3>2, <3>3, <3>4 DEF Resurrected, ResurrectIn
  <2>5. CASE ~(~Minted(q[k]) /\ accept(s, q[k], FALSE))
    <3>1. Resurrect(s, q[k]) = s
      BY <2>5 DEF Resurrect
    <3>2. QED
      BY <2>3, <3>1 DEF Resurrected, ResurrectIn
  <2>6. QED
    BY <2>4, <2>5
<1>4. Resurrected(e, Len(q), ResurrectLoop!Loop(e, p, q))
  BY <1>1, <1>2, <1>3, ResurrectLoop!FoldInvariant
<1>5. ResurrectLoop!Loop(e, p, q) = ResurrectBlock(p, b)
  BY DEF ResurrectBlock, ResurrectLoop!Loop, FoldLeft, MapThenFoldSet,
         Max, ResurrectLoop!Max, ResurrectIn, q
<1>6. \A j \in 1..Len(q) : q[j] \in BlockTxs(b)
  BY <1>1 DEF BlockTxs, ToSet, q
<1>7. QED
  BY <1>0, <1>4, <1>5, <1>6 DEF Resurrected

-----------------------------------------------------------------------------
(***************************************************************************)
(* The loops of Reorganize over the blocks of the two branches.            *)
(***************************************************************************)
ResurrectBlockIn(e, p, b) == ResurrectBlock(p, b)

BlocksResurrected(e, k, p) ==
    /\ PoolGood(p)
    /\ \A t \in p.mapTx : t \in e.mapTx \/ \E j \in 1..k : t \in BlockTxs(e.seq[j])

ResurrectBlocksLoop ==
    INSTANCE FoldInduction WITH Op <- ResurrectBlockIn, Good <- BlocksResurrected

RemoveBlockIn(e, p, b) == RemoveBlock(p, b)

BlocksRemoved(e, k, p) ==
    /\ PoolGood(p)
    /\ p.mapTx \subseteq e.mapTx
    /\ \A j \in 1..k : BlockTxs(e.seq[j]) \cap p.mapTx = {}

RemoveBlocksLoop ==
    INSTANCE FoldInduction WITH Op <- RemoveBlockIn, Good <- BlocksRemoved

\* What enters the pool while a branch is disconnected was in a block of that branch.
LEMMA ResurrectBranchKeepsPool ==
    ASSUME NEW p, NEW q \in Seq(Blocks), PoolGood(p)
    PROVE  /\ PoolGood(FoldLeft(ResurrectBlock, p, q))
           /\ \A t \in FoldLeft(ResurrectBlock, p, q).mapTx :
                 t \in p.mapTx \/ \E j \in 1..Len(q) : t \in BlockTxs(q[j])
<1> DEFINE e == [mapTx |-> p.mapTx, seq |-> q]
<1>0. e.mapTx = p.mapTx /\ e.seq = q
  OBVIOUS
<1> HIDE DEF e
<1>1. BlocksResurrected(e, 0, p)
  BY <1>0 DEF BlocksResurrected
<1>2. ASSUME NEW k \in 1..Len(q), NEW s, BlocksResurrected(e, k - 1, s)
      PROVE  BlocksResurrected(e, k, ResurrectBlockIn(e, s, q[k]))
  <2>1. q[k] \in Blocks
    OBVIOUS
  <2>2. \A j \in 1..(k - 1) : j \in 1..k
    OBVIOUS
  <2>3. PoolGood(s) /\ \A t \in s.mapTx : t \in e.mapTx \/ \E j \in 1..k : t \in BlockTxs(e.seq[j])
    BY <1>2, <2>2 DEF BlocksResurrected
  <2>4. /\ PoolGood(ResurrectBlock(s, q[k]))
        /\ ResurrectBlock(s, q[k]).mapTx \subseteq s.mapTx \cup BlockTxs(q[k])
    BY <2>1, <2>3, ResurrectBlockKeepsPool
  <2>5. k \in 1..k /\ e.seq[k] = q[k]
    BY <1>0
  <2>6. QED
    BY <2>3, <2>4, <2>5 DEF BlocksResurrected, ResurrectBlockIn
<1>3. BlocksResurrected(e, Len(q), ResurrectBlocksLoop!Loop(e, p, q))
  BY <1>1, <1>2, ResurrectBlocksLoop!FoldInvariant
<1>4. ResurrectBlocksLoop!Loop(e, p, q) = FoldLeft(ResurrectBlock, p, q)
  BY DEF ResurrectBlocksLoop!Loop, FoldLeft, MapThenFoldSet,
         Max, ResurrectBlocksLoop!Max, ResurrectBlockIn
<1>5. QED
  BY <1>0, <1>3, <1>4 DEF BlocksResurrected

\* No transaction of a connected branch stays in the pool.
LEMMA RemoveBranchKeepsPool ==
    ASSUME NEW p, NEW q \in Seq(Blocks), PoolGood(p)
    PROVE  /\ PoolGood(FoldLeft(RemoveBlock, p, q))
           /\ FoldLeft(RemoveBlock, p, q).mapTx \subseteq p.mapTx
           /\ \A j \in 1..Len(q) : BlockTxs(q[j]) \cap FoldLeft(RemoveBlock, p, q).mapTx = {}
<1> DEFINE e == [mapTx |-> p.mapTx, seq |-> q]
<1>0. e.mapTx = p.mapTx /\ e.seq = q
  OBVIOUS
<1> HIDE DEF e
<1>1. BlocksRemoved(e, 0, p)
  BY <1>0 DEF BlocksRemoved
<1>2. ASSUME NEW k \in 1..Len(q), NEW s, BlocksRemoved(e, k - 1, s)
      PROVE  BlocksRemoved(e, k, RemoveBlockIn(e, s, q[k]))
  <2>1. q[k] \in Blocks
    OBVIOUS
  <2>2. /\ PoolGood(RemoveBlock(s, q[k]))
        /\ RemoveBlock(s, q[k]).mapTx \subseteq s.mapTx
        /\ BlockTxs(q[k]) \cap RemoveBlock(s, q[k]).mapTx = {}
    BY <1>2, <2>1, RemoveBlockKeepsPool DEF BlocksRemoved
  <2>3. \A j \in 1..k : j \in 1..(k - 1) \/ j = k
    OBVIOUS
  <2>4. QED
    BY <1>0, <1>2, <2>2, <2>3 DEF BlocksRemoved, RemoveBlockIn
<1>3. BlocksRemoved(e, Len(q), RemoveBlocksLoop!Loop(e, p, q))
  BY <1>1, <1>2, RemoveBlocksLoop!FoldInvariant
<1>4. RemoveBlocksLoop!Loop(e, p, q) = FoldLeft(RemoveBlock, p, q)
  BY DEF RemoveBlocksLoop!Loop, FoldLeft, MapThenFoldSet,
         Max, RemoveBlocksLoop!Max, RemoveBlockIn
<1>5. QED
  BY <1>0, <1>3, <1>4 DEF BlocksRemoved

-----------------------------------------------------------------------------
(***************************************************************************)
(* ConnectBlock adds entries of its own transactions to the index and of   *)
(* no others.  e.db is the index before the block e.b.                     *)
(***************************************************************************)
Indexed(e, k, s) ==
    /\ s = [ok |-> s.ok, idx |-> s.idx, mint |-> s.mint, fees |-> s.fees]
    /\ \A u \in Txs : s.idx[u] # NULL => e.db[u] # NULL \/ \E j \in 1..k : e.seq[j] = u

IndexedLoop == INSTANCE FoldInduction WITH Op <- ConnectTxIn, Good <- Indexed

\* Marking outputs as spent makes no entry where there was none.
LEMMA MarkSpentAddsNone ==
    ASSUME NEW idx, NEW t \in Txs, FetchInputs(idx, t), NEW u \in Txs,
           MarkSpent(idx, t)[u] # NULL
    PROVE  idx[u] # NULL
<1>1. CASE u \in Prevs(t)
  BY <1>1 DEF Prevs, FetchInputs
<1>2. CASE u \notin Prevs(t)
  BY <1>2 DEF MarkSpent
<1>3. QED
  BY <1>1, <1>2

\* The index after a block.
LEMMA ConnectBlockIndexes ==
    ASSUME NEW db, NEW b \in Blocks, NEW u \in Txs, ConnectBlock(db, b).idx[u] # NULL
    PROVE  db[u] # NULL \/ u \in BlockTxs(b)
<1> DEFINE q == vtx[b]
           e == [db |-> db, b |-> b, seq |-> q]
           s0 == [ok |-> TRUE, idx |-> db, mint |-> 0, fees |-> 0]
           last == FoldLeft(LAMBDA r, t : ConnectTx(db, b, r, t), s0, q)
<1>0. e.db = db /\ e.b = b /\ e.seq = q
  OBVIOUS
<1>1. q \in Seq(Txs)
  BY LedgerAssumption
<1>2. s0 = [ok |-> s0.ok, idx |-> s0.idx, mint |-> s0.mint, fees |-> s0.fees] /\ s0.idx = db
  OBVIOUS
<1>a. ConnectBlock(db, b) = [last EXCEPT !.ok = @ /\ (IsProofOfWork(b) =>
                                GetValueOut[vtx[b][1]] <= nReward + last.fees)]
  BY DEF ConnectBlock
<1>b. IndexedLoop!Loop(e, s0, q) = last
  BY <1>0 DEF IndexedLoop!Loop, FoldLeft, MapThenFoldSet,
         Max, IndexedLoop!Max, ConnectTxIn
<1> HIDE DEF e, q, s0, last
<1>3. Indexed(e, 0, s0)
  BY <1>0, <1>2 DEF Indexed
<1>4. ASSUME NEW k \in 1..Len(q), NEW s, Indexed(e, k - 1, s)
      PROVE  Indexed(e, k, ConnectTxIn(e, s, q[k]))
  <2> DEFINE t == q[k]
             r == ConnectTx(db, b, s, t)
  <2>1. t \in Txs /\ k \in 1..k /\ e.seq[k] = t /\ \A j \in 1..(k - 1) : j \in 1..k
    BY <1>0, <1>1
  <2>2. s = [ok |-> s.ok, idx |-> s.idx, mint |-> s.mint, fees |-> s.fees]
    BY <1>4 DEF Indexed
  <2>3. ConnectTxIn(e, s, t) = r
    BY <1>0 DEF ConnectTxIn
  <2>4. CASE s.ok /\ MayOverwrite(db, t) /\ FetchInputs(s.idx, t) /\
                (t \in CoinBases \/ ConnectInputs(s.idx, t, b))
    <3>1. /\ r = [ok |-> r.ok, idx |-> r.idx, mint |-> r.mint, fees |-> r.fees]
          /\ r.idx = [MarkSpent(s.idx, t) EXCEPT ![t] = NewEntry(t, b)]
      BY <2>4 DEF ConnectTx
    <3>2. ASSUME NEW v \in Txs, r.idx[v] # NULL
          PROVE  e.db[v] # NULL \/ \E j \in 1..k : e.seq[j] = v
      <4>1. CASE v = t
        BY <2>1, <4>1
      <4>2. CASE v # t
        <5>1. r.idx[v] = MarkSpent(s.idx, t)[v]
          BY <3>1, <4>2 DEF MarkSpent
        <5>2. s.idx[v] # NULL
          BY <2>1, <2>4, <3>2, <5>1, MarkSpentAddsNone
        <5>3. QED
          BY <1>4, <2>1, <5>2 DEF Indexed
      <4>3. QED
        BY <4>1, <4>2
    <3>3. QED
      BY <2>3, <3>1, <3>2 DEF Indexed
  <2>5. CASE ~(s.ok /\ MayOverwrite(db, t) /\ FetchInputs(s.idx, t) /\
                (t \in CoinBases \/ ConnectInputs(s.idx, t, b)))
    <3>1. r = [s EXCEPT !.ok = FALSE]
      BY <2>5 DEF ConnectTx
    <3>2. r = [ok |-> FALSE, idx |-> s.idx, mint |-> s.mint, fees |-> s.fees]
      BY <2>2, <3>1
    <3>3. r.idx = s.idx /\ r = [ok |-> r.ok, idx |-> r.idx, mint |-> r.mint, fees |-> r.fees]
      BY <3>2
    <3> HIDE DEF r
    <3>4. QED
      BY <1>4, <2>1, <2>3, <3>3 DEF Indexed
  <2>6. QED
    BY <2>4, <2>5
<1>5. Indexed(e, Len(q), last)
  BY <1>1, <1>3, <1>4, <1>b, IndexedLoop!FoldInvariant
<1>6. ConnectBlock(db, b).idx = last.idx
  BY <1>5, <1>a DEF Indexed
<1>7. \A j \in 1..Len(q) : q[j] \in BlockTxs(b)
  BY <1>1 DEF BlockTxs, ToSet, q
<1>8. QED
  BY <1>0, <1>5, <1>6, <1>7 DEF Indexed

(***************************************************************************)
(* The blocks that Reorganize connects.                                    *)
(***************************************************************************)
BranchIndexed(e, k, s) ==
    /\ s.ok => e.ok
    /\ \A u \in Txs : s.idx[u] # NULL =>
          e.idx[u] # NULL \/ \E j \in 1..k : u \in BlockTxs(e.seq[j])

BranchIndexedLoop == INSTANCE FoldInduction WITH Op <- ConnectNextIn, Good <- BranchIndexed

\* The index after a branch: what it held before, and the transactions of the branch.
LEMMA ConnectBranchIndexes ==
    ASSUME NEW s0, NEW q \in Seq(Blocks)
    PROVE  LET s == FoldLeft(ConnectNext, s0, q)
           IN  /\ s.ok => s0.ok
               /\ \A u \in Txs : s.idx[u] # NULL =>
                     s0.idx[u] # NULL \/ \E j \in 1..Len(q) : u \in BlockTxs(q[j])
<1> DEFINE e == [ok |-> s0.ok, idx |-> s0.idx, seq |-> q]
<1>0. e.ok = s0.ok /\ e.idx = s0.idx /\ e.seq = q
  OBVIOUS
<1> HIDE DEF e
<1>1. BranchIndexed(e, 0, s0)
  BY <1>0 DEF BranchIndexed
<1>2. ASSUME NEW k \in 1..Len(q), NEW s, BranchIndexed(e, k - 1, s)
      PROVE  BranchIndexed(e, k, ConnectNextIn(e, s, q[k]))
  <2>1. q[k] \in Blocks /\ k \in 1..k /\ e.seq[k] = q[k] /\ \A j \in 1..(k - 1) : j \in 1..k
    BY <1>0
  <2>2. ConnectNext(s, q[k]).idx = IF s.ok THEN ConnectBlock(s.idx, q[k]).idx ELSE s.idx
    BY DEF ConnectNext
  <2>3. ASSUME NEW v \in Txs, ConnectNext(s, q[k]).idx[v] # NULL
        PROVE  s.idx[v] # NULL \/ v \in BlockTxs(q[k])
    BY <2>1, <2>2, <2>3, ConnectBlockIndexes
  <2>4. ConnectNext(s, q[k]).ok => s.ok
    BY DEF ConnectNext
  <2>5. QED
    BY <1>2, <2>1, <2>3, <2>4 DEF BranchIndexed, ConnectNextIn
<1>3. BranchIndexed(e, Len(q), BranchIndexedLoop!Loop(e, s0, q))
  BY <1>1, <1>2, BranchIndexedLoop!FoldInvariant
<1>4. BranchIndexedLoop!Loop(e, s0, q) = FoldLeft(ConnectNext, s0, q)
  BY DEF BranchIndexedLoop!Loop, FoldLeft, MapThenFoldSet,
         Max, BranchIndexedLoop!Max, ConnectNextIn
<1>5. QED
  BY <1>0, <1>3, <1>4 DEF BranchIndexed

(***************************************************************************)
(* DisconnectBlock erases the entries of its transactions and makes none.  *)
(* A disconnection that fails stays failed.                                *)
(***************************************************************************)
Erased(e, k, s) ==
    /\ s = [ok |-> s.ok, idx |-> s.idx]
    /\ s.ok => /\ e.ok
               /\ \A u \in Txs : s.idx[u] # NULL => e.idx[u] # NULL
               /\ \A j \in 1..k : s.idx[e.seq[j]] = NULL

ErasedLoop == INSTANCE FoldInduction WITH Op <- DisconnectInputsIn, Good <- Erased

\* Giving back what t spent makes no entry where there was none.
LEMMA GiveBackAddsNone ==
    ASSUME NEW idx, NEW t \in Txs, FetchInputs(idx, t), NEW u \in Txs,
           GiveBack(idx, t)[u] # NULL
    PROVE  idx[u] # NULL
<1>1. CASE u \in Prevs(t)
  BY <1>1 DEF Prevs, FetchInputs
<1>2. CASE u \notin Prevs(t)
  BY <1>2 DEF GiveBack
<1>3. QED
  BY <1>1, <1>2

\* The index after a block has been disconnected.
LEMMA DisconnectBlockErases ==
    ASSUME NEW s0, NEW b \in Blocks, s0 = [ok |-> s0.ok, idx |-> s0.idx]
    PROVE  LET r == DisconnectBlock(s0, b)
           IN  /\ r = [ok |-> r.ok, idx |-> r.idx]
               /\ r.ok => /\ s0.ok
                          /\ \A u \in Txs : r.idx[u] # NULL => s0.idx[u] # NULL
                          /\ \A u \in BlockTxs(b) : r.idx[u] = NULL
<1> DEFINE q == DisconnectOrder(b)
           e == [ok |-> s0.ok, idx |-> s0.idx, seq |-> q]
<1>0. e.ok = s0.ok /\ e.idx = s0.idx /\ e.seq = q
  OBVIOUS
<1>1. /\ q \in Seq(Txs)
      /\ \A u \in BlockTxs(b) : \E j \in 1..Len(q) : q[j] = u
  <2>1. vtx[b] \in Seq(Txs)
    BY LedgerAssumption
  <2>2. /\ q \in Seq(Txs) /\ Len(q) = Len(vtx[b])
        /\ \A i \in 1..Len(vtx[b]) : \E j \in 1..Len(vtx[b]) : q[j] = vtx[b][i]
    BY <2>1, ReverseIsSeq DEF DisconnectOrder
  <2>3. \A u \in BlockTxs(b) : \E i \in 1..Len(vtx[b]) : vtx[b][i] = u
    BY <2>1 DEF BlockTxs, ToSet
  <2> HIDE DEF q
  <2>4. QED
    BY <2>2, <2>3
<1>2. ErasedLoop!Loop(e, s0, q) = DisconnectBlock(s0, b)
  BY DEF DisconnectBlock, ErasedLoop!Loop, FoldLeft, MapThenFoldSet,
         Max, ErasedLoop!Max, DisconnectInputsIn
<1> HIDE DEF q, e
<1>4. Erased(e, 0, s0)
  BY <1>0 DEF Erased
<1>5. ASSUME NEW k \in 1..Len(q), NEW s, Erased(e, k - 1, s)
      PROVE  Erased(e, k, DisconnectInputsIn(e, s, q[k]))
  <2> DEFINE t == q[k]
             r == DisconnectInputs(s, t)
  <2>1. t \in Txs /\ e.seq[k] = t /\ \A j \in 1..k : j \in 1..(k - 1) \/ j = k
    BY <1>0, <1>1
  <2>a. \A j \in 1..k : e.seq[j] \in Txs
    BY <1>0, <1>1
  <2>2. s = [ok |-> s.ok, idx |-> s.idx]
    BY <1>5 DEF Erased
  <2>3. CASE s.ok /\ FetchInputs(s.idx, t)
    <3>1. r = [s EXCEPT !.idx = [GiveBack(s.idx, t) EXCEPT ![t] = NULL]]
      BY <2>3 DEF DisconnectInputs
    <3>2. /\ r = [ok |-> s.ok, idx |-> r.idx]
          /\ r.idx = [GiveBack(s.idx, t) EXCEPT ![t] = NULL]
          /\ r.ok = s.ok
      BY <2>2, <3>1
    <3> HIDE DEF r
    <3>3. ASSUME NEW v \in Txs, r.idx[v] # NULL PROVE v # t /\ s.idx[v] # NULL
      <4>1. v # t /\ r.idx[v] = GiveBack(s.idx, t)[v]
        BY <2>1, <3>2, <3>3 DEF GiveBack
      <4>2. s.idx[v] # NULL
        BY <2>1, <2>3, <3>3, <4>1, GiveBackAddsNone
      <4>3. QED
        BY <4>1, <4>2
    <3>4. ASSUME r.ok
          PROVE  /\ e.ok
                 /\ \A u \in Txs : r.idx[u] # NULL => e.idx[u] # NULL
                 /\ \A j \in 1..k : r.idx[e.seq[j]] = NULL
      BY <1>5, <2>1, <2>a, <3>2, <3>3, <3>4 DEF Erased
    <3>5. r = [ok |-> r.ok, idx |-> r.idx]
      BY <3>2
    <3>6. QED
      BY <3>4, <3>5 DEF Erased, DisconnectInputsIn, r
  <2>4. CASE ~(s.ok /\ FetchInputs(s.idx, t))
    <3>1. r = [s EXCEPT !.ok = FALSE]
      BY <2>4 DEF DisconnectInputs
    <3>2. r = [ok |-> FALSE, idx |-> s.idx]
      BY <2>2, <3>1
    <3>3. r = [ok |-> r.ok, idx |-> r.idx] /\ ~r.ok
      BY <3>2
    <3> HIDE DEF r
    <3>4. QED
      BY <3>3 DEF Erased, DisconnectInputsIn, r
  <2>5. QED
    BY <2>3, <2>4
<1>6. Erased(e, Len(q), DisconnectBlock(s0, b))
  BY <1>1, <1>2, <1>4, <1>5, ErasedLoop!FoldInvariant
<1>7. QED
  BY <1>0, <1>1, <1>6 DEF Erased

(***************************************************************************)
(* The blocks that Reorganize disconnects.                                 *)
(***************************************************************************)
BranchErased(e, k, s) ==
    /\ s = [ok |-> s.ok, idx |-> s.idx]
    /\ s.ok => /\ \A u \in Txs : s.idx[u] # NULL => e.idx[u] # NULL
               /\ \A j \in 1..k : \A u \in BlockTxs(e.seq[j]) : s.idx[u] = NULL

BranchErasedLoop == INSTANCE FoldInduction WITH Op <- DisconnectBlockIn, Good <- BranchErased

\* The index after a branch has been disconnected: nothing of the branch is left.
LEMMA DisconnectBranchErases ==
    ASSUME NEW ok, NEW idx, NEW q \in Seq(Blocks),
           FoldLeft(DisconnectBlock, [ok |-> ok, idx |-> idx], q).ok
    PROVE  LET r == FoldLeft(DisconnectBlock, [ok |-> ok, idx |-> idx], q)
           IN  /\ \A u \in Txs : r.idx[u] # NULL => idx[u] # NULL
               /\ \A j \in 1..Len(q) : \A u \in BlockTxs(q[j]) : r.idx[u] = NULL
<1> DEFINE s0 == [ok |-> ok, idx |-> idx]
           e == [idx |-> idx, seq |-> q]
<1>0. e.idx = idx /\ e.seq = q /\ s0.idx = idx /\ s0 = [ok |-> s0.ok, idx |-> s0.idx]
  OBVIOUS
<1>1. BranchErasedLoop!Loop(e, s0, q) = FoldLeft(DisconnectBlock, s0, q)
  BY DEF BranchErasedLoop!Loop, FoldLeft, MapThenFoldSet,
         Max, BranchErasedLoop!Max, DisconnectBlockIn
<1> HIDE DEF e, s0
<1>2. BranchErased(e, 0, s0)
  BY <1>0 DEF BranchErased
<1>3. ASSUME NEW k \in 1..Len(q), NEW s, BranchErased(e, k - 1, s)
      PROVE  BranchErased(e, k, DisconnectBlockIn(e, s, q[k]))
  <2> DEFINE r == DisconnectBlock(s, q[k])
  <2>1. q[k] \in Blocks /\ e.seq[k] = q[k] /\ \A j \in 1..k : j \in 1..(k - 1) \/ j = k
    BY <1>0
  <2>2. s = [ok |-> s.ok, idx |-> s.idx]
    BY <1>3 DEF BranchErased
  <2>3. /\ r = [ok |-> r.ok, idx |-> r.idx]
        /\ r.ok => /\ s.ok
                   /\ \A u \in Txs : r.idx[u] # NULL => s.idx[u] # NULL
                   /\ \A u \in BlockTxs(q[k]) : r.idx[u] = NULL
    BY <2>1, <2>2, DisconnectBlockErases
  <2>4. \A j \in 1..k : BlockTxs(e.seq[j]) \subseteq Txs
    BY <1>0, LedgerAssumption DEF BlockTxs, ToSet
  <2> HIDE DEF r
  <2>5. ASSUME r.ok
        PROVE  /\ \A u \in Txs : r.idx[u] # NULL => e.idx[u] # NULL
               /\ \A j \in 1..k : \A u \in BlockTxs(e.seq[j]) : r.idx[u] = NULL
    BY <1>3, <2>1, <2>3, <2>4, <2>5 DEF BranchErased
  <2>6. QED
    BY <2>3, <2>5 DEF BranchErased, DisconnectBlockIn, r
<1>4. BranchErased(e, Len(q), FoldLeft(DisconnectBlock, s0, q))
  BY <1>1, <1>2, <1>3, BranchErasedLoop!FoldInvariant
<1>5. FoldLeft(DisconnectBlock, s0, q).ok
  BY DEF s0
<1>6. /\ \A u \in Txs : FoldLeft(DisconnectBlock, s0, q).idx[u] # NULL => idx[u] # NULL
      /\ \A j \in 1..Len(q) : \A u \in BlockTxs(q[j]) :
            FoldLeft(DisconnectBlock, s0, q).idx[u] = NULL
  BY <1>0, <1>4, <1>5 DEF BranchErased
<1>7. QED
  BY <1>6 DEF s0

-----------------------------------------------------------------------------
\* The blocks of a branch are blocks.
LEMMA BranchIsSeq ==
    ASSUME NEW b \in Blocks, NEW c \in Blocks
    PROVE  Branch(b, c) \in Seq(Blocks) /\ Reverse(Branch(b, c)) \in Seq(Blocks)
<1> DEFINE h == nHeight[Fork[b][c]] + 1
           n == nHeight[b] - h + 1
<1>1. Fork[b][c] \in Chain[b] /\ Fork[b][c] \in Blocks /\ nHeight \in [Blocks -> Nat]
  BY ForkOnChains, ChainClosed, TreeAssumption
<1>2. Fork[b][c] = b \/ nHeight[Fork[b][c]] < nHeight[b]
  BY <1>1, ChainBelow
<1>3. h \in 0..(nHeight[b] + 1) /\ n \in Nat /\ nHeight[b] \in Nat
  BY <1>1, <1>2
<1>4. Branch(b, c) = [i \in 1..n |-> AtHeight(b, h + i - 1)]
  <2>1. UpFrom[b][h] = [i \in 1..n |-> AtHeight(b, h + i - 1)]
    BY <1>3 DEF UpFrom
  <2>2. QED
    BY <2>1 DEF Branch
<1> HIDE DEF h
<1>5. ASSUME NEW i \in 1..n PROVE AtHeight(b, h + i - 1) \in Blocks
  <2>1. h + i - 1 \in 0..nHeight[b]
    BY <1>3
  <2>2. QED
    BY <2>1, HeightOnChain, ChainClosed
<1>6. Branch(b, c) \in Seq(Blocks)
  BY <1>3, <1>4, <1>5
<1>7. QED
  BY <1>6, ReverseIsSeq

\* The first block of the new chain that is better than the best one exists.
LEMMA IntermediateOnChain ==
    ASSUME pindexNew \in Blocks, pindexBest \in Blocks
    PROVE  pindexIntermediate \in Chain[pindexNew] /\ pindexIntermediate \in Blocks
<1>1. \E x \in Chain[pindexNew] :
        /\ x # pindexNew => nChainTrust[x] > nChainTrust[pindexBest]
        /\ x # GenesisBlock => nChainTrust[pprev[x]] <= nChainTrust[pindexBest]
  BY FirstHeavierExists
<1>2. pindexIntermediate \in Chain[pindexNew]
  BY <1>1 DEF pindexIntermediate
<1>3. QED
  BY <1>2, ChainClosed

\* The lowest postponed block exists.
LEMMA NextSecondaryExists ==
    ASSUME vpindexSecondary \subseteq Blocks, vpindexSecondary # {}
    PROVE  NextSecondary \in vpindexSecondary /\ pprev[NextSecondary] \notin vpindexSecondary
BY LowestExists DEF NextSecondary

-----------------------------------------------------------------------------
(***************************************************************************)
(* The invariant of the block handlers: the pool agrees with itself and is *)
(* disjoint from the index, and the pointers are blocks.                   *)
(***************************************************************************)
LedgerInv ==
    /\ PoolGood(ThePool)
    /\ PoolOutsideChain
    /\ hashBestChain \in Blocks /\ pindexBest \in Blocks /\ pindexNew \in Blocks
    /\ vpindexSecondary \subseteq Blocks

\* Initially.
LEMMA LedgerInvInit == Init => LedgerInv
<1> SUFFICES ASSUME Init PROVE LedgerInv
  OBVIOUS
<1>1. /\ mapTx = {} /\ mapNextTx = [o \in Outpoints |-> NULL]
      /\ hashBestChain \in Blocks /\ pindexBest \in Blocks /\ pindexNew \in Blocks
      /\ vpindexSecondary \subseteq Blocks
  BY TreeAssumption DEF Init
<1>2. ThePool.mapTx = {} /\ ThePool.mapNextTx = [o \in Outpoints |-> NULL]
  BY <1>1 DEF ThePool
<1>3. PoolGood(ThePool)
  BY <1>2, LedgerAssumption DEF PoolGood
<1>4. QED
  BY <1>1, <1>3 DEF LedgerInv, PoolOutsideChain

\* The pool of the next state.
LEMMA SetPoolKeeps ==
    ASSUME NEW p, SetPool(p), PoolGood(p)
    PROVE  PoolGood(ThePool)' /\ mapTx' = p.mapTx
<1>1. ThePool'.mapTx = p.mapTx /\ ThePool'.mapNextTx = p.mapNextTx /\ mapTx' = p.mapTx
  BY DEF SetPool, ThePool
<1>2. QED
  BY <1>1 DEF PoolGood

\* A block is connected on top of the database.
LEMMA SetBestChainInnerKeeps ==
    ASSUME NEW b \in Blocks, LedgerInv, SetBestChainInner(b)
    PROVE  PoolGood(ThePool)' /\ PoolOutsideChain' /\ hashBestChain' \in Blocks
<1> DEFINE p == RemoveBlock(ThePool, b)
<1>1. /\ txindex' = ConnectBlock(txindex, b).idx
      /\ hashBestChain' = b
      /\ SetPool(p)
  BY DEF SetBestChainInner
<1>2. PoolGood(p) /\ p.mapTx \subseteq ThePool.mapTx /\ BlockTxs(b) \cap p.mapTx = {}
  BY RemoveBlockKeepsPool DEF LedgerInv
<1> HIDE DEF p
<1>3. PoolGood(ThePool)' /\ mapTx' = p.mapTx
  BY <1>1, <1>2, SetPoolKeeps
<1>4. ASSUME NEW t \in mapTx' PROVE txindex'[t] = NULL
  <2>1. t \in mapTx /\ t \in Txs /\ t \notin BlockTxs(b)
    BY <1>2, <1>3 DEF PoolGood, ThePool
  <2>2. txindex[t] = NULL
    BY <2>1 DEF LedgerInv, PoolOutsideChain
  <2>3. QED
    BY <1>1, <2>1, <2>2, ConnectBlockIndexes
<1>5. QED
  BY <1>1, <1>3, <1>4 DEF PoolOutsideChain

(***************************************************************************)
(* A reorganisation: what is indexed after it and was before belongs to no *)
(* disconnected block, so it was not resurrected; what is indexed anew is  *)
(* of a connected block, and was removed.                                  *)
(***************************************************************************)
LEMMA ReorganizeKeeps ==
    ASSUME LedgerInv, Reorganize
    PROVE  LedgerInv'
<1> DEFINE p == FoldLeft(ResurrectBlock, ThePool, vDisconnect)
           q == FoldLeft(RemoveBlock, p, vConnect)
           d == SubSeq(vDisconnect, 1, Len(vDisconnect))
           c == SubSeq(vConnect, 1, Len(vConnect))
           s0 == [ok |-> Disconnected.ok, idx |-> Disconnected.idx, supply |-> nMoneySupply]
<1>1. /\ pindexIntermediate \in Blocks /\ pindexIntermediate \in Chain[pindexNew]
      /\ pindexBest \in Blocks /\ pindexNew \in Blocks
  BY IntermediateOnChain DEF LedgerInv
<1>2. vDisconnect \in Seq(Blocks) /\ vConnect \in Seq(Blocks)
  BY <1>1, BranchIsSeq DEF vDisconnect, vConnect
<1>3. d = vDisconnect /\ c = vConnect
  BY <1>2
<1>4. /\ Reconnected.ok /\ txindex' = Reconnected.idx /\ SetPool(q)
      /\ hashBestChain' = pindexIntermediate /\ pindexBest' = pindexBest
      /\ pindexNew' = pindexNew
      /\ vpindexSecondary' = Chain[pindexNew] \ Chain[pindexIntermediate]
  BY DEF Reorganize, ReorganizedPool
<1>5. /\ PoolGood(p)
      /\ \A t \in p.mapTx : t \in ThePool.mapTx
                            \/ \E j \in 1..Len(vDisconnect) : t \in BlockTxs(vDisconnect[j])
  BY <1>2, ResurrectBranchKeepsPool DEF LedgerInv
<1>6. /\ PoolGood(q) /\ q.mapTx \subseteq p.mapTx
      /\ \A j \in 1..Len(vConnect) : BlockTxs(vConnect[j]) \cap q.mapTx = {}
  BY <1>2, <1>5, RemoveBranchKeepsPool
<1>7. PoolGood(ThePool)' /\ mapTx' = q.mapTx
  BY <1>4, <1>6, SetPoolKeeps
<1>8. Reconnected = FoldLeft(ConnectNext, s0, vConnect)
  BY <1>3 DEF Reconnected, ReconnectedUpTo
<1>9. Disconnected = FoldLeft(DisconnectBlock, [ok |-> TRUE, idx |-> txindex], vDisconnect)
  BY <1>3 DEF Disconnected, DisconnectedUpTo
<1>10. s0.idx = Disconnected.idx /\ s0.ok = Disconnected.ok
  OBVIOUS
<1>11. Disconnected.ok
  <2>1. s0.ok
    BY <1>2, <1>4, <1>8, ConnectBranchIndexes
  <2>2. QED
    BY <1>10, <2>1
<1> HIDE DEF p, q, d, c, s0
<1>12. /\ \A u \in Txs : Disconnected.idx[u] # NULL => txindex[u] # NULL
       /\ \A j \in 1..Len(vDisconnect) : \A u \in BlockTxs(vDisconnect[j]) :
             Disconnected.idx[u] = NULL
  BY <1>2, <1>9, <1>11, DisconnectBranchErases
<1>13. ASSUME NEW t \in mapTx' PROVE txindex'[t] = NULL
  <2> SUFFICES ASSUME txindex'[t] # NULL PROVE FALSE
    OBVIOUS
  <2>1. t \in q.mapTx /\ t \in p.mapTx /\ t \in Txs
    BY <1>6, <1>7 DEF PoolGood
  <2>2. s0.idx[t] # NULL \/ \E j \in 1..Len(vConnect) : t \in BlockTxs(vConnect[j])
    BY <1>2, <1>4, <1>8, <2>1, ConnectBranchIndexes
  <2>3. Disconnected.idx[t] # NULL
    BY <1>6, <1>10, <2>1, <2>2
  <2>4. t \in ThePool.mapTx
    BY <1>5, <1>12, <2>1, <2>3
  <2>5. txindex[t] = NULL
    BY <2>4 DEF LedgerInv, PoolOutsideChain, ThePool
  <2>6. QED
    BY <1>12, <2>1, <2>3, <2>5
<1>14. vpindexSecondary' \subseteq Blocks
  BY <1>1, <1>4, ChainClosed
<1>15. QED
  BY <1>1, <1>4, <1>7, <1>13, <1>14 DEF LedgerInv, PoolOutsideChain

\* A step that leaves the index and the pool alone, and points at blocks.
LEMMA PointersKeep ==
    ASSUME LedgerInv, UNCHANGED <<txindex, pool>>,
           hashBestChain' \in Blocks, pindexBest' \in Blocks, pindexNew' \in Blocks,
           vpindexSecondary' \subseteq Blocks
    PROVE  LedgerInv'
<1>1. UNCHANGED <<txindex, mapTx, mapNextTx>>
  BY DEF pool
<1>2. ThePool' = ThePool
  BY <1>1 DEF ThePool
<1>3. QED
  BY <1>1, <1>2 DEF LedgerInv, PoolGood, PoolOutsideChain

\* Every step of the block handlers keeps the invariant.
LEMMA BlockStepKeeps ==
    ASSUME LedgerInv, BlockStep
    PROVE  LedgerInv'
<1>0. /\ hashBestChain \in Blocks /\ pindexBest \in Blocks /\ pindexNew \in Blocks
      /\ vpindexSecondary \subseteq Blocks
  BY DEF LedgerInv
<1>1. ASSUME NEW b \in Blocks, AcceptBlock(b) PROVE LedgerInv'
  BY <1>0, <1>1, PointersKeep DEF AcceptBlock
<1>2. CASE ExtendBest
  <2>1. /\ SetBestChainInner(pindexNew) /\ pindexBest' = pindexNew
        /\ pindexNew' = pindexNew /\ vpindexSecondary' = vpindexSecondary
    BY <1>2 DEF ExtendBest
  <2>2. PoolGood(ThePool)' /\ PoolOutsideChain' /\ hashBestChain' \in Blocks
    BY <1>0, <2>1, SetBestChainInnerKeeps
  <2>3. QED
    BY <1>0, <2>1, <2>2 DEF LedgerInv
<1>3. CASE ExtendBestFails
  BY <1>0, <1>3, PointersKeep DEF ExtendBestFails
<1>4. CASE Reorganize
  BY <1>4, ReorganizeKeeps
<1>5. ASSUME NEW d, NEW k, ReorganizeFails(d, k) PROVE LedgerInv'
  BY <1>0, <1>5, PointersKeep DEF ReorganizeFails
<1>6. CASE ConnectSecondary
  <2>1. /\ vpindexSecondary # {}
        /\ SetBestChainInner(NextSecondary) /\ pindexBest' = pindexBest
        /\ pindexNew' = pindexNew /\ vpindexSecondary' = vpindexSecondary \ {NextSecondary}
    BY <1>6 DEF ConnectSecondary
  <2>2. NextSecondary \in Blocks
    BY <1>0, <2>1, NextSecondaryExists
  <2>3. PoolGood(ThePool)' /\ PoolOutsideChain' /\ hashBestChain' \in Blocks
    BY <2>1, <2>2, SetBestChainInnerKeeps
  <2>4. QED
    BY <1>0, <2>1, <2>3 DEF LedgerInv
<1>7. CASE BreakSecondary
  BY <1>0, <1>7, PointersKeep DEF BreakSecondary
<1>8. CASE NewBest
  BY <1>0, <1>8, PointersKeep DEF NewBest
<1>9. CASE NoPending
  BY <1>0, <1>9, PointersKeep DEF NoPending
<1>10. QED
  BY <1>1, <1>2, <1>3, <1>4, <1>5, <1>6, <1>7, <1>8, <1>9 DEF BlockStep

\* A transaction that stands alone enters the pool.
LEMMA AcceptKeeps ==
    ASSUME LedgerInv, NEW t \in Txs, AcceptToMemoryPool(t)
    PROVE  LedgerInv'
<1>1. /\ accept(ThePool, t, TRUE) /\ SetPool(addUnchecked(ThePool, t))
      /\ UNCHANGED <<txindex, hashBestChain, pindexBest, pindexNew, vpindexSecondary>>
  BY DEF AcceptToMemoryPool, handler
<1>2. ~Conflicts(ThePool, t) /\ txindex[t] = NULL
  BY <1>1 DEF accept
<1>3. /\ PoolGood(addUnchecked(ThePool, t))
      /\ addUnchecked(ThePool, t).mapTx = ThePool.mapTx \cup {t}
  BY <1>2, AddKeepsPool DEF LedgerInv
<1>4. PoolGood(ThePool)' /\ mapTx' = ThePool.mapTx \cup {t}
  BY <1>1, <1>3, SetPoolKeeps
<1>5. ThePool.mapTx = mapTx
  BY DEF ThePool
<1>6. QED
  BY <1>1, <1>2, <1>4, <1>5 DEF LedgerInv, PoolOutsideChain

\* After a restart the pool is empty.
LEMMA RestartKeeps ==
    ASSUME LedgerInv, RestartWith(EmptyPool)
    PROVE  LedgerInv'
<1>1. /\ SetPool(EmptyPool) /\ pindexBest' = hashBestChain /\ vpindexSecondary' = {}
      /\ UNCHANGED <<hashBestChain, pindexNew>>
  BY DEF RestartWith
<1>2. EmptyPool.mapTx = {} /\ EmptyPool.mapNextTx = [o \in Outpoints |-> NULL]
  BY DEF EmptyPool
<1>3. PoolGood(EmptyPool)
  BY <1>2, LedgerAssumption DEF PoolGood
<1>4. PoolGood(ThePool)' /\ mapTx' = {}
  BY <1>1, <1>2, <1>3, SetPoolKeeps
<1>5. QED
  BY <1>1, <1>4 DEF LedgerInv, PoolOutsideChain

-----------------------------------------------------------------------------
(***************************************************************************)
(* The orphan transactions: the two maps agree.                            *)
(***************************************************************************)
OrphansGood(m) ==
    /\ m.txs \subseteq Txs
    /\ m.byPrev \in [Txs -> SUBSET Txs]
    /\ \A t, u \in Txs : t \in m.byPrev[u] <=> t \in m.txs /\ u \in Prevs(t)

\* AddOrphanTx keeps them in agreement.
LEMMA AddKeepsOrphans ==
    ASSUME NEW m, NEW t \in Txs, OrphansGood(m)
    PROVE  OrphansGood(AddOrphanTx(m, t))
<1>1. CASE t \in m.txs \cup BigTxs
  BY <1>1 DEF AddOrphanTx
<1>2. CASE t \notin m.txs \cup BigTxs
  <2> DEFINE n == AddOrphanTx(m, t)
  <2>1. /\ n.txs = m.txs \cup {t}
        /\ n.byPrev = [u \in Txs |-> IF u \in Prevs(t) THEN m.byPrev[u] \cup {t} ELSE m.byPrev[u]]
    BY <1>2 DEF AddOrphanTx
  <2> HIDE DEF n
  <2>2. OrphansGood(n)
    BY <1>2, <2>1 DEF OrphansGood
  <2>3. QED
    BY <2>2 DEF n
<1>3. QED
  BY <1>1, <1>2

\* EraseOrphanTx keeps them in agreement.
LEMMA EraseKeepsOrphans ==
    ASSUME NEW m, NEW t \in Txs, OrphansGood(m)
    PROVE  OrphansGood(EraseOrphanTx(m, t))
<1>1. CASE t \notin m.txs
  BY <1>1 DEF EraseOrphanTx
<1>2. CASE t \in m.txs
  <2> DEFINE n == EraseOrphanTx(m, t)
  <2>1. /\ n.txs = m.txs \ {t}
        /\ n.byPrev = [u \in Txs |-> IF u \in Prevs(t) THEN m.byPrev[u] \ {t} ELSE m.byPrev[u]]
    BY <1>2 DEF EraseOrphanTx
  <2> HIDE DEF n
  <2>2. OrphansGood(n)
    BY <1>2, <2>1 DEF OrphansGood
  <2>3. QED
    BY <2>2 DEF n
<1>3. QED
  BY <1>1, <1>2

(***************************************************************************)
(* The loop over vEraseQueue and over the evicted orphans.                 *)
(***************************************************************************)
EraseIn(e, m, t) == EraseOrphanTx(m, t)

OrphansKept(e, k, m) == OrphansGood(m)

EraseLoop == INSTANCE FoldInduction WITH Op <- EraseIn, Good <- OrphansKept

\* Erasing orphans one after the other.
LEMMA EraseQueueKeepsOrphans ==
    ASSUME NEW m, NEW q \in Seq(Txs), OrphansGood(m)
    PROVE  OrphansGood(FoldLeft(EraseOrphanTx, m, q))
<1>1. OrphansKept(0, 0, m)
  BY DEF OrphansKept
<1>2. \A k \in 1..Len(q) : \A s : OrphansKept(0, k - 1, s) => OrphansKept(0, k, EraseIn(0, s, q[k]))
  BY EraseKeepsOrphans DEF OrphansKept, EraseIn
<1>3. OrphansKept(0, Len(q), EraseLoop!Loop(0, m, q))
  BY <1>1, <1>2, EraseLoop!FoldInvariant
<1>4. EraseLoop!Loop(0, m, q) = FoldLeft(EraseOrphanTx, m, q)
  BY DEF EraseLoop!Loop, FoldLeft, MapThenFoldSet,
         Max, EraseLoop!Max, EraseIn
<1>5. QED
  BY <1>3, <1>4 DEF OrphansKept

(***************************************************************************)
(* The transactions of a set in the order of their hashes.                 *)
(***************************************************************************)
TakeIn(e, q, t) == IF t \in e.S THEN Append(q, t) ELSE q

Taken(e, k, q) == q \in Seq(Txs) /\ \A i \in 1..Len(q) : q[i] \in e.S

HashOrderLoop == INSTANCE FoldInduction WITH Op <- TakeIn, Good <- Taken

\* They are a sequence of transactions.
LEMMA InHashOrderIsSeq ==
    ASSUME NEW S
    PROVE  /\ InHashOrder(S) \in Seq(Txs)
           /\ \A i \in 1..Len(InHashOrder(S)) : InHashOrder(S)[i] \in S
<1> DEFINE e == [S |-> S]
<1>0. e.S = S
  OBVIOUS
<1> HIDE DEF e
<1>1. HashOrder \in Seq(Txs)
  BY TxRelayAssumption
<1>2. Taken(e, 0, <<>>)
  BY DEF Taken
<1>3. \A k \in 1..Len(HashOrder) : \A q : Taken(e, k - 1, q) => Taken(e, k, TakeIn(e, q, HashOrder[k]))
  BY <1>1 DEF Taken, TakeIn
<1>4. Taken(e, Len(HashOrder), HashOrderLoop!Loop(e, <<>>, HashOrder))
  BY <1>1, <1>2, <1>3, HashOrderLoop!FoldInvariant
<1>5. HashOrderLoop!Loop(e, <<>>, HashOrder) = InHashOrder(S)
  BY <1>0 DEF InHashOrder, HashOrderLoop!Loop, FoldLeft, MapThenFoldSet,
         Max, HashOrderLoop!Max, TakeIn
<1>6. QED
  BY <1>0, <1>4, <1>5 DEF Taken

-----------------------------------------------------------------------------
(***************************************************************************)
(* The work queue of the "tx" message.  The pool stays in agreement with   *)
(* itself and outside the index, however long the queue grows; what enters *)
(* it is in the queue, which starts with the transaction of the message.   *)
(***************************************************************************)
Queued(q, u) == \E i \in 1..Len(q) : q[i] = u

QueueGood(s, t) ==
    /\ s = [pool |-> s.pool, vWorkQueue |-> s.vWorkQueue, vEraseQueue |-> s.vEraseQueue]
    /\ s.vEraseQueue \in Seq(Txs)
    /\ s.vWorkQueue \in Seq(Txs) /\ Len(s.vWorkQueue) > 0 /\ s.vWorkQueue[1] = t
    /\ \A u \in s.pool.mapTx : u \in mapTx \/ (~Minted(u) /\ Queued(s.vWorkQueue, u))
    /\ LedgerInv => PoolGood(s.pool) /\ \A u \in s.pool.mapTx : txindex[u] = NULL

TryOrphanIn(e, s, t) == TryOrphan(s, t)

Tried(e, k, s) == QueueGood(s, e)

TryLoop == INSTANCE FoldInduction WITH Op <- TryOrphanIn, Good <- Tried

TryWaitingIn(e, s, i) == TryWaiting(s, i)

WaitingLoop == INSTANCE FoldInduction WITH Op <- TryWaitingIn, Good <- Tried

\* One orphan of the work queue.
LEMMA TryOrphanKeeps ==
    ASSUME NEW s, NEW e, NEW t \in Txs, QueueGood(s, e)
    PROVE  QueueGood(TryOrphan(s, t), e)
<1> DEFINE r == TryOrphan(s, t)
<1>0. s = [pool |-> s.pool, vWorkQueue |-> s.vWorkQueue, vEraseQueue |-> s.vEraseQueue]
  BY DEF QueueGood
<1>a. Append(s.vEraseQueue, t) \in Seq(Txs)
  BY DEF QueueGood
<1>1. CASE accept(s.pool, t, TRUE)
  <2>1. ~Conflicts(s.pool, t) /\ txindex[t] = NULL /\ ~Minted(t)
    BY <1>1 DEF accept
  <2>2. /\ LedgerInv => PoolGood(addUnchecked(s.pool, t))
        /\ addUnchecked(s.pool, t).mapTx = s.pool.mapTx \cup {t}
    BY <2>1, AddKeepsPool DEF QueueGood, addUnchecked
  <2>3. r = [s EXCEPT !.pool = addUnchecked(@, t), !.vWorkQueue = Append(@, t),
                      !.vEraseQueue = Append(@, t)]
    BY <1>1 DEF TryOrphan
  <2>4. r = [pool |-> addUnchecked(s.pool, t), vWorkQueue |-> Append(s.vWorkQueue, t),
             vEraseQueue |-> Append(s.vEraseQueue, t)]
    BY <1>0, <2>3
  <2>5. /\ r.pool = addUnchecked(s.pool, t) /\ r.vEraseQueue = Append(s.vEraseQueue, t)
        /\ r.vWorkQueue = Append(s.vWorkQueue, t)
        /\ r = [pool |-> r.pool, vWorkQueue |-> r.vWorkQueue, vEraseQueue |-> r.vEraseQueue]
    BY <2>4
  <2> HIDE DEF r
  <2> DEFINE q == s.vWorkQueue
  <2>6. q \in Seq(Txs) /\ Len(q) > 0 /\ q[1] = e
    BY DEF QueueGood
  <2> HIDE DEF q
  <2>7. /\ Append(q, t) \in Seq(Txs) /\ Len(Append(q, t)) = Len(q) + 1 /\ Len(q) \in Nat
        /\ Append(q, t)[Len(q) + 1] = t /\ \A i \in 1..Len(q) : Append(q, t)[i] = q[i]
    BY <2>6
  <2>8. Append(q, t)[1] = e /\ Len(Append(q, t)) > 0
    BY <2>6, <2>7
  <2>9. Queued(Append(q, t), t) /\ \A u : Queued(q, u) => Queued(Append(q, t), u)
    BY <2>7 DEF Queued
  <2>10. \A u \in r.pool.mapTx : u \in mapTx \/ (~Minted(u) /\ Queued(r.vWorkQueue, u))
    BY <2>1, <2>2, <2>5, <2>9 DEF QueueGood, q
  <2>11. QueueGood(r, e)
    BY <1>a, <2>1, <2>2, <2>5, <2>7, <2>8, <2>10 DEF QueueGood, q
  <2>12. QED
    BY <2>11 DEF r
<1>2. CASE ~accept(s.pool, t, TRUE) /\ fMissingInputs(s.pool, t)
  BY <1>2 DEF TryOrphan
<1>3. CASE ~accept(s.pool, t, TRUE) /\ ~fMissingInputs(s.pool, t)
  <2>1. r = [s EXCEPT !.vEraseQueue = Append(@, t)]
    BY <1>3 DEF TryOrphan
  <2>2. r = [pool |-> s.pool, vWorkQueue |-> s.vWorkQueue,
             vEraseQueue |-> Append(s.vEraseQueue, t)]
    BY <1>0, <2>1
  <2>3. /\ r.pool = s.pool /\ r.vEraseQueue = Append(s.vEraseQueue, t)
        /\ r.vWorkQueue = s.vWorkQueue
        /\ r = [pool |-> r.pool, vWorkQueue |-> r.vWorkQueue, vEraseQueue |-> r.vEraseQueue]
    BY <2>2
  <2> HIDE DEF r
  <2>4. QueueGood(r, e)
    BY <1>a, <2>3 DEF QueueGood
  <2>5. QED
    BY <2>4 DEF r
<1>4. QED
  BY <1>1, <1>2, <1>3

\* The orphans that wait for one transaction.
LEMMA TryWaitingKeeps ==
    ASSUME NEW s, NEW e, NEW i, QueueGood(s, e)
    PROVE  QueueGood(TryWaiting(s, i), e)
<1>1. CASE i > Len(s.vWorkQueue)
  BY <1>1 DEF TryWaiting
<1>2. CASE ~(i > Len(s.vWorkQueue))
  <2> DEFINE q == InHashOrder(mapOrphanTransactionsByPrev[s.vWorkQueue[i]])
  <2>1. q \in Seq(Txs)
    BY InHashOrderIsSeq
  <2>2. TryWaiting(s, i) = FoldLeft(TryOrphan, s, q)
    BY <1>2 DEF TryWaiting
  <2> HIDE DEF q
  <2>3. Tried(e, 0, s)
    BY DEF Tried
  <2>4. \A k \in 1..Len(q) : \A r : Tried(e, k - 1, r) => Tried(e, k, TryOrphanIn(e, r, q[k]))
    BY <2>1, TryOrphanKeeps DEF Tried, TryOrphanIn
  <2>5. Tried(e, Len(q), TryLoop!Loop(e, s, q))
    BY <2>1, <2>3, <2>4, TryLoop!FoldInvariant
  <2>6. TryLoop!Loop(e, s, q) = FoldLeft(TryOrphan, s, q)
    BY DEF TryLoop!Loop, FoldLeft, MapThenFoldSet,
           Max, TryLoop!Max, TryOrphanIn
  <2>7. QED
    BY <2>2, <2>5, <2>6 DEF Tried
<1>3. QED
  BY <1>1, <1>2

\* The whole queue.
LEMMA ProcessQueueKeeps ==
    ASSUME NEW t \in Txs, accept(ThePool, t, TRUE)
    PROVE  QueueGood(ProcessQueue(t), t)
<1> DEFINE s0 == [pool |-> addUnchecked(ThePool, t), vWorkQueue |-> <<t>>, vEraseQueue |-> <<t>>]
           q == [i \in 1..Len(HashOrder) |-> i]
<1>1. ~Conflicts(ThePool, t) /\ txindex[t] = NULL /\ ~Minted(t)
  BY DEF accept
<1>2. /\ LedgerInv => PoolGood(addUnchecked(ThePool, t))
      /\ addUnchecked(ThePool, t).mapTx = mapTx \cup {t}
  BY <1>1, AddKeepsPool DEF LedgerInv, addUnchecked, ThePool
<1>3. LedgerInv => \A u \in mapTx : txindex[u] = NULL
  BY DEF LedgerInv, PoolOutsideChain
<1>4. /\ s0.vWorkQueue = <<t>> /\ s0.pool = addUnchecked(ThePool, t) /\ s0.vEraseQueue = <<t>>
      /\ s0 = [pool |-> s0.pool, vWorkQueue |-> s0.vWorkQueue, vEraseQueue |-> s0.vEraseQueue]
  OBVIOUS
<1>5. q \in Seq(Nat)
  <2>1. Len(HashOrder) \in Nat
    BY TxRelayAssumption
  <2>2. QED
    BY <2>1
<1>6. ProcessQueue(t) = FoldLeft(TryWaiting, s0, q)
  BY DEF ProcessQueue
<1> HIDE DEF s0, q
<1>7. <<t>> \in Seq(Txs) /\ Len(<<t>>) = 1 /\ <<t>>[1] = t /\ Queued(<<t>>, t)
  BY DEF Queued
<1>8. Tried(t, 0, s0)
  BY <1>1, <1>2, <1>3, <1>4, <1>7 DEF Tried, QueueGood
<1>9. \A k \in 1..Len(q) : \A r : Tried(t, k - 1, r) => Tried(t, k, TryWaitingIn(t, r, q[k]))
  BY TryWaitingKeeps DEF Tried, TryWaitingIn
<1>10. Tried(t, Len(q), WaitingLoop!Loop(t, s0, q))
  BY <1>5, <1>8, <1>9, WaitingLoop!FoldInvariant
<1>11. WaitingLoop!Loop(t, s0, q) = FoldLeft(TryWaiting, s0, q)
  BY DEF WaitingLoop!Loop, FoldLeft, MapThenFoldSet,
         Max, WaitingLoop!Max, TryWaitingIn
<1>12. QED
  BY <1>6, <1>10, <1>11 DEF Tried

-----------------------------------------------------------------------------
(***************************************************************************)
(* The invariant of the relay: that of the ledger, and the two maps agree. *)
(***************************************************************************)
RelayInv == LedgerInv /\ OrphansGood(TheOrphans)

\* Initially.
LEMMA RelayInvInit == RelayInit => RelayInv
<1> SUFFICES ASSUME RelayInit PROVE RelayInv
  OBVIOUS
<1>1. LedgerInv
  BY LedgerInvInit DEF RelayInit
<1>2. TheOrphans.txs = {} /\ TheOrphans.byPrev = [t \in Txs |-> {}]
  BY DEF RelayInit, TheOrphans
<1>3. QED
  BY <1>1, <1>2 DEF RelayInv, OrphansGood

\* The orphans of the next state.
LEMMA SetOrphansKeeps ==
    ASSUME NEW m, SetOrphans(m), OrphansGood(m)
    PROVE  OrphansGood(TheOrphans)'
<1>1. TheOrphans'.txs = m.txs /\ TheOrphans'.byPrev = m.byPrev
  BY DEF SetOrphans, TheOrphans
<1>2. QED
  BY <1>1 DEF OrphansGood

\* A transaction of a peer is accepted, and with it the orphans that waited for it.
LEMMA AcceptTxKeeps ==
    ASSUME RelayInv, NEW t \in Txs, AcceptTx(t)
    PROVE  RelayInv'
<1> DEFINE s == ProcessQueue(t)
           m == FoldLeft(EraseOrphanTx, TheOrphans, s.vEraseQueue)
<1>1. /\ accept(ThePool, t, TRUE) /\ SetPool(s.pool) /\ SetOrphans(m)
      /\ UNCHANGED <<txindex, hashBestChain, pindexBest, pindexNew, vpindexSecondary>>
  BY DEF AcceptTx, handler
<1>2. QueueGood(s, t) /\ LedgerInv
  BY <1>1, ProcessQueueKeeps DEF RelayInv
<1>3. OrphansGood(m)
  BY <1>2, EraseQueueKeepsOrphans DEF QueueGood, RelayInv
<1> HIDE DEF s, m
<1>4. PoolGood(ThePool)' /\ mapTx' = s.pool.mapTx
  BY <1>1, <1>2, SetPoolKeeps DEF QueueGood
<1>5. OrphansGood(TheOrphans)'
  BY <1>1, <1>3, SetOrphansKeeps
<1>6. PoolOutsideChain'
  BY <1>1, <1>2, <1>4 DEF QueueGood, PoolOutsideChain
<1>7. QED
  BY <1>1, <1>4, <1>5, <1>6 DEF RelayInv, LedgerInv

\* A transaction of a peer waits for what it spends.
LEMMA KeepOrphanKeeps ==
    ASSUME RelayInv, NEW t \in Txs, KeepOrphan(t)
    PROVE  RelayInv'
<1> DEFINE m == AddOrphanTx(TheOrphans, t)
<1>1. UNCHANGED vars /\ \E evicted \in SUBSET m.txs :
          SetOrphans(FoldLeft(EraseOrphanTx, m, InHashOrder(evicted)))
  BY DEF KeepOrphan
<1>2. OrphansGood(m)
  BY AddKeepsOrphans DEF RelayInv
<1> HIDE DEF m
<1>3. PICK evicted : SetOrphans(FoldLeft(EraseOrphanTx, m, InHashOrder(evicted)))
  BY <1>1
<1>4. OrphansGood(FoldLeft(EraseOrphanTx, m, InHashOrder(evicted)))
  BY <1>2, InHashOrderIsSeq, EraseQueueKeepsOrphans
<1>5. OrphansGood(TheOrphans)'
  BY <1>3, <1>4, SetOrphansKeeps
<1>6. LedgerInv'
  BY <1>1, PointersKeep DEF RelayInv, LedgerInv, vars, handler
<1>7. QED
  BY <1>5, <1>6 DEF RelayInv

\* Every step of the relay keeps the invariant.
LEMMA RelayInvStep == RelayInv /\ [RelayNext]_relayVars => RelayInv'
<1> SUFFICES ASSUME RelayInv, [RelayNext]_relayVars PROVE RelayInv'
  OBVIOUS
<1>0. LedgerInv /\ OrphansGood(TheOrphans)
  BY DEF RelayInv
<1>1. ASSUME UNCHANGED orphanTxs PROVE OrphansGood(TheOrphans)'
  <2>1. TheOrphans' = TheOrphans
    BY <1>1 DEF orphanTxs, TheOrphans
  <2>2. QED
    BY <1>0, <2>1 DEF OrphansGood
<1>2. ASSUME NEW t \in Txs, AcceptTx(t) PROVE RelayInv'
  BY <1>2, AcceptTxKeeps
<1>3. ASSUME NEW t \in Txs, KeepOrphan(t) PROVE RelayInv'
  BY <1>3, KeepOrphanKeeps
<1>4. CASE BlockStep /\ UNCHANGED orphanTxs
  BY <1>0, <1>1, <1>4, BlockStepKeeps DEF RelayInv
<1>5. ASSUME NEW t \in Txs, AcceptToMemoryPool(t), UNCHANGED orphanTxs PROVE RelayInv'
  BY <1>0, <1>1, <1>5, AcceptKeeps DEF RelayInv
<1>6. CASE RestartWith(EmptyPool) /\ ForgetOrphans
  <2> DEFINE m == [txs |-> {}, byPrev |-> [t \in Txs |-> {}]]
  <2>1. m.txs = {} /\ m.byPrev = [t \in Txs |-> {}] /\ SetOrphans(m)
    BY <1>6 DEF ForgetOrphans
  <2> HIDE DEF m
  <2>2. OrphansGood(m)
    BY <2>1 DEF OrphansGood
  <2>3. QED
    BY <1>0, <1>6, <2>1, <2>2, SetOrphansKeeps, RestartKeeps DEF RelayInv
<1>7. CASE UNCHANGED relayVars
  <2>1. UNCHANGED <<vars, orphanTxs>>
    BY <1>7 DEF relayVars
  <2>2. LedgerInv'
    BY <1>0, <2>1, PointersKeep DEF LedgerInv, vars, handler
  <2>3. QED
    BY <1>1, <2>1, <2>2 DEF RelayInv
<1>8. QED
  BY <1>2, <1>3, <1>4, <1>5, <1>6, <1>7 DEF RelayNext

(***************************************************************************)
(* Two transactions of the pool never spend the same output, and mapNextTx *)
(* names the inputs of the pool's transactions and nothing else, through   *)
(* accept, the work queue of orphans, removals by blocks, resurrections by *)
(* reorganisations, restarts (CTxMemPool::accept, addUnchecked, remove).   *)
(***************************************************************************)
THEOREM PoolAlwaysSpendsOnce == RelaySpec => []PoolSpendsOnce
<1>1. RelayInv => PoolSpendsOnce
  <2> SUFFICES ASSUME RelayInv PROVE PoolSpendsOnce
    OBVIOUS
  <2>1. PoolGood(ThePool) /\ ThePool.mapTx = mapTx /\ ThePool.mapNextTx = mapNextTx
    BY DEF RelayInv, LedgerInv, ThePool
  <2>2. QED
    BY <2>1 DEF PoolGood, PoolSpendsOnce
<1>2. QED
  BY <1>1, RelayInvInit, RelayInvStep, PTL DEF RelaySpec

(***************************************************************************)
(* No transaction is both in the pool and in the chain, whatever is        *)
(* connected, disconnected and resurrected, also after SetBestChain gave   *)
(* up on a postponed block (Reorganize, SetBestChainInner).                *)
(***************************************************************************)
THEOREM PoolAlwaysOutsideChain == RelaySpec => []PoolOutsideChain
<1>1. RelayInv => PoolOutsideChain
  BY DEF RelayInv, LedgerInv
<1>2. QED
  BY <1>1, RelayInvInit, RelayInvStep, PTL DEF RelaySpec

(***************************************************************************)
(* mapOrphanTransactionsByPrev lists an orphan under each transaction it   *)
(* spends from and under no other, for as long as mapOrphanTransactions    *)
(* holds it (AddOrphanTx, EraseOrphanTx, LimitOrphanTxSize).               *)
(***************************************************************************)
THEOREM OrphanTxMapsAlwaysAgree == RelaySpec => []OrphanTxMapsAgree
<1>1. RelayInv => OrphanTxMapsAgree
  <2> SUFFICES ASSUME RelayInv PROVE OrphanTxMapsAgree
    OBVIOUS
  <2>1. /\ OrphansGood(TheOrphans) /\ TheOrphans.txs = mapOrphanTransactions
        /\ TheOrphans.byPrev = mapOrphanTransactionsByPrev
    BY DEF RelayInv, TheOrphans
  <2>2. QED
    BY <2>1 DEF OrphansGood, OrphanTxMapsAgree
<1>2. QED
  BY <1>1, RelayInvInit, RelayInvStep, PTL DEF RelaySpec

=============================================================================
