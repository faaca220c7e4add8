------------------------------ MODULE TxRelay ------------------------------
(***************************************************************************)
(* Loose transactions from peers, on top of Ledger: the "tx" message of    *)
(* ProcessMessage (main.cpp) and the orphan transactions, which wait until *)
(* the transactions they spend are known.  A transaction that enters the   *)
(* pool releases the orphans that waited for it, and those release others. *)
(***************************************************************************)
EXTENDS Ledger

CONSTANTS
    FromPeers,          \* transactions that peers may send; the others are local
    HashOrder,          \* the transactions in the order of their hashes
    BigTxs,             \* transactions of more than 5000 bytes
    MAX_ORPHAN_TRANSACTIONS

ASSUME TxRelayAssumption ==
    /\ HashOrder \in Seq(Txs) /\ ToSet(HashOrder) = Txs /\ Len(HashOrder) = Cardinality(Txs)
    /\ BigTxs \subseteq Txs /\ FromPeers \subseteq Txs
    /\ MAX_ORPHAN_TRANSACTIONS \in Nat

VARIABLES
    mapOrphanTransactions,
    mapOrphanTransactionsByPrev,    \* the orphans that spend an output of a transaction
    released                        \* history: pool transactions that were orphans

orphanTxs == <<mapOrphanTransactions, mapOrphanTransactionsByPrev>>

RelayInit ==
    /\ Init
    /\ mapOrphanTransactions = {}
    /\ mapOrphanTransactionsByPrev = [t \in Txs |-> {}]
    /\ released = {}

-----------------------------------------------------------------------------
(***************************************************************************)
(* accept sets fMissingInputs when FetchInputs, after all that comes       *)
(* before it has passed, does not find a transaction t spends from.        *)
(***************************************************************************)
fMissingInputs(p, t) ==
    /\ t \in Standard /\ ~Minted(t)
    /\ t \notin p.mapTx /\ txindex[t] = NULL
    /\ ~Conflicts(p, t)
    /\ \E u \in Prevs(t) : PoolView(p)[u] = NULL

TheOrphans == [txs |-> mapOrphanTransactions, byPrev |-> mapOrphanTransactionsByPrev]

AddOrphanTx(m, t) ==
    IF t \in m.txs \cup BigTxs THEN m
    ELSE [txs    |-> m.txs \cup {t},
          byPrev |-> [u \in Txs |-> IF u \in Prevs(t) THEN m.byPrev[u] \cup {t} ELSE m.byPrev[u]]]

EraseOrphanTxOnePrev(m, t) ==
    IF t \notin m.txs THEN m
    ELSE [txs    |-> m.txs \ {t},
          byPrev |-> [m.byPrev EXCEPT ![CHOOSE u \in Prevs(t) : TRUE] = @ \ {t}]]

EraseOrphanTx(m, t) ==
    IF t \notin m.txs THEN m
    ELSE [txs    |-> m.txs \ {t},
          byPrev |-> [u \in Txs |-> IF u \in Prevs(t) THEN m.byPrev[u] \ {t} ELSE m.byPrev[u]]]

\* LimitOrphanTxSize evicts random orphans until the limit is met.
LimitOrphanTxSize(m, evicted) ==
    /\ evicted \subseteq m.txs
    /\ Cardinality(m.txs \ evicted) <= MAX_ORPHAN_TRANSACTIONS
    /\ evicted # {} => Cardinality(m.txs \ evicted) = MAX_ORPHAN_TRANSACTIONS

InHashOrder(S) == FoldLeft(LAMBDA q, t : IF t \in S THEN Append(q, t) ELSE q, <<>>, HashOrder)

(***************************************************************************)
(* One orphan of the work queue: accepted, and then the orphans that wait  *)
(* for it are due too; or invalid, and dropped; or still short of inputs.  *)
(***************************************************************************)
TryOrphanOnce(s, o) ==
    IF accept(s.pool, o, TRUE)
    THEN [s EXCEPT !.pool = addUnchecked(@, o), !.vEraseQueue = Append(@, o)]
    ELSE IF fMissingInputs(s.pool, o) THEN s ELSE [s EXCEPT !.vEraseQueue = Append(@, o)]

TryOrphan(s, o) ==
    IF accept(s.pool, o, TRUE)
    THEN [s EXCEPT !.pool = addUnchecked(@, o), !.vWorkQueue = Append(@, o),
                   !.vEraseQueue = Append(@, o)]
    ELSE IF fMissingInputs(s.pool, o) THEN s ELSE [s EXCEPT !.vEraseQueue = Append(@, o)]

\* The orphans that wait for the i-th transaction of the work queue.
TryWaiting(s, i) ==
    IF i > Len(s.vWorkQueue) THEN s
    ELSE FoldLeft(TryOrphan, s, InHashOrder(mapOrphanTransactionsByPrev[s.vWorkQueue[i]]))

\* The work queue grows while it is read; a transaction enters it at most once.
ProcessQueue(t) ==
    FoldLeft(TryWaiting,
             [pool |-> addUnchecked(ThePool, t), vWorkQueue |-> <<t>>, vEraseQueue |-> <<t>>],
             [i \in 1..Len(HashOrder) |-> i])

SetOrphans(m) ==
    mapOrphanTransactions' = m.txs /\ mapOrphanTransactionsByPrev' = m.byPrev

AcceptTx(t) ==
    LET s == ProcessQueue(t)
    IN  /\ pc = "idle"
        /\ t \in FromPeers
        /\ accept(ThePool, t, TRUE)
        /\ SetPool(s.pool)
        /\ SetOrphans(FoldLeft(EraseOrphanTx, TheOrphans, s.vEraseQueue))
        /\ released' = (released \cup ToSet(Tail(s.vWorkQueue))) \ {t}
        /\ UNCHANGED <<txindex, hashBestChain, mapBlockIndex, pnext, pindexBest,
                       nBestInvalidTrust, nMoneySupply, handler, broken, nCrashes>>

KeepOrphan(t) ==
    LET m == AddOrphanTx(TheOrphans, t)
    IN  /\ pc = "idle"
        /\ t \in FromPeers
        /\ ~accept(ThePool, t, TRUE) /\ fMissingInputs(ThePool, t)
        /\ \E evicted \in SUBSET m.txs :
              /\ LimitOrphanTxSize(m, evicted)
              /\ SetOrphans(FoldLeft(EraseOrphanTx, m, InHashOrder(evicted)))
        /\ UNCHANGED <<vars, released>>

StillReleased == released' = released \cap mapTx'

ForgetOrphans == SetOrphans([txs |-> {}, byPrev |-> [t \in Txs |-> {}]]) /\ released' = {}

\* Transactions of the RPC interface (sendrawtransaction) release no orphans.
RelayNext ==
    \/ \E t \in Txs : AcceptTx(t) \/ KeepOrphan(t)
    \/ /\ BlockStep \/ \E t \in Txs \ FromPeers : AcceptToMemoryPool(t)
       /\ StillReleased
       /\ UNCHANGED orphanTxs
    \/ RestartWith(EmptyPool) /\ ForgetOrphans

relayVars == <<vars, orphanTxs, released>>

RelaySpec == RelayInit /\ [][RelayNext]_relayVars

-----------------------------------------------------------------------------
(***************************************************************************)
(* The two maps of orphan transactions name the same orphans whatever was  *)
(* added, released, dropped as invalid or evicted, and in which order      *)
(* (AddOrphanTx, EraseOrphanTx): a hash left in the second map would be    *)
(* looked up in the first and come back as an empty transaction.           *)
(***************************************************************************)
OrphanTxMapsAgree ==
    \A t, u \in Txs :
        t \in mapOrphanTransactionsByPrev[u] <=> t \in mapOrphanTransactions /\ u \in Prevs(t)

(***************************************************************************)
(* When the "tx" message has let transactions into the pool, none of the   *)
(* orphans that spend from them is left behind although it could have been *)
(* accepted, also when it waited for several of them or in a long chain.   *)
(***************************************************************************)
Entered == mapTx' \ mapTx

ReleasesOrphans ==
    [][ \A t \in Entered : AcceptTx(t) =>
            \A o \in mapOrphanTransactions' :
                Prevs(o) \cap Entered # {} => fMissingInputs(ThePool, o)' ]_relayVars

=============================================================================
