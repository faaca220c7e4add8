--------------------------- MODULE BlockDownload ---------------------------
(***************************************************************************)
(* How a node that is behind gets the blocks of its peers: the messages    *)
(* getblocks, inv, getdata and block (main.cpp: ProcessMessage,            *)
(* SendMessages, ProcessBlock; net.h: CNode::AskFor, PushInventory;        *)
(* net.cpp: PushGetBlocks, StartSync).  Peers share one chain without      *)
(* forks, so a block is its height; a locator then leads to its first      *)
(* block.  Connections come and go.  A connection delivers in order, and   *)
(* each side handles a message, or runs SendMessages, under cs_main.       *)
(*                                                                         *)
(* Left out: what the downloading node announces itself (a block is not    *)
(* announced to the peer that sent it), checkpoints and DoS scores.        *)
(***************************************************************************)
EXTENDS Integers, SequencesExt

CONSTANTS
    Peers,
    NULL,
    StartHeight,        \* the height of the peers' chain at first
    MaxHeight,          \* bound on the height of that chain
    nLimit,             \* blocks in the answer to one getblocks (500)
    nMaxKnown,          \* size of setInventoryKnown (1000)
    nStakeMinAge,       \* in blocks
    nOneDay,            \* in blocks
    StakeOf,            \* the block with the output that a block stakes, 0 for proof of work
    TotalBlocksEstimate,
    MaxConnections      \* bound on the number of connections made

Heights == 0..MaxHeight

ASSUME DownloadAssumption ==
    /\ StartHeight \in Heights \ {0}
    /\ {nLimit, nMaxKnown, nStakeMinAge, nOneDay, MaxConnections} \subseteq Nat \ {0}
    /\ TotalBlocksEstimate \in Nat
    /\ \A h \in Heights \ {0} : StakeOf[h] \in 0..(h - 1)

VARIABLES
    \* the node
    nBestHeight,            \* the blocks up to this one are indexed and best
    mapOrphanBlocks,
    mapAlreadyAskedFor,     \* its keys with a time other than zero
    pnodeSync,
    fAskedForBlocks,        \* nAskedForBlocks is not zero
    node,                   \* for each peer: what its CNode holds, NULL when not connected
    \* the peers
    nPeerHeight,
    peer,                   \* for each peer: what its CNode for this node holds
    \* the connections
    toPeer, toNode,         \* messages in flight
    nConnections,
    setDropped              \* history: blocks whose stake could not be checked when they came

vars == <<nBestHeight, mapOrphanBlocks, mapAlreadyAskedFor, pnodeSync, fAskedForBlocks, node,
          nPeerHeight, peer, toPeer, toNode, nConnections, setDropped>>

Requests == [inv : Heights, later : BOOLEAN]
Nodes    == [mapAskFor : Seq(Requests), lastGetBlocks : (Heights \X Heights) \cup {NULL},
             fStartSync : BOOLEAN]
\* End is 0 for no hash.
Messages == [type : {"getblocks"}, begin : Heights, end : Heights]
            \cup [type : {"getdata", "inv"}, vInv : Seq(Heights)]
            \cup [type : {"block"}, block : Heights]
\* fSentBefore is history: hashContinue had been sent when it was set.
PeerNodes == [setInventoryKnown : Seq(Heights), vInventoryToSend : Seq(Heights),
              hashContinue : Heights, fSentBefore : BOOLEAN]

NewNode == [mapAskFor |-> <<>>, lastGetBlocks |-> NULL, fStartSync |-> FALSE]
NewPeer == [setInventoryKnown |-> <<>>, vInventoryToSend |-> <<>>, hashContinue |-> 0,
            fSentBefore |-> FALSE]

TypeOK ==
    /\ nBestHeight \in Heights
    /\ mapOrphanBlocks \subseteq Heights
    /\ mapAlreadyAskedFor \subseteq Heights
    /\ pnodeSync \in Peers \cup {NULL}
    /\ fAskedForBlocks \in BOOLEAN
    /\ nPeerHeight \in Heights
    /\ nConnections \in 0..MaxConnections
    /\ setDropped \subseteq Heights
    /\ \A p \in Peers : /\ node[p] \in Nodes \cup {NULL}
                        /\ peer[p] \in PeerNodes /\ Len(peer[p].setInventoryKnown) <= nMaxKnown
                        /\ toPeer[p] \in Seq(Messages) /\ toNode[p] \in Seq(Messages)

Init ==
    /\ nBestHeight = 0
    /\ mapOrphanBlocks = {}
    /\ mapAlreadyAskedFor = {}
    /\ pnodeSync = NULL
    /\ fAskedForBlocks = FALSE
    /\ node = [p \in Peers |-> NULL]
    /\ nPeerHeight = StartHeight
    /\ peer = [p \in Peers |-> NewPeer]
    /\ toPeer = [p \in Peers |-> <<>>]
    /\ toNode = [p \in Peers |-> <<>>]
    /\ nConnections = 0
    /\ setDropped = {}

Connected == {p \in Peers : node[p] # NULL}

\* The elements of s at the positions that are to be kept.
At(s, Keep(_)) ==
    LET I == SelectSeq([i \in DOMAIN s |-> i], Keep) IN [k \in DOMAIN I |-> s[I[k]]]

-----------------------------------------------------------------------------
(***************************************************************************)
(* The node.                                                               *)
(***************************************************************************)
AlreadyHave(h) == h <= nBestHeight \/ h \in mapOrphanBlocks

GetOrphanRoot(h) ==
    CHOOSE r \in 1..h : /\ \A i \in r..(h - 1) : i \in mapOrphanBlocks
                        /\ r - 1 \notin mapOrphanBlocks

(***************************************************************************)
(* True below the checkpoints; above them only while the best block is a   *)
(* day old, and then as long as it changed in the last ten seconds.        *)
(***************************************************************************)
IsInitialBlockDownload ==
    {f \in BOOLEAN : /\ nBestHeight < TotalBlocksEstimate => f
                     /\ f => \/ nBestHeight < TotalBlocksEstimate
                             \/ nBestHeight + nOneDay < nPeerHeight}

(***************************************************************************)
(* PushGetBlocks, called for each <<begin, end>> of a sequence: a request  *)
(* like the one before it is filtered out.                                 *)
(***************************************************************************)
GetBlocks(r) == [type |-> "getblocks", begin |-> r[1], end |-> r[2]]

FilterDuplicates(n, vReq) ==
    At(vReq, LAMBDA i : vReq[i] # IF i = 1 THEN n.lastGetBlocks ELSE vReq[i - 1])

PushGetBlocks(p, n, vReq) ==
    toPeer' = [toPeer EXCEPT ![p] = @ \o [i \in DOMAIN FilterDuplicates(n, vReq) |->
                                              GetBlocks(FilterDuplicates(n, vReq)[i])]]

(***************************************************************************)
(* AskFor, called for each block of a sequence.  "Each retry is 2 minutes  *)
(* after the last, except in case of initial download".                    *)
(***************************************************************************)
Request(h, fInitial) == [inv |-> h, later |-> ~fInitial /\ h \in mapAlreadyAskedFor]

\* The CNode after requests for blocks and for more inventory.
AfterRequests(n, vAsk, vReq, fInitial) ==
    [n EXCEPT !.mapAskFor = @ \o [i \in DOMAIN vAsk |-> Request(vAsk[i], fInitial)],
              !.lastGetBlocks = IF vReq = <<>> THEN @ ELSE vReq[Len(vReq)]]

Handle(p, vAsk, vReq, fInitial) ==
    /\ node' = [node EXCEPT ![p] = AfterRequests(@, vAsk, vReq, fInitial)]
    /\ PushGetBlocks(p, node[p], vReq)

(***************************************************************************)
(* The message inv: new blocks are asked for; an orphan, or a last block   *)
(* that is known already, leads to another getblocks.                      *)
(***************************************************************************)
InvRequests(vInv) ==
    LET Pair(i) == IF vInv[i] \in mapOrphanBlocks
                   THEN <<nBestHeight, GetOrphanRoot(vInv[i])>> ELSE <<vInv[i], 0>>
        known   == SelectSeq([i \in DOMAIN vInv |-> i],
                             LAMBDA i : \/ vInv[i] \in mapOrphanBlocks
                                        \/ i = Len(vInv) /\ AlreadyHave(vInv[i]))
    IN  [k \in DOMAIN known |-> Pair(known[k])]

NewBlocksOnce(vInv) ==
    SelectSeq(vInv, LAMBDA h : ~AlreadyHave(h) /\ h \notin mapAlreadyAskedFor)

NewBlocks(vInv) == SelectSeq(vInv, LAMBDA h : ~AlreadyHave(h))

ProcessInv(p, vInv, fInitial) ==
    LET vNew == NewBlocks(vInv)
    IN  /\ Handle(p, vNew, InvRequests(vInv), fInitial)
        /\ mapAlreadyAskedFor' = mapAlreadyAskedFor \cup ToSet(vNew)
        /\ UNCHANGED <<nBestHeight, mapOrphanBlocks, setDropped>>

(***************************************************************************)
(* The message block: ProcessBlock.  The stake of a block can be checked   *)
(* only when the block it comes from is connected.                         *)
(***************************************************************************)
CheckProofOfStake(h) == StakeOf[h] <= nBestHeight

\* After h is accepted, the orphans that follow it without a gap are too.
BestAfter(h) ==
    CHOOSE t \in h..MaxHeight :
        /\ \A i \in (h + 1)..t : i \in mapOrphanBlocks
        /\ t + 1 \notin mapOrphanBlocks

\* A known block, or one whose stake cannot be checked, is dropped.
DropBlock(p, h) ==
    /\ AlreadyHave(h) \/ ~CheckProofOfStake(h)
    /\ Handle(p, <<>>, IF AlreadyHave(h) THEN <<>> ELSE <<<<nBestHeight, h>>>>, FALSE)
    /\ setDropped' = IF AlreadyHave(h) THEN setDropped ELSE setDropped \cup {h}
    /\ UNCHANGED <<nBestHeight, mapOrphanBlocks, mapAlreadyAskedFor>>

StoreOrphan(p, h, fInitial) ==
    LET root   == GetOrphanRoot(h)
        wanted == IF fInitial THEN <<>> ELSE <<root - 1>>
    IN  /\ ~AlreadyHave(h) /\ CheckProofOfStake(h) /\ h # nBestHeight + 1
        /\ mapOrphanBlocks' = mapOrphanBlocks \cup {h}
        /\ Handle(p, wanted, <<<<nBestHeight, root>>>>, FALSE)
        /\ mapAlreadyAskedFor' = (mapAlreadyAskedFor \cup ToSet(wanted)) \ {h}
        /\ UNCHANGED <<nBestHeight, setDropped>>

AcceptNext(p, h) ==
    /\ h = nBestHeight + 1 /\ CheckProofOfStake(h)
    /\ nBestHeight' = BestAfter(h)
    /\ mapOrphanBlocks' = {o \in mapOrphanBlocks : o > BestAfter(h)}
    /\ mapAlreadyAskedFor' = mapAlreadyAskedFor \ {h}
    /\ UNCHANGED <<node, toPeer, setDropped>>

ProcessMessage(p) ==
    /\ node[p] # NULL /\ toNode[p] # <<>>
    /\ toNode' = [toNode EXCEPT ![p] = Tail(@)]
    /\ \E fInitial \in IsInitialBlockDownload :
          LET m == Head(toNode[p])
          IN  \/ m.type = "inv" /\ ProcessInv(p, m.vInv, fInitial)
              \/ /\ m.type = "block"
                 /\ \/ DropBlock(p, m.block)
                    \/ StoreOrphan(p, m.block, fInitial)
                    \/ AcceptNext(p, m.block)
    /\ UNCHANGED <<pnodeSync, fAskedForBlocks, nPeerHeight, peer, nConnections>>

(***************************************************************************)
(* SendMessages: start of a download, then getdata for what is due and     *)
(* still missing.                                                          *)
(***************************************************************************)
StartBlockSync(n) == IF n.fStartSync THEN <<<<nBestHeight, 0>>>> ELSE <<>>

RemainingHeld(n) == SelectSeq(n.mapAskFor, LAMBDA r : r.later \/ AlreadyHave(r.inv))

Remaining(n) == SelectSeq(n.mapAskFor, LAMBDA r : r.later)

SendMessages(p) ==
    LET n    == node[p]
        due  == SelectSeq(n.mapAskFor, LAMBDA r : ~r.later)
        vGet == SelectSeq([i \in DOMAIN due |-> due[i].inv], LAMBDA h : ~AlreadyHave(h))
        vReq == StartBlockSync(n)
    IN  /\ n # NULL
        /\ n.fStartSync \/ due # <<>>
        /\ node' = [node EXCEPT ![p] = [AfterRequests(@, <<>>, vReq, FALSE) EXCEPT
                                           !.fStartSync = FALSE,
                                           !.mapAskFor = Remaining(n)]]
        /\ toPeer' = [toPeer EXCEPT ![p] =
                @ \o [i \in DOMAIN FilterDuplicates(n, vReq) |-> GetBlocks(vReq[i])]
                  \o IF vGet = <<>> THEN <<>> ELSE <<[type |-> "getdata", vInv |-> vGet]>>]
        /\ mapAlreadyAskedFor' = mapAlreadyAskedFor \cup ToSet(vGet)
        /\ UNCHANGED <<nBestHeight, mapOrphanBlocks, pnodeSync, fAskedForBlocks, nPeerHeight,
                       peer, toNode, nConnections, setDropped>>

\* Two minutes after the last request the retry is due.
TimePasses(p) ==
    /\ node[p] # NULL
    /\ \E i \in DOMAIN node[p].mapAskFor :
          /\ node[p].mapAskFor[i].later
          /\ node' = [node EXCEPT ![p].mapAskFor[i].later = FALSE]
    /\ UNCHANGED <<nBestHeight, mapOrphanBlocks, mapAlreadyAskedFor, pnodeSync, fAskedForBlocks,
                   nPeerHeight, peer, toPeer, toNode, nConnections, setDropped>>

-----------------------------------------------------------------------------
(***************************************************************************)
(* A peer that serves.  setInventoryKnown keeps the most recent entries.   *)
(***************************************************************************)
PushInventory(v, vInv) ==
    [v EXCEPT !.vInventoryToSend =
        @ \o SelectSeq(vInv, LAMBDA h : ~Contains(v.setInventoryKnown, h))]

Remember(known, vInv) ==
    LET all == known \o vInv
    IN  IF Len(all) <= nMaxKnown THEN all ELSE SubSeq(all, Len(all) - nMaxKnown + 1, Len(all))

\* How many blocks after begin are sent before the stop, the limit or the tip is met.
ServeCount(begin, end) ==
    LET tip == nPeerHeight - begin
        cap == IF tip < nLimit THEN tip ELSE nLimit
    IN  IF end > begin /\ end - begin <= cap THEN end - begin - 1 ELSE cap

StopsAt(begin, end) == end > begin /\ end - begin <= nLimit /\ end <= nPeerHeight

\* The tip is told with the stop when it can be accepted as an orphan.
TellsTip(begin, end) ==
    /\ StopsAt(begin, end)
    /\ end # nPeerHeight
    /\ end + nStakeMinAge > nPeerHeight

SentBefore(p, h) == AlreadyHave(h) \/ Contains(toNode[p], [type |-> "block", block |-> h])

ServeGetBlocks(p, begin, end) ==
    LET n      == ServeCount(begin, end)
        pushed == PushInventory(peer[p], [i \in 1..n |-> begin + i] \o
                                         (IF TellsTip(begin, end) THEN <<nPeerHeight>> ELSE <<>>))
    IN  IF n < nLimit THEN pushed
        ELSE [pushed EXCEPT !.hashContinue = begin + n, !.fSentBefore = SentBefore(p, begin + n)]

(***************************************************************************)
(* The blocks asked for, in order.  The one that ended a batch is followed *)
(* by the tip, so that the node asks for more.                             *)
(***************************************************************************)
VBlocks(vInv) == [i \in DOMAIN vInv |-> [type |-> "block", block |-> vInv[i]]]
Inv(vInv)     == [type |-> "inv", vInv |-> vInv]

ContinueNever(v, vInv) == 0

\* The position of hashContinue, or 0.
ContinueAt(v, vInv) == SelectInSeq(vInv, LAMBDA h : h = v.hashContinue)

ServeGetData(v, vInv) ==
    LET i == ContinueAt(v, vInv)
    IN  IF i = 0 THEN VBlocks(vInv)
        ELSE VBlocks(SubSeq(vInv, 1, i)) \o <<Inv(<<nPeerHeight>>)>>
             \o VBlocks(SubSeq(vInv, i + 1, Len(vInv)))

Serve(p) ==
    /\ toPeer[p] # <<>>
    /\ toPeer' = [toPeer EXCEPT ![p] = Tail(@)]
    /\ LET m == Head(toPeer[p])
       IN  \/ /\ m.type = "getblocks"
              /\ peer' = [peer EXCEPT ![p] = ServeGetBlocks(p, m.begin, m.end)]
              /\ UNCHANGED toNode
           \/ /\ m.type = "getdata"
              /\ peer' = [peer EXCEPT ![p].hashContinue =
                                 IF ContinueAt(peer[p], m.vInv) = 0 THEN @ ELSE 0]
              /\ toNode' = [toNode EXCEPT ![p] = @ \o ServeGetData(peer[p], m.vInv)]
    /\ UNCHANGED <<nBestHeight, mapOrphanBlocks, mapAlreadyAskedFor, pnodeSync, fAskedForBlocks,
                   node, nPeerHeight, nConnections, setDropped>>

\* SendMessages of the peer: the inventory that the node is not known to have.
SendInventory(p) ==
    LET v    == peer[p]
        vInv == At(v.vInventoryToSend, LAMBDA i :
                   LET h == v.vInventoryToSend[i]
                   IN  /\ ~Contains(v.setInventoryKnown, h)
                       /\ ~Contains(SubSeq(v.vInventoryToSend, 1, i - 1), h))
    IN  /\ v.vInventoryToSend # <<>>
        /\ peer' = [peer EXCEPT ![p].setInventoryKnown = Remember(@, vInv),
                                ![p].vInventoryToSend = <<>>]
        /\ toNode' = [toNode EXCEPT ![p] = IF vInv = <<>> THEN @ ELSE Append(@, Inv(vInv))]
        /\ UNCHANGED <<nBestHeight, mapOrphanBlocks, mapAlreadyAskedFor, pnodeSync,
                       fAskedForBlocks, node, nPeerHeight, toPeer, nConnections, setDropped>>

\* AcceptBlock at the peers: a new best block is announced.
NewBlock ==
    /\ nPeerHeight < MaxHeight
    /\ nPeerHeight' = nPeerHeight + 1
    /\ peer' = [p \in Peers |-> IF node[p] = NULL THEN peer[p]
                                ELSE PushInventory(peer[p], <<nPeerHeight + 1>>)]
    /\ UNCHANGED <<nBestHeight, mapOrphanBlocks, mapAlreadyAskedFor, pnodeSync, fAskedForBlocks,
                   node, toPeer, toNode, nConnections, setDropped>>

-----------------------------------------------------------------------------
\* The version message of a new peer: the first one, or the only one, is asked at once.
Connect(p) ==
    /\ node[p] = NULL
    /\ nConnections < MaxConnections
    /\ nConnections' = nConnections + 1
    /\ fAskedForBlocks' = TRUE
    /\ LET vReq == IF ~fAskedForBlocks \/ Connected = {} THEN <<<<nBestHeight, 0>>>> ELSE <<>>
       IN  /\ node' = [node EXCEPT ![p] = AfterRequests(NewNode, <<>>, vReq, FALSE)]
           /\ PushGetBlocks(p, NewNode, vReq)
    /\ UNCHANGED <<nBestHeight, mapOrphanBlocks, mapAlreadyAskedFor, pnodeSync, nPeerHeight,
                   peer, toNode, setDropped>>

\* The connection is lost with all that was in flight; the last one stays.
Disconnect(p) ==
    /\ node[p] # NULL
    /\ nConnections < MaxConnections \/ Connected # {p}
    /\ node' = [node EXCEPT ![p] = NULL]
    /\ pnodeSync' = IF pnodeSync = p THEN NULL ELSE pnodeSync
    /\ peer' = [peer EXCEPT ![p] = NewPeer]
    /\ toPeer' = [toPeer EXCEPT ![p] = <<>>]
    /\ toNode' = [toNode EXCEPT ![p] = <<>>]
    /\ UNCHANGED <<nBestHeight, mapOrphanBlocks, mapAlreadyAskedFor, fAskedForBlocks,
                   nPeerHeight, nConnections, setDropped>>

\* ThreadMessageHandler2 finds that the node to download from is gone.
StartSync ==
    /\ pnodeSync = NULL
    /\ \E p \in Connected :
          /\ pnodeSync' = p
          /\ node' = [node EXCEPT ![p].fStartSync = TRUE]
    /\ UNCHANGED <<nBestHeight, mapOrphanBlocks, mapAlreadyAskedFor, fAskedForBlocks,
                   nPeerHeight, peer, toPeer, toNode, nConnections, setDropped>>

\* What goes on by itself; a node without a connection makes one.
Progress ==
    \/ StartSync
    \/ \E p \in Peers : \/ TimePasses(p) \/ SendMessages(p) \/ ProcessMessage(p)
                        \/ SendInventory(p) \/ Serve(p)
                        \/ Connected = {} /\ Connect(p)

Next ==
    \/ Progress
    \/ \E p \in Peers : Connect(p) \/ Disconnect(p)
    \/ NewBlock

Spec == Init /\ [][Next]_vars

(***************************************************************************)
(* The message threads of both sides do not stop, time passes, and         *)
(* ThreadOpenConnections keeps the node connected.  Connections need not   *)
(* end and blocks need not be found.                                       *)
(***************************************************************************)
FairSpec == Spec /\ WF_vars(Progress)

-----------------------------------------------------------------------------
(***************************************************************************)
(* The node gets every block its peer has, though it is told of a few at a *)
(* time, requests are filtered, retries wait, blocks come out of order and *)
(* the connection may break at any moment.  There are two ways to stop     *)
(* short: the stake of a block could not be checked when it came, and the  *)
(* peer waits for a request for the end of a batch (hashContinue) that it  *)
(* has sent before.  The property is about one connection at a time.       *)
(***************************************************************************)
StakeDropped == \E h \in setDropped : ~AlreadyHave(h)

BatchEndSentBefore ==
    \E p \in Connected : /\ peer[p].hashContinue # 0 /\ peer[p].fSentBefore
                         /\ AlreadyHave(peer[p].hashContinue)

CatchesUp == []<>(nBestHeight = nPeerHeight \/ StakeDropped \/ BatchEndSentBefore)

(***************************************************************************)
(* The download comes to rest: invs, getblocks and retries do not answer   *)
(* each other for ever.                                                    *)
(***************************************************************************)
AtRest ==
    \A p \in Peers : /\ toPeer[p] = <<>> /\ toNode[p] = <<>>
                     /\ node[p] # NULL => node[p].mapAskFor = <<>>

ComesToRest == <>[]AtRest

=============================================================================
