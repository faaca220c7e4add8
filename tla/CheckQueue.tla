----------------------------- MODULE CheckQueue -----------------------------
(***************************************************************************)
(* The queue of script checks (checkqueue.h) as ConnectBlock uses it:      *)
(* while it holds cs_main a master thread adds the checks of a block and   *)
(* joins the worker threads until all are done (CCheckQueueControl).       *)
(* StopNode sets fShutdown, takes cs_main and calls Quit.                  *)
(*                                                                         *)
(* A step is a section under the mutex of the queue, or the execution of a *)
(* batch outside it.  A waiting thread wakes when it is notified, or for   *)
(* no reason at all.                                                       *)
(***************************************************************************)
EXTENDS Integers, FiniteSets

CONSTANTS
    Workers,        \* the threads that run ThreadScriptCheck
    Master,         \* the thread that runs ConnectBlock
    Checks,         \* the script checks a block can have
    Bad,            \* the checks that fail
    nBatchSize,     \* 128 in main.cpp
    MaxBlocks       \* bound on the number of blocks connected

ASSUME QueueAssumption ==
    /\ IsFiniteSet(Checks) /\ Bad \subseteq Checks
    /\ IsFiniteSet(Workers)
    /\ Master \notin Workers
    /\ nBatchSize \in Nat \ {0}
    /\ MaxBlocks \in Nat

Threads == Workers \cup {Master}

VARIABLES
    queue, nIdle, nTotal, fAllOk, nTodo, fQuit,     \* CCheckQueue
    pc,         \* where each thread is
    vChecks,    \* the batch each thread took
    nNow,       \* its size, zero before the first batch
    fOk,        \* the result of the batch
    added,      \* the checks of the block being connected
    fRet,       \* what Wait returned for the last block
    nBlocks,
    fShutdown,
    cutShort,   \* history: fShutdown was set while a block was being checked
    quitter     \* the thread in StopNode

counters == <<nIdle, nTotal, fAllOk, nTodo>>
threads  == <<pc, vChecks, nNow, fOk>>
block    == <<added, fRet, nBlocks>>
shutdown == <<fShutdown, cutShort>>
vars     == <<queue, counters, fQuit, threads, block, shutdown, quitter>>

(***************************************************************************)
(* Positions of a thread: "outside" Loop, "adding" checks (the master),    *)
(* "enter" about to lock at the top of the loop, "wait" in cond.wait,      *)
(* "woken" out of it and about to lock, "work" executing its batch, "gone" *)
(* after a worker has left Loop.                                           *)
(***************************************************************************)
Positions == {"outside", "adding", "enter", "wait", "woken", "work", "gone"}

TypeOK ==
    /\ queue \subseteq Checks
    /\ nIdle \in Nat /\ nTotal \in Nat /\ nTodo \in Nat
    /\ fAllOk \in BOOLEAN /\ fQuit \in BOOLEAN /\ fRet \in BOOLEAN
    /\ fShutdown \in BOOLEAN /\ cutShort \in BOOLEAN
    /\ pc \in [Threads -> Positions]
    /\ vChecks \in [Threads -> SUBSET Checks]
    /\ nNow \in [Threads -> Nat]
    /\ fOk \in [Threads -> BOOLEAN]
    /\ added \subseteq Checks
    /\ nBlocks \in 0..MaxBlocks
    /\ quitter \in {"no", "wait", "woken", "done"}

Init ==
    /\ queue = {}
    /\ nIdle = 0 /\ nTotal = 0 /\ fAllOk = TRUE /\ nTodo = 0
    /\ fQuit = FALSE
    /\ pc = [t \in Threads |-> IF t = Master THEN "outside" ELSE "enter"]
    /\ vChecks = [t \in Threads |-> {}]
    /\ nNow = [t \in Threads |-> 0]
    /\ fOk = [t \in Threads |-> TRUE]
    /\ added = {} /\ fRet = TRUE /\ nBlocks = 0
    /\ fShutdown = FALSE /\ cutShort = FALSE
    /\ quitter = "no"

-----------------------------------------------------------------------------
\* CCheckQueue::IsIdle
IsIdle == nTotal = nIdle /\ nTodo = 0 /\ fAllOk

\* CCheckQueueControl is constructed, and asserts IsIdle: ConnectBlock starts a block.  It
\* needs cs_main, which StopNode holds during Quit; the message thread may run on after it.
StartBlock ==
    /\ pc[Master] = "outside"
    /\ IsIdle
    /\ nBlocks < MaxBlocks
    /\ quitter \in {"no", "done"}
    /\ cutShort' = (cutShort \/ fShutdown)
    /\ pc' = [pc EXCEPT ![Master] = "adding"]
    /\ added' = {}
    /\ nBlocks' = nBlocks + 1
    /\ UNCHANGED <<queue, counters, fQuit, vChecks, nNow, fOk, fRet, fShutdown, quitter>>

\* The threads that a notification of condWorker wakes, when n checks are added.
NotifyWorkers(waiting, n) ==
    IF n = 1 /\ waiting # {} THEN {{w} : w \in waiting}
    ELSE IF n = 1 THEN {{}} ELSE {waiting}

Add(S) ==
    /\ pc[Master] = "adding"
    /\ S # {} /\ S \cap added = {}
    /\ queue' = queue \cup S
    /\ nTodo' = nTodo + Cardinality(S)
    /\ added' = added \cup S
    /\ \E woken \in NotifyWorkers({w \in Workers : pc[w] = "wait"}, Cardinality(S)) :
          pc' = [t \in Threads |-> IF t \in woken THEN "woken" ELSE pc[t]]
    /\ UNCHANGED <<nIdle, nTotal, fAllOk, fQuit, vChecks, nNow, fOk, fRet, nBlocks,
                   shutdown, quitter>>

\* The control's Wait, called when all checks are added or ConnectBlock fails early.
Wait ==
    /\ pc[Master] = "adding"
    /\ pc' = [pc EXCEPT ![Master] = "enter"]
    /\ nNow' = [nNow EXCEPT ![Master] = 0]
    /\ UNCHANGED <<queue, counters, fQuit, vChecks, fOk, block, shutdown, quitter>>

-----------------------------------------------------------------------------
(***************************************************************************)
(* Loop, one section under the mutex.  A thread at the top of the loop     *)
(* first accounts for the batch it has executed, or for itself in its      *)
(* first iteration; a thread out of cond.wait is no longer idle.  The      *)
(* values the rest of the section then works with:                         *)
(***************************************************************************)
InLoop(t) == pc[t] \in {"enter", "woken"}

TodoTwice(t)     == nTodo - nNow[t]
AllOkForgets(t)  == fAllOk
TotalForgets(t)  == nTotal
IdleForgets(t)   == nIdle

Todo(t)  == IF pc[t] = "enter" THEN nTodo - nNow[t] ELSE nTodo
AllOk(t) == IF pc[t] = "enter" /\ nNow[t] # 0 THEN fAllOk /\ fOk[t] ELSE fAllOk
Total(t) == IF pc[t] = "enter" /\ nNow[t] = 0 THEN nTotal + 1 ELSE nTotal
Idle(t)  == IF pc[t] = "woken" THEN nIdle - 1 ELSE nIdle

NeverNotifiesMaster(t) == FALSE

\* The worker that accounts for the last check notifies condMaster.
NotifiesMaster(t) == pc[t] = "enter" /\ nNow[t] # 0 /\ Todo(t) = 0 /\ t # Master

\* The positions after t moves to p, with the notification of the master.
MoveTo(t, p) ==
    [u \in Threads |-> IF u = t THEN p
                       ELSE IF u = Master /\ NotifiesMaster(t) /\ pc[u] = "wait" THEN "woken"
                       ELSE pc[u]]

Account(t) ==
    /\ nTodo' = Todo(t)
    /\ vChecks' = [vChecks EXCEPT ![t] = {}]

LeavesEarly(t) == (t = Master \/ fQuit) /\ queue = {}

\* A thread leaves Loop when there is no work left anywhere: always the master, a worker after Quit.
MayLeave(t) == (t = Master \/ fQuit) /\ Todo(t) = 0

\* The queue is empty but checks are outstanding, or the worker must stay: cond.wait.
Sleep(t) ==
    /\ InLoop(t)
    /\ queue = {}
    /\ ~MayLeave(t)
    /\ Account(t)
    /\ fAllOk' = AllOk(t)
    /\ nTotal' = Total(t)
    /\ nIdle' = Idle(t) + 1
    /\ pc' = MoveTo(t, "wait")
    /\ UNCHANGED <<queue, fQuit, nNow, fOk, block, shutdown, quitter>>

QuitNotifiedTooEarly(total) == total + 1 = 0

\* The last thread to leave notifies condQuit.
QuitNotified(total) == total = 0

\* The status left for the next block: only the master resets it.
LeaveStatus(t) == t = Master \/ AllOk(t)

Leave(t) ==
    /\ InLoop(t)
    /\ queue = {}
    /\ MayLeave(t)
    /\ Account(t)
    /\ nTotal' = Total(t) - 1
    /\ nIdle' = Idle(t)
    /\ fAllOk' = LeaveStatus(t)
    /\ fRet' = IF t = Master THEN AllOk(t) ELSE fRet
    /\ quitter' = IF QuitNotified(Total(t) - 1) /\ quitter = "wait" THEN "woken" ELSE quitter
    /\ pc' = MoveTo(t, IF t = Master THEN "outside" ELSE "gone")
    /\ UNCHANGED <<queue, fQuit, nNow, fOk, added, nBlocks, shutdown>>

\* How many checks to take: smaller batches as the queue empties, at least one.
BatchSize(t) ==
    LET share == Cardinality(queue) \div (Total(t) + Idle(t) + 1)
        most  == IF share < nBatchSize THEN share ELSE nBatchSize
    IN  IF most < 1 THEN 1 ELSE most

TakeBatch(t) ==
    /\ InLoop(t)
    /\ queue # {}
    /\ \E S \in SUBSET queue :
          /\ Cardinality(S) = BatchSize(t)
          /\ queue' = queue \ S
          /\ vChecks' = [vChecks EXCEPT ![t] = S]
          /\ nNow' = [nNow EXCEPT ![t] = Cardinality(S)]
    /\ nTodo' = Todo(t)
    /\ fAllOk' = AllOk(t)
    /\ nTotal' = Total(t)
    /\ nIdle' = Idle(t)
    /\ fOk' = [fOk EXCEPT ![t] = AllOk(t)]
    /\ pc' = MoveTo(t, "work")
    /\ UNCHANGED <<fQuit, block, shutdown, quitter>>

\* The batch is executed outside the mutex; a failure skips the rest of it.
BatchOk(t) == fOk[t] /\ vChecks[t] \cap Bad = {}

Work(t) ==
    /\ pc[t] = "work"
    /\ ~fShutdown
    /\ fOk' = [fOk EXCEPT ![t] = BatchOk(t)]
    /\ pc' = [pc EXCEPT ![t] = "enter"]
    /\ UNCHANGED <<queue, counters, fQuit, vChecks, nNow, block, shutdown, quitter>>

\* "HACK: force queue to shut down": Loop returns false without accounting for the batch.
WorkThenShutDown(t) ==
    /\ pc[t] = "work"
    /\ fShutdown
    /\ vChecks' = [vChecks EXCEPT ![t] = {}]
    /\ pc' = [pc EXCEPT ![t] = IF t = Master THEN "outside" ELSE "gone"]
    /\ fRet' = IF t = Master THEN FALSE ELSE fRet
    /\ UNCHANGED <<queue, counters, fQuit, nNow, fOk, added, nBlocks, shutdown, quitter>>

SpuriousWakeup(t) ==
    /\ pc[t] = "wait"
    /\ pc' = [pc EXCEPT ![t] = "woken"]
    /\ UNCHANGED <<queue, counters, fQuit, vChecks, nNow, fOk, block, shutdown, quitter>>

-----------------------------------------------------------------------------
\* StopNode sets fShutdown ...
SetShutdown ==
    /\ ~fShutdown
    /\ fShutdown' = TRUE
    /\ cutShort' = (cutShort \/ pc[Master] # "outside")
    /\ UNCHANGED <<queue, counters, fQuit, threads, block, quitter>>

\* ... and calls Quit once it has cs_main, which ConnectBlock holds from start to end.
Quit ==
    /\ fShutdown
    /\ quitter = "no"
    /\ pc[Master] = "outside"
    /\ fQuit' = TRUE
    /\ pc' = [t \in Threads |-> IF t # Master /\ pc[t] = "wait" THEN "woken" ELSE pc[t]]
    /\ quitter' = IF nTotal > 0 THEN "wait" ELSE "done"
    /\ UNCHANGED <<queue, counters, vChecks, nNow, fOk, block, shutdown>>

QuitWakes ==
    /\ quitter = "woken"
    /\ quitter' = IF nTotal > 0 THEN "wait" ELSE "done"
    /\ UNCHANGED <<queue, counters, fQuit, threads, block, shutdown>>

ThreadStep(t) == Sleep(t) \/ Leave(t) \/ TakeBatch(t) \/ Work(t) \/ WorkThenShutDown(t)

Next ==
    \/ StartBlock \/ Wait
    \/ \E S \in SUBSET Checks : Add(S)
    \/ \E t \in Threads : ThreadStep(t) \/ SpuriousWakeup(t)
    \/ SetShutdown \/ Quit \/ QuitWakes

Spec == Init /\ [][Next]_vars

(***************************************************************************)
(* Every thread that can run eventually runs; ConnectBlock adds finitely   *)
(* many checks and then waits.  Nothing makes blocks arrive.               *)
(***************************************************************************)
FairSpec ==
    /\ Spec
    /\ \A t \in Threads : WF_vars(ThreadStep(t))
    /\ WF_vars(Wait) /\ WF_vars(Quit) /\ WF_vars(QuitWakes)

-----------------------------------------------------------------------------
Outstanding == queue \cup UNION {vChecks[t] : t \in Threads}

(***************************************************************************)
(* nTodo, which is unsigned, is exactly the number of checks that are      *)
(* queued or in some thread's batch, at every moment: no check is taken by *)
(* two threads, forgotten or counted twice.  Like the next three, this is  *)
(* promised as long as fShutdown does not cut a block short.               *)
(***************************************************************************)
TodoIsExact ==
    ~cutShort =>
        /\ nTodo = Cardinality(Outstanding)
        /\ \A t, u \in Threads : t # u => vChecks[t] \cap vChecks[u] = {}

(***************************************************************************)
(* CCheckQueueControl "guarantees the passed queue is finished before      *)
(* continuing": when ConnectBlock goes on, no check of the block is queued *)
(* or still being executed by a worker.                                    *)
(***************************************************************************)
FinishedBeforeContinuing ==
    ~cutShort /\ pc[Master] = "outside" => queue = {} /\ \A t \in Threads : vChecks[t] = {}

(***************************************************************************)
(* Wait returns true exactly when every check of the block passes; an      *)
(* earlier bad block leaves no trace in the result.                        *)
(***************************************************************************)
VerdictIsExact == ~cutShort /\ pc[Master] = "outside" => (fRet <=> added \cap Bad = {})

(***************************************************************************)
(* The assertion in the constructor of CCheckQueueControl holds whenever   *)
(* ConnectBlock can start a block: all workers that entered Loop are idle  *)
(* and the status has been reset.                                          *)
(***************************************************************************)
IdleBetweenBlocks == ~cutShort /\ pc[Master] = "outside" => IsIdle

(***************************************************************************)
(* Whenever fShutdown is set, a block whose Wait returned true is one      *)
(* whose checks all passed and were all finished: shutting down may refuse *)
(* a good block but never accepts a bad one.                               *)
(***************************************************************************)
SuccessIsSound ==
    pc[Master] = "outside" /\ fRet => added \cap Bad = {} /\ Outstanding = {}

(***************************************************************************)
(* The master always gets out of Wait: no wakeup it needs is lost.         *)
(***************************************************************************)
WaitReturns == (pc[Master] = "enter") ~> (pc[Master] = "outside" \/ cutShort)

(***************************************************************************)
(* Quit returns when the node shuts down between two blocks.               *)
(***************************************************************************)
QuitReturns == (quitter = "wait") ~> (quitter = "done" \/ cutShort)

(***************************************************************************)
(* checkqueue.h:40: "Quit method blocks on this until all workers are      *)
(* gone".  Once every worker is gone or can only wait for ever, Quit does  *)
(* not stay blocked, whenever fShutdown was set.                           *)
(***************************************************************************)
QuitBlocksUntilAllGone == (quitter = "wait") ~> (quitter = "done")

=============================================================================
