-------------------------- MODULE CheckQueueProofs --------------------------
(***************************************************************************)
(* For any number of workers, checks and blocks: Wait never returns true   *)
(* for a block with a bad check; and as long as fShutdown is not set while *)
(* a block is being checked, the counts of CCheckQueue are exact, the      *)
(* verdict is exact and ConnectBlock never continues before the last check *)
(* is done.                                                                *)
(***************************************************************************)
EXTENDS CheckQueue, FiniteSetTheorems, TLAPS

Types ==
    /\ queue \subseteq Checks
    /\ pc \in [Threads -> Positions]
    /\ vChecks \in [Threads -> SUBSET Checks]
    /\ nNow \in [Threads -> Nat]
    /\ fOk \in [Threads -> BOOLEAN]
    /\ fAllOk \in BOOLEAN /\ fRet \in BOOLEAN /\ fShutdown \in BOOLEAN

\* A check is queued or in one batch, and nTodo counts at least these.
Counted ==
    /\ nTodo \in Nat /\ Cardinality(Outstanding) <= nTodo
    /\ Outstanding \subseteq added
    /\ \A t \in Threads : vChecks[t] \cap queue = {}
    /\ \A t, u \in Threads : t # u => vChecks[t] \cap vChecks[u] = {}

\* Only a thread that executes a batch, or has just done so, holds one.
Positioned ==
    \A t \in Threads :
        /\ pc[t] = "work" => vChecks[t] # {}
        /\ pc[t] \in {"work", "enter"} => nNow[t] = Cardinality(vChecks[t])
        /\ pc[t] \notin {"work", "enter"} => vChecks[t] = {}

\* Check c is still to be executed, or was in a batch whose failure is not accounted for yet.
Pending(c) ==
    \/ c \in queue
    \/ \E t \in Threads : c \in vChecks[t] /\ (pc[t] = "work" \/ ~fOk[t])

(***************************************************************************)
(* While a block is being checked: unless a batch was dropped, a bad check *)
(* is pending or has cleared fAllOk; and a failure that is on record comes *)
(* from a bad check of this block.                                         *)
(***************************************************************************)
FailuresKept ==
    pc[Master] # "outside" =>
        /\ fAllOk /\ nTodo = Cardinality(Outstanding) => \A c \in added \cap Bad : Pending(c)
        /\ ~fAllOk \/ (\E t \in Threads : vChecks[t] # {} /\ ~fOk[t]) => added \cap Bad # {}

\* The invariant that holds whenever fShutdown is set.
BatchInv == Types /\ Counted /\ Positioned /\ FailuresKept /\ SuccessIsSound

-----------------------------------------------------------------------------
\* The master is outside only when nothing is outstanding, and fShutdown comes only then.
Finished ==
    /\ pc[Master] = "outside" => Outstanding = {} /\ fAllOk
    /\ fShutdown => pc[Master] = "outside"

\* The threads in cond.wait, and all that are counted in Loop.
Idlers  == {t \in Threads : pc[t] \in {"wait", "woken"}}
Entered == {t \in Threads : pc[t] \in {"wait", "woken", "work"} \/ (pc[t] = "enter" /\ nNow[t] # 0)}

\* The invariant that holds until fShutdown cuts a block short.
ExactInv ==
    /\ nTodo = Cardinality(Outstanding)
    /\ nIdle = Cardinality(Idlers) /\ nTotal = Cardinality(Entered)
    /\ Finished
    /\ pc[Master] = "outside" => (fRet <=> added \cap Bad = {})

ExactUntilCut == ~cutShort => ExactInv

-----------------------------------------------------------------------------
(***************************************************************************)
(* What is outstanding is a finite set of checks.                          *)
(***************************************************************************)
LEMMA OutstandingFinite ==
    ASSUME Types
    PROVE  Outstanding \subseteq Checks /\ IsFiniteSet(Outstanding)
  <1>1. Outstanding \subseteq Checks
    BY DEF Types, Outstanding
  <1> QED
    BY <1>1, QueueAssumption, FS_Subset DEF QueueAssumption

(***************************************************************************)
(* Removing a part of a finite set lowers its cardinality by that of the   *)
(* part; adding new elements raises it.                                    *)
(***************************************************************************)
LEMMA CountParts ==
    ASSUME NEW T, IsFiniteSet(T), NEW S, IsFiniteSet(S)
    PROVE  /\ S \subseteq T => Cardinality(T \ S) = Cardinality(T) - Cardinality(S)
           /\ S \cap T = {} => Cardinality(T \cup S) = Cardinality(T) + Cardinality(S)
  <1>1. S \subseteq T => Cardinality(T \ S) = Cardinality(T) - Cardinality(S)
    <2>1. Cardinality(T \ S) = Cardinality(T) - Cardinality(T \cap S)
      BY FS_Difference
    <2>2. S \subseteq T => T \cap S = S
      OBVIOUS
    <2> QED BY <2>1, <2>2
  <1>2. S \cap T = {} => Cardinality(T \cup S) = Cardinality(T) + Cardinality(S)
    <2>1. Cardinality(T \cup S) = Cardinality(T) + Cardinality(S) - Cardinality(T \cap S)
      BY FS_Union
    <2>2. Cardinality(T) \in Nat /\ Cardinality(S) \in Nat
      BY FS_CardinalityType
    <2>3. S \cap T = {} => Cardinality(T \cap S) = 0
      <3>1. S \cap T = {} => T \cap S = {}
        OBVIOUS
      <3> QED BY <3>1, FS_EmptySet
    <2> QED
      BY <2>1, <2>2, <2>3
  <1> QED BY <1>1, <1>2

(***************************************************************************)
(* A set with an element has a cardinality above zero.                     *)
(***************************************************************************)
LEMMA CountNonempty ==
    ASSUME NEW S, IsFiniteSet(S)
    PROVE  Cardinality(S) \in Nat /\ (Cardinality(S) = 0 <=> S = {})
  BY FS_CardinalityType, FS_EmptySet

(***************************************************************************)
(* When a thread in Loop accounts for its batch, the count it works with   *)
(* exceeds the checks the others still have by what it exceeded before.    *)
(***************************************************************************)
LEMMA AccountedTodo ==
    ASSUME Types, Counted, Positioned, NEW t \in Threads, InLoop(t)
    PROVE  /\ Cardinality(Outstanding \ vChecks[t]) \in Nat
           /\ Todo(t) \in Nat /\ Cardinality(Outstanding \ vChecks[t]) <= Todo(t)
           /\ Todo(t) = Cardinality(Outstanding \ vChecks[t]) <=> nTodo = Cardinality(Outstanding)
           /\ IsFiniteSet(Outstanding \ vChecks[t])
  <1>1. IsFiniteSet(Outstanding) /\ vChecks[t] \subseteq Outstanding
    BY OutstandingFinite DEF Outstanding
  <1>2. IsFiniteSet(vChecks[t]) /\ IsFiniteSet(Outstanding \ vChecks[t])
    BY <1>1, FS_Subset
  <1>3. /\ Cardinality(Outstanding \ vChecks[t]) = Cardinality(Outstanding) - Cardinality(vChecks[t])
        /\ Cardinality(Outstanding \ vChecks[t]) \in Nat
        /\ Cardinality(Outstanding) \in Nat /\ Cardinality(vChecks[t]) \in Nat
    BY <1>1, <1>2, CountParts, FS_CardinalityType
  <1>4. CASE pc[t] = "enter"
    BY <1>2, <1>3, <1>4 DEF Counted, Positioned, Todo
  <1>5. CASE pc[t] = "woken"
    <2>1. vChecks[t] = {} /\ Todo(t) = nTodo
      BY <1>5 DEF Positioned, Todo
    <2>2. Outstanding \ vChecks[t] = Outstanding
      BY <2>1
    <2> QED BY <1>2, <1>3, <2>1, <2>2 DEF Counted
  <1> QED BY <1>4, <1>5 DEF InLoop

(***************************************************************************)
(* Initially nothing is queued and no thread has a batch.                  *)
(***************************************************************************)
LEMMA BatchInvInit == Init => BatchInv /\ ExactUntilCut
  <1> SUFFICES ASSUME Init PROVE BatchInv /\ ExactUntilCut
    OBVIOUS
  <1> Master \in Threads
    BY DEF Threads
  <1>1. Outstanding = {} /\ Cardinality({}) = 0
    BY FS_EmptySet DEF Init, Outstanding
  <1>2. Types
    BY QueueAssumption DEF Init, Types, Positions
  <1>3. Counted /\ Positioned /\ FailuresKept /\ SuccessIsSound
    BY <1>1 DEF Init, Counted, Positioned, FailuresKept, SuccessIsSound
  <1>4. Idlers = {} /\ Entered = {}
    BY QueueAssumption DEF Init, Idlers, Entered, Threads
  <1>5. ExactUntilCut
    BY <1>1, <1>4 DEF Init, ExactUntilCut, ExactInv, Finished
  <1> QED
    BY <1>2, <1>3, <1>5 DEF BatchInv

-----------------------------------------------------------------------------
(***************************************************************************)
(* The common part of Sleep, Leave and TakeBatch: thread t accounts for    *)
(* its batch, takes S (empty unless it goes to work) and moves to p.       *)
(***************************************************************************)
Section(t, S, p) ==
    /\ InLoop(t)
    /\ S \subseteq queue
    /\ p \in {"wait", "outside", "gone", "work"} /\ (p = "work" <=> S # {})
    /\ p = "outside" => t = Master
    /\ queue' = queue \ S
    /\ vChecks' = [vChecks EXCEPT ![t] = S]
    /\ nNow' = [nNow EXCEPT ![t] = IF S = {} THEN @ ELSE Cardinality(S)]
    /\ fOk' = [fOk EXCEPT ![t] = IF S = {} THEN @ ELSE AllOk(t)]
    /\ nTodo' = Todo(t)
    /\ pc' = MoveTo(t, p)
    /\ UNCHANGED <<added, fShutdown>>

\* cond.wait, for the checks of others or for a block.
LEMMA SleepIsSection ==
    ASSUME Types, NEW t \in Threads, Sleep(t)
    PROVE  Section(t, {}, "wait") /\ fAllOk' = AllOk(t) /\ fRet' = fRet
  BY DEF Sleep, Section, Account, Types, block, shutdown

\* Leaving Loop, with the result for the master.
LEMMA LeaveIsSection ==
    ASSUME Types, NEW t \in Threads, Leave(t)
    PROVE  /\ Section(t, {}, IF t = Master THEN "outside" ELSE "gone")
           /\ Todo(t) = 0
           /\ t = Master => fAllOk' = TRUE /\ fRet' = AllOk(t)
           /\ t # Master => fAllOk' = AllOk(t) /\ fRet' = fRet
  <1>1. AllOk(t) \in BOOLEAN
    BY DEF AllOk, Types
  <1> QED
    BY <1>1 DEF Leave, Section, Account, Types, shutdown, MayLeave, LeaveStatus

\* A batch has at least one check.
LEMMA TakeBatchIsSection ==
    ASSUME Types, NEW t \in Threads, TakeBatch(t)
    PROVE  \E S \in SUBSET queue :
              S # {} /\ Section(t, S, "work") /\ fAllOk' = AllOk(t) /\ fRet' = fRet
  <1>1. PICK S \in SUBSET queue :
             /\ Cardinality(S) = BatchSize(t)
             /\ queue' = queue \ S
             /\ vChecks' = [vChecks EXCEPT ![t] = S]
             /\ nNow' = [nNow EXCEPT ![t] = Cardinality(S)]
    BY DEF TakeBatch
  <1>2. S # {}
    <2> SUFFICES ASSUME S = {} PROVE FALSE
      OBVIOUS
    <2>1. BatchSize(t) = 0
      BY <1>1, FS_EmptySet
    <2> QED
      BY <2>1 DEF BatchSize
  <1>3. Section(t, S, "work") /\ fAllOk' = AllOk(t) /\ fRet' = fRet
    BY <1>1, <1>2 DEF TakeBatch, Section, Types, shutdown, block
  <1> QED
    BY <1>2, <1>3

(***************************************************************************)
(* What a section does to each thread.                                     *)
(***************************************************************************)
LEMMA SectionThreads ==
    ASSUME Types, NEW t \in Threads, NEW S, NEW p, Section(t, S, p)
    PROVE  /\ pc'[t] = p /\ vChecks'[t] = S
           /\ S # {} => nNow'[t] = Cardinality(S) /\ fOk'[t] = AllOk(t)
           /\ S = {} => nNow'[t] = nNow[t] /\ fOk'[t] = fOk[t]
           /\ \A u \in Threads : u # t =>
                  /\ vChecks'[u] = vChecks[u] /\ nNow'[u] = nNow[u] /\ fOk'[u] = fOk[u]
                  /\ pc'[u] = pc[u] \/ (pc[u] = "wait" /\ pc'[u] = "woken")
  BY DEF Section, Types, MoveTo

(***************************************************************************)
(* A section takes the batch of t out of what is outstanding.              *)
(***************************************************************************)
LEMMA SectionOutstanding ==
    ASSUME Types, Counted, NEW t \in Threads, NEW S, NEW p, Section(t, S, p)
    PROVE  Outstanding' = Outstanding \ vChecks[t]
  <1>1. \A u \in Threads : vChecks'[u] = IF u = t THEN S ELSE vChecks[u]
    BY SectionThreads
  <1>2. Outstanding' = (queue \ S) \cup UNION {vChecks'[u] : u \in Threads} /\ S \subseteq queue
    BY DEF Outstanding, Section
  <1>3. ASSUME NEW x PROVE x \in Outstanding' <=> x \in Outstanding \ vChecks[t]
    BY <1>1, <1>2 DEF Counted, Outstanding
  <1> QED
    BY <1>3

(***************************************************************************)
(* A section keeps the batches apart and counted.                          *)
(***************************************************************************)
LEMMA SectionKeeps ==
    ASSUME Types, Counted, Positioned, NEW t \in Threads, NEW S, NEW p, Section(t, S, p),
           fAllOk' \in BOOLEAN, fRet' \in BOOLEAN
    PROVE  Types' /\ Counted' /\ Positioned'
  <1>1. S \in SUBSET Checks /\ Cardinality(S) \in Nat
    BY QueueAssumption, FS_Subset, FS_CardinalityType DEF Types, Section
  <1>2. AllOk(t) \in BOOLEAN
    BY DEF AllOk, Types
  <1>3. Types'
    BY <1>1, <1>2 DEF Types, Section, MoveTo, Positions
  <1>4. nTodo' \in Nat /\ Cardinality(Outstanding') <= nTodo' /\ Outstanding' \subseteq added'
    BY SectionOutstanding, AccountedTodo DEF Section, Counted
  <1>5. \A u \in Threads : vChecks'[u] \cap queue' = {}
    BY SectionThreads DEF Counted, Section
  <1>6. \A u, v \in Threads : u # v => vChecks'[u] \cap vChecks'[v] = {}
    BY SectionThreads DEF Counted, Section
  <1>7. Positioned'
    <2> SUFFICES ASSUME NEW u \in Threads
                 PROVE  /\ pc'[u] = "work" => vChecks'[u] # {}
                        /\ pc'[u] \in {"work", "enter"} => nNow'[u] = Cardinality(vChecks'[u])
                        /\ pc'[u] \notin {"work", "enter"} => vChecks'[u] = {}
      BY DEF Positioned
    <2>1. CASE u = t
      <3>1. pc'[u] = p /\ vChecks'[u] = S /\ (S # {} => nNow'[u] = Cardinality(S))
        BY <2>1, SectionThreads
      <3>2. p \in {"wait", "outside", "gone", "work"} /\ (p = "work" <=> S # {})
        BY DEF Section
      <3> QED
        BY <3>1, <3>2
    <2>2. CASE u # t
      BY <2>2, SectionThreads DEF Positioned
    <2> QED
      BY <2>1, <2>2
  <1> QED
    BY <1>3, <1>4, <1>5, <1>6, <1>7 DEF Counted

(***************************************************************************)
(* A thread in Loop knows of a failure only if there is a bad check, and   *)
(* its own batch has no bad check if its status is still good.             *)
(***************************************************************************)
LEMMA StatusInSection ==
    ASSUME Types, Counted, Positioned, NEW t \in Threads, InLoop(t)
    PROVE  /\ AllOk(t) => fAllOk /\ (vChecks[t] # {} => fOk[t])
           /\ ~AllOk(t) => ~fAllOk \/ (vChecks[t] # {} /\ ~fOk[t])
           /\ pc[t] # "work"
  <1>1. IsFiniteSet(vChecks[t])
    BY QueueAssumption, FS_Subset DEF Types
  <1>2. vChecks[t] # {} => pc[t] = "enter" /\ nNow[t] # 0
    BY <1>1, CountNonempty DEF Positioned, InLoop
  <1>3. pc[t] = "enter" /\ nNow[t] # 0 => vChecks[t] # {}
    BY <1>1, CountNonempty DEF Positioned
  <1> QED
    BY <1>2, <1>3 DEF AllOk, InLoop

(***************************************************************************)
(* A section after which fAllOk is the status of t keeps every failure.    *)
(***************************************************************************)
LEMMA SectionKeepsFailures ==
    ASSUME BatchInv, NEW t \in Threads, NEW S, NEW p, Section(t, S, p), p # "outside",
           fAllOk' = AllOk(t)
    PROVE  FailuresKept'
  <1> USE DEF BatchInv
  <1> Master \in Threads
    BY DEF Threads
  <1> SUFFICES ASSUME pc'[Master] # "outside"
               PROVE  /\ fAllOk' /\ nTodo' = Cardinality(Outstanding') =>
                             \A c \in added' \cap Bad : Pending(c)'
                      /\ ~fAllOk' \/ (\E u \in Threads : vChecks'[u] # {} /\ ~fOk'[u]) =>
                             added' \cap Bad # {}
    BY DEF FailuresKept
  <1>1. pc[Master] # "outside" /\ InLoop(t) /\ added' = added
    <2>1. InLoop(t) /\ added' = added
      BY DEF Section
    <2>2. CASE t = Master
      BY <2>1, <2>2 DEF InLoop
    <2>3. CASE t # Master
      BY <2>1, <2>3, SectionThreads
    <2> QED
      BY <2>1, <2>2, <2>3
  <1>2. ASSUME fAllOk', nTodo' = Cardinality(Outstanding'), NEW c \in added' \cap Bad
        PROVE  Pending(c)'
    <2>1. nTodo = Cardinality(Outstanding)
      BY <1>1, <1>2, SectionOutstanding, AccountedTodo DEF Section
    <2>2. fAllOk /\ (vChecks[t] # {} => fOk[t]) /\ pc[t] # "work"
      BY <1>1, <1>2, StatusInSection
    <2>3. Pending(c)
      BY <1>1, <1>2, <2>1, <2>2 DEF FailuresKept
    <2>4. CASE c \in queue
      <3>1. CASE c \in S
        <4>1. vChecks'[t] = S /\ pc'[t] = p
          BY SectionThreads
        <4>2. p = "work"
          BY <3>1 DEF Section
        <4> QED
          BY <3>1, <4>1, <4>2 DEF Pending
      <3>2. CASE c \notin S
        BY <2>4, <3>2 DEF Section, Pending
      <3> QED
        BY <3>1, <3>2
    <2>5. CASE \E u \in Threads : c \in vChecks[u] /\ (pc[u] = "work" \/ ~fOk[u])
      <3>1. PICK u \in Threads : c \in vChecks[u] /\ (pc[u] = "work" \/ ~fOk[u])
        BY <2>5
      <3>2. u # t
        BY <2>2, <3>1
      <3>3. vChecks'[u] = vChecks[u] /\ fOk'[u] = fOk[u] /\ (pc[u] = "work" => pc'[u] = "work")
        BY <3>2, SectionThreads
      <3> QED
        BY <3>1, <3>3 DEF Pending
    <2> QED
      BY <2>3, <2>4, <2>5 DEF Pending
  <1>3. ~AllOk(t) => added \cap Bad # {}
    BY <1>1, StatusInSection DEF FailuresKept
  <1>4. ASSUME NEW u \in Threads, vChecks'[u] # {}, ~fOk'[u]
        PROVE  added \cap Bad # {}
    <2>1. CASE u = t
      BY <1>3, <1>4, <2>1, SectionThreads
    <2>2. CASE u # t
      BY <1>1, <1>4, <2>2, SectionThreads DEF FailuresKept
    <2> QED
      BY <2>1, <2>2
  <1> QED
    BY <1>1, <1>2, <1>3, <1>4

(***************************************************************************)
(* When the master leaves, nothing is outstanding, nothing was dropped and *)
(* its status is exactly whether a check of the block is bad.              *)
(***************************************************************************)
LEMMA MasterLeaves ==
    ASSUME BatchInv, Leave(Master)
    PROVE  /\ Outstanding' = {} /\ added' = added
           /\ AllOk(Master) <=> added \cap Bad = {}
  <1> USE DEF BatchInv
  <1> DEFINE t == Master
  <1> t \in Threads
    BY DEF Threads
  <1>1. /\ Section(t, {}, "outside") /\ Todo(t) = 0 /\ queue = {}
        /\ InLoop(t) /\ added' = added
    BY LeaveIsSection DEF Leave, Section
  <1>2. Outstanding \ vChecks[t] = {} /\ nTodo = Cardinality(Outstanding)
    <2>1. Cardinality(Outstanding \ vChecks[t]) = 0 /\ IsFiniteSet(Outstanding \ vChecks[t])
      BY <1>1, AccountedTodo
    <2> QED
      BY <1>1, <2>1, AccountedTodo, CountNonempty
  <1>3. pc[t] # "outside"
    BY <1>1 DEF InLoop
  <1>4. ~AllOk(t) => added \cap Bad # {}
    BY <1>1, <1>3, StatusInSection DEF FailuresKept
  <1>5. ASSUME AllOk(t), NEW c \in added \cap Bad PROVE FALSE
    <2>1. fAllOk /\ (vChecks[t] # {} => fOk[t]) /\ pc[t] # "work"
      BY <1>1, <1>5, StatusInSection
    <2>2. PICK u \in Threads : c \in vChecks[u] /\ (pc[u] = "work" \/ ~fOk[u])
      BY <1>1, <1>2, <1>3, <1>5, <2>1 DEF FailuresKept, Pending
    <2>3. u # t
      BY <2>1, <2>2
    <2>4. c \notin vChecks[t] /\ c \in Outstanding
      BY <2>2, <2>3 DEF Counted, Outstanding
    <2> QED
      BY <1>2, <2>4
  <1>6. Outstanding' = {}
    BY <1>1, <1>2, SectionOutstanding
  <1> QED
    BY <1>1, <1>4, <1>5, <1>6

(***************************************************************************)
(* Every step keeps BatchInv, also those that cut a block short.           *)
(***************************************************************************)
LEMMA BatchInvNext ==
    ASSUME BatchInv, [Next]_vars
    PROVE  BatchInv'
  <1> USE DEF BatchInv
  <1> Master \in Threads
    BY DEF Threads
  <1>1. CASE StartBlock
    <2>1. Outstanding' = Outstanding /\ IsFiniteSet(Outstanding)
      BY <1>1, OutstandingFinite DEF StartBlock, Outstanding
    <2>2. Outstanding = {} /\ fAllOk
      BY <1>1, <2>1, CountNonempty DEF StartBlock, IsIdle, Counted
    <2>3. Types' /\ Counted' /\ Positioned'
      BY <1>1, <2>1, <2>2 DEF StartBlock, counters, Types, Positions, Counted, Positioned
    <2>4. \A t \in Threads : vChecks'[t] = {}
      BY <1>1, <2>2 DEF StartBlock, Outstanding
    <2>5. FailuresKept'
      BY <1>1, <2>2, <2>4 DEF StartBlock, counters, FailuresKept
    <2>6. SuccessIsSound'
      BY <1>1 DEF StartBlock, SuccessIsSound, Types
    <2> QED
      BY <2>3, <2>5, <2>6
  <1>2. CASE Wait
    <2>1. Outstanding' = Outstanding
      BY <1>2 DEF Wait, Outstanding
    <2>2. vChecks[Master] = {} /\ Cardinality({}) = 0
      BY <1>2, FS_EmptySet DEF Wait, Positioned
    <2>3. Types' /\ Counted' /\ Positioned'
      BY <1>2, <2>1, <2>2 DEF Wait, counters, block, shutdown, Types, Positions, Counted, Positioned
    <2>4. \A t \in Threads : pc[t] = "work" => pc'[t] = "work"
      BY <1>2 DEF Wait, Types
    <2>5. FailuresKept'
      BY <1>2, <2>1, <2>4 DEF Wait, counters, block, FailuresKept, Pending
    <2>6. SuccessIsSound'
      BY <1>2 DEF Wait, SuccessIsSound, Types
    <2> QED
      BY <2>3, <2>5, <2>6
  <1>3. ASSUME NEW S \in SUBSET Checks, Add(S) PROVE BatchInv'
    <2>1. Outstanding' = Outstanding \cup S /\ S \cap Outstanding = {}
      BY <1>3 DEF Add, Outstanding, Counted
    <2>2. IsFiniteSet(S) /\ IsFiniteSet(Outstanding)
      BY OutstandingFinite, QueueAssumption, FS_Subset
    <2>3. /\ nTodo' \in Nat /\ Cardinality(Outstanding') <= nTodo'
          /\ nTodo' = Cardinality(Outstanding') => nTodo = Cardinality(Outstanding)
      BY <1>3, <2>1, <2>2, CountParts, FS_CardinalityType DEF Add, Counted
    <2>4. \A t \in Threads : vChecks[t] \cap S = {}
      BY <2>1 DEF Outstanding
    <2>5. PICK woken \in NotifyWorkers({w \in Workers : pc[w] = "wait"}, Cardinality(S)) :
             pc' = [t \in Threads |-> IF t \in woken THEN "woken" ELSE pc[t]]
      BY <1>3 DEF Add
    <2>6. woken \subseteq {w \in Workers : pc[w] = "wait"}
      BY <2>5 DEF NotifyWorkers
    <2>7. Counted'
      BY <1>3, <2>1, <2>3, <2>4 DEF Add, Counted
    <2>8. Types' /\ Positioned'
      BY <1>3, <2>5, <2>6 DEF Add, shutdown, Types, Positions, Positioned
    <2>9. pc'[Master] = "adding"
      BY <1>3, <2>5, <2>6 DEF Add
    <2>10. FailuresKept'
      <3>1. \A c : Pending(c) => Pending(c)'
        BY <1>3, <2>5, <2>6 DEF Add, Pending
      <3>2. \A c \in S : Pending(c)'
        BY <1>3 DEF Add, Pending
      <3> QED
        BY <1>3, <2>3, <3>1, <3>2 DEF Add, FailuresKept
    <2> QED
      BY <2>7, <2>8, <2>9, <2>10 DEF SuccessIsSound
  <1>4. ASSUME NEW t \in Threads, NEW S, NEW p, Section(t, S, p), p # "outside",
               fAllOk' = AllOk(t), fRet' = fRet
        PROVE  BatchInv'
    <2>1. AllOk(t) \in BOOLEAN
      BY DEF AllOk, Types
    <2>2. Types' /\ Counted' /\ Positioned'
      BY <1>4, <2>1, SectionKeeps DEF Types
    <2>3. FailuresKept'
      BY <1>4, SectionKeepsFailures
    <2>4. SuccessIsSound'
      <3>1. pc'[Master] = "outside" => pc[Master] = "outside"
        BY <1>4, SectionThreads
      <3> QED
        BY <1>4, <3>1, SectionOutstanding DEF SuccessIsSound, Section
    <2> QED
      BY <2>2, <2>3, <2>4
  <1>5. ASSUME NEW t \in Threads, Sleep(t) PROVE BatchInv'
    BY <1>4, <1>5, SleepIsSection
  <1>6. ASSUME NEW t \in Threads, Leave(t) PROVE BatchInv'
    <2>1. CASE t # Master
      BY <1>4, <1>6, <2>1, LeaveIsSection
    <2>2. CASE t = Master
      <3>1. /\ Section(t, {}, "outside") /\ fAllOk' = TRUE /\ fRet' = AllOk(t)
            /\ AllOk(t) \in BOOLEAN
        BY <1>6, <2>2, LeaveIsSection DEF AllOk, Types
      <3>2. Types' /\ Counted' /\ Positioned'
        BY <3>1, SectionKeeps
      <3>3. pc'[Master] = "outside"
        BY <2>2, <3>1, SectionThreads
      <3> QED
        BY <1>6, <2>2, <3>1, <3>2, <3>3, MasterLeaves DEF FailuresKept, SuccessIsSound
    <2> QED
      BY <2>1, <2>2
  <1>7. ASSUME NEW t \in Threads, TakeBatch(t) PROVE BatchInv'
    BY <1>4, <1>7, TakeBatchIsSection
  <1>8. ASSUME NEW t \in Threads, Work(t) PROVE BatchInv'
    <2>1. Outstanding' = Outstanding
      BY <1>8 DEF Work, Outstanding
    <2>2. BatchOk(t) \in BOOLEAN
      BY DEF BatchOk, Types
    <2>3. Types' /\ Counted' /\ Positioned'
      BY <1>8, <2>1, <2>2
      DEF Work, counters, block, shutdown, Types, Positions, Counted, Positioned
    <2>4. /\ \A u \in Threads : u # t => pc'[u] = pc[u] /\ fOk'[u] = fOk[u]
          /\ pc[t] = "work" /\ pc'[t] = "enter"
          /\ fOk'[t] = (fOk[t] /\ vChecks[t] \cap Bad = {})
          /\ UNCHANGED <<queue, counters, vChecks, added, fRet>>
      BY <1>8 DEF Work, Types, BatchOk, block
    <2>5. pc'[Master] = "outside" <=> pc[Master] = "outside"
      BY <2>4
    <2>6. FailuresKept'
      <3>1. \A c \in Bad : Pending(c) => Pending(c)'
        BY <2>4 DEF Pending
      <3>2. vChecks[t] \subseteq added
        BY DEF Counted, Outstanding
      <3> QED
        BY <2>1, <2>4, <2>5, <3>1, <3>2 DEF FailuresKept, counters
    <2>7. SuccessIsSound'
      BY <2>1, <2>4, <2>5 DEF SuccessIsSound
    <2> QED
      BY <2>3, <2>6, <2>7
  <1>9. ASSUME NEW t \in Threads, WorkThenShutDown(t) PROVE BatchInv'
    <2>1. /\ vChecks' = [vChecks EXCEPT ![t] = {}] /\ vChecks[t] # {}
          /\ pc[t] = "work" /\ pc' = [pc EXCEPT ![t] = IF t = Master THEN "outside" ELSE "gone"]
          /\ fRet' = IF t = Master THEN FALSE ELSE fRet
          /\ UNCHANGED <<queue, counters, nNow, fOk, added, fShutdown>>
      BY <1>9 DEF WorkThenShutDown, Positioned, shutdown
    <2>2. Outstanding' = Outstanding \ vChecks[t]
      <3>1. \A u \in Threads : vChecks'[u] = IF u = t THEN {} ELSE vChecks[u]
        BY <2>1 DEF Types
      <3>2. ASSUME NEW x PROVE x \in Outstanding' <=> x \in Outstanding \ vChecks[t]
        BY <2>1, <3>1 DEF Counted, Outstanding
      <3> QED
        BY <3>2
    <2>3. /\ Cardinality(Outstanding') < nTodo /\ Cardinality(Outstanding') \in Nat
          /\ vChecks[t] \subseteq Outstanding
      <3>1. IsFiniteSet(Outstanding) /\ vChecks[t] \subseteq Outstanding
        BY OutstandingFinite DEF Outstanding
      <3>2. IsFiniteSet(vChecks[t]) /\ IsFiniteSet(Outstanding')
        BY <2>2, <3>1, FS_Subset
      <3>3. /\ Cardinality(Outstanding') = Cardinality(Outstanding) - Cardinality(vChecks[t])
            /\ Cardinality(vChecks[t]) \in Nat \ {0} /\ Cardinality(Outstanding) \in Nat
            /\ Cardinality(Outstanding') \in Nat
        BY <2>1, <2>2, <3>1, <3>2, CountParts, CountNonempty
      <3> QED
        BY <3>1, <3>3 DEF Counted
    <2>4. Types' /\ Counted' /\ Positioned'
      <3>1. \A u \in Threads : vChecks'[u] = IF u = t THEN {} ELSE vChecks[u]
        BY <2>1 DEF Types
      <3>2. Types'
        BY <2>1 DEF Types, Positions, counters
      <3>3. Counted'
        BY <2>1, <2>2, <2>3, <3>1 DEF Counted, counters
      <3>4. Positioned'
        BY <2>1, <3>1 DEF Positioned, Types
      <3> QED
        BY <3>2, <3>3, <3>4
    <2>5. FailuresKept'
      BY <2>1, <2>3 DEF FailuresKept, counters, Types
    <2>6. SuccessIsSound'
      <3>1. CASE t = Master
        BY <2>1, <3>1 DEF SuccessIsSound
      <3>2. CASE t # Master
        BY <2>1, <2>2, <3>2 DEF SuccessIsSound, Types
      <3> QED
        BY <3>1, <3>2
    <2> QED
      BY <2>4, <2>5, <2>6
  <1>10. CASE (\E t \in Threads : SpuriousWakeup(t)) \/ SetShutdown \/ Quit \/ QuitWakes
             \/ UNCHANGED vars
    <2>1. /\ UNCHANGED <<queue, counters, vChecks, nNow, fOk, added, fRet>>
          /\ fShutdown' \in BOOLEAN /\ pc' \in [Threads -> Positions]
          /\ \A u \in Threads : pc'[u] = pc[u] \/ (pc[u] = "wait" /\ pc'[u] = "woken")
      BY <1>10 DEF SpuriousWakeup, SetShutdown, Quit, QuitWakes, vars, counters, threads, block,
                   shutdown, Types, Positions
    <2>2. Outstanding' = Outstanding
      BY <2>1 DEF Outstanding
    <2>3. Types' /\ Counted' /\ Positioned'
      BY <2>1, <2>2 DEF Types, Counted, Positioned, counters
    <2>4. FailuresKept'
      BY <2>1, <2>2 DEF FailuresKept, Pending, counters
    <2>5. SuccessIsSound'
      BY <2>1, <2>2 DEF SuccessIsSound
    <2> QED
      BY <2>3, <2>4, <2>5
  <1> QED
    BY <1>1, <1>2, <1>3, <1>5, <1>6, <1>7, <1>8, <1>9, <1>10 DEF Next, ThreadStep

-----------------------------------------------------------------------------
(***************************************************************************)
(* The threads are finitely many.                                          *)
(***************************************************************************)
LEMMA ThreadsFinite == IsFiniteSet(Threads) /\ IsFiniteSet(Idlers) /\ IsFiniteSet(Entered)
  <1>1. IsFiniteSet(Threads)
    BY QueueAssumption, FS_AddElement DEF Threads
  <1> QED
    BY <1>1, FS_Subset DEF Idlers, Entered

(***************************************************************************)
(* The counts that a section of Loop works with: t is counted as entered   *)
(* and no longer as idle.                                                  *)
(***************************************************************************)
LEMMA ThreadsAccounted ==
    ASSUME ExactInv, NEW t \in Threads, InLoop(t)
    PROVE  /\ Total(t) = Cardinality(Entered \cup {t})
           /\ Idle(t) = Cardinality(Idlers \ {t})
           /\ Total(t) - 1 = Cardinality(Entered \ {t})
           /\ Idle(t) + 1 = Cardinality(Idlers \cup {t})
  <1>1. /\ IsFiniteSet(Entered) /\ IsFiniteSet(Idlers)
        /\ nTotal = Cardinality(Entered) /\ nTotal \in Nat
        /\ nIdle = Cardinality(Idlers) /\ nIdle \in Nat
    BY ThreadsFinite, FS_CardinalityType DEF ExactInv
  <1>2. CASE pc[t] = "woken"
    <2>1. t \in Entered /\ t \in Idlers
      BY <1>2 DEF Entered, Idlers
    <2>2. Entered \cup {t} = Entered /\ Idlers \cup {t} = Idlers
      BY <2>1
    <2>3. Cardinality(Entered \ {t}) = Cardinality(Entered) - 1
      BY <1>1, <2>1, FS_RemoveElement
    <2>4. Cardinality(Idlers \ {t}) = Cardinality(Idlers) - 1
      BY <1>1, <2>1, FS_RemoveElement
    <2> QED
      BY <1>1, <1>2, <2>2, <2>3, <2>4 DEF Total, Idle
  <1>3. CASE pc[t] = "enter"
    <2>1. t \notin Idlers
      BY <1>3 DEF Idlers
    <2>2. Idlers \ {t} = Idlers
      BY <2>1
    <2>3. Cardinality(Idlers \cup {t}) = Cardinality(Idlers) + 1
      BY <1>1, <2>1, FS_AddElement
    <2>4. CASE nNow[t] = 0
      <3>1. t \notin Entered
        BY <1>3, <2>4 DEF Entered
      <3>2. Entered \ {t} = Entered
        BY <3>1
      <3>3. Cardinality(Entered \cup {t}) = Cardinality(Entered) + 1
        BY <1>1, <3>1, FS_AddElement
      <3>4. Total(t) = nTotal + 1 /\ Idle(t) = nIdle
        BY <1>3, <2>4 DEF Total, Idle
      <3> QED
        BY <1>1, <2>2, <2>3, <3>2, <3>3, <3>4
    <2>5. CASE nNow[t] # 0
      <3>1. t \in Entered
        BY <1>3, <2>5 DEF Entered
      <3>2. Entered \cup {t} = Entered
        BY <3>1
      <3>3. Cardinality(Entered \ {t}) = Cardinality(Entered) - 1
        BY <1>1, <3>1, FS_RemoveElement
      <3> QED
        BY <1>1, <1>3, <2>2, <2>3, <2>5, <3>2, <3>3 DEF Total, Idle
    <2> QED
      BY <2>4, <2>5
  <1> QED
    BY <1>2, <1>3 DEF InLoop

(***************************************************************************)
(* The threads that are entered and idle after a section.                  *)
(***************************************************************************)
LEMMA SectionCounts ==
    ASSUME BatchInv, NEW t \in Threads, NEW S, NEW p, Section(t, S, p)
    PROVE  /\ p = "wait" => Idlers' = Idlers \cup {t} /\ Entered' = Entered \cup {t}
           /\ p = "work" => Idlers' = Idlers \ {t} /\ Entered' = Entered \cup {t}
           /\ p \in {"outside", "gone"} => Idlers' = Idlers \ {t} /\ Entered' = Entered \ {t}
  <1>1. \A u \in Threads : u # t =>
           (u \in Idlers' <=> u \in Idlers) /\ (u \in Entered' <=> u \in Entered)
    BY SectionThreads DEF BatchInv, Idlers, Entered
  <1>2. /\ t \in Idlers' <=> p = "wait"
        /\ t \in Entered' <=> p \in {"wait", "work"}
    <2>1. pc'[t] = p
      BY SectionThreads DEF BatchInv
    <2>2. p \in {"wait", "outside", "gone", "work"}
      BY DEF Section
    <2> QED
      BY <2>1, <2>2 DEF Idlers, Entered
  <1>3. Idlers \subseteq Threads /\ Idlers' \subseteq Threads
        /\ Entered \subseteq Threads /\ Entered' \subseteq Threads
    BY DEF Idlers, Entered
  <1> QED
    BY <1>1, <1>2, <1>3

(***************************************************************************)
(* Every step that does not cut a block short keeps the exact counts, the  *)
(* exact verdict and the clean state between two blocks.                   *)
(***************************************************************************)
LEMMA ExactInvNext ==
    ASSUME ~cutShort', BatchInv, ExactInv, [Next]_vars
    PROVE  ExactInv'
  <1> USE DEF BatchInv
  <1> Master \in Threads
    BY DEF Threads
  <1>1. CASE StartBlock
    <2>1. /\ UNCHANGED <<queue, counters, vChecks, nNow, fOk, fRet, fShutdown>>
          /\ pc[Master] = "outside" /\ pc'[Master] = "adding" /\ ~fShutdown
          /\ \A u \in Threads : u # Master => pc'[u] = pc[u]
      BY <1>1 DEF StartBlock, Types
    <2>2. Outstanding' = Outstanding /\ Idlers' = Idlers /\ Entered' = Entered
      BY <2>1 DEF Outstanding, Idlers, Entered
    <2> QED
      BY <2>1, <2>2 DEF ExactInv, Finished, counters
  <1>2. CASE Wait
    <2>1. /\ UNCHANGED <<queue, counters, vChecks, added, fRet, fShutdown>>
          /\ pc[Master] = "adding" /\ pc'[Master] = "enter" /\ nNow'[Master] = 0
          /\ \A u \in Threads : u # Master => pc'[u] = pc[u] /\ nNow'[u] = nNow[u]
      BY <1>2 DEF Wait, Types, block, shutdown
    <2>2. Outstanding' = Outstanding /\ Idlers' = Idlers /\ Entered' = Entered
      BY <2>1 DEF Outstanding, Idlers, Entered
    <2> QED
      BY <2>1, <2>2 DEF ExactInv, Finished, counters
  <1>3. ASSUME NEW S \in SUBSET Checks, Add(S) PROVE ExactInv'
    <2>1. Outstanding' = Outstanding \cup S /\ S \cap Outstanding = {}
      BY <1>3 DEF Add, Outstanding, Counted
    <2>2. IsFiniteSet(S) /\ IsFiniteSet(Outstanding)
      BY OutstandingFinite, QueueAssumption, FS_Subset
    <2>3. nTodo' = Cardinality(Outstanding')
      BY <1>3, <2>1, <2>2, CountParts DEF Add, ExactInv
    <2>4. PICK woken \in NotifyWorkers({w \in Workers : pc[w] = "wait"}, Cardinality(S)) :
             pc' = [t \in Threads |-> IF t \in woken THEN "woken" ELSE pc[t]]
      BY <1>3 DEF Add
    <2>5. woken \subseteq {w \in Workers : pc[w] = "wait"}
      BY <2>4 DEF NotifyWorkers
    <2>6. /\ \A u \in Threads : pc'[u] = pc[u] \/ (pc[u] = "wait" /\ pc'[u] = "woken")
          /\ pc'[Master] = "adding" /\ ~fShutdown
          /\ UNCHANGED <<nIdle, nTotal, nNow, fShutdown>>
      BY <1>3, <2>4, <2>5 DEF Add, ExactInv, Finished, shutdown
    <2>7. Idlers' = Idlers /\ Entered' = Entered
      BY <2>6 DEF Idlers, Entered
    <2> QED
      BY <2>3, <2>6, <2>7 DEF ExactInv, Finished
  <1>4. ASSUME NEW t \in Threads, NEW S, NEW p, Section(t, S, p)
        PROVE  nTodo' = Cardinality(Outstanding')
    <2>1. InLoop(t) /\ nTodo' = Todo(t)
      BY <1>4 DEF Section
    <2> QED
      BY <1>4, <2>1, SectionOutstanding, AccountedTodo DEF ExactInv
  <1>5. ASSUME NEW t \in Threads, NEW S, NEW p, Section(t, S, p), p # "outside",
               fAllOk' = AllOk(t), fRet' = fRet, t = Master => ~fShutdown
        PROVE  Finished' /\ (pc'[Master] = "outside" => (fRet' <=> added' \cap Bad = {}))
    <2>1. UNCHANGED <<added, fShutdown>> /\ InLoop(t)
      BY <1>5 DEF Section
    <2>2. pc'[Master] = "outside" <=> pc[Master] = "outside"
      <3>1. CASE t = Master
        BY <1>5, <2>1, <3>1, SectionThreads DEF InLoop
      <3>2. CASE t # Master
        BY <1>5, <3>2, SectionThreads
      <3> QED
        BY <3>1, <3>2
    <2>3. ASSUME pc[Master] = "outside" PROVE Outstanding' = {} /\ fAllOk'
      <3>1. Outstanding = {} /\ fAllOk
        BY <2>3 DEF ExactInv, Finished
      <3>2. vChecks[t] = {}
        BY <3>1 DEF Outstanding
      <3> QED
        BY <1>5, <2>1, <3>1, <3>2, SectionOutstanding, StatusInSection
    <2> QED
      BY <1>5, <2>1, <2>2, <2>3 DEF ExactInv, Finished
  <1>6. ASSUME NEW t \in Threads, Sleep(t) PROVE ExactInv'
    <2>1. /\ Section(t, {}, "wait") /\ fAllOk' = AllOk(t) /\ fRet' = fRet
          /\ nIdle' = Idle(t) + 1 /\ nTotal' = Total(t) /\ InLoop(t)
      BY <1>6, SleepIsSection DEF Sleep
    <2>2. t = Master => ~fShutdown
      BY <2>1 DEF ExactInv, Finished, InLoop
    <2> QED
      BY <1>4, <1>5, <2>1, <2>2, SectionCounts, ThreadsAccounted DEF ExactInv
  <1>7. ASSUME NEW t \in Threads, Leave(t) PROVE ExactInv'
    <2>1. nIdle' = Idle(t) /\ nTotal' = Total(t) - 1 /\ InLoop(t)
      BY <1>7 DEF Leave
    <2>2. CASE t # Master
      <3>1. Section(t, {}, "gone") /\ fAllOk' = AllOk(t) /\ fRet' = fRet
        BY <1>7, <2>2, LeaveIsSection
      <3> QED
        BY <1>4, <1>5, <2>1, <2>2, <3>1, SectionCounts, ThreadsAccounted DEF ExactInv
    <2>3. CASE t = Master
      <3>1. Section(t, {}, "outside") /\ fAllOk' = TRUE /\ fRet' = AllOk(t)
        BY <1>7, <2>3, LeaveIsSection
      <3>2. pc'[Master] = "outside"
        BY <2>3, <3>1, SectionThreads
      <3>3. Outstanding' = {} /\ (fRet' <=> added' \cap Bad = {})
        BY <1>7, <2>3, <3>1, MasterLeaves
      <3>4. Finished'
        BY <3>1, <3>2, <3>3 DEF Finished
      <3>5. nIdle' = Cardinality(Idlers') /\ nTotal' = Cardinality(Entered')
        BY <2>1, <3>1, SectionCounts, ThreadsAccounted
      <3> QED
        BY <1>4, <3>1, <3>3, <3>4, <3>5 DEF ExactInv
    <2> QED
      BY <2>2, <2>3
  <1>8. ASSUME NEW t \in Threads, TakeBatch(t) PROVE ExactInv'
    <2>1. PICK S \in SUBSET queue :
             S # {} /\ Section(t, S, "work") /\ fAllOk' = AllOk(t) /\ fRet' = fRet
      BY <1>8, TakeBatchIsSection
    <2>2. nIdle' = Idle(t) /\ nTotal' = Total(t) /\ InLoop(t)
      BY <1>8 DEF TakeBatch
    <2>3. t = Master => ~fShutdown
      BY <2>2 DEF ExactInv, Finished, InLoop
    <2> QED
      BY <1>4, <1>5, <2>1, <2>2, <2>3, SectionCounts, ThreadsAccounted DEF ExactInv
  <1>9. ASSUME NEW t \in Threads, Work(t) PROVE ExactInv'
    <2>1. /\ UNCHANGED <<queue, counters, vChecks, nNow, added, fRet, fShutdown>>
          /\ pc[t] = "work" /\ pc'[t] = "enter" /\ \A u \in Threads : u # t => pc'[u] = pc[u]
      BY <1>9 DEF Work, Types, block, shutdown
    <2>2. nNow[t] # 0
      <3>1. vChecks[t] # {} /\ nNow[t] = Cardinality(vChecks[t])
        BY <2>1 DEF Positioned
      <3>2. IsFiniteSet(vChecks[t])
        BY QueueAssumption, FS_Subset DEF Types
      <3> QED
        BY <3>1, <3>2, CountNonempty
    <2>3. Outstanding' = Outstanding /\ Idlers' = Idlers /\ Entered' = Entered
      BY <2>1, <2>2 DEF Outstanding, Idlers, Entered
    <2> QED
      BY <2>1, <2>3 DEF ExactInv, Finished, counters
  <1>10. ASSUME NEW t \in Threads, WorkThenShutDown(t) PROVE ExactInv'
    <2>1. Outstanding = {} /\ vChecks[t] # {}
      BY <1>10 DEF WorkThenShutDown, ExactInv, Finished, Positioned
    <2> QED
      BY <2>1 DEF Outstanding
  <1>11. CASE (\E t \in Threads : SpuriousWakeup(t)) \/ Quit \/ QuitWakes \/ UNCHANGED vars
    <2>1. /\ UNCHANGED <<queue, counters, vChecks, nNow, added, fRet, fShutdown>>
          /\ \A u \in Threads : pc'[u] = pc[u] \/ (pc[u] = "wait" /\ pc'[u] = "woken")
      BY <1>11 DEF SpuriousWakeup, Quit, QuitWakes, vars, counters, threads, block, shutdown, Types
    <2>2. Outstanding' = Outstanding /\ Idlers' = Idlers /\ Entered' = Entered
      BY <2>1 DEF Outstanding, Idlers, Entered
    <2> QED
      BY <2>1, <2>2 DEF ExactInv, Finished, counters
  <1>12. CASE SetShutdown
    <2>1. /\ UNCHANGED <<queue, counters, vChecks, nNow, pc, added, fRet>>
          /\ pc[Master] = "outside"
      BY <1>12 DEF SetShutdown, threads, block
    <2>2. Outstanding' = Outstanding /\ Idlers' = Idlers /\ Entered' = Entered
      BY <2>1 DEF Outstanding, Idlers, Entered
    <2> QED
      BY <2>1, <2>2 DEF ExactInv, Finished, counters
  <1> QED
    BY <1>1, <1>2, <1>3, <1>6, <1>7, <1>8, <1>9, <1>10, <1>11, <1>12 DEF Next, ThreadStep

(***************************************************************************)
(* Both invariants hold in every reachable state; once fShutdown has cut a *)
(* block short this is never undone.                                       *)
(***************************************************************************)
LEMMA QueueInvHolds == Spec => [](BatchInv /\ ExactUntilCut)
  <1>1. ASSUME BatchInv, ExactUntilCut, [Next]_vars PROVE ExactUntilCut'
    <2>1. cutShort => cutShort'
      BY <1>1 DEF Next, ThreadStep, StartBlock, Wait, Add, Sleep, Leave, TakeBatch, Work,
         WorkThenShutDown, SpuriousWakeup, SetShutdown, Quit, QuitWakes, shutdown, vars
    <2> QED
      BY <1>1, <2>1, ExactInvNext DEF ExactUntilCut
  <1> QED
    BY <1>1, BatchInvInit, BatchInvNext, PTL DEF Spec

(***************************************************************************)
(* nTodo (checkqueue.h) is the exact number of outstanding checks, so it   *)
(* never wraps below zero and no check is lost or done twice.              *)
(***************************************************************************)
THEOREM TodoAlwaysExact == Spec => []TodoIsExact
  <1>1. BatchInv /\ ExactUntilCut => TodoIsExact
    BY DEF BatchInv, Counted, ExactUntilCut, ExactInv, TodoIsExact
  <1> QED
    BY <1>1, QueueInvHolds, PTL

(***************************************************************************)
(* ConnectBlock never continues past Wait while a check of the block is    *)
(* queued or being executed (CCheckQueueControl).                          *)
(***************************************************************************)
THEOREM AlwaysFinished == Spec => []FinishedBeforeContinuing
  <1>1. ExactUntilCut => FinishedBeforeContinuing
    BY DEF ExactUntilCut, ExactInv, Finished, Outstanding, FinishedBeforeContinuing
  <1> QED
    BY <1>1, QueueInvHolds, PTL

(***************************************************************************)
(* Wait returns true for a block exactly when all its checks pass, however *)
(* the batches were shared and whatever the blocks before it left behind.  *)
(***************************************************************************)
THEOREM VerdictAlwaysExact == Spec => []VerdictIsExact
  <1>1. ExactUntilCut => VerdictIsExact
    BY DEF ExactUntilCut, ExactInv, VerdictIsExact
  <1> QED
    BY <1>1, QueueInvHolds, PTL

(***************************************************************************)
(* Whenever fShutdown comes, Wait never returns true for a block with a    *)
(* bad check or with a check still to do.                                  *)
(***************************************************************************)
THEOREM SuccessAlwaysSound == Spec => []SuccessIsSound
  <1>1. BatchInv => SuccessIsSound
    BY DEF BatchInv
  <1> QED
    BY <1>1, QueueInvHolds, PTL

(***************************************************************************)
(* The assertion of CCheckQueueControl, IsIdle, holds between two blocks.  *)
(***************************************************************************)
THEOREM AlwaysIdleBetweenBlocks == Spec => []IdleBetweenBlocks
  <1>1. ASSUME BatchInv, ExactUntilCut PROVE IdleBetweenBlocks
    <2> SUFFICES ASSUME ExactInv, pc[Master] = "outside" PROVE IsIdle
      BY <1>1 DEF ExactUntilCut, IdleBetweenBlocks
    <2>1. Outstanding = {} /\ fAllOk
      BY DEF ExactInv, Finished
    <2>2. nTodo = 0
      BY <2>1, FS_EmptySet DEF ExactInv
    <2>3. ASSUME NEW t \in Threads, t \in Entered PROVE t \in Idlers
      <3>1. vChecks[t] = {}
        BY <2>1 DEF Outstanding
      <3>2. pc[t] # "work" /\ (pc[t] = "enter" => nNow[t] = 0)
        BY <1>1, <3>1, FS_EmptySet DEF BatchInv, Positioned
      <3> QED
        BY <2>3, <3>2 DEF Entered, Idlers
    <2>4. Entered = Idlers
      BY <2>3 DEF Entered, Idlers
    <2> QED
      BY <2>1, <2>2, <2>4 DEF IsIdle, ExactInv
  <1> QED
    BY <1>1, QueueInvHolds, PTL

=============================================================================
